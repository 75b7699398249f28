----------------------------- MODULE MCContext -----------------------------
(* The user and the group: two accounts, two providers, the cypher context. *)
EXTENDS DataPipeline, TLC
CONSTANTS group, user

MCNoKeys == <<>>
MCKeys == <<group, user>>
MCProviders == {"user", "group"}
\* The user account does not exist yet in the first state.
MCAbsent == (1 :> {user}) @@ (2 :> {})
============================================================================
