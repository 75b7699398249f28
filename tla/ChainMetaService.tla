-------------------------- MODULE ChainMetaService --------------------------
(***************************************************************************)
(* The task that keeps the latest blockhash for orders                     *)
(* (src/src/services/chain_meta_service.rs).  A poll asks for the hash and *)
(* then for the slot, which nobody reads; an error of either ends the poll *)
(* but not the task.                                                       *)
(***************************************************************************)
EXTENDS Naturals

CONSTANT MaxVersion  \* bound: how many hashes are told apart

VARIABLES
  recentHash,  \* number of the hash, 0: Hash::default()
  polling      \* the next await: "hash", "slot", "sleep", or "stopped"

metaVars == <<recentHash, polling>>

MetaInit == recentHash = 0 /\ polling = "hash"

\* A poll is 2.5 s after the last one, a hash lasts for one slot of 0.4 s.
PollHash ==
  /\ polling = "hash" /\ polling' = "slot"
  /\ recentHash' \in IF recentHash < MaxVersion THEN (recentHash + 1)..MaxVersion ELSE {MaxVersion}

\* Wrong on purpose: the error is unwrapped, and nobody looks at the task.
PollHashErrEnds ==
  /\ polling = "hash" /\ polling' = "stopped"
  /\ UNCHANGED recentHash

PollHashErr ==
  /\ polling = "hash" /\ polling' = "sleep"
  /\ UNCHANGED recentHash

\* get_slot(): whatever it returns, the poll is over.
PollSlot ==
  /\ polling = "slot" /\ polling' = "sleep"
  /\ UNCHANGED recentHash

PollAgain ==
  /\ polling = "sleep" /\ polling' = "hash"
  /\ UNCHANGED recentHash

MetaTurn == PollHash \/ PollHashErr \/ PollSlot \/ PollAgain
=============================================================================
