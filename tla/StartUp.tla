------------------------------ MODULE StartUp ------------------------------
(***************************************************************************)
(* From main() to the prompt: the cypher user account is fetched or        *)
(* created (src/src/main.rs, get_or_init_cypher_user), then, one market of *)
(* the configuration after the other, the market and the open orders       *)
(* account (start_services, get_or_init_open_orders).  The program calls   *)
(* the RPC node one call at a time; any call may fail, a transaction whose *)
(* answer is lost may land later, and the program may be killed and        *)
(* started again at any point, while what it created on the chain stays.   *)
(***************************************************************************)
EXTENDS Naturals

CONSTANTS
  NumMarkets,    \* the markets of the group configuration are 1..NumMarkets
  LaggingNode,   \* the node may answer from a state before the last transaction
  MaxRestarts    \* bound: how often the program is started again

ASSUME StartUpAssumption ==
  /\ NumMarkets \in Nat
  /\ LaggingNode \in BOOLEAN
  /\ MaxRestarts \in Nat

User == 0
Market == 1..NumMarkets
Account == {User} \cup Market   \* m stands for the open orders account of m

VARIABLES
  deployed,   \* the markets whose market account exists on the chain
  chain,      \* the user and open orders accounts that exist on the chain
  late,       \* the creations whose answer was lost and that may still land
  at,         \* whose account is being ensured: the user, then each market
  step,       \* the next call of the program, or how the start ended
  watched,    \* open_orders_pks: what the open orders provider will follow
  prepared,   \* the markets with a handler, a book context and polled accounts
  troubled,   \* history: where a call of this run failed, misinformed, or was overtaken
  restarts

vars == <<deployed, chain, late, at, step, watched, prepared, troubled, restarts>>

Calls == {"market", "fetch", "hash", "send", "refetch"}
Ended == {"running", "refused", "panicked"}

TypeOK ==
  /\ deployed \subseteq Market /\ {chain, late} \subseteq SUBSET Account
  /\ at \in Account /\ step \in Calls \cup Ended
  /\ watched \subseteq Market /\ prepared \subseteq Market
  /\ troubled \subseteq Account /\ restarts \in 0..MaxRestarts

\* Each open orders account was created for an existing user.
Init ==
  /\ deployed \in SUBSET Market
  /\ chain \in SUBSET Account /\ (chain # {} => User \in chain)
  /\ late = {} /\ at = User /\ step = "fetch"
  /\ watched = {} /\ prepared = {} /\ troubled = {} /\ restarts = 0

\* Wrong on purpose: one market too many.
MoveOnTooFar ==
  IF at <= NumMarkets THEN at' = at + 1 /\ step' = "market"
                      ELSE step' = "running" /\ UNCHANGED at

\* The program goes on with the next market, or to the prompt.
MoveOn ==
  IF at < NumMarkets THEN at' = at + 1 /\ step' = "market"
                     ELSE step' = "running" /\ UNCHANGED at

Trouble == troubled' = troubled \cup {at}

StopWith(outcome) == step' = outcome /\ UNCHANGED at

\* get_serum_market.  The open orders key is watched before its account exists.
GetMarket ==
  /\ step = "market" /\ at \in deployed
  /\ step' = "fetch" /\ watched' = watched \cup {at}
  /\ UNCHANGED <<deployed, chain, late, at, prepared, troubled, restarts>>

\* Wrong on purpose: break in place of continue.
GetMarketErrBreak ==
  /\ step = "market" /\ Trouble
  /\ StopWith("running")
  /\ UNCHANGED <<deployed, chain, late, watched, prepared, restarts>>

GetMarketErr ==
  /\ step = "market" /\ Trouble
  /\ MoveOn
  /\ UNCHANGED <<deployed, chain, late, watched, prepared, restarts>>

\* value.unwrap() of an account that does not exist.
GetMarketMissing ==
  /\ step = "market" /\ at \notin deployed /\ Trouble
  /\ StopWith("panicked")
  /\ UNCHANGED <<deployed, chain, late, watched, prepared, restarts>>

\* fetch_cypher_user, fetch_open_orders: the account is there, or created and
\* there now.  A market then gets its handler and contexts.
Fetch ==
  /\ step \in {"fetch", "refetch"} /\ at \in chain
  /\ prepared' = prepared \cup ({at} \ {User})
  /\ MoveOn
  /\ UNCHANGED <<deployed, chain, late, watched, troubled, restarts>>

\* Wrong on purpose: the answer does not matter.
FetchIgnored ==
  /\ step = "fetch"
  /\ step' = "hash"
  /\ UNCHANGED <<deployed, chain, late, at, watched, prepared, troubled, restarts>>

\* Every other answer to the first fetch leads to a creation.
FetchMissing ==
  /\ step = "fetch" /\ at \notin chain
  /\ step' = "hash"
  /\ UNCHANGED <<deployed, chain, late, at, watched, prepared, troubled, restarts>>

FetchStale ==
  /\ LaggingNode
  /\ step = "fetch" /\ at \in chain /\ Trouble
  /\ step' = "hash"
  /\ UNCHANGED <<deployed, chain, late, at, watched, prepared, restarts>>

FetchErr ==
  /\ step = "fetch" /\ Trouble
  /\ step' = "hash"
  /\ UNCHANGED <<deployed, chain, late, at, watched, prepared, restarts>>

\* get_latest_blockhash in init_cypher_user and init_open_orders.
Hash ==
  /\ step = "hash"
  /\ step' = "send"
  /\ UNCHANGED <<deployed, chain, late, at, watched, prepared, troubled, restarts>>

\* An error is returned to main for the user, unwrapped for open orders.
HashErr ==
  /\ step = "hash" /\ Trouble
  /\ StopWith(IF at = User THEN "refused" ELSE "panicked")
  /\ UNCHANGED <<deployed, chain, late, watched, prepared, restarts>>

\* send_and_confirm_transaction_with_spinner returns a signature.
Send ==
  /\ step = "send" /\ at \notin chain
  /\ chain' = chain \cup {at}
  /\ step' = "refetch"
  /\ UNCHANGED <<deployed, late, at, watched, prepared, troubled, restarts>>

\* Wrong on purpose: the market is prepared all the same.
SendErrPrepares ==
  /\ step = "send" /\ Trouble
  /\ late' \in {late, late \cup ({at} \ chain)}
  /\ IF at = User THEN StopWith("refused") ELSE MoveOn
  /\ prepared' = prepared \cup ({at} \ {User})
  /\ UNCHANGED <<deployed, chain, watched, restarts>>

\* Wrong on purpose: the transaction is sent until it succeeds.
SendErrRetries ==
  /\ step = "send" /\ Trouble
  /\ late' \in {late, late \cup ({at} \ chain)}
  /\ UNCHANGED <<deployed, chain, at, step, watched, prepared, restarts>>

\* It returns an error; the transaction may land all the same, at any time from
\* now on.  main gives up without a user, start_services ignores the market.
SendErr ==
  /\ step = "send" /\ Trouble
  /\ late' \in {late, late \cup ({at} \ chain)}
  /\ IF at = User THEN StopWith("refused") ELSE MoveOn
  /\ UNCHANGED <<deployed, chain, watched, prepared, restarts>>

\* unwrap() of the fetch after a successful creation.
RefetchErr ==
  /\ step = "refetch" /\ Trouble
  /\ StopWith("panicked")
  /\ UNCHANGED <<deployed, chain, late, watched, prepared, restarts>>

Call ==
  \/ GetMarket \/ GetMarketErr \/ GetMarketMissing
  \/ Fetch \/ FetchMissing \/ FetchStale \/ FetchErr
  \/ Hash \/ HashErr \/ Send \/ SendErr \/ RefetchErr

\* A creation lands after its answer was lost, perhaps behind the back of a
\* program that has just found its account missing.
LandLate(a) ==
  /\ a \in late /\ late' = late \ {a}
  /\ chain' = chain \cup {a}
  /\ troubled' = IF a = at /\ step \in {"hash", "send"} THEN troubled \cup {a} ELSE troubled
  /\ UNCHANGED <<deployed, at, step, watched, prepared, restarts>>

\* Its blockhash is too old: it will never land.
Expire(a) ==
  /\ a \in late /\ late' = late \ {a}
  /\ UNCHANGED <<deployed, chain, at, step, watched, prepared, troubled, restarts>>

\* The program ends or is killed, and is started again.
Restart ==
  /\ restarts < MaxRestarts /\ restarts' = restarts + 1
  /\ at' = User /\ step' = "fetch"
  /\ watched' = {} /\ prepared' = {} /\ troubled' = {}
  /\ UNCHANGED <<deployed, chain, late>>

Next == Call \/ Restart \/ \E a \in Account : LandLate(a) \/ Expire(a)

Spec == Init /\ [][Next]_vars

\* Each call of the RPC client returns, if only with a timeout.
FairSpec == Spec /\ WF_vars(Call)
---------------------------------------------------------------------------
\* Whatever failed, whatever was lost and however often the program was killed:
\* what the tasks are started for exists on the chain, the user before all.
PreparedExist ==
  /\ prepared \subseteq chain \cap watched
  /\ at # User => User \in chain

\* The start leaves a market out, gives up or panics only where a call of this
\* very run failed: earlier runs, and the remains of what they created, never
\* stand in the way, and one market's errors do not touch another.
OutcomeHasCause ==
  /\ step = "running" => Market \subseteq prepared \cup troubled
  /\ step \in {"refused", "panicked"} => at \in troubled

\* A creation is sent for an existing account only if the node misinformed the
\* program about it before, or a lost creation of its own overtook it.
RecreatesOnlyIfMisled ==
  step \in {"hash", "send"} => at \notin chain \/ at \in troubled

\* Every start comes to an end, and one in which no call fails ends at the
\* prompt with every market prepared, whatever an earlier run left behind.
HealthyNodeSuffices ==
  <>[](/\ step \in Ended
       /\ troubled = {} => step = "running" /\ prepared = Market)

\* "Ignoring market.": an error while the open orders account of a market is
\* created costs that market only.
IgnoresFailedMarket == step = "panicked" => at \notin deployed
===========================================================================
