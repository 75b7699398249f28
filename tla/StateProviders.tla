-------------------------- MODULE StateProviders --------------------------
(***************************************************************************)
(* cypher_account_provider.rs, cypher_group_provider.rs and                *)
(* open_orders_provider.rs: on a key of their own they read the cache,     *)
(* parse the account and broadcast the parsed copy.                        *)
(*                                                                         *)
(* Every task that keeps a copy keeps that of one account, so the          *)
(* Receivers of these channels are named after the account their task      *)
(* keeps: the two of the cypher context after UserKey and GroupKey, the    *)
(* one of the handler of market m after OpenOrdersKey[m].                  *)
(***************************************************************************)
EXTENDS ProviderTasks

CONSTANT StateCap  \* messages a channel of parsed accounts retains (65536)

ASSUME StateCapAssumption == StateCap \in Nat \ {0}

StateProvider == Providers \ {"orderbook"}

\* The accounts of which some task keeps a parsed copy.
StateKeys == UNION {Watched[p] : p \in StateProvider}

VARIABLE stateRx   \* stateRx[k]: the Receiver of the task that keeps k

StateRxTypeOK == stateRx \in [StateKeys -> RxOf(AccountState)]

StateRxInit == stateRx = [k \in StateKeys |-> EmptyRx]

\* Wrong on purpose: nothing is sent to a channel whose buffer is full.
ForwardIfRoom(p) ==
  /\ p \in StateProvider /\ provRunning[p] /\ held[p] # None
  /\ stateRx' = [k \in StateKeys |->
                   IF k \in Watched[p] /\ Len(stateRx[k].q) < StateCap
                   THEN Push(stateRx[k], cache[held[p]], StateCap)
                   ELSE stateRx[k]]
  /\ held' = [held EXCEPT ![p] = None]
  /\ UNCHANGED <<cacheVars, provRunning>>

\* process_updates on the held key: cache.get(&key).unwrap(), parse, send.  One
\* step: the Ref that get() returns is alive until the block ends, so the
\* account cannot be overwritten between the read and the send.
Forward(p) ==
  /\ p \in StateProvider /\ provRunning[p] /\ held[p] # None
  /\ stateRx' = [k \in StateKeys |->
                   IF k \in Watched[p] THEN Push(stateRx[k], cache[held[p]], StateCap)
                                       ELSE stateRx[k]]
  /\ held' = [held EXCEPT ![p] = None]
  /\ UNCHANGED <<cacheVars, provRunning>>
===========================================================================
