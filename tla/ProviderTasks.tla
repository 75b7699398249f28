--------------------------- MODULE ProviderTasks ---------------------------
(***************************************************************************)
(* The loop that the four provider tasks of src/src/providers/ share: wait *)
(* for a written key or for the signal, leave keys of other tasks alone,   *)
(* handle one of their own before waiting again.  What a provider does     *)
(* with its key is in StateProviders and OrderBookProvider.                *)
(***************************************************************************)
EXTENDS AccountsCache

\* Wrong on purpose: only the bids are looked for in books_keys.
WatchedBidsOnly == [user       |-> {UserKey},
                    group      |-> {GroupKey},
                    openOrders |-> {OpenOrdersKey[m] : m \in Markets},
                    orderbook  |-> {BidsKey[m] : m \in Markets}]

\* The keys a provider acts on: its pubkey, open_orders_pks or books_keys.
Watched == [user       |-> {UserKey},
            group      |-> {GroupKey},
            openOrders |-> {OpenOrdersKey[m] : m \in Markets},
            orderbook  |-> {BidsKey[m] : m \in Markets} \cup {AsksKey[m] : m \in Markets}]

ASSUME ProvidersAssumption == Providers \subseteq DOMAIN Watched

\* Addresses of different accounts differ.
ASSUME DistinctKeys ==
  /\ \A p, q \in DOMAIN Watched : p # q => Watched[p] \cap Watched[q] = {}
  /\ \A m, n \in Markets :
       /\ BidsKey[m] # AsksKey[n]
       /\ BidsKey[m] = BidsKey[n] \/ AsksKey[m] = AsksKey[n]
            \/ OpenOrdersKey[m] = OpenOrdersKey[n] => m = n

VARIABLES
  held,        \* held[p]: the watched key p has received and not handled yet
  provRunning  \* provRunning[p]: p has not left its loop

provVars == <<held, provRunning>>

ProvTypeOK ==
  /\ held \in [Providers -> Key \cup {None}]
  /\ \A p \in Providers : held[p] \in Watched[p] \cup {None}
  /\ provRunning \in [Providers -> BOOLEAN]

ProvInit ==
  /\ held = [p \in Providers |-> None]
  /\ provRunning = [p \in Providers |-> TRUE]

Waiting(p) == provRunning[p] /\ held[p] = None

\* receiver.recv() yields a key; process_updates returns at once unless it is
\* one of the provider's own.
RecvKey(p) ==
  LET k == Head(keyRx[p].q)
  IN  /\ Waiting(p) /\ CanTake(keyRx[p])
      /\ keyRx' = [keyRx EXCEPT ![p] = Take(@)]
      /\ held' = [held EXCEPT ![p] = IF k \in Watched[p] THEN k ELSE None]
      /\ UNCHANGED <<cache, provRunning>>

\* Wrong on purpose: a lagging provider subscribes anew.
RecvKeyLaggedResubscribe(p) ==
  /\ Waiting(p) /\ keyRx[p].lagged
  /\ keyRx' = [keyRx EXCEPT ![p] = EmptyRx]
  /\ UNCHANGED <<cache, provVars>>

\* receiver.recv() yields Lagged: continue.
RecvKeyLagged(p) ==
  /\ Waiting(p) /\ keyRx[p].lagged
  /\ keyRx' = [keyRx EXCEPT ![p] = SkipLag(@)]
  /\ UNCHANGED <<cache, provVars>>

\* shutdown.recv() yields, or the runtime drops the waiting task.
ProviderStop(p, signal) ==
  /\ signal
  /\ Waiting(p)
  /\ provRunning' = [provRunning EXCEPT ![p] = FALSE]
  /\ UNCHANGED <<cacheVars, held>>
============================================================================
