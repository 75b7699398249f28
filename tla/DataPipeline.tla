--------------------------- MODULE DataPipeline ---------------------------
(***************************************************************************)
(* The tasks that InteractiveCli::start spawns to follow the chain,        *)
(* composed: the account info service writes the accounts cache, the       *)
(* providers turn the written keys into parsed accounts and order books,   *)
(* the cypher context and the market handlers keep the last of them for    *)
(* the commands.  Every task runs on the multi-threaded tokio runtime: an  *)
(* action is what a task does between two points where another task can    *)
(* see or change what it shares.                                           *)
(***************************************************************************)
EXTENDS AccountInfoService, CypherContext, MarketHandler

VARIABLE shutdown
  \* Ctrl-C was pressed or the command line ended: main returns.  Each task
  \* then ends at its next await, because it gets the signal or because the
  \* runtime drops it.

sinkVars == <<contextVars, handlerVars>>
vars == <<cacheVars, aisVars, provVars, stateRx, bookVars, contextVars,
          handlerVars, shutdown>>

TypeOK ==
  /\ CacheTypeOK /\ AisTypeOK /\ ProvTypeOK /\ StateRxTypeOK
  /\ BookTypeOK /\ ContextTypeOK /\ HandlerTypeOK
  /\ shutdown \in BOOLEAN

Init ==
  /\ CacheInit /\ AisInit /\ ProvInit /\ StateRxInit
  /\ BookInit /\ ContextInit /\ HandlerInit
  /\ shutdown = FALSE

Shutdown ==
  /\ ~shutdown /\ shutdown' = TRUE
  /\ UNCHANGED <<cacheVars, aisVars, provVars, stateRx, bookVars, sinkVars>>

ServiceTurn(A) == A /\ UNCHANGED <<provVars, stateRx, bookVars, sinkVars, shutdown>>

ServiceNext ==
  ServiceTurn(FetchOk \/ FetchErr \/ InsertInfo \/ NotifyKey \/ Wake \/ AisStop(shutdown))

LoopTurn(A) == A /\ UNCHANGED <<aisVars, stateRx, bookVars, sinkVars, shutdown>>

ProviderLoop(p) == LoopTurn(RecvKey(p) \/ RecvKeyLagged(p) \/ ProviderStop(p, shutdown))

StateProviderNext(p) ==
  Forward(p) /\ UNCHANGED <<aisVars, bookVars, sinkVars, shutdown>>

BookProviderNext(m) ==
  (ObApply(m) \/ ObSend(m)) /\ UNCHANGED <<aisVars, stateRx, sinkVars, shutdown>>

ContextTurn(A) ==
  A /\ UNCHANGED <<cacheVars, aisVars, provVars, bookVars, handlerVars, shutdown>>

ContextNext ==
  \/ \E k \in ContextKeys : ContextTurn(RecvContext(k) \/ RecvContextLagged(k))
  \/ ContextTurn(ContextStop(shutdown))

HandlerTurn(A) == A /\ UNCHANGED <<cacheVars, aisVars, provVars, contextVars, shutdown>>

HandlerNext(m) ==
  \/ m \in OpenOrdersTasks /\ HandlerTurn(RecvOpenOrders(m) \/ RecvOpenOrdersLagged(m))
  \/ m \in BookTasks /\ HandlerTurn(RecvBook(m) \/ RecvBookLagged(m))
  \/ HandlerTurn(HandlerStop(m, shutdown))

Next ==
  \/ Shutdown
  \/ ServiceNext
  \/ \E p \in Providers : ProviderLoop(p)
  \/ \E p \in StateProvider : StateProviderNext(p)
  \/ \E m \in BookTasks : BookProviderNext(m)
  \/ ContextNext
  \/ \E m \in Markets : HandlerNext(m)

Spec == Init /\ [][Next]_vars

(***************************************************************************)
(* Fairness.  A spawned task that can run does run (weak fairness of each  *)
(* task).  Of the RPC node it is assumed that no batch fails forever, and  *)
(* of the runtime that the service does not outlive main: both are choices *)
(* a task meets again and again (strong fairness).                         *)
(*                                                                         *)
(* KeepsUp is the timing of the code, which the model does not have: the   *)
(* service sleeps 500 ms after a pass that sends one key per account, so   *)
(* from some time on the other tasks have worked off what a pass sent them *)
(* when the service wakes up.  Before that time a Receiver may be          *)
(* overwritten as often as it likes.                                       *)
(***************************************************************************)
Fairness ==
  /\ WF_vars(ServiceNext)
  /\ \A i \in 0..(Len(Keys) - 1) : SF_vars(ServiceTurn(aisFrom = i /\ FetchOk))
  /\ SF_vars(ServiceTurn(AisStop(shutdown)))
  /\ \A p \in Providers : WF_vars(ProviderLoop(p))
  /\ \A p \in StateProvider : WF_vars(StateProviderNext(p))
  /\ \A m \in BookTasks : WF_vars(BookProviderNext(m))
  /\ WF_vars(ContextNext)
  /\ \A m \in Markets : WF_vars(HandlerNext(m))

Idle(rx) == rx.q = <<>> /\ ~rx.lagged

WorkedOff ==
  /\ \A p \in Providers : Idle(keyRx[p]) /\ held[p] = None
  /\ \A k \in StateKeys : Idle(stateRx[k])
  /\ \A m \in BookTasks : Idle(bookRx[m])

KeepsUp == <>[][ServiceTurn(Wake) => WorkedOff \/ shutdown]_vars

FairSpec == Spec /\ Fairness /\ KeepsUp
---------------------------------------------------------------------------
(***************************************************************************)
(* Safety.                                                                 *)
(***************************************************************************)

\* An entry is the account of its own key, as an answer that had this account
\* showed it.
EntriesAreOwn ==
  \A k \in Key : cache[k] # None =>
    /\ cache[k].key = k
    /\ cache[k].snap <= snapshot
    /\ k \notin Absent[cache[k].snap]

\* While an answer is drained, the cache has the accounts popped so far exactly
\* as this answer has them, though others of it are missing.
DrainedIsCached ==
  aisPc \in {"insert", "notify"} =>
    \A i \in (aisLeft + 1)..BatchLen :
      Answer(i) # None => cache[Keys[aisFrom + i]] = Answer(i)

\* update_infos pairs the answers of each batch with the right keys while it pops
\* them from the end: no entry is another account's, and no account of an answer
\* is skipped, kept at its older state or put under another key.
CacheFaithful == EntriesAreOwn /\ DrainedIsCached

\* A key that a provider can still receive, or is handling, is in the cache:
\* cache.get(&key).unwrap() in the providers never panics, because insert()
\* writes the map before it sends and nothing removes an entry.
NotifiedIsCached ==
  \A p \in Providers :
    /\ \A k \in Elems(keyRx[p].q) : cache[k] # None
    /\ held[p] # None => cache[held[p]] # None

\* A key about to be sent is in the cache too: what makes NotifiedIsCached
\* inductive.
AnnouncedIsCached ==
  aisPc = "notify" => cache[AccountKey(aisLeft + 1)] # None

\* Provider p has not acted yet on the last write of k: the key waits in its
\* Receiver (or was overwritten there), in its hands, or with the service.
KeyPending(p, k) ==
  \/ PendingIn(keyRx[p], k)
  \/ held[p] = k /\ ~(p = "orderbook" /\ updated)
  \/ aisPc = "notify" /\ k = AccountKey(aisLeft + 1)

\* No update is lost on the way to the context and the handlers' open orders:
\* a copy that differs from the cache is going to be replaced, because the key
\* or the newer copy is still under way, unless a full channel overwrote it.
CopyIs(k, account) ==
  \/ k \in ContextKeys /\ context[k] = account
  \/ \E m \in OpenOrdersTasks : k = OpenOrdersKey[m] /\ openOrders[m] = account

StaleCopyIsPending ==
  \A p \in StateProvider : \A k \in Watched[p] :
    \/ CopyIs(k, cache[k])
    \/ KeyPending(p, k)
    \/ PendingIn(stateRx[k], cache[k])

\* The same for the order books: a side that differs from the cache is going to
\* be rewritten, and a handler without the book of its market will get it.
StaleBookIsPending ==
  \A m \in BookTasks :
    /\ \/ cache[BidsKey[m]] = None
       \/ books[m] # None /\ books[m].bids = cache[BidsKey[m]]
       \/ KeyPending("orderbook", BidsKey[m])
    /\ \/ cache[AsksKey[m]] = None
       \/ books[m] # None /\ books[m].asks = cache[AsksKey[m]]
       \/ KeyPending("orderbook", AsksKey[m])
    /\ \/ books[m] = None \/ orderbook[m] = m
       \/ PendingIn(bookRx[m], m)
       \/ updated /\ held["orderbook"] \in {BidsKey[m], AsksKey[m]}

\* Every task keeps the accounts of its own user, group or market only, though
\* the channels carry those of all markets, and bids and asks are not swapped.
KeptIsOwn ==
  /\ \A k \in ContextKeys : context[k] # None => context[k].key = k
  /\ \A m \in OpenOrdersTasks : openOrders[m] # None => openOrders[m].key = OpenOrdersKey[m]
  /\ \A m \in BookTasks : books[m] # None =>
       /\ books[m].bids # None => books[m].bids.key = BidsKey[m]
       /\ books[m].asks # None => books[m].asks.key = AsksKey[m]
  /\ \A m \in BookTasks : orderbook[m] \in {None, m} /\ (orderbook[m] = m => books[m] # None)

(***************************************************************************)
(* Why nothing overtakes anything: the invariant behind MirrorSpec.        *)
(***************************************************************************)

\* a is no newer than the cache c, and of a state in which its account existed.
KnownIn(c, a) ==
  a # None => /\ c[a.key] # None /\ a.snap <= c[a.key].snap
              /\ a.key \notin Absent[a.snap]
Known(a) == KnownIn(cache, a)

NoNewer(a, b) == a # None /\ b # None /\ a.key = b.key => a.snap <= b.snap

\* The copies of one account wait in the order in which they were read.
InOrder(q) == \A i, j \in DOMAIN q : i < j => NoNewer(q[i], q[j])

CopiesInOrder ==
  /\ \A k \in StateKeys : InOrder(stateRx[k].q) /\ \A a \in Elems(stateRx[k].q) : Known(a)
  /\ \A k \in ContextKeys :
       Known(context[k]) /\ \A a \in Elems(stateRx[k].q) : NoNewer(context[k], a)
  /\ \A m \in OpenOrdersTasks :
       /\ Known(openOrders[m])
       /\ \A a \in Elems(stateRx[OpenOrdersKey[m]].q) : NoNewer(openOrders[m], a)

\* A channel carries the accounts its provider follows, and no others.
ChannelsAreOwn ==
  \A p \in StateProvider : \A k \in Watched[p] :
    \A a \in Elems(stateRx[k].q) : a.key \in Watched[p]

\* A book exists before anyone is told of it, and its sides are in the cache.
BooksAreKnown ==
  /\ \A m \in BookTasks : books[m] # None => Known(books[m].bids) /\ Known(books[m].asks)
  /\ \A m, n \in BookTasks : n \in Elems(bookRx[m].q) => books[n] # None
  /\ updated => \E m \in BookTasks : Handling(m) /\ books[m] # None

(***************************************************************************)
(* What the commands read, as an implementation of Mirror.  A viewer is a  *)
(* copy some task keeps of one account; a side of a book counts once the   *)
(* handler holds the book.                                                 *)
(***************************************************************************)
Viewers == ({"context"} \X ContextKeys) \cup ({"openOrders"} \X OpenOrdersTasks)
             \cup ({"bids", "asks"} \X BookTasks)

AccountOf(v) ==
  CASE v[1] = "context"    -> v[2]
    [] v[1] = "openOrders" -> OpenOrdersKey[v[2]]
    [] v[1] = "bids"       -> BidsKey[v[2]]
    [] v[1] = "asks"       -> AsksKey[v[2]]

KeptBy(v) ==
  CASE v[1] = "context"    -> context[v[2]]
    [] v[1] = "openOrders" -> openOrders[v[2]]
    [] v[1] = "bids"       -> IF orderbook[v[2]] = None THEN None ELSE books[v[2]].bids
    [] v[1] = "asks"       -> IF orderbook[v[2]] = None THEN None ELSE books[v[2]].asks

View == [v \in Viewers |-> IF KeptBy(v) = None THEN 0 ELSE KeptBy(v).snap]

ViewHistory == [v \in Viewers |-> {s \in 1..MaxSnapshot : AccountOf(v) \notin Absent[s]}]

M == INSTANCE Mirror WITH source <- snapshot, view <- View, History <- ViewHistory

\* The pipeline implements Mirror: whatever overtakes what in its channels and
\* caches, no copy a command reads ever goes back to an older answer.
MirrorSpec == M!Spec

---------------------------------------------------------------------------
(***************************************************************************)
(* Liveness, of FairSpec.                                                  *)
(***************************************************************************)

\* When the chain stops changing every copy catches up with the last answer,
\* in spite of overwritten notifications, because each pass notifies again;
\* unless the program ends or an error of the first pass ended the service.
ViewsCatchUp ==
  \A v \in Viewers :
    <>[](\/ shutdown \/ aisPc = "panicked"
         \/ snapshot \notin ViewHistory[v]
         \/ View[v] = snapshot)

\* After Ctrl-C or exit every task leaves its loop: none is stuck with a key in
\* its hands.
ShutdownEnds ==
  shutdown ~> /\ aisPc \in {"stopped", "panicked"}
              /\ \A p \in Providers : ~provRunning[p]
              /\ ~contextRunning
              /\ \A m \in Markets : ~handlerRunning[m]
===========================================================================
