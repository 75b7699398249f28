---------------------------- MODULE MirrorProofs ----------------------------
(***************************************************************************)
(* The pipeline implements Mirror, for every value of its constants: no    *)
(* copy a command reads ever goes back.  The argument: an entry of the     *)
(* cache only gets newer, a channel keeps the copies of one account in the *)
(* order in which they were read from the cache, and a task replaces what  *)
(* it keeps by the head of its channel.                                    *)
(*                                                                         *)
(* Nor is an update lost on its way: StaleCopyIsPending and                *)
(* StaleBookIsPending follow step by step from the same invariant.         *)
(***************************************************************************)
EXTENDS DataPipelineProofs

OInv == /\ IInv /\ EntriesAreOwn /\ CopiesInOrder /\ ChannelsAreOwn
        /\ KeptIsOwn /\ BooksAreKnown

---------------------------------------------------------------------------
(* Queues of copies. *)

LEMMA PushElems ==
  ASSUME NEW rx \in RxOf(AccountState), NEW a \in AccountState, NEW cap \in Nat \ {0}
  PROVE  Elems(Push(rx, a, cap).q) \subseteq Elems(rx.q) \cup {a}
<1> DEFINE T == AccountState
<1>1. rx \in RxOf(T) /\ a \in T
  OBVIOUS
<1> HIDE DEF T
<1> QED
  BY <1>1, PushKeeps

LEMMA PushInOrder ==
  ASSUME NEW rx \in RxOf(AccountState), NEW a \in AccountState, NEW cap \in Nat \ {0},
         InOrder(rx.q), \A b \in Elems(rx.q) : NoNewer(b, a)
  PROVE  InOrder(Push(rx, a, cap).q)
<1> DEFINE kept == IF Len(rx.q) >= cap THEN Tail(rx.q) ELSE rx.q
<1>1. rx.q \in Seq(AccountState)
  BY DEF RxOf
<1>2. Len(rx.q) >= cap => rx.q # <<>>
  BY <1>1
<1>3. /\ kept \in Seq(AccountState) /\ Elems(kept) \subseteq Elems(rx.q)
      /\ InOrder(kept)
  <2>1. CASE Len(rx.q) >= cap
    <3>1. /\ Tail(rx.q) \in Seq(AccountState) /\ Elems(Tail(rx.q)) \subseteq Elems(rx.q)
          /\ Len(Tail(rx.q)) = Len(rx.q) - 1
          /\ \A i \in 1..(Len(rx.q) - 1) : Tail(rx.q)[i] = rx.q[i + 1]
      BY <1>1, <1>2, <2>1, TailElems
    <3> DOMAIN Tail(rx.q) = 1..(Len(rx.q) - 1)
      BY <3>1
    <3>2. InOrder(Tail(rx.q))
      <4> SUFFICES ASSUME NEW i \in 1..(Len(rx.q) - 1), NEW j \in 1..(Len(rx.q) - 1), i < j
                   PROVE  NoNewer(Tail(rx.q)[i], Tail(rx.q)[j])
        BY <3>1 DEF InOrder
      <4>1. i + 1 \in DOMAIN rx.q /\ j + 1 \in DOMAIN rx.q /\ i + 1 < j + 1
        BY <1>1
      <4>2. NoNewer(rx.q[i + 1], rx.q[j + 1])
        BY <4>1 DEF InOrder
      <4> QED
        BY <3>1, <4>2
    <3> QED
      BY <2>1, <3>1, <3>2
  <2>2. CASE ~(Len(rx.q) >= cap)
    BY <1>1, <2>2
  <2> QED
    BY <2>1, <2>2
<1>4. Push(rx, a, cap).q = Append(kept, a)
  BY DEF Push
<1> HIDE DEF kept
<1>5. /\ Append(kept, a) \in Seq(AccountState)
      /\ Len(kept) \in Nat
      /\ Len(Append(kept, a)) = Len(kept) + 1
      /\ \A i \in 1..Len(kept) : Append(kept, a)[i] = kept[i]
      /\ Append(kept, a)[Len(kept) + 1] = a
  BY <1>3, AppendElems
<1>6. InOrder(Append(kept, a))
  <2> SUFFICES ASSUME NEW i \in 1..(Len(kept) + 1), NEW j \in 1..(Len(kept) + 1), i < j
               PROVE  NoNewer(Append(kept, a)[i], Append(kept, a)[j])
    BY <1>5 DEF InOrder
  <2>1. i \in 1..Len(kept) /\ kept[i] \in Elems(kept) /\ DOMAIN kept = 1..Len(kept)
    BY <1>3, <1>5 DEF Elems
  <2>2. CASE j = Len(kept) + 1
    BY <2>1, <2>2, <1>3, <1>5
  <2>3. CASE j # Len(kept) + 1
    BY <2>1, <2>3, <1>3, <1>5 DEF InOrder
  <2> QED
    BY <2>2, <2>3
<1> QED
  BY <1>4, <1>6

LEMMA TakeInOrder ==
  ASSUME NEW rx \in RxOf(AccountState), CanTake(rx), InOrder(rx.q)
  PROVE  /\ InOrder(Take(rx).q)
         /\ \A b \in Elems(Take(rx).q) : NoNewer(Head(rx.q), b)
<1>1. rx.q \in Seq(AccountState) /\ rx.q # <<>>
  BY DEF RxOf, CanTake
<1>2. /\ Head(rx.q) = rx.q[1]
      /\ Tail(rx.q) \in Seq(AccountState)
      /\ Len(Tail(rx.q)) = Len(rx.q) - 1
      /\ \A i \in 1..(Len(rx.q) - 1) : Tail(rx.q)[i] = rx.q[i + 1]
  BY <1>1, TailElems
<1>3. Take(rx).q = Tail(rx.q) /\ DOMAIN Tail(rx.q) = 1..(Len(rx.q) - 1) /\ Len(rx.q) \in Nat
  BY <1>1, <1>2, TakeKeeps
<1>4. \A i \in 1..(Len(rx.q) - 1) : i + 1 \in DOMAIN rx.q /\ 1 \in DOMAIN rx.q /\ 1 < i + 1
  BY <1>1
<1>5. InOrder(Tail(rx.q))
  <2> SUFFICES ASSUME NEW i \in 1..(Len(rx.q) - 1), NEW j \in 1..(Len(rx.q) - 1), i < j
               PROVE  NoNewer(Tail(rx.q)[i], Tail(rx.q)[j])
    BY <1>3 DEF InOrder
  <2>1. i + 1 < j + 1
    OBVIOUS
  <2> QED
    BY <1>2, <1>4, <2>1 DEF InOrder
<1>6. \A b \in Elems(Tail(rx.q)) : NoNewer(Head(rx.q), b)
  BY <1>2, <1>3, <1>4 DEF InOrder, Elems
<1> QED
  BY <1>3, <1>5, <1>6

---------------------------------------------------------------------------
(* The cache only gets newer. *)

CacheGrows ==
  \A k \in Key : cache[k] # None => cache'[k] # None /\ cache[k].snap <= cache'[k].snap

LEMMA KnownStays ==
  ASSUME CacheTypeOK, CacheTypeOK', CacheGrows,
         NEW a \in AccountState \cup {None}, Known(a)
  PROVE  KnownIn(cache', a)
<1> SUFFICES ASSUME a # None PROVE KnownIn(cache', a)
  BY DEF KnownIn
<1>1. a.key \in Key /\ a.snap \in Nat
  BY DEF AccountState
<1>2. cache[a.key] # None /\ cache[a.key] \in AccountState /\ a.snap <= cache[a.key].snap
  BY <1>1 DEF Known, KnownIn, CacheTypeOK
<1>3. /\ cache'[a.key] # None /\ cache'[a.key] \in AccountState
      /\ cache[a.key].snap <= cache'[a.key].snap
  BY <1>1, <1>2 DEF CacheGrows, CacheTypeOK
<1>4. cache[a.key].snap \in Nat /\ cache'[a.key].snap \in Nat
  BY <1>2, <1>3 DEF AccountState
<1>5. a.snap <= cache'[a.key].snap
  BY <1>1, <1>2, <1>3, <1>4
<1> QED
  BY <1>3, <1>5 DEF Known, KnownIn

LEMMA ServiceGrows ==
  ASSUME IInv, IInv', EntriesAreOwn, ServiceNext
  PROVE  CacheGrows /\ EntriesAreOwn' /\ snapshot' \in {snapshot, snapshot + 1}
<1>1. CacheTypeOK /\ CacheTypeOK' /\ AisTypeOK /\ PopInRange /\ snapshot \in Nat
  BY DEF IInv, TypeOK, AisTypeOK
<1>2. \A k \in Key : cache[k] # None => cache[k].snap \in Nat
  BY <1>1 DEF CacheTypeOK, AccountState
<1>3. CASE UNCHANGED cache /\ snapshot' \in {snapshot, snapshot + 1}
  <2>1. \A k \in Key : cache[k] # None => cache[k].snap <= snapshot'
    BY <1>1, <1>2, <1>3 DEF EntriesAreOwn
  <2> QED
    BY <1>2, <1>3, <2>1 DEF CacheGrows, EntriesAreOwn
<1>4. CASE InsertInfo /\ cache' # cache
  <2> DEFINE k == AccountKey(aisLeft)
             a == Answer(aisLeft)
  <2>1. a # None /\ cache' = [cache EXCEPT ![k] = a] /\ snapshot' = snapshot
    BY <1>4 DEF InsertInfo, MapInsert
  <2>2. aisLeft \in 1..BatchLen
    BY <1>1, <1>4, BatchFacts DEF InsertInfo, AisTypeOK, PopInRange
  <2>3. k \in Key
    BY <2>2, <1>1, BatchFacts
  <2>4. a.key = k /\ a.snap = snapshot /\ k \notin Absent[snapshot]
    BY <2>1 DEF Answer, AccountKey
  <2> HIDE DEF k, a
  <2>5. CacheGrows
    BY <2>1, <2>3, <2>4, <1>1, <1>2 DEF CacheGrows, EntriesAreOwn, CacheTypeOK
  <2>6. EntriesAreOwn'
    BY <2>1, <2>3, <2>4, <1>1 DEF EntriesAreOwn, CacheTypeOK
  <2> QED
    BY <2>1, <2>5, <2>6
<1> QED
  BY <1>3, <1>4 DEF ServiceNext, ServiceTurn, FetchOk, FetchErr, InsertInfo, NotifyKey, Wake,
                    AisStop, cacheVars

\* Types of what the tasks keep and of what is under way to them.
LEMMA KeptTypes ==
  ASSUME IInv
  PROVE  /\ \A k \in StateKeys : stateRx[k] \in RxOf(AccountState)
         /\ \A k \in StateKeys : \A a \in Elems(stateRx[k].q) : a \in AccountState
         /\ \A k \in ContextKeys : k \in StateKeys /\ context[k] \in AccountState \cup {None}
         /\ \A m \in OpenOrdersTasks : /\ OpenOrdersKey[m] \in StateKeys
                                       /\ openOrders[m] \in AccountState \cup {None}
         /\ \A m \in BookTasks : books[m] # None =>
              /\ books[m].bids \in AccountState \cup {None}
              /\ books[m].asks \in AccountState \cup {None}
<1>1. \A k \in StateKeys : stateRx[k] \in RxOf(AccountState)
  BY DEF IInv, TypeOK, StateRxTypeOK
<1>2. \A k \in StateKeys : \A a \in Elems(stateRx[k].q) : a \in AccountState
  BY <1>1 DEF RxOf, Elems
<1>3. \A k \in ContextKeys : k \in StateKeys /\ context[k] \in AccountState \cup {None}
  BY DEF IInv, TypeOK, ContextTypeOK, ContextKeys
<1>4. \A m \in OpenOrdersTasks : /\ OpenOrdersKey[m] \in StateKeys
                                 /\ openOrders[m] \in AccountState \cup {None}
  BY OpenOrdersIsKept DEF IInv, TypeOK, HandlerTypeOK
<1>5. \A m \in BookTasks : books[m] # None => books[m] \in Book
  BY DEF IInv, TypeOK, BookTypeOK
<1> QED
  BY <1>1, <1>2, <1>3, <1>4, <1>5 DEF Book

\* While the cache gets newer and nothing else moves, all order is kept.
LEMMA GrowKeeps ==
  ASSUME OInv, IInv', CacheGrows, UNCHANGED <<provVars, stateRx, bookVars, sinkVars>>
  PROVE  (CopiesInOrder /\ ChannelsAreOwn /\ KeptIsOwn /\ BooksAreKnown)'
<1>1. CacheTypeOK /\ CacheTypeOK' /\ IInv
  BY DEF OInv, IInv, TypeOK
<1>2. \A a \in AccountState \cup {None} : Known(a) => KnownIn(cache', a)
  BY <1>1, KnownStays
<1>3. UNCHANGED <<held, provRunning, stateRx, books, updated, bookRx, context, openOrders, orderbook>>
  BY DEF provVars, bookVars, sinkVars, contextVars, handlerVars
<1>4. CopiesInOrder'
  <2>1. CopiesInOrder
    BY DEF OInv
  <2>2. \A k \in StateKeys : InOrder(stateRx[k].q) /\ \A a \in Elems(stateRx[k].q) : KnownIn(cache', a)
    BY <1>1, <1>2, <2>1, KeptTypes DEF CopiesInOrder
  <2>3. \A k \in ContextKeys :
          KnownIn(cache', context[k]) /\ \A a \in Elems(stateRx[k].q) : NoNewer(context[k], a)
    BY <1>1, <1>2, <2>1, KeptTypes DEF CopiesInOrder
  <2>4. \A m \in OpenOrdersTasks :
          /\ KnownIn(cache', openOrders[m])
          /\ \A a \in Elems(stateRx[OpenOrdersKey[m]].q) : NoNewer(openOrders[m], a)
    BY <1>1, <1>2, <2>1, KeptTypes DEF CopiesInOrder
  <2> QED
    BY <1>3, <2>2, <2>3, <2>4 DEF CopiesInOrder, Known
<1>5. BooksAreKnown'
  <2>1. BooksAreKnown
    BY DEF OInv
  <2>2. \A m \in BookTasks : books[m] # None =>
          KnownIn(cache', books[m].bids) /\ KnownIn(cache', books[m].asks)
    BY <1>1, <1>2, <2>1, KeptTypes DEF BooksAreKnown
  <2> QED
    BY <1>3, <2>1, <2>2 DEF BooksAreKnown, Known, Handling
<1>6. ChannelsAreOwn' /\ KeptIsOwn'
  BY <1>3 DEF OInv, ChannelsAreOwn, KeptIsOwn
<1> QED
  BY <1>4, <1>5, <1>6

---------------------------------------------------------------------------
(* The steps of the other tasks. *)

\* The replacement b of a copy a is a itself, or a copy that is no older.
Forwards(a, b) == b = a \/ (b # None /\ NoNewer(a, b))

\* No copy that a task keeps goes back in a step.
KeptForwards ==
  /\ \A k \in ContextKeys : Forwards(context[k], context'[k])
  /\ \A m \in OpenOrdersTasks : Forwards(openOrders[m], openOrders'[m])
  /\ \A m \in BookTasks : orderbook[m] # None =>
       /\ orderbook'[m] # None /\ books[m] # None /\ books'[m] # None
       /\ Forwards(books[m].bids, books'[m].bids)
       /\ Forwards(books[m].asks, books'[m].asks)

LEMMA NothingKeptMoves ==
  ASSUME OInv, UNCHANGED <<books, context, openOrders, orderbook>>
  PROVE  KeptForwards
BY DEF KeptForwards, Forwards, OInv, KeptIsOwn

\* What is read from the cache is as new as any copy of that account.
LEMMA CacheIsNewest ==
  ASSUME IInv, EntriesAreOwn, NEW k \in Key, cache[k] # None
  PROVE  /\ cache[k] \in AccountState /\ cache[k].key = k /\ Known(cache[k])
         /\ \A a : Known(a) => NoNewer(a, cache[k])
<1>1. cache[k] \in AccountState /\ cache[k].key = k /\ k \notin Absent[cache[k].snap]
  BY DEF IInv, TypeOK, CacheTypeOK, EntriesAreOwn
<1>2. cache[k].snap \in Nat
  BY <1>1 DEF AccountState
<1>3. Known(cache[k])
  BY <1>1, <1>2 DEF Known, KnownIn
<1>4. \A a : Known(a) => NoNewer(a, cache[k])
  BY <1>1 DEF Known, KnownIn, NoNewer
<1> QED
  BY <1>1, <1>3, <1>4

\* A Receiver belongs to one provider.
LEMMA WatchedApart ==
  ASSUME NEW p \in StateProvider, NEW q \in StateProvider, NEW k \in Watched[p],
         k \in Watched[q]
  PROVE  p = q
BY ProvidersAssumption, DistinctKeys DEF StateProvider

LEMMA LoopOInv ==
  ASSUME OInv, NEW p \in Providers, ProviderLoop(p)
  PROVE  OInv' /\ KeptForwards
<1>1. IInv /\ IInv'
  BY ProviderLoopIInv DEF OInv
<1>2. UNCHANGED <<cache, snapshot, stateRx, books, updated, bookRx, context, openOrders, orderbook>>
  BY DEF ProviderLoop, LoopTurn, aisVars, bookVars, sinkVars, contextVars, handlerVars,
         RecvKey, RecvKeyLagged, ProviderStop, cacheVars
<1>3. EntriesAreOwn' /\ CopiesInOrder' /\ ChannelsAreOwn' /\ KeptIsOwn'
  BY <1>2 DEF OInv, EntriesAreOwn, CopiesInOrder, Known, ChannelsAreOwn, KeptIsOwn
<1>4. BooksAreKnown'
  <2>1. updated => p # "orderbook"
    <3>1. held[p] = None
      BY DEF ProviderLoop, LoopTurn, RecvKey, RecvKeyLagged, ProviderStop, Waiting
    <3>2. updated => held["orderbook"] # None
      BY CacheAssumption DEF OInv, BooksAreKnown, Handling, BookTasks, Key
    <3> QED
      BY <3>1, <3>2
  <2>2. p # "orderbook" /\ "orderbook" \in Providers =>
          held'["orderbook"] = held["orderbook"] /\ provRunning'["orderbook"] = provRunning["orderbook"]
    BY <1>1 DEF ProviderLoop, LoopTurn, RecvKey, RecvKeyLagged, ProviderStop, provVars,
                IInv, TypeOK, ProvTypeOK
  <2> QED
    BY <1>2, <2>1, <2>2 DEF OInv, BooksAreKnown, Known, Handling
<1>5. KeptForwards
  BY <1>2, NothingKeptMoves
<1> QED
  BY <1>1, <1>3, <1>4, <1>5 DEF OInv

LEMMA ForwardOInv ==
  ASSUME OInv, NEW p \in StateProvider, StateProviderNext(p)
  PROVE  OInv' /\ KeptForwards
<1> DEFINE a == cache[held[p]]
<1>1. IInv /\ IInv' /\ EntriesAreOwn /\ CopiesInOrder /\ ChannelsAreOwn
  BY ForwardIInv DEF OInv
<1>2. UNCHANGED <<cache, snapshot, books, updated, bookRx, context, openOrders, orderbook, provRunning>>
  BY DEF StateProviderNext, aisVars, bookVars, sinkVars, contextVars, handlerVars,
         Forward, cacheVars
<1>3. /\ stateRx' = [k \in StateKeys |-> IF k \in Watched[p] THEN Push(stateRx[k], a, StateCap)
                                                             ELSE stateRx[k]]
      /\ held' = [held EXCEPT ![p] = None] /\ held[p] # None
  BY DEF StateProviderNext, Forward
<1>4. p \in Providers /\ p # "orderbook" /\ held[p] \in Key /\ held[p] \in Watched[p] /\ a # None
  BY <1>1, <1>3 DEF IInv, TypeOK, ProvTypeOK, NotifiedIsCached, StateProvider
<1>5. a \in AccountState /\ a.key = held[p] /\ Known(a) /\ \A b : Known(b) => NoNewer(b, a)
  BY <1>1, <1>4, CacheIsNewest
<1> HIDE DEF a
<1>6. \A k \in StateKeys :
        /\ InOrder(stateRx[k].q) /\ \A b \in Elems(stateRx[k].q) : Known(b)
        /\ stateRx[k] \in RxOf(AccountState)
  BY <1>1, KeptTypes DEF CopiesInOrder
<1>7. \A k \in StateKeys :
        /\ InOrder(stateRx'[k].q)
        /\ \A b \in Elems(stateRx'[k].q) :
             b \in Elems(stateRx[k].q) \/ (b = a /\ k \in Watched[p])
  <2> SUFFICES ASSUME NEW k \in StateKeys
               PROVE  /\ InOrder(stateRx'[k].q)
                      /\ \A b \in Elems(stateRx'[k].q) :
                           b \in Elems(stateRx[k].q) \/ (b = a /\ k \in Watched[p])
    OBVIOUS
  <2>1. CASE k \in Watched[p]
    <3>1. InOrder(Push(stateRx[k], a, StateCap).q)
      BY <1>5, <1>6, PushInOrder, StateCapAssumption
    <3>2. Elems(Push(stateRx[k], a, StateCap).q) \subseteq Elems(stateRx[k].q) \cup {a}
      <4>1. stateRx[k] \in RxOf(AccountState) /\ a \in AccountState
        BY <1>5, <1>6
      <4> QED
        BY <4>1, PushElems, StateCapAssumption
    <3> QED
      BY <2>1, <3>1, <3>2, <1>3
  <2>2. CASE k \notin Watched[p]
    BY <2>2, <1>3, <1>6
  <2> QED
    BY <2>1, <2>2
<1>8. CopiesInOrder'
  <2>1. \A k \in StateKeys : \A b \in Elems(stateRx'[k].q) : Known(b)
    BY <1>5, <1>6, <1>7
  <2>2. \A k \in ContextKeys :
          Known(context[k]) /\ \A b \in Elems(stateRx'[k].q) : NoNewer(context[k], b)
    BY <1>1, <1>5, <1>7 DEF CopiesInOrder, ContextKeys
  <2>3. \A m \in OpenOrdersTasks :
          /\ Known(openOrders[m])
          /\ \A b \in Elems(stateRx'[OpenOrdersKey[m]].q) : NoNewer(openOrders[m], b)
    BY <1>1, <1>5, <1>7, OpenOrdersIsKept DEF CopiesInOrder
  <2> QED
    BY <1>2, <1>7, <2>1, <2>2, <2>3 DEF CopiesInOrder, Known
<1>9. ChannelsAreOwn'
  <2> SUFFICES ASSUME NEW q \in StateProvider, NEW k \in Watched[q],
                      NEW b \in Elems(stateRx'[k].q)
               PROVE  b.key \in Watched[q]
    BY DEF ChannelsAreOwn
  <2>1. k \in StateKeys
    BY DEF StateKeys
  <2>2. CASE b \in Elems(stateRx[k].q)
    BY <2>2, <1>1 DEF ChannelsAreOwn
  <2>3. CASE b = a /\ k \in Watched[p]
    BY <2>3, <1>4, <1>5, WatchedApart
  <2> QED
    BY <2>1, <2>2, <2>3, <1>7
<1>10. EntriesAreOwn' /\ KeptIsOwn'
  BY <1>2 DEF OInv, EntriesAreOwn, KeptIsOwn
<1>11. BooksAreKnown'
  <2>1. "orderbook" \in Providers => held'["orderbook"] = held["orderbook"]
    BY <1>1, <1>3, <1>4 DEF IInv, TypeOK, ProvTypeOK
  <2> QED
    BY <1>2, <2>1 DEF OInv, BooksAreKnown, Known, Handling
<1>12. KeptForwards
  BY <1>2, NothingKeptMoves
<1> QED
  BY <1>1, <1>8, <1>9, <1>10, <1>11, <1>12 DEF OInv

\* The keys of two books differ.
LEMMA HandlingOne ==
  ASSUME NEW m \in BookTasks, NEW n \in BookTasks, Handling(m), Handling(n)
  PROVE  m = n
<1>1. m \in Markets /\ n \in Markets
  BY DEF BookTasks
<1> QED
  BY <1>1, DistinctKeys DEF Handling

LEMMA ObApplyOInv ==
  ASSUME OInv, IInv', NEW m \in BookTasks, ObApply(m),
         UNCHANGED <<snapshot, stateRx, context, openOrders, orderbook>>
  PROVE  OInv' /\ KeptForwards
<1> DEFINE k   == held["orderbook"]
           old == IF books[m] = None THEN EmptyBook ELSE books[m]
           new == IF k = BidsKey[m] THEN [old EXCEPT !.bids = cache[k]]
                                    ELSE [old EXCEPT !.asks = cache[k]]
<1>1. /\ books' = [books EXCEPT ![m] = new] /\ updated' = TRUE
      /\ UNCHANGED <<cache, held, provRunning, bookRx>>
      /\ k \in {BidsKey[m], AsksKey[m]} /\ "orderbook" \in Providers
  BY DEF ObApply, Handling, cacheVars, provVars
<1>2. IInv /\ EntriesAreOwn /\ KeptIsOwn /\ BooksAreKnown /\ BookTypeOK
  BY DEF OInv, IInv, TypeOK
<1>3. m \in Markets /\ k \in Key /\ BidsKey[m] # AsksKey[m]
  BY <1>1, DistinctKeys DEF BookTasks, Key
<1>4. k # None /\ cache[k] # None
  BY <1>1, <1>2, <1>3, CacheAssumption DEF IInv, NotifiedIsCached
<1>5. cache[k].key = k /\ Known(cache[k]) /\ \A b : Known(b) => NoNewer(b, cache[k])
  BY <1>2, <1>3, <1>4, CacheIsNewest
<1>6. old \in Book
  BY <1>2 DEF BookTypeOK, Book, EmptyBook
<1>7. /\ Known(old.bids) /\ Known(old.asks)
      /\ old.bids # None => old.bids.key = BidsKey[m]
      /\ old.asks # None => old.asks.key = AsksKey[m]
  BY <1>2 DEF BooksAreKnown, KeptIsOwn, EmptyBook, Known, KnownIn
<1>8. new \in Book
  BY <1>6, <1>4, <1>2, <1>3 DEF Book, IInv, TypeOK, CacheTypeOK
<1>9. /\ new.bids = old.bids \/ (new.bids = cache[k] /\ k = BidsKey[m])
      /\ new.asks = old.asks \/ (new.asks = cache[k] /\ k = AsksKey[m])
  <2>1. DOMAIN old = {"bids", "asks"} /\ old = [bids |-> old.bids, asks |-> old.asks]
    BY <1>6 DEF Book
  <2> HIDE DEF old
  <2>2. CASE k = BidsKey[m]
    BY <2>1, <2>2
  <2>3. CASE k # BidsKey[m]
    BY <1>1, <2>1, <2>3
  <2> QED
    BY <2>2, <2>3
<1>10. new # None
  BY <1>8, NoneIsNoBook
<1>11. /\ Known(new.bids) /\ Known(new.asks)
       /\ new.bids # None => new.bids.key = BidsKey[m]
       /\ new.asks # None => new.asks.key = AsksKey[m]
       /\ Forwards(old.bids, new.bids) /\ Forwards(old.asks, new.asks)
  BY <1>4, <1>5, <1>7, <1>9 DEF Forwards
<1> HIDE DEF k, old, new
<1>12. /\ books'[m] = new
       /\ books[m] # None => books[m] = old
       /\ \A n \in BookTasks : n # m => books'[n] = books[n]
  BY <1>1, <1>2 DEF BookTypeOK, old
<1>13. EntriesAreOwn' /\ CopiesInOrder' /\ ChannelsAreOwn'
  BY <1>1 DEF OInv, EntriesAreOwn, CopiesInOrder, Known, ChannelsAreOwn
<1>14. KeptIsOwn'
  BY <1>2, <1>10, <1>11, <1>12 DEF KeptIsOwn
<1>15. BooksAreKnown'
  <2>1. Handling(m)' /\ books'[m] # None
    BY <1>1, <1>10, <1>12 DEF ObApply, Handling
  <2>2. \A n \in BookTasks : books'[n] # None => Known(books'[n].bids) /\ Known(books'[n].asks)
    BY <1>2, <1>11, <1>12 DEF BooksAreKnown
  <2>3. \A n, i \in BookTasks : i \in Elems(bookRx[n].q) => books'[i] # None
    BY <1>2, <1>10, <1>12 DEF BooksAreKnown
  <2> QED
    BY <1>1, <2>1, <2>2, <2>3 DEF BooksAreKnown, Known
<1>16. KeptForwards
  <2>1. \A n \in BookTasks : orderbook[n] # None => books[n] # None
    BY <1>2 DEF KeptIsOwn
  <2>2. \A n \in BookTasks : books[n] # None =>
          /\ books'[n] # None /\ Forwards(books[n].bids, books'[n].bids)
          /\ Forwards(books[n].asks, books'[n].asks)
    BY <1>10, <1>11, <1>12 DEF Forwards
  <2> QED
    BY <2>1, <2>2 DEF KeptForwards, Forwards
<1> QED
  BY <1>13, <1>14, <1>15, <1>16 DEF OInv

LEMMA BookProviderOInv ==
  ASSUME OInv, NEW m \in BookTasks, BookProviderNext(m)
  PROVE  OInv' /\ KeptForwards
<1>1. IInv /\ IInv' /\ UNCHANGED <<snapshot, stateRx, context, openOrders, orderbook>>
  BY BookProviderIInv DEF OInv, BookProviderNext, aisVars, sinkVars, contextVars, handlerVars
<1>2. CASE ObApply(m)
  BY <1>1, <1>2, ObApplyOInv
<1>3. CASE ObSend(m)
  <2>1. /\ bookRx' = [n \in BookTasks |-> Push(bookRx[n], m, BookCap)]
        /\ updated /\ updated' = FALSE /\ UNCHANGED <<cache, books>>
    BY <1>3 DEF ObSend, cacheVars
  <2>2. books[m] # None
    BY <1>3, <2>1, HandlingOne DEF OInv, BooksAreKnown, ObSend
  <2>3. \A n \in BookTasks : Elems(bookRx'[n].q) \subseteq Elems(bookRx[n].q) \cup {m}
    <3> SUFFICES ASSUME NEW n \in BookTasks
                 PROVE  Elems(bookRx'[n].q) \subseteq Elems(bookRx[n].q) \cup {m}
      OBVIOUS
    <3>1. bookRx[n] \in RxOf(BookTasks)
      BY <1>1 DEF IInv, TypeOK, BookTypeOK
    <3> QED
      BY <2>1, <3>1, PushKeeps, BookCapAssumption
  <2>4. BooksAreKnown'
    BY <2>1, <2>2, <2>3 DEF OInv, BooksAreKnown, Known
  <2>5. EntriesAreOwn' /\ CopiesInOrder' /\ ChannelsAreOwn' /\ KeptIsOwn'
    BY <1>1, <2>1 DEF OInv, EntriesAreOwn, CopiesInOrder, Known, ChannelsAreOwn, KeptIsOwn
  <2>6. KeptForwards
    BY <1>1, <2>1, NothingKeptMoves
  <2> QED
    BY <1>1, <2>4, <2>5, <2>6 DEF OInv
<1> QED
  BY <1>2, <1>3 DEF BookProviderNext

\* What a task leaves in a Receiver, whether it took the head or skipped.
LEMMA DrainKeeps ==
  ASSUME OInv, UNCHANGED cache,
         \A k \in StateKeys : /\ InOrder(stateRx'[k].q)
                              /\ Elems(stateRx'[k].q) \subseteq Elems(stateRx[k].q)
  PROVE  /\ ChannelsAreOwn'
         /\ \A k \in StateKeys : InOrder(stateRx'[k].q) /\ \A a \in Elems(stateRx'[k].q) : Known(a)'
         /\ \A k \in ContextKeys : \A a \in Elems(stateRx'[k].q) : NoNewer(context[k], a)
         /\ \A m \in OpenOrdersTasks : \A a \in Elems(stateRx'[OpenOrdersKey[m]].q) :
              NoNewer(openOrders[m], a)
<1>1. CopiesInOrder /\ ChannelsAreOwn
  BY DEF OInv
<1>2. ChannelsAreOwn'
  BY <1>1 DEF ChannelsAreOwn, StateKeys
<1>3. \A k \in StateKeys : \A a \in Elems(stateRx'[k].q) : Known(a)'
  BY <1>1 DEF CopiesInOrder, Known
<1>4. \A k \in ContextKeys : \A a \in Elems(stateRx'[k].q) : NoNewer(context[k], a)
  BY <1>1 DEF CopiesInOrder, ContextKeys
<1>5. \A m \in OpenOrdersTasks : \A a \in Elems(stateRx'[OpenOrdersKey[m]].q) :
        NoNewer(openOrders[m], a)
  BY <1>1, OpenOrdersIsKept DEF CopiesInOrder
<1> QED
  BY <1>2, <1>3, <1>4, <1>5

\* The context has a channel for the user and one for the group.
LEMMA ContextHeadIsOwn ==
  ASSUME OInv, NEW k \in ContextKeys, NEW a \in Elems(stateRx[k].q)
  PROVE  a.key = k
<1>1. k \in StateKeys /\ k \in {UserKey, GroupKey}
  BY DEF ContextKeys
<1>2. PICK p \in StateProvider : k \in Watched[p]
  BY <1>1 DEF StateKeys
<1>3. a.key \in Watched[p]
  BY <1>2 DEF OInv, ChannelsAreOwn
<1>4. Watched[p] \in {Watched["user"], Watched["group"]}
  BY <1>1, <1>2, ProvidersAssumption, DistinctKeys DEF StateProvider, Watched
<1>5. Watched["user"] = {UserKey} /\ Watched["group"] = {GroupKey}
  BY DEF Watched
<1> QED
  BY <1>1, <1>2, <1>3, <1>4, <1>5

LEMMA ContextOInv == OInv /\ ContextNext => OInv' /\ KeptForwards
<1> SUFFICES ASSUME OInv, ContextNext PROVE OInv' /\ KeptForwards
  OBVIOUS
<1>1. IInv /\ IInv' /\ CopiesInOrder /\ KeptIsOwn
  BY ContextIInv DEF OInv
<1>2. UNCHANGED <<cache, snapshot, held, provRunning, books, updated, bookRx, openOrders, orderbook>>
  BY DEF ContextNext, ContextTurn, cacheVars, aisVars, provVars, bookVars, handlerVars
<1>3. EntriesAreOwn' /\ BooksAreKnown'
  BY <1>2 DEF OInv, EntriesAreOwn, BooksAreKnown, Known, Handling
<1>4. \A k \in StateKeys : stateRx[k] \in RxOf(AccountState) /\ InOrder(stateRx[k].q)
  BY <1>1, KeptTypes DEF CopiesInOrder
<1>5. context \in [ContextKeys -> AccountState \cup {None}] /\ stateRx \in [StateKeys -> RxOf(AccountState)]
  BY <1>1 DEF IInv, TypeOK, ContextTypeOK, StateRxTypeOK
<1>6. CASE \E k \in ContextKeys : RecvContext(k)
  <2>1. PICK k \in ContextKeys : RecvContext(k)
    BY <1>6
  <2> DEFINE a == Head(stateRx[k].q)
  <2>2. k \in StateKeys /\ stateRx[k] \in RxOf(AccountState) /\ CanTake(stateRx[k])
    BY <2>1, <1>4 DEF ContextKeys, RecvContext
  <2>3. /\ a \in AccountState /\ a \in Elems(stateRx[k].q)
        /\ Elems(Take(stateRx[k]).q) \subseteq Elems(stateRx[k].q)
        /\ InOrder(Take(stateRx[k]).q)
        /\ \A b \in Elems(Take(stateRx[k]).q) : NoNewer(a, b)
    BY <2>2, <1>4, TakeKeeps, TakeInOrder
  <2>4. stateRx' = [stateRx EXCEPT ![k] = Take(@)] /\ context' = [context EXCEPT ![k] = a]
    BY <2>1 DEF RecvContext
  <2>5. a.key = k /\ Known(a) /\ NoNewer(context[k], a) /\ a # None
    BY <2>2, <2>3, <1>1, ContextHeadIsOwn, CacheAssumption DEF CopiesInOrder
  <2> HIDE DEF a
  <2>6. \A x \in StateKeys : /\ InOrder(stateRx'[x].q)
                             /\ Elems(stateRx'[x].q) \subseteq Elems(stateRx[x].q)
    BY <2>2, <2>3, <2>4, <1>4, <1>5
  <2>7. /\ ChannelsAreOwn'
        /\ \A x \in StateKeys : InOrder(stateRx'[x].q) /\ \A b \in Elems(stateRx'[x].q) : Known(b)'
        /\ \A x \in ContextKeys : \A b \in Elems(stateRx'[x].q) : NoNewer(context[x], b)
        /\ \A m \in OpenOrdersTasks : \A b \in Elems(stateRx'[OpenOrdersKey[m]].q) :
             NoNewer(openOrders[m], b)
    BY <2>6, <1>2, DrainKeeps
  <2>8. /\ context'[k] = a /\ \A x \in ContextKeys : x # k => context'[x] = context[x]
        /\ stateRx'[k] = Take(stateRx[k])
    BY <2>2, <2>4, <1>5
  <2>9. CopiesInOrder'
    <3>1. \A x \in ContextKeys :
            Known(context[x])' /\ \A b \in Elems(stateRx'[x].q) : NoNewer(context'[x], b)
      BY <2>3, <2>5, <2>7, <2>8, <1>1, <1>2 DEF CopiesInOrder, Known
    <3>2. \A m \in OpenOrdersTasks : Known(openOrders[m])'
      BY <1>1, <1>2 DEF CopiesInOrder, Known
    <3> QED
      BY <2>7, <3>1, <3>2, <1>2 DEF CopiesInOrder
  <2>10. KeptIsOwn'
    BY <2>5, <2>8, <1>1, <1>2 DEF KeptIsOwn
  <2>11. KeptForwards
    BY <2>5, <2>8, <1>1, <1>2 DEF KeptForwards, Forwards, KeptIsOwn
  <2> QED
    BY <1>1, <1>3, <2>7, <2>9, <2>10, <2>11 DEF OInv
<1>7. CASE \/ \E k \in ContextKeys : RecvContextLagged(k)
           \/ ContextStop(shutdown)
  <2>1. context' = context /\ \A x \in StateKeys : stateRx'[x].q = stateRx[x].q
    <3>1. CASE \E k \in ContextKeys : RecvContextLagged(k)
      <4>1. PICK k \in ContextKeys : RecvContextLagged(k)
        BY <3>1
      <4>2. k \in StateKeys /\ SkipLag(stateRx[k]).q = stateRx[k].q
        BY <1>4, SkipLagKeeps DEF ContextKeys
      <4> QED
        BY <4>1, <4>2, <1>5 DEF RecvContextLagged, contextVars
    <3>2. CASE ContextStop(shutdown)
      BY <3>2 DEF ContextStop
    <3> QED
      BY <3>1, <3>2, <1>7
  <2>2. CopiesInOrder' /\ ChannelsAreOwn' /\ KeptIsOwn'
    <3>1. ChannelsAreOwn'
      BY <2>1 DEF OInv, ChannelsAreOwn, StateKeys
    <3>2. CopiesInOrder'
      BY <2>1, <1>1, <1>2, OpenOrdersIsKept DEF CopiesInOrder, Known, ContextKeys
    <3> QED
      BY <3>1, <3>2, <2>1, <1>1, <1>2 DEF KeptIsOwn
  <2>3. KeptForwards
    BY <2>1, <1>2, NothingKeptMoves
  <2> QED
    BY <1>1, <1>3, <2>2, <2>3 DEF OInv
<1> QED
  BY <1>6, <1>7 DEF ContextNext, ContextTurn

LEMMA HandlerOInv ==
  ASSUME OInv, NEW m \in Markets, HandlerNext(m)
  PROVE  OInv' /\ KeptForwards
<1>1. IInv /\ IInv' /\ CopiesInOrder /\ KeptIsOwn /\ BooksAreKnown
  BY HandlerIInv DEF OInv
<1>2. UNCHANGED <<cache, snapshot, held, provRunning, context, books, updated>>
  BY DEF HandlerNext, HandlerTurn, cacheVars, aisVars, provVars, contextVars, bookVars,
         RecvOpenOrders, RecvOpenOrdersLagged, RecvBook, RecvBookLagged, HandlerStop
<1>3. EntriesAreOwn'
  BY <1>2 DEF OInv, EntriesAreOwn
<1>4. \A k \in StateKeys : stateRx[k] \in RxOf(AccountState) /\ InOrder(stateRx[k].q)
  BY <1>1, KeptTypes DEF CopiesInOrder
<1>5. /\ openOrders \in [OpenOrdersTasks -> AccountState \cup {None}]
      /\ stateRx \in [StateKeys -> RxOf(AccountState)]
      /\ orderbook \in [BookTasks -> BookTasks \cup {None}]
      /\ bookRx \in [BookTasks -> RxOf(BookTasks)]
  BY <1>1 DEF IInv, TypeOK, HandlerTypeOK, StateRxTypeOK, BookTypeOK
<1>6. CASE m \in OpenOrdersTasks /\ RecvOpenOrders(m)
  <2> DEFINE k == OpenOrdersKey[m]
             a == Head(stateRx[k].q)
  <2>1. k \in StateKeys /\ stateRx[k] \in RxOf(AccountState) /\ CanTake(stateRx[k])
    BY <1>4, <1>6, OpenOrdersIsKept DEF RecvOpenOrders
  <2>2. /\ a \in AccountState /\ a \in Elems(stateRx[k].q)
        /\ Elems(Take(stateRx[k]).q) \subseteq Elems(stateRx[k].q)
        /\ InOrder(Take(stateRx[k]).q)
        /\ \A b \in Elems(Take(stateRx[k]).q) : NoNewer(a, b)
    BY <2>1, <1>4, TakeKeeps, TakeInOrder
  <2>3. /\ stateRx' = [stateRx EXCEPT ![k] = Take(@)]
        /\ openOrders' = [openOrders EXCEPT ![m] = IF a.key = k THEN a ELSE @]
        /\ UNCHANGED <<bookRx, orderbook>>
    BY <1>6 DEF RecvOpenOrders, bookVars
  <2>4. Known(a) /\ NoNewer(openOrders[m], a) /\ a # None
    BY <2>1, <2>2, <1>1, <1>6, CacheAssumption DEF CopiesInOrder
  <2> HIDE DEF a
  <2>5. \A x \in StateKeys : /\ InOrder(stateRx'[x].q)
                             /\ Elems(stateRx'[x].q) \subseteq Elems(stateRx[x].q)
    BY <2>1, <2>2, <2>3, <1>4, <1>5
  <2>6. /\ ChannelsAreOwn'
        /\ \A x \in StateKeys : InOrder(stateRx'[x].q) /\ \A b \in Elems(stateRx'[x].q) : Known(b)'
        /\ \A x \in ContextKeys : \A b \in Elems(stateRx'[x].q) : NoNewer(context[x], b)
        /\ \A n \in OpenOrdersTasks : \A b \in Elems(stateRx'[OpenOrdersKey[n]].q) :
             NoNewer(openOrders[n], b)
    BY <2>5, <1>2, DrainKeeps
  <2>7. /\ openOrders'[m] = openOrders[m] \/ (openOrders'[m] = a /\ a.key = k)
        /\ \A n \in OpenOrdersTasks : n # m => openOrders'[n] = openOrders[n]
        /\ stateRx'[k] = Take(stateRx[k])
    BY <2>1, <2>3, <1>5, <1>6
  <2>8. CopiesInOrder'
    <3>1. \A n \in OpenOrdersTasks :
            /\ Known(openOrders[n])'
            /\ \A b \in Elems(stateRx'[OpenOrdersKey[n]].q) : NoNewer(openOrders'[n], b)
      BY <2>2, <2>4, <2>6, <2>7, <1>1, <1>2 DEF CopiesInOrder, Known
    <3>2. \A x \in ContextKeys : Known(context[x])'
      BY <1>1, <1>2 DEF CopiesInOrder, Known
    <3> QED
      BY <2>6, <3>1, <3>2, <1>2 DEF CopiesInOrder
  <2>9. KeptIsOwn'
    BY <2>3, <2>7, <1>1, <1>2 DEF KeptIsOwn
  <2>10. KeptForwards
    BY <2>3, <2>4, <2>7, <1>1, <1>2 DEF KeptForwards, Forwards, KeptIsOwn
  <2>11. BooksAreKnown'
    BY <2>3, <1>1, <1>2 DEF BooksAreKnown, Known, Handling
  <2> QED
    BY <1>1, <1>3, <2>6, <2>8, <2>9, <2>10, <2>11 DEF OInv
<1>7. CASE m \in BookTasks /\ RecvBook(m)
  <2>1. /\ bookRx' = [bookRx EXCEPT ![m] = Take(@)]
        /\ orderbook' = [orderbook EXCEPT ![m] = IF Head(bookRx[m].q) = m THEN m ELSE @]
        /\ UNCHANGED <<stateRx, openOrders>>
    BY <1>7 DEF RecvBook
  <2>2. Head(bookRx[m].q) \in Elems(bookRx[m].q) /\ Elems(Take(bookRx[m]).q) \subseteq Elems(bookRx[m].q)
    BY <1>5, <1>7, TakeKeeps DEF RecvBook
  <2>3. \A n \in BookTasks : /\ orderbook'[n] = orderbook[n] \/ (orderbook'[n] = n /\ books[n] # None)
                             /\ Elems(bookRx'[n].q) \subseteq Elems(bookRx[n].q)
    BY <2>1, <2>2, <1>1, <1>5, <1>7 DEF BooksAreKnown
  <2>4. \A n \in BookTasks : n # None
    BY NoneIsNoBook DEF BookTasks
  <2>5. CopiesInOrder' /\ ChannelsAreOwn' /\ BooksAreKnown' /\ KeptIsOwn'
    <3>1. CopiesInOrder' /\ ChannelsAreOwn'
      BY <2>1, <1>1, <1>2 DEF OInv, CopiesInOrder, ChannelsAreOwn, Known
    <3>2. BooksAreKnown'
      BY <2>3, <1>1, <1>2 DEF BooksAreKnown, Known, Handling
    <3>3. KeptIsOwn'
      BY <2>1, <2>3, <1>1, <1>2 DEF KeptIsOwn
    <3> QED
      BY <3>1, <3>2, <3>3
  <2>6. KeptForwards
    BY <2>1, <2>3, <2>4, <1>1, <1>2 DEF KeptForwards, Forwards, KeptIsOwn
  <2> QED
    BY <1>1, <1>3, <2>5, <2>6 DEF OInv
<1>8. CASE \/ m \in OpenOrdersTasks /\ RecvOpenOrdersLagged(m)
           \/ m \in BookTasks /\ RecvBookLagged(m)
           \/ HandlerStop(m, shutdown)
  <2>1. openOrders' = openOrders /\ orderbook' = orderbook
    BY <1>8 DEF RecvOpenOrdersLagged, RecvBookLagged, HandlerStop, handlerVars
  <2>2. \A x \in StateKeys : stateRx'[x].q = stateRx[x].q
    <3>1. CASE m \in OpenOrdersTasks /\ RecvOpenOrdersLagged(m)
      <4>1. OpenOrdersKey[m] \in StateKeys
        BY <3>1, OpenOrdersIsKept
      <4>2. SkipLag(stateRx[OpenOrdersKey[m]]).q = stateRx[OpenOrdersKey[m]].q
        BY <4>1, <1>4, SkipLagKeeps
      <4> QED
        BY <3>1, <4>1, <4>2, <1>5 DEF RecvOpenOrdersLagged
    <3>2. CASE (m \in BookTasks /\ RecvBookLagged(m)) \/ HandlerStop(m, shutdown)
      BY <3>2 DEF RecvBookLagged, HandlerStop
    <3> QED
      BY <3>1, <3>2, <1>8
  <2>3. \A n \in BookTasks : bookRx'[n].q = bookRx[n].q
    <3>1. CASE m \in BookTasks /\ RecvBookLagged(m)
      <4>1. SkipLag(bookRx[m]).q = bookRx[m].q
        BY <3>1, <1>5, SkipLagKeeps
      <4> QED
        BY <3>1, <4>1, <1>5 DEF RecvBookLagged
    <3>2. CASE (m \in OpenOrdersTasks /\ RecvOpenOrdersLagged(m)) \/ HandlerStop(m, shutdown)
      BY <3>2 DEF RecvOpenOrdersLagged, HandlerStop, bookVars
    <3> QED
      BY <3>1, <3>2, <1>8
  <2>4. CopiesInOrder'
    BY <2>1, <2>2, <1>1, <1>2, OpenOrdersIsKept DEF CopiesInOrder, Known, ContextKeys
  <2>5. ChannelsAreOwn'
    BY <2>2 DEF OInv, ChannelsAreOwn, StateKeys
  <2>6. BooksAreKnown' /\ KeptIsOwn'
    BY <2>1, <2>3, <1>1, <1>2 DEF BooksAreKnown, Known, Handling, KeptIsOwn
  <2>7. KeptForwards
    BY <2>1, <1>2, NothingKeptMoves
  <2> QED
    BY <1>1, <1>3, <2>4, <2>5, <2>6, <2>7 DEF OInv
<1> QED
  BY <1>6, <1>7, <1>8 DEF HandlerNext, HandlerTurn

---------------------------------------------------------------------------
(* The invariant and the refinement. *)

LEMMA InitOInv == Init => OInv
<1> SUFFICES ASSUME Init PROVE OInv
  OBVIOUS
<1>1. IInv
  BY InitIInv
<1> USE DEF Init, CacheInit, StateRxInit, BookInit, ContextInit, HandlerInit
<1>2. EntriesAreOwn
  BY DEF EntriesAreOwn
<1>3. \A k \in StateKeys : Elems(stateRx[k].q) = {} /\ InOrder(stateRx[k].q)
  BY DEF EmptyRx, Elems, InOrder
<1>4. CopiesInOrder
  BY <1>3, OpenOrdersIsKept DEF CopiesInOrder, Known, KnownIn, ContextKeys
<1>5. ChannelsAreOwn
  BY <1>3 DEF ChannelsAreOwn, StateKeys
<1>6. KeptIsOwn
  <2>1. \A m \in BookTasks : m # None
    BY NoneIsNoBook DEF BookTasks
  <2> QED
    BY <2>1 DEF KeptIsOwn
<1>7. BooksAreKnown
  BY DEF BooksAreKnown, EmptyRx, Elems
<1> QED
  BY <1>1, <1>2, <1>4, <1>5, <1>6, <1>7 DEF OInv

\* A step of the service may show the next state and moves no copy; another
\* step leaves the node alone and moves the copies forward.
LEMMA NextOInv ==
  ASSUME OInv, [Next]_vars
  PROVE  /\ OInv'
         /\ \/ KeptForwards /\ snapshot' = snapshot
            \/ /\ snapshot' \in {snapshot, snapshot + 1}
               /\ UNCHANGED <<books, context, openOrders, orderbook>>
<1> USE DEF sinkVars, contextVars, handlerVars, bookVars, aisVars
<1>1. CASE ServiceNext
  <2>1. IInv /\ IInv' /\ EntriesAreOwn
    BY <1>1, ServiceIInv DEF OInv
  <2>2. CacheGrows /\ EntriesAreOwn' /\ snapshot' \in {snapshot, snapshot + 1}
    BY <1>1, <2>1, ServiceGrows
  <2>3. UNCHANGED <<provVars, stateRx, bookVars, sinkVars>>
    BY <1>1 DEF ServiceNext, ServiceTurn
  <2>4. (CopiesInOrder /\ ChannelsAreOwn /\ KeptIsOwn /\ BooksAreKnown)'
    BY <2>1, <2>2, <2>3, GrowKeeps
  <2> QED
    BY <2>1, <2>2, <2>3, <2>4 DEF OInv
<1>2. CASE \E p \in Providers : ProviderLoop(p)
  BY <1>2, LoopOInv DEF ProviderLoop, LoopTurn
<1>3. CASE \E p \in StateProvider : StateProviderNext(p)
  BY <1>3, ForwardOInv DEF StateProviderNext
<1>4. CASE \E m \in BookTasks : BookProviderNext(m)
  BY <1>4, BookProviderOInv DEF BookProviderNext
<1>5. CASE ContextNext
  BY <1>5, ContextOInv DEF ContextNext, ContextTurn
<1>6. CASE \E m \in Markets : HandlerNext(m)
  BY <1>6, HandlerOInv DEF HandlerNext, HandlerTurn
<1>7. CASE Shutdown \/ UNCHANGED vars
  <2>1. UNCHANGED <<cacheVars, aisVars, provVars, stateRx, bookVars, sinkVars>>
    BY <1>7 DEF Shutdown, vars
  <2>2. IInv /\ shutdown' \in BOOLEAN
    BY <1>7 DEF Shutdown, vars, OInv, IInv, TypeOK
  <2>3. IInv'
    BY <2>1, <2>2, UnchangedIInv
  <2>4. (EntriesAreOwn /\ CopiesInOrder /\ ChannelsAreOwn /\ KeptIsOwn /\ BooksAreKnown)'
    BY <2>1 DEF cacheVars, provVars, OInv, EntriesAreOwn, CopiesInOrder, Known,
                ChannelsAreOwn, KeptIsOwn, BooksAreKnown, Handling
  <2>5. KeptForwards
    BY <2>1, NothingKeptMoves
  <2> QED
    BY <2>1, <2>3, <2>4, <2>5 DEF OInv
<1> QED
  BY <1>1, <1>2, <1>3, <1>4, <1>5, <1>6, <1>7 DEF Next

\* Popping an account adds it to those that the cache has from this answer, and
\* no other step of the service touches the cache before the next answer.
LEMMA ServiceDrained ==
  ASSUME IInv, DrainedIsCached, ServiceNext
  PROVE  DrainedIsCached'
<1>1. /\ CacheTypeOK /\ AisTypeOK /\ PopInRange
      /\ BatchLen \in Nat /\ aisLeft \in Nat
      /\ \A i \in 1..BatchLen : Keys[aisFrom + i] \in Key
  BY BatchFacts DEF IInv, TypeOK, AisTypeOK, AccountKey
<1> DEFINE In(i) == Answer(i) # None => cache[Keys[aisFrom + i]] = Answer(i)
<1>2. CASE aisPc' \notin {"insert", "notify"}
  BY <1>2 DEF DrainedIsCached
<1>3. CASE aisPc' \in {"insert", "notify"} /\ FetchOk
  <2>1. aisLeft' = BatchLen /\ BatchLen' = BatchLen
    BY <1>3 DEF FetchOk, BatchLen
  <2>2. (aisLeft' + 1)..BatchLen' = {}
    BY <1>1, <2>1
  <2> QED
    BY <2>2 DEF DrainedIsCached
<1>4. CASE aisPc' \in {"insert", "notify"} /\ InsertInfo
  <2>1. /\ aisPc = "insert" /\ aisLeft' = aisLeft - 1 /\ aisLeft \in 1..BatchLen
        /\ UNCHANGED <<snapshot, aisFrom>>
    BY <1>1, <1>4, BatchFacts DEF InsertInfo, AfterInfo, PopInRange
  <2>2. /\ \/ Answer(aisLeft) = None /\ UNCHANGED cache
           \/ cache' = [cache EXCEPT ![Keys[aisFrom + aisLeft]] = Answer(aisLeft)]
        /\ Keys[aisFrom + aisLeft] \in Key
    BY <1>1, <1>4, <2>1 DEF InsertInfo, MapInsert, AccountKey
  <2>3. \A i \in 1..BatchLen : Keys[aisFrom + i] = Keys[aisFrom + aisLeft]
                                => Answer(i) = Answer(aisLeft)
    BY DEF Answer
  <2>4. \A i \in (aisLeft + 1)..BatchLen : i \in 1..BatchLen /\ In(i)
    BY <1>1, <2>1 DEF DrainedIsCached
  <2>5. /\ BatchLen' = BatchLen
        /\ \A i : Answer(i)' = Answer(i)
    BY <2>1 DEF BatchLen, Answer
  <2>6. ASSUME NEW i \in aisLeft..BatchLen, Answer(i) # None
        PROVE  cache'[Keys[aisFrom + i]] = Answer(i)
    <3>1. i \in 1..BatchLen /\ (i = aisLeft \/ i \in (aisLeft + 1)..BatchLen)
      BY <1>1, <2>1
    <3> HIDE DEF In
    <3>2. CASE Keys[aisFrom + i] = Keys[aisFrom + aisLeft]
      <4>1. Answer(aisLeft) = Answer(i)
        BY <2>3, <3>1, <3>2
      <4> QED
        BY <1>1, <2>2, <2>6, <3>2, <4>1 DEF CacheTypeOK
    <3>3. CASE Keys[aisFrom + i] # Keys[aisFrom + aisLeft]
      <4>1. i # aisLeft
        BY <3>3
      <4>2. cache[Keys[aisFrom + i]] = Answer(i)
        BY <2>4, <2>6, <3>1, <4>1 DEF In
      <4>3. cache'[Keys[aisFrom + i]] = cache[Keys[aisFrom + i]]
        BY <1>1, <2>2, <3>1, <3>3 DEF CacheTypeOK
      <4> QED
        BY <4>2, <4>3
    <3> QED
      BY <3>2, <3>3
  <2>7. (aisLeft' + 1)..BatchLen' = aisLeft..BatchLen
    BY <1>1, <2>1, <2>5
  <2> QED
    BY <2>1, <2>5, <2>6, <2>7 DEF DrainedIsCached
<1>5. CASE aisPc' \in {"insert", "notify"} /\ NotifyKey
  <2>1. aisPc = "notify" /\ UNCHANGED <<snapshot, aisFrom, aisLeft, cache>>
    BY <1>1, <1>5, BatchFacts DEF NotifyKey, AfterInfo
  <2> QED
    BY <2>1 DEF DrainedIsCached, BatchLen, Answer
<1>6. CASE FetchErr \/ Wake \/ AisStop(shutdown)
  <2>1. aisPc' \notin {"insert", "notify"}
    BY <1>1, <1>6, BatchFacts DEF FetchErr, Wake, AisStop
  <2> QED
    BY <2>1, <1>2
<1> QED
  BY <1>2, <1>3, <1>4, <1>5, <1>6 DEF ServiceNext, ServiceTurn

\* Every entry of the cache is the account of its key as an answer showed it, and
\* what was popped of the answer under way is in the cache as this answer has it:
\* the pairing of answers with keys in update_infos is right for every number of
\* accounts, every size of a batch and any accounts missing from an answer.
THEOREM CacheIsFaithful == Spec => []CacheFaithful
<1>1. OInv /\ [Next]_vars => OInv'
  BY NextOInv
<1>2. Init => DrainedIsCached
  BY DEF Init, AisInit, DrainedIsCached
<1>3. OInv /\ DrainedIsCached /\ [Next]_vars => DrainedIsCached'
  <2> SUFFICES ASSUME OInv, DrainedIsCached, [Next]_vars PROVE DrainedIsCached'
    OBVIOUS
  <2>1. CASE ServiceNext
    BY <2>1, ServiceDrained DEF OInv
  <2>2. CASE UNCHANGED <<cache, aisVars>>
    BY <2>2 DEF DrainedIsCached, BatchLen, Answer, aisVars
  <2>3. ServiceNext \/ UNCHANGED <<cache, aisVars>>
    BY DEF Next, vars, cacheVars, Shutdown, ProviderLoop, LoopTurn, RecvKey, RecvKeyLagged,
           ProviderStop, StateProviderNext, Forward, BookProviderNext, ObApply, ObSend,
           ContextNext, ContextTurn, HandlerNext, HandlerTurn
  <2> QED
    BY <2>1, <2>2, <2>3
<1> QED
  BY InitOInv, <1>1, <1>2, <1>3, PTL DEF Spec, OInv, CacheFaithful

\* No task keeps, or a book has in the place of, another account than its own.
THEOREM CopiesAreOwn == Spec => []KeptIsOwn
<1>1. OInv /\ [Next]_vars => OInv'
  BY NextOInv
<1> QED
  BY InitOInv, <1>1, PTL DEF Spec, OInv

\* A viewer is one of four kinds of copy.
LEMMA ViewerKinds ==
  ASSUME NEW v \in Viewers
  PROVE  \/ \E k \in ContextKeys :
              AccountOf(v) = k /\ KeptBy(v) = context[k] /\ KeptBy(v)' = context'[k]
         \/ \E m \in OpenOrdersTasks :
              /\ AccountOf(v) = OpenOrdersKey[m]
              /\ KeptBy(v) = openOrders[m] /\ KeptBy(v)' = openOrders'[m]
         \/ \E m \in BookTasks :
              /\ AccountOf(v) = BidsKey[m]
              /\ KeptBy(v) = IF orderbook[m] = None THEN None ELSE books[m].bids
              /\ KeptBy(v)' = IF orderbook'[m] = None THEN None ELSE books'[m].bids
         \/ \E m \in BookTasks :
              /\ AccountOf(v) = AsksKey[m]
              /\ KeptBy(v) = IF orderbook[m] = None THEN None ELSE books[m].asks
              /\ KeptBy(v)' = IF orderbook'[m] = None THEN None ELSE books'[m].asks
<1>1. CASE \E k \in ContextKeys : v = <<"context", k>>
  BY <1>1 DEF AccountOf, KeptBy
<1>2. CASE \E m \in OpenOrdersTasks : v = <<"openOrders", m>>
  BY <1>2 DEF AccountOf, KeptBy
<1>3. CASE \E m \in BookTasks : v = <<"bids", m>>
  BY <1>3 DEF AccountOf, KeptBy
<1>4. CASE \E m \in BookTasks : v = <<"asks", m>>
  BY <1>4 DEF AccountOf, KeptBy
<1> QED
  BY <1>1, <1>2, <1>3, <1>4 DEF Viewers

\* What a viewer shows is a state that was shown and has the account.
LEMMA ShownIsKnown ==
  ASSUME OInv, NEW v \in Viewers, KeptBy(v) # None
  PROVE  /\ KeptBy(v).key = AccountOf(v)
         /\ KeptBy(v).snap \in Nat \ {0}
         /\ KeptBy(v).snap <= snapshot
         /\ KeptBy(v).snap \in ViewHistory[v]
<1> DEFINE a == KeptBy(v)
<1>1. a \in AccountState /\ Known(a) /\ a.key = AccountOf(v)
  <2>1. IInv /\ CopiesInOrder /\ KeptIsOwn /\ BooksAreKnown
    BY DEF OInv
  <2> QED
    BY <2>1, ViewerKinds, KeptTypes DEF CopiesInOrder, KeptIsOwn, BooksAreKnown
<1> HIDE DEF a
<1>2. a.key \in Key /\ a.snap \in Nat \ {0} /\ a # None
  BY <1>1, CacheAssumption DEF AccountState
<1>3. /\ cache[a.key] # None /\ a.snap <= cache[a.key].snap
      /\ a.key \notin Absent[a.snap]
  BY <1>1, <1>2 DEF Known, KnownIn
<1>4. cache[a.key] \in AccountState /\ cache[a.key].snap <= snapshot
  BY <1>2, <1>3 DEF OInv, IInv, TypeOK, CacheTypeOK, EntriesAreOwn
<1>5. cache[a.key].snap \in Nat /\ snapshot \in 0..MaxSnapshot /\ MaxSnapshot \in Nat
  BY <1>4, ServiceAssumption DEF AccountState, OInv, IInv, TypeOK, AisTypeOK
<1>6. a.snap <= snapshot /\ a.snap \in 1..MaxSnapshot
  BY <1>2, <1>3, <1>4, <1>5
<1>7. a.snap \in ViewHistory[v]
  BY <1>1, <1>3, <1>6 DEF ViewHistory
<1> QED
  BY <1>1, <1>2, <1>6, <1>7 DEF a

LEMMA ViewerForwards ==
  ASSUME OInv, KeptForwards, NEW v \in Viewers
  PROVE  KeptBy(v) = None \/ Forwards(KeptBy(v), KeptBy(v)')
BY ViewerKinds DEF KeptForwards

\* A step of the tasks is a step of Mirror: no copy goes back.
LEMMA MirrorStep ==
  ASSUME OInv, [Next]_vars
  PROVE  OInv' /\ [M!Next]_<<snapshot, View>>
<1>1. OInv'
  BY NextOInv
<1>2. snapshot \in Nat
  BY DEF OInv, IInv, TypeOK, AisTypeOK
<1>3. CASE KeptForwards /\ snapshot' = snapshot
  <2>1. ASSUME NEW v \in Viewers
        PROVE  \/ View'[v] = View[v]
               \/ View[v] < View'[v] /\ View'[v] <= snapshot /\ View'[v] \in ViewHistory[v]
    <3>1. /\ View[v] = IF KeptBy(v) = None THEN 0 ELSE KeptBy(v).snap
          /\ View'[v] = IF KeptBy(v)' = None THEN 0 ELSE KeptBy(v)'.snap
      BY DEF View
    <3>2. KeptBy(v) # None => /\ KeptBy(v).key = AccountOf(v)
                              /\ KeptBy(v).snap \in Nat \ {0}
      BY ShownIsKnown
    <3>3. KeptBy(v)' # None => /\ KeptBy(v)'.key = AccountOf(v)
                               /\ KeptBy(v)'.snap \in Nat \ {0}
                               /\ KeptBy(v)'.snap <= snapshot
                               /\ KeptBy(v)'.snap \in ViewHistory[v]
      <4>1. (OInv /\ KeptBy(v) # None => /\ KeptBy(v).key = AccountOf(v)
                                         /\ KeptBy(v).snap \in Nat \ {0}
                                         /\ KeptBy(v).snap <= snapshot
                                         /\ KeptBy(v).snap \in ViewHistory[v])'
        BY ShownIsKnown, PTL
      <4> QED
        BY <1>1, <1>3, <4>1 DEF AccountOf, ViewHistory
    <3>4. KeptBy(v) = None \/ Forwards(KeptBy(v), KeptBy(v)')
      BY <1>3, ViewerForwards
    <3> QED
      BY <3>1, <3>2, <3>3, <3>4 DEF Forwards, NoNewer
  <2>2. DOMAIN View' = Viewers
    BY DEF View
  <2> QED
    BY <1>1, <1>3, <2>1, <2>2 DEF M!Next, M!Deliver
<1>4. CASE /\ snapshot' \in {snapshot, snapshot + 1}
           /\ UNCHANGED <<books, context, openOrders, orderbook>>
  <2>1. View' = View
    <3>1. \A v \in Viewers : KeptBy(v)' = KeptBy(v)
      BY <1>4 DEF KeptBy
    <3> QED
      BY <3>1 DEF View
  <2> QED
    BY <1>1, <1>4, <2>1 DEF M!Next, M!Publish
<1> QED
  BY <1>1, <1>3, <1>4, NextOInv

\* The pipeline implements Mirror: the copies the commands read never go back.
THEOREM ImplementsMirror == Spec => MirrorSpec
<1>1. Init => M!Init
  <2> SUFFICES ASSUME Init PROVE \A v \in Viewers : KeptBy(v) = None
    BY DEF M!Init, View, Init, AisInit
  <2> QED
    BY ViewerKinds DEF Init, ContextInit, HandlerInit
<1>2. OInv /\ [Next]_vars => OInv' /\ [M!Next]_<<snapshot, View>>
  BY MirrorStep
<1> QED
  BY InitOInv, <1>1, <1>2, PTL DEF Spec, MirrorSpec, M!Spec

---------------------------------------------------------------------------
(* Nothing is lost: what differs from the cache is going to be replaced. *)

\* A write of k is announced to every provider, and the announcement waits for
\* the provider.
LEMMA ServiceAnnounces ==
  ASSUME IInv, ServiceNext, NEW p \in Providers, NEW k \in Key,
         KeyPending(p, k) \/ cache'[k] # cache[k]
  PROVE  KeyPending(p, k)'
<1>1. UNCHANGED <<held, updated>>
  BY DEF ServiceNext, ServiceTurn, provVars, bookVars
<1>2. CacheTypeOK /\ AisTypeOK /\ PopInRange
  BY DEF IInv, TypeOK
<1>3. CASE NotifyKey
  <2> DEFINE x == AccountKey(aisLeft + 1)
  <2>1. aisLeft + 1 \in 1..BatchLen
    BY <1>2, <1>3, BatchFacts DEF NotifyKey, AisTypeOK, PopInRange
  <2>2. x \in Key /\ keyRx[p] \in RxOf(Key) /\ cache' = cache
    BY <2>1, <1>2, <1>3, BatchFacts DEF NotifyKey, CacheTypeOK
  <2>3. keyRx'[p] = Push(keyRx[p], x, KeyCap)
    BY <1>3 DEF NotifyKey, Notify
  <2> HIDE DEF x
  <2>4. PendingIn(keyRx[p], k) \/ k = x => PendingIn(keyRx'[p], k)
    BY <2>2, <2>3, PushKeeps, CacheAssumption
  <2> QED
    BY <2>2, <2>4, <1>1 DEF KeyPending, x
<1>4. CASE InsertInfo /\ cache' # cache
  <2> DEFINE x == AccountKey(aisLeft)
  <2>1. /\ aisPc = "insert" /\ aisPc' = "notify" /\ keyRx' = keyRx
        /\ aisLeft' = aisLeft - 1 /\ aisFrom' = aisFrom
        /\ cache' = [cache EXCEPT ![x] = Answer(aisLeft)]
    BY <1>4 DEF InsertInfo, MapInsert
  <2>2. AccountKey(aisLeft + 1)' = x
    BY <2>1, <1>2 DEF AccountKey, AisTypeOK
  <2> HIDE DEF x
  <2>3. cache'[k] # cache[k] => k = x
    BY <2>1, <1>2 DEF CacheTypeOK
  <2> QED
    BY <2>1, <2>2, <2>3, <1>1 DEF KeyPending
<1>5. CASE UNCHANGED cacheVars /\ aisPc # "notify"
  BY <1>1, <1>5 DEF KeyPending, cacheVars
<1> QED
  BY <1>3, <1>4, <1>5 DEF ServiceNext, ServiceTurn, FetchOk, FetchErr, InsertInfo, Wake,
                          AisStop, cacheVars

\* The order book provider does not wait for keys while it has a book to send.
LEMMA UpdatedIsHeld ==
  ASSUME OInv, updated
  PROVE  held["orderbook"] # None
BY CacheAssumption DEF OInv, BooksAreKnown, Handling, BookTasks, Key

\* The keys of a provider are keys.
LEMMA WatchedIsKey ==
  ASSUME NEW p \in Providers, NEW k \in Watched[p]
  PROVE  k \in Key /\ k # None
<1>1. k \in Key
  BY ProvidersAssumption DEF Watched, Key
<1> QED
  BY <1>1, CacheAssumption

\* A provider that takes a key of its own has it in its hands.
LEMMA LoopKeepsPending ==
  ASSUME OInv, NEW q \in Providers, ProviderLoop(q),
         NEW p \in Providers, NEW k \in Watched[p], KeyPending(p, k)
  PROVE  KeyPending(p, k)'
<1>1. CacheTypeOK /\ ProvTypeOK /\ keyRx[p] \in RxOf(Key)
  BY DEF OInv, IInv, TypeOK, CacheTypeOK
<1>2. UNCHANGED <<updated, aisPc, aisFrom, aisLeft>> /\ held[q] = None
  BY DEF ProviderLoop, LoopTurn, aisVars, bookVars, RecvKey, RecvKeyLagged, ProviderStop, Waiting
<1>3. AccountKey(aisLeft + 1)' = AccountKey(aisLeft + 1)
  BY <1>2 DEF AccountKey
<1>4. k # None
  BY WatchedIsKey
<1>5. CASE p # q \/ ~RecvKey(q)
  <2>1. held'[p] = held[p] /\ (PendingIn(keyRx[p], k) => PendingIn(keyRx'[p], k))
    BY <1>1, <1>5, SkipLagKeeps DEF ProviderLoop, LoopTurn, RecvKey, RecvKeyLagged, ProviderStop,
                                    provVars, cacheVars, CacheTypeOK, ProvTypeOK
  <2> QED
    BY <2>1, <1>2, <1>3 DEF KeyPending
<1>6. CASE p = q /\ RecvKey(q)
  <2> DEFINE x == Head(keyRx[p].q)
  <2>1. CanTake(keyRx[p])
    BY <1>6 DEF RecvKey
  <2>2. PendingIn(keyRx[p], k) => PendingIn(Take(keyRx[p]), k) \/ k = x
    BY <2>1, <1>1, TakeKeeps
  <2>3. /\ keyRx'[p] = Take(keyRx[p])
        /\ held'[p] = IF x \in Watched[p] THEN x ELSE None
    BY <1>1, <1>6 DEF RecvKey, CacheTypeOK, ProvTypeOK
  <2>4. ~(p = "orderbook" /\ updated)
    BY <1>2, <1>6, UpdatedIsHeld
  <2> HIDE DEF x
  <2> QED
    BY <2>2, <2>3, <2>4, <1>2, <1>3, <1>4, <1>6 DEF KeyPending
<1> QED
  BY <1>5, <1>6

\* A key stays pending while nobody works on it.
LEMMA PendingStays ==
  ASSUME NEW p \in Providers, NEW k \in Key, KeyPending(p, k),
         UNCHANGED <<keyRx, aisVars>>,
         held[p] = k /\ ~(p = "orderbook" /\ updated) =>
           held'[p] = k /\ ~(p = "orderbook" /\ updated')
  PROVE  KeyPending(p, k)'
BY DEF KeyPending, aisVars, AccountKey

\* What StaleCopyIsPending says of one account of one provider.
CopyFollows(p, k) ==
  \/ CopyIs(k, cache[k])
  \/ KeyPending(p, k)
  \/ PendingIn(stateRx[k], cache[k])

\* A copy that waits behind the newest one is equal to it.
LEMMA NothingNewerWaits ==
  ASSUME OInv, NEW k \in Key, NEW a \in AccountState, Known(a), a.key = k,
         cache[k] # None, NoNewer(cache[k], a)
  PROVE  a = cache[k]
<1>1. cache[k] \in AccountState /\ cache[k].key = k
  BY CacheIsNewest DEF OInv
<1>2. a # None
  BY CacheAssumption
<1>3. a.snap <= cache[k].snap /\ cache[k].snap <= a.snap
  BY <1>1, <1>2 DEF Known, KnownIn, NoNewer
<1> QED
  BY <1>1, <1>3 DEF AccountState

LEMMA ServiceFollows ==
  ASSUME OInv, ServiceNext, NEW p \in StateProvider, NEW k \in Watched[p], CopyFollows(p, k)
  PROVE  CopyFollows(p, k)'
<1>1. p \in Providers /\ k \in Key
  BY WatchedIsKey DEF StateProvider
<1>2. UNCHANGED <<stateRx, context, openOrders>>
  BY DEF ServiceNext, ServiceTurn, sinkVars, contextVars, handlerVars
<1>3. KeyPending(p, k) \/ cache'[k] # cache[k] => KeyPending(p, k)'
  BY <1>1, ServiceAnnounces DEF OInv
<1> QED
  BY <1>2, <1>3 DEF CopyFollows, CopyIs

LEMMA LoopFollows ==
  ASSUME OInv, NEW q \in Providers, ProviderLoop(q),
         NEW p \in StateProvider, NEW k \in Watched[p], CopyFollows(p, k)
  PROVE  CopyFollows(p, k)'
<1>1. UNCHANGED <<cache, stateRx, context, openOrders>>
  BY DEF ProviderLoop, LoopTurn, sinkVars, contextVars, handlerVars,
         RecvKey, RecvKeyLagged, ProviderStop, cacheVars
<1>2. KeyPending(p, k) => KeyPending(p, k)'
  BY LoopKeepsPending DEF StateProvider
<1> QED
  BY <1>1, <1>2 DEF CopyFollows, CopyIs

\* A provider lets go of a key when the copy is in the Receivers.
LEMMA ForwardFollows ==
  ASSUME OInv, NEW q \in StateProvider, StateProviderNext(q),
         NEW p \in StateProvider, NEW k \in Watched[p], CopyFollows(p, k)
  PROVE  CopyFollows(p, k)'
<1> DEFINE a == cache[held[q]]
           T == AccountState
<1>1. /\ UNCHANGED <<cache, keyRx, aisVars, updated, context, openOrders>>
      /\ stateRx' = [x \in StateKeys |-> IF x \in Watched[q] THEN Push(stateRx[x], a, StateCap)
                                                             ELSE stateRx[x]]
      /\ held' = [held EXCEPT ![q] = None] /\ held[q] # None
  BY DEF StateProviderNext, Forward, cacheVars, bookVars, sinkVars, contextVars, handlerVars
<1>2. p \in Providers /\ q \in Providers /\ k \in Key /\ k \in StateKeys
  BY WatchedIsKey DEF StateProvider, StateKeys
<1>3. IInv /\ ProvTypeOK
  BY DEF OInv, IInv, TypeOK
<1>4. a \in T /\ stateRx[k] \in RxOf(T)
  BY <1>1, <1>2, <1>3, KeptTypes DEF IInv, TypeOK, CacheTypeOK, ProvTypeOK, NotifiedIsCached
<1>5. \/ stateRx'[k] = stateRx[k] /\ p # q
      \/ stateRx'[k] = Push(stateRx[k], a, StateCap)
  BY <1>1, <1>2
<1> HIDE DEF a, T
<1>6. PendingIn(stateRx[k], cache[k]) => PendingIn(stateRx'[k], cache[k])
  BY <1>4, <1>5, PushKeeps, StateCapAssumption
<1>7. p = q => PendingIn(stateRx'[k], a)
  BY <1>4, <1>5, PushKeeps, StateCapAssumption
<1>8. CASE KeyPending(p, k) /\ ~(p = q /\ held[p] = k)
  <2>1. held[p] = k => held'[p] = k
    BY <1>1, <1>2, <1>3, <1>8 DEF ProvTypeOK
  <2> QED
    BY <2>1, <1>1, <1>2, <1>8, PendingStays DEF CopyFollows
<1>9. CASE p = q /\ held[p] = k
  BY <1>1, <1>7, <1>9 DEF CopyFollows, a
<1>10. CASE CopyIs(k, cache[k]) \/ PendingIn(stateRx[k], cache[k])
  BY <1>1, <1>6, <1>10 DEF CopyFollows, CopyIs
<1> QED
  BY <1>8, <1>9, <1>10 DEF CopyFollows

LEMMA BookProviderFollows ==
  ASSUME OInv, NEW m \in BookTasks, BookProviderNext(m),
         NEW p \in StateProvider, NEW k \in Watched[p], CopyFollows(p, k)
  PROVE  CopyFollows(p, k)'
<1>1. p # "orderbook" /\ p \in Providers /\ k \in Key
  BY WatchedIsKey DEF StateProvider
<1>2. UNCHANGED <<cache, keyRx, aisVars, stateRx, context, openOrders>> /\ held'[p] = held[p]
  BY <1>1 DEF BookProviderNext, ObApply, ObSend, cacheVars, provVars, sinkVars, contextVars,
              handlerVars, OInv, IInv, TypeOK, ProvTypeOK
<1>3. KeyPending(p, k) => KeyPending(p, k)'
  BY <1>1, <1>2, PendingStays
<1> QED
  BY <1>2, <1>3 DEF CopyFollows, CopyIs

\* The context takes the copies in order: behind the newest it finds no other.
LEMMA ContextFollows ==
  ASSUME OInv, ContextNext, NEW p \in StateProvider, NEW k \in Watched[p], CopyFollows(p, k)
  PROVE  CopyFollows(p, k)'
<1> DEFINE T == AccountState
<1>1. UNCHANGED <<cache, keyRx, aisVars, held, updated, openOrders>>
  BY DEF ContextNext, ContextTurn, cacheVars, provVars, bookVars, handlerVars
<1>2. p \in Providers /\ k \in Key /\ k \in StateKeys
  BY WatchedIsKey DEF StateProvider, StateKeys
<1>3. KeyPending(p, k) => KeyPending(p, k)'
  BY <1>1, <1>2, PendingStays
<1>4. stateRx \in [StateKeys -> RxOf(T)] /\ context \in [ContextKeys -> T \cup {None}]
  BY DEF OInv, IInv, TypeOK, StateRxTypeOK, ContextTypeOK
<1>5. CASE \E x \in ContextKeys : RecvContext(x)
  <2>1. PICK x \in ContextKeys : RecvContext(x)
    BY <1>5
  <2> DEFINE a == Head(stateRx[x].q)
  <2>2. /\ stateRx' = [stateRx EXCEPT ![x] = Take(@)] /\ context' = [context EXCEPT ![x] = a]
        /\ CanTake(stateRx[x]) /\ x \in StateKeys
    BY <2>1 DEF RecvContext, ContextKeys
  <2> HIDE DEF T
  <2>3. /\ a \in T /\ a \in Elems(stateRx[x].q)
        /\ PendingIn(stateRx[x], cache[x]) => PendingIn(Take(stateRx[x]), cache[x]) \/ cache[x] = a
    BY <2>2, <1>4, TakeKeeps
  <2>4. a.key = x /\ Known(a) /\ NoNewer(context[x], a)
    BY <2>2, <2>3, ContextHeadIsOwn DEF OInv, CopiesInOrder
  <2> HIDE DEF a
  <2>5. x = k /\ context[k] = cache[k] => a = cache[k]
    <3>1. cache[a.key] # None
      BY <2>3, <2>4, CacheAssumption DEF T, Known, KnownIn
    <3> QED
      BY <3>1, <2>3, <2>4, <1>2, NothingNewerWaits DEF T
  <2>6. CASE x = k
    BY <2>2, <2>3, <2>5, <2>6, <1>1, <1>3, <1>4 DEF CopyFollows, CopyIs
  <2>7. CASE x # k
    <3>1. stateRx'[k] = stateRx[k] /\ (k \in ContextKeys => context'[k] = context[k])
      BY <2>2, <2>7, <1>2, <1>4
    <3> QED
      BY <3>1, <1>1, <1>3 DEF CopyFollows, CopyIs
  <2> QED
    BY <2>6, <2>7
<1>6. CASE (\E x \in ContextKeys : RecvContextLagged(x)) \/ ContextStop(shutdown)
  <2>1. context' = context
    BY <1>6 DEF RecvContextLagged, ContextStop, contextVars
  <2>2. PendingIn(stateRx[k], cache[k]) => PendingIn(stateRx'[k], cache[k])
    <3> HIDE DEF T
    <3>1. \A y : PendingIn(stateRx[k], y) => PendingIn(SkipLag(stateRx[k]), y)
      BY <1>2, <1>4, SkipLagKeeps
    <3> QED
      BY <3>1, <1>2, <1>4, <1>6 DEF RecvContextLagged, ContextStop
  <2> QED
    BY <2>1, <2>2, <1>1, <1>3 DEF CopyFollows, CopyIs
<1> QED
  BY <1>5, <1>6 DEF ContextNext, ContextTurn

\* A handler looks for the open orders of its market among those of all.
LEMMA HandlerFollows ==
  ASSUME OInv, NEW m \in Markets, HandlerNext(m),
         NEW p \in StateProvider, NEW k \in Watched[p], CopyFollows(p, k)
  PROVE  CopyFollows(p, k)'
<1> DEFINE T == AccountState
           x == OpenOrdersKey[m]
<1>1. UNCHANGED <<cache, keyRx, aisVars, held, updated, context>>
  BY DEF HandlerNext, HandlerTurn, cacheVars, provVars, contextVars, bookVars,
         RecvOpenOrders, RecvOpenOrdersLagged, RecvBook, RecvBookLagged, HandlerStop
<1>2. p \in Providers /\ k \in Key /\ k \in StateKeys
  BY WatchedIsKey DEF StateProvider, StateKeys
<1>3. KeyPending(p, k) => KeyPending(p, k)'
  BY <1>1, <1>2, PendingStays
<1>4. stateRx \in [StateKeys -> RxOf(T)] /\ openOrders \in [OpenOrdersTasks -> T \cup {None}]
  BY DEF OInv, IInv, TypeOK, StateRxTypeOK, HandlerTypeOK
<1>5. \A n \in OpenOrdersTasks : OpenOrdersKey[n] = x => n = m
  BY DistinctKeys, OpenOrdersIsKept
<1>6. CASE m \in OpenOrdersTasks /\ RecvOpenOrders(m)
  <2> DEFINE a == Head(stateRx[x].q)
  <2>1. /\ stateRx' = [stateRx EXCEPT ![x] = Take(@)]
        /\ openOrders' = [openOrders EXCEPT ![m] = IF a.key = x THEN a ELSE @]
        /\ CanTake(stateRx[x]) /\ x \in StateKeys
    BY <1>6, OpenOrdersIsKept DEF RecvOpenOrders
  <2> HIDE DEF T, x
  <2>2. /\ a \in T /\ a \in Elems(stateRx[x].q)
        /\ PendingIn(stateRx[x], cache[x]) => PendingIn(Take(stateRx[x]), cache[x]) \/ cache[x] = a
    BY <2>1, <1>4, TakeKeeps
  <2>3. Known(a) /\ NoNewer(openOrders[m], a) /\ a # None
    BY <2>1, <2>2, <1>6, CacheAssumption DEF OInv, CopiesInOrder, x, T
  <2> HIDE DEF a
  <2>4. x = k /\ cache[k] = a => a.key = x
    BY <2>3, <1>2 DEF OInv, EntriesAreOwn
  <2>5. x = k /\ a.key = k /\ openOrders[m] = cache[k] => a = cache[k]
    <3>1. a.key = k => cache[k] # None
      BY <2>3 DEF Known, KnownIn
    <3> QED
      BY <3>1, <2>2, <2>3, <1>2, NothingNewerWaits DEF T
  <2>6. /\ openOrders'[m] = (IF a.key = x THEN a ELSE openOrders[m])
        /\ \A n \in OpenOrdersTasks : n # m => openOrders'[n] = openOrders[n]
        /\ stateRx'[x] = Take(stateRx[x]) /\ (k # x => stateRx'[k] = stateRx[k])
    BY <2>1, <1>2, <1>4, <1>6
  <2>7. CASE x = k
    <3>1. CopyIs(k, cache[k]) => CopyIs(k, cache[k])'
      BY <2>5, <2>6, <2>7, <1>1, <1>5 DEF CopyIs
    <3>2. cache[k] = a => CopyIs(k, cache[k])'
      BY <2>4, <2>6, <2>7, <1>1, <1>6 DEF CopyIs, x
    <3> QED
      BY <3>1, <3>2, <2>2, <2>6, <2>7, <1>1, <1>3 DEF CopyFollows
  <2>8. CASE x # k
    <3>1. CopyIs(k, cache[k]) => CopyIs(k, cache[k])'
      BY <2>6, <2>8, <1>1 DEF CopyIs, x
    <3> QED
      BY <3>1, <2>6, <2>8, <1>1, <1>3 DEF CopyFollows
  <2> QED
    BY <2>7, <2>8
<1>7. CASE \/ m \in OpenOrdersTasks /\ RecvOpenOrdersLagged(m)
           \/ m \in BookTasks /\ (RecvBook(m) \/ RecvBookLagged(m))
           \/ HandlerStop(m, shutdown)
  <2>1. openOrders' = openOrders
    BY <1>7 DEF RecvOpenOrdersLagged, RecvBook, RecvBookLagged, HandlerStop, handlerVars
  <2>2. PendingIn(stateRx[k], cache[k]) => PendingIn(stateRx'[k], cache[k])
    <3> HIDE DEF T
    <3>1. \A y : PendingIn(stateRx[k], y) => PendingIn(SkipLag(stateRx[k]), y)
      BY <1>2, <1>4, SkipLagKeeps
    <3> QED
      BY <3>1, <1>2, <1>4, <1>7 DEF RecvOpenOrdersLagged, RecvBook, RecvBookLagged, HandlerStop
  <2> QED
    BY <2>1, <2>2, <1>1, <1>3 DEF CopyFollows, CopyIs
<1> QED
  BY <1>6, <1>7 DEF HandlerNext, HandlerTurn

\* No update of the user, the group or an open orders account is lost on its way
\* to the task that keeps a copy, unless a full channel overwrote it: whatever
\* the capacities, the number of markets and the order of the steps.
THEOREM UpdatesArrive == Spec => []StaleCopyIsPending
<1>1. Init => StaleCopyIsPending
  <2> SUFFICES ASSUME Init, NEW p \in StateProvider, NEW k \in Watched[p]
               PROVE  CopyIs(k, cache[k])
    BY DEF StaleCopyIsPending
  <2>1. k \in StateKeys /\ k \in Key /\ cache[k] = None
    BY WatchedIsKey DEF StateProvider, StateKeys, Init, CacheInit
  <2>2. CASE k \in {UserKey, GroupKey}
    BY <2>1, <2>2 DEF CopyIs, ContextKeys, Init, ContextInit
  <2>3. CASE k \notin {UserKey, GroupKey}
    <3>1. PICK m \in Markets : k = OpenOrdersKey[m] /\ "openOrders" \in Providers
      BY <2>3, ProvidersAssumption DEF StateProvider, Watched
    <3> QED
      BY <2>1, <3>1 DEF CopyIs, OpenOrdersTasks, Init, HandlerInit
  <2> QED
    BY <2>2, <2>3
<1>2. OInv /\ StaleCopyIsPending /\ [Next]_vars => StaleCopyIsPending'
  <2> SUFFICES ASSUME OInv, [Next]_vars, NEW p \in StateProvider, NEW k \in Watched[p],
                      CopyFollows(p, k)
               PROVE  CopyFollows(p, k)'
    BY DEF StaleCopyIsPending, CopyFollows
  <2>1. CASE ServiceNext
    BY <2>1, ServiceFollows
  <2>2. CASE \E q \in Providers : ProviderLoop(q)
    BY <2>2, LoopFollows
  <2>3. CASE \E q \in StateProvider : StateProviderNext(q)
    BY <2>3, ForwardFollows
  <2>4. CASE \E m \in BookTasks : BookProviderNext(m)
    BY <2>4, BookProviderFollows
  <2>5. CASE ContextNext
    BY <2>5, ContextFollows
  <2>6. CASE \E m \in Markets : HandlerNext(m)
    BY <2>6, HandlerFollows
  <2>7. CASE Shutdown \/ UNCHANGED vars
    <3>1. UNCHANGED <<cacheVars, aisVars, provVars, stateRx, bookVars, sinkVars>>
      BY <2>7 DEF Shutdown, vars, sinkVars
    <3> QED
      BY <3>1 DEF cacheVars, aisVars, provVars, bookVars, sinkVars, contextVars, handlerVars,
                  CopyFollows, CopyIs, KeyPending, AccountKey
  <2> QED
    BY <2>1, <2>2, <2>3, <2>4, <2>5, <2>6, <2>7 DEF Next
<1>3. OInv /\ [Next]_vars => OInv'
  BY NextOInv
<1> QED
  BY InitOInv, <1>1, <1>2, <1>3, PTL DEF Spec

\* What StaleBookIsPending says of the book of one market.
BookFollows(m) ==
  /\ \/ cache[BidsKey[m]] = None
     \/ books[m] # None /\ books[m].bids = cache[BidsKey[m]]
     \/ KeyPending("orderbook", BidsKey[m])
  /\ \/ cache[AsksKey[m]] = None
     \/ books[m] # None /\ books[m].asks = cache[AsksKey[m]]
     \/ KeyPending("orderbook", AsksKey[m])
  /\ \/ books[m] = None \/ orderbook[m] = m
     \/ PendingIn(bookRx[m], m)
     \/ updated /\ held["orderbook"] \in {BidsKey[m], AsksKey[m]}

LEMMA SidesAreWatched ==
  ASSUME NEW m \in BookTasks
  PROVE  /\ m \in Markets /\ "orderbook" \in Providers
         /\ BidsKey[m] \in Watched["orderbook"] /\ AsksKey[m] \in Watched["orderbook"]
         /\ BidsKey[m] \in Key /\ AsksKey[m] \in Key /\ BidsKey[m] # AsksKey[m]
<1>1. m \in Markets /\ "orderbook" \in Providers
  BY DEF BookTasks
<1>2. Watched["orderbook"] = {BidsKey[n] : n \in Markets} \cup {AsksKey[n] : n \in Markets}
  BY DEF Watched
<1> QED
  BY <1>1, <1>2, DistinctKeys DEF Key

\* A step that moves no book moves no key of a book out of the provider's hands.
LEMMA BookStays ==
  ASSUME OInv, NEW m \in BookTasks, BookFollows(m),
         UNCHANGED <<books, updated, bookRx, orderbook>>,
         \A k \in {BidsKey[m], AsksKey[m]} :
           KeyPending("orderbook", k) \/ cache'[k] # cache[k] => KeyPending("orderbook", k)',
         updated => held'["orderbook"] = held["orderbook"]
  PROVE  BookFollows(m)'
BY DEF BookFollows

LEMMA ObApplyFollows ==
  ASSUME OInv, NEW n \in BookTasks, ObApply(n), UNCHANGED <<aisVars, orderbook>>,
         NEW m \in BookTasks, BookFollows(m)
  PROVE  BookFollows(m)'
<1> DEFINE k   == held["orderbook"]
           old == IF books[n] = None THEN EmptyBook ELSE books[n]
           new == IF k = BidsKey[n] THEN [old EXCEPT !.bids = cache[k]]
                                    ELSE [old EXCEPT !.asks = cache[k]]
<1>1. /\ books' = [books EXCEPT ![n] = new] /\ ~updated /\ updated' = TRUE
      /\ UNCHANGED <<cache, keyRx, held, bookRx>>
      /\ k \in {BidsKey[n], AsksKey[n]}
  BY DEF ObApply, Handling, cacheVars, provVars
<1>2. books \in [BookTasks -> Book \cup {None}]
  BY DEF OInv, IInv, TypeOK, BookTypeOK
<1>3. old \in Book /\ new # None
  <2>1. old \in Book
    BY <1>2 DEF Book, EmptyBook
  <2>2. cache[k] \in AccountState \cup {None}
    BY <1>1, SidesAreWatched DEF OInv, IInv, TypeOK, CacheTypeOK
  <2>3. new \in Book
    BY <2>1, <2>2 DEF Book
  <2> QED
    BY <2>1, <2>3, NoneIsNoBook
<1>4. /\ new.bids = IF k = BidsKey[n] THEN cache[k] ELSE old.bids
      /\ new.asks = IF k = BidsKey[n] THEN old.asks ELSE cache[k]
  BY <1>3 DEF Book
<1>5. books[n] # None => books[n] = old
  OBVIOUS
<1> HIDE DEF old, new
<1>6. books'[n] = new /\ \A x \in BookTasks : x # n => books'[x] = books[x]
  BY <1>1, <1>2
<1>7. \A x \in {BidsKey[m], AsksKey[m]} :
        x # k /\ KeyPending("orderbook", x) => KeyPending("orderbook", x)'
  BY <1>1, SidesAreWatched, PendingStays
<1>8. CASE m = n
  <2>1. BidsKey[m] # AsksKey[m]
    BY SidesAreWatched
  <2>2. CASE k = BidsKey[m]
    BY <2>1, <2>2, <1>1, <1>3, <1>4, <1>5, <1>6, <1>7, <1>8 DEF BookFollows
  <2>3. CASE k = AsksKey[m]
    BY <2>1, <2>3, <1>1, <1>3, <1>4, <1>5, <1>6, <1>7, <1>8 DEF BookFollows
  <2> QED
    BY <2>2, <2>3, <1>1, <1>8
<1>9. CASE m # n
  <2>1. k \notin {BidsKey[m], AsksKey[m]}
    BY <1>1, <1>9, SidesAreWatched, DistinctKeys
  <2> QED
    BY <2>1, <1>1, <1>6, <1>7, <1>9 DEF BookFollows
<1> QED
  BY <1>8, <1>9

LEMMA ObSendFollows ==
  ASSUME OInv, NEW n \in BookTasks, ObSend(n), UNCHANGED <<aisVars, orderbook>>,
         NEW m \in BookTasks, BookFollows(m)
  PROVE  BookFollows(m)'
<1>1. /\ bookRx' = [x \in BookTasks |-> Push(bookRx[x], n, BookCap)]
      /\ UNCHANGED <<cache, keyRx, books>> /\ updated
      /\ held["orderbook"] \in {BidsKey[n], AsksKey[n]}
  BY DEF ObSend, Handling, cacheVars
<1>2. \A x \in {BidsKey[m], AsksKey[m]} : KeyPending("orderbook", x) => KeyPending("orderbook", x)'
  BY <1>1, SidesAreWatched, PendingStays
<1>3. bookRx[m] \in RxOf(BookTasks)
  BY DEF OInv, IInv, TypeOK, BookTypeOK
<1>4. PendingIn(bookRx[m], m) \/ m = n => PendingIn(bookRx'[m], m)
  BY <1>1, <1>3, PushKeeps, BookCapAssumption
<1>5. held["orderbook"] \in {BidsKey[m], AsksKey[m]} => m = n
  BY <1>1, SidesAreWatched, DistinctKeys
<1> QED
  BY <1>1, <1>2, <1>4, <1>5 DEF BookFollows

\* A handler takes the book of its market and leaves the others.
LEMMA HandlerBookFollows ==
  ASSUME OInv, NEW n \in Markets, HandlerNext(n), NEW m \in BookTasks, BookFollows(m)
  PROVE  BookFollows(m)'
<1>1. UNCHANGED <<cache, keyRx, aisVars, held, books, updated>>
  BY DEF HandlerNext, HandlerTurn, cacheVars, provVars, bookVars,
         RecvOpenOrders, RecvOpenOrdersLagged, RecvBook, RecvBookLagged, HandlerStop
<1>2. \A x \in {BidsKey[m], AsksKey[m]} : KeyPending("orderbook", x) => KeyPending("orderbook", x)'
  BY <1>1, SidesAreWatched, PendingStays
<1>3. /\ bookRx \in [BookTasks -> RxOf(BookTasks)]
      /\ orderbook \in [BookTasks -> BookTasks \cup {None}]
  BY DEF OInv, IInv, TypeOK, BookTypeOK, HandlerTypeOK
<1>4. orderbook[m] = m \/ PendingIn(bookRx[m], m)
        => orderbook'[m] = m \/ PendingIn(bookRx'[m], m)
  <2>1. CASE n \in BookTasks /\ RecvBook(n)
    <3>1. /\ bookRx' = [bookRx EXCEPT ![n] = Take(@)]
          /\ orderbook' = [orderbook EXCEPT ![n] = IF Head(bookRx[n].q) = n THEN n ELSE @]
          /\ CanTake(bookRx[n])
      BY <2>1 DEF RecvBook
    <3>2. PendingIn(bookRx[n], n) => PendingIn(Take(bookRx[n]), n) \/ n = Head(bookRx[n].q)
      BY <3>1, <1>3, <2>1, TakeKeeps
    <3> QED
      BY <3>1, <3>2, <1>3, <2>1
  <2>2. CASE n \in BookTasks /\ RecvBookLagged(n)
    <3>1. PendingIn(bookRx[n], n) => PendingIn(SkipLag(bookRx[n]), n)
      BY <1>3, <2>2, SkipLagKeeps
    <3> QED
      BY <3>1, <1>3, <2>2 DEF RecvBookLagged, handlerVars
  <2>3. CASE \/ n \in OpenOrdersTasks /\ (RecvOpenOrders(n) \/ RecvOpenOrdersLagged(n))
             \/ HandlerStop(n, shutdown)
    BY <2>3 DEF RecvOpenOrders, RecvOpenOrdersLagged, HandlerStop, bookVars, handlerVars
  <2> QED
    BY <2>1, <2>2, <2>3 DEF HandlerNext, HandlerTurn
<1> QED
  BY <1>1, <1>2, <1>4 DEF BookFollows

\* No update of a side of a book is lost on its way into the shared book, and no
\* handler is left without the book of its market, unless a full channel
\* overwrote the notification.
THEOREM BooksFollow == Spec => []StaleBookIsPending
<1>1. Init => StaleBookIsPending
  BY SidesAreWatched DEF StaleBookIsPending, Init, CacheInit, BookInit
<1>2. OInv /\ StaleBookIsPending /\ [Next]_vars => StaleBookIsPending'
  <2> SUFFICES ASSUME OInv, [Next]_vars, NEW m \in BookTasks, BookFollows(m)
               PROVE  BookFollows(m)'
    BY DEF StaleBookIsPending, BookFollows
  <2> DEFINE Stays == \A k \in {BidsKey[m], AsksKey[m]} :
               KeyPending("orderbook", k) \/ cache'[k] # cache[k] => KeyPending("orderbook", k)'
  <2>1. CASE ServiceNext
    <3>1. UNCHANGED <<books, updated, bookRx, orderbook, held>>
      BY <2>1 DEF ServiceNext, ServiceTurn, bookVars, provVars, sinkVars, handlerVars
    <3>2. Stays
      BY <2>1, SidesAreWatched, ServiceAnnounces DEF OInv
    <3> QED
      BY <3>1, <3>2, BookStays
  <2>2. CASE \E q \in Providers : ProviderLoop(q)
    <3>1. PICK q \in Providers : ProviderLoop(q)
      BY <2>2
    <3>2. UNCHANGED <<cache, books, updated, bookRx, orderbook>>
      BY <3>1 DEF ProviderLoop, LoopTurn, bookVars, sinkVars, handlerVars,
                  RecvKey, RecvKeyLagged, ProviderStop, cacheVars
    <3>3. Stays
      BY <3>1, <3>2, SidesAreWatched, LoopKeepsPending
    <3>4. updated => q # "orderbook"
      BY <3>1, UpdatedIsHeld DEF ProviderLoop, LoopTurn, RecvKey, RecvKeyLagged, ProviderStop,
                                 Waiting
    <3>5. q # "orderbook" => held'["orderbook"] = held["orderbook"]
      BY <3>1, SidesAreWatched DEF ProviderLoop, LoopTurn, RecvKey, RecvKeyLagged, ProviderStop,
                                   provVars, OInv, IInv, TypeOK, ProvTypeOK
    <3> QED
      BY <3>2, <3>3, <3>4, <3>5, BookStays
  <2>3. CASE \E q \in StateProvider : StateProviderNext(q)
    <3>1. /\ UNCHANGED <<cache, keyRx, aisVars, books, updated, bookRx, orderbook>>
          /\ held'["orderbook"] = held["orderbook"]
      BY <2>3, SidesAreWatched DEF StateProviderNext, Forward, StateProvider, cacheVars, bookVars,
                  sinkVars, handlerVars, OInv, IInv, TypeOK, ProvTypeOK
    <3>2. Stays
      BY <3>1, SidesAreWatched, PendingStays
    <3> QED
      BY <3>1, <3>2, BookStays
  <2>4. CASE \E n \in BookTasks : BookProviderNext(n)
    BY <2>4, ObApplyFollows, ObSendFollows DEF BookProviderNext, sinkVars, handlerVars
  <2>5. CASE ContextNext \/ Shutdown \/ UNCHANGED vars
    <3>1. UNCHANGED <<cache, keyRx, aisVars, held, books, updated, bookRx, orderbook>>
      BY <2>5 DEF ContextNext, ContextTurn, Shutdown, vars, cacheVars, provVars, bookVars,
                  sinkVars, handlerVars
    <3>2. Stays
      BY <3>1, SidesAreWatched, PendingStays
    <3> QED
      BY <3>1, <3>2, BookStays
  <2>6. CASE \E n \in Markets : HandlerNext(n)
    BY <2>6, HandlerBookFollows
  <2> QED
    BY <2>1, <2>2, <2>3, <2>4, <2>5, <2>6 DEF Next
<1>3. OInv /\ [Next]_vars => OInv'
  BY NextOInv
<1> QED
  BY InitOInv, <1>1, <1>2, <1>3, PTL DEF Spec
===========================================================================
