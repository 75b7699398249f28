------------------------ MODULE DataPipelineProofs ------------------------
(***************************************************************************)
(* Theorems of DataPipeline for every value of its constants.              *)
(***************************************************************************)
EXTENDS DataPipeline, TLAPS

---------------------------------------------------------------------------
(* The channel: what send() and recv() do to a Receiver, for every capacity *)
(* and every kind of message.                                               *)

\* Reading the first message leaves a sequence of the rest.
LEMMA TailElems ==
  ASSUME NEW Msg, NEW s \in Seq(Msg), s # <<>>
  PROVE  /\ Head(s) \in Msg /\ Head(s) = s[1]
         /\ Tail(s) \in Seq(Msg)
         /\ Len(Tail(s)) = Len(s) - 1
         /\ \A i \in 1..(Len(s) - 1) : Tail(s)[i] = s[i + 1]
         /\ Elems(s) = Elems(Tail(s)) \cup {Head(s)}
<1>1. Len(s) \in Nat /\ Len(s) >= 1 /\ DOMAIN s = 1..Len(s)
  OBVIOUS
<1>2. /\ Head(s) \in Msg /\ Head(s) = s[1]
      /\ Tail(s) \in Seq(Msg)
      /\ Len(Tail(s)) = Len(s) - 1
      /\ DOMAIN Tail(s) = 1..(Len(s) - 1)
      /\ \A i \in 1..(Len(s) - 1) : Tail(s)[i] = s[i + 1]
  BY <1>1
<1>3. Elems(s) \subseteq Elems(Tail(s)) \cup {Head(s)}
  <2> SUFFICES ASSUME NEW i \in 1..Len(s), i # 1
               PROVE  s[i] \in Elems(Tail(s))
    BY <1>1, <1>2 DEF Elems
  <2>1. i - 1 \in 1..(Len(s) - 1) /\ Tail(s)[i - 1] = s[i]
    BY <1>1, <1>2
  <2> QED
    BY <2>1, <1>2 DEF Elems
<1>4. Elems(Tail(s)) \cup {Head(s)} \subseteq Elems(s)
  <2>1. \A i \in 1..(Len(s) - 1) : i + 1 \in 1..Len(s)
    BY <1>1
  <2> QED
    BY <1>1, <1>2, <2>1 DEF Elems
<1> QED
  BY <1>2, <1>3, <1>4

\* Sending appends.
LEMMA AppendElems ==
  ASSUME NEW Msg, NEW s \in Seq(Msg), NEW m \in Msg
  PROVE  /\ Append(s, m) \in Seq(Msg)
         /\ Append(s, m) # <<>>
         /\ Len(Append(s, m)) = Len(s) + 1
         /\ \A i \in 1..Len(s) : Append(s, m)[i] = s[i]
         /\ Append(s, m)[Len(s) + 1] = m
         /\ Elems(Append(s, m)) = Elems(s) \cup {m}
<1>1. Len(s) \in Nat /\ DOMAIN s = 1..Len(s)
  OBVIOUS
<1>2. /\ Append(s, m) \in Seq(Msg)
      /\ Append(s, m) # <<>>
      /\ Len(Append(s, m)) = Len(s) + 1
      /\ DOMAIN Append(s, m) = 1..(Len(s) + 1)
      /\ \A i \in 1..Len(s) : Append(s, m)[i] = s[i]
      /\ Append(s, m)[Len(s) + 1] = m
  BY <1>1
<1>3. 1..(Len(s) + 1) = 1..Len(s) \cup {Len(s) + 1}
  BY <1>1
<1> QED
  BY <1>1, <1>2, <1>3 DEF Elems

\* A send() keeps the Receiver well formed, and what was on its way through it
\* or lost in it still is one or the other; so is the new message.
THEOREM PushKeeps ==
  ASSUME NEW Msg, NEW rx \in RxOf(Msg), NEW m \in Msg, NEW cap \in Nat \ {0}
  PROVE  /\ Push(rx, m, cap) \in RxOf(Msg)
         /\ Elems(Push(rx, m, cap).q) \subseteq Elems(rx.q) \cup {m}
         /\ \A x : PendingIn(rx, x) \/ x = m => PendingIn(Push(rx, m, cap), x)
         /\ \A x : PendingIn(Push(rx, m, cap), x) => PendingIn(rx, x) \/ x = m
<1> DEFINE full == Len(rx.q) >= cap
           kept == IF full THEN Tail(rx.q) ELSE rx.q
<1>1. rx.q \in Seq(Msg) /\ rx.lagged \in BOOLEAN /\ rx.lost \in SUBSET Msg
  BY DEF RxOf
<1>2. full => rx.q # <<>>
  BY <1>1
<1>3. kept \in Seq(Msg) /\ Elems(kept) \subseteq Elems(rx.q)
  BY <1>1, <1>2, TailElems
<1>4. Elems(rx.q) \subseteq Msg
  BY <1>1 DEF Elems
<1>5. /\ Push(rx, m, cap).q = Append(kept, m)
      /\ Push(rx, m, cap).lagged = (rx.lagged \/ full)
      /\ Push(rx, m, cap).lost = (rx.lost \cup Elems(rx.q)) \ (Elems(kept) \cup {m})
      /\ Push(rx, m, cap) = [q |-> Append(kept, m), lagged |-> rx.lagged \/ full,
                             lost |-> (rx.lost \cup Elems(rx.q)) \ (Elems(kept) \cup {m})]
  BY DEF Push
<1> HIDE DEF full, kept
<1>6. /\ Append(kept, m) \in Seq(Msg)
      /\ Elems(Append(kept, m)) = Elems(kept) \cup {m}
  BY <1>3, AppendElems
<1>7. (rx.lost \cup Elems(rx.q)) \ (Elems(kept) \cup {m}) \in SUBSET Msg
  BY <1>1, <1>4
<1>8. Push(rx, m, cap) \in RxOf(Msg)
  <2>1. (rx.lagged \/ full) \in BOOLEAN
    OBVIOUS
  <2> QED
    BY <1>5, <1>6, <1>7, <2>1 DEF RxOf
<1> QED
  BY <1>3, <1>5, <1>6, <1>8 DEF PendingIn

\* recv() yields a message of the Receiver and keeps the others.
THEOREM TakeKeeps ==
  ASSUME NEW Msg, NEW rx \in RxOf(Msg), CanTake(rx)
  PROVE  /\ Take(rx) \in RxOf(Msg)
         /\ Head(rx.q) \in Msg /\ Head(rx.q) \in Elems(rx.q)
         /\ Take(rx).q = Tail(rx.q)
         /\ Elems(Take(rx).q) \subseteq Elems(rx.q)
         /\ \A x : PendingIn(rx, x) => PendingIn(Take(rx), x) \/ x = Head(rx.q)
<1>1. rx.q \in Seq(Msg) /\ rx.q # <<>>
  BY DEF RxOf, CanTake
<1>2. /\ Head(rx.q) \in Msg
      /\ Tail(rx.q) \in Seq(Msg)
      /\ Elems(rx.q) = Elems(Tail(rx.q)) \cup {Head(rx.q)}
  BY <1>1, TailElems
<1>3. Take(rx) \in RxOf(Msg) /\ Take(rx).q = Tail(rx.q) /\ Take(rx).lost = rx.lost
  BY <1>2 DEF RxOf, Take
<1> QED
  BY <1>2, <1>3 DEF PendingIn

\* The Err(Lagged) that recv() yields only resets the flag.
THEOREM SkipLagKeeps ==
  ASSUME NEW Msg, NEW rx \in RxOf(Msg)
  PROVE  /\ SkipLag(rx) \in RxOf(Msg)
         /\ SkipLag(rx).q = rx.q
         /\ \A x : PendingIn(rx, x) <=> PendingIn(SkipLag(rx), x)
BY DEF RxOf, SkipLag, PendingIn

\* subscribe() makes an empty Receiver.
LEMMA EmptyRxType ==
  ASSUME NEW Msg
  PROVE  EmptyRx \in RxOf(Msg) /\ Elems(EmptyRx.q) = {}
BY DEF EmptyRx, RxOf, Elems

---------------------------------------------------------------------------
(* Types and the cache *)

\* Types, and that a key a provider is told of is in the cache.  They need each
\* other: a provider forwards what it finds in the cache under its key.
IInv == TypeOK /\ PopInRange /\ NotifiedIsCached /\ AnnouncedIsCached

LEMMA InitIInv == Init => IInv
<1> SUFFICES ASSUME Init PROVE IInv
  OBVIOUS
<1> USE DEF Init, CacheInit, AisInit, ProvInit, StateRxInit, BookInit, ContextInit, HandlerInit
<1>1. CacheTypeOK
  BY EmptyRxType DEF CacheTypeOK
<1>2. AisTypeOK /\ PopInRange
  <2>1. Len(Keys) \in Nat /\ Len(Keys) >= 1
    BY ServiceAssumption
  <2> QED
    BY <2>1, ServiceAssumption DEF AisTypeOK, PopInRange, BatchLen
<1>3. ProvTypeOK
  BY DEF ProvTypeOK
<1>4. StateRxTypeOK
  BY EmptyRxType DEF StateRxTypeOK
<1>5. BookTypeOK
  BY EmptyRxType DEF BookTypeOK
<1>6. ContextTypeOK /\ HandlerTypeOK
  BY DEF ContextTypeOK, HandlerTypeOK
<1>7. NotifiedIsCached /\ AnnouncedIsCached
  BY EmptyRxType DEF NotifiedIsCached, AnnouncedIsCached
<1> QED
  BY <1>1, <1>2, <1>3, <1>4, <1>5, <1>6, <1>7 DEF IInv, TypeOK

\* The loops of the service stay within ais_pks.
LEMMA BatchFacts ==
  ASSUME AisTypeOK
  PROVE  /\ Len(Keys) \in Nat /\ Len(Keys) >= 1
         /\ BatchLen \in Nat /\ BatchLen >= 1 /\ aisFrom + BatchLen <= Len(Keys)
         /\ \A i \in 1..BatchLen : AccountKey(i) \in Key
         /\ NextBatch => /\ aisFrom' \in 0..(Len(Keys) - 1)
                         /\ aisFirst' \in BOOLEAN
                         /\ aisPc' \in {"fetch", "sleep"}
<1>1. Len(Keys) \in Nat /\ Len(Keys) >= 1 /\ BatchSize \in Nat \ {0}
  BY ServiceAssumption
<1>2. aisFrom \in 0..(Len(Keys) - 1)
  BY DEF AisTypeOK
<1>3. BatchLen \in Nat /\ BatchLen >= 1 /\ aisFrom + BatchLen <= Len(Keys)
  BY <1>1, <1>2 DEF BatchLen
<1>4. \A i \in 1..BatchLen : aisFrom + i \in 1..Len(Keys)
  BY <1>1, <1>2, <1>3
<1>5. \A i \in 1..BatchLen : AccountKey(i) \in Key
  BY <1>4, ServiceAssumption DEF AccountKey
<1>6. NextBatch => aisFrom' \in 0..(Len(Keys) - 1)
  BY <1>1, <1>2 DEF NextBatch
<1>7. NextBatch => aisFirst' \in BOOLEAN /\ aisPc' \in {"fetch", "sleep"}
  BY DEF NextBatch, AisTypeOK
<1> QED
  BY <1>1, <1>3, <1>5, <1>6, <1>7

\* What the components other than the service keep when it takes a step.
LEMMA RestUnchanged ==
  ASSUME IInv, UNCHANGED <<provVars, stateRx, bookVars, sinkVars, shutdown>>
  PROVE  (ProvTypeOK /\ StateRxTypeOK /\ BookTypeOK /\ ContextTypeOK /\ HandlerTypeOK
            /\ shutdown \in BOOLEAN)'
BY DEF IInv, TypeOK, provVars, bookVars, sinkVars, contextVars, handlerVars,
       ProvTypeOK, StateRxTypeOK, BookTypeOK, ContextTypeOK, HandlerTypeOK

\* After an account is done with left accounts to go, the service is about to
\* pop the next or has finished its batch.
AfterAnswer(left) ==
  /\ aisFrom' \in 0..(Len(Keys) - 1)
  /\ aisFirst' \in BOOLEAN
  /\ left <= BatchLen'
  /\ \/ left > 0 /\ aisPc' = "insert"
     \/ left = 0 /\ aisPc' \in {"fetch", "sleep"}

LEMMA AfterInfoFacts ==
  ASSUME AisTypeOK, NEW left \in 0..BatchLen, AfterInfo(left)
  PROVE  AfterAnswer(left)
<1>1. Len(Keys) \in Nat /\ BatchLen \in Nat /\ BatchSize \in Nat
  BY BatchFacts, ServiceAssumption
<1>2. CASE left > 0 /\ aisPc' = "insert" /\ UNCHANGED <<aisFirst, aisFrom>>
  BY <1>1, <1>2 DEF AfterAnswer, AisTypeOK, BatchLen
<1>3. CASE left = 0 /\ NextBatch
  <2>1. aisFrom' \in 0..(Len(Keys) - 1) /\ aisFirst' \in BOOLEAN /\ aisPc' \in {"fetch", "sleep"}
    BY <1>3, BatchFacts
  <2>2. 0 <= BatchLen'
    BY <1>1, <2>1 DEF BatchLen
  <2> QED
    BY <1>3, <2>1, <2>2 DEF AfterAnswer
<1> QED
  BY <1>2, <1>3 DEF AfterInfo

\* What is on its way to a provider is a key.
LEMMA CacheElems ==
  ASSUME CacheTypeOK
  PROVE  \A p \in Providers : Elems(keyRx[p].q) \subseteq Key
BY DEF CacheTypeOK, RxOf, Elems

LEMMA ServiceIInv == IInv /\ ServiceNext => IInv'
<1> SUFFICES ASSUME IInv, ServiceNext PROVE IInv'
  OBVIOUS
<1> USE DEF ServiceNext, ServiceTurn
<1>1. (ProvTypeOK /\ StateRxTypeOK /\ BookTypeOK /\ ContextTypeOK /\ HandlerTypeOK
         /\ shutdown \in BOOLEAN)'
  BY RestUnchanged
<1>2. CacheTypeOK /\ AisTypeOK /\ PopInRange /\ NotifiedIsCached /\ AnnouncedIsCached
  BY DEF IInv, TypeOK
<1>3. held' = held
  BY DEF provVars
<1>4. /\ Len(Keys) \in Nat /\ Len(Keys) >= 1
      /\ BatchLen \in Nat /\ BatchLen >= 1 /\ aisFrom + BatchLen <= Len(Keys)
      /\ \A i \in 1..BatchLen : AccountKey(i) \in Key
      /\ NextBatch => /\ aisFrom' \in 0..(Len(Keys) - 1)
                      /\ aisFirst' \in BOOLEAN
                      /\ aisPc' \in {"fetch", "sleep"}
  BY <1>2, BatchFacts
<1>5. \A from \in 0..(Len(Keys) - 1) :
        aisFrom' = from /\ aisLeft' = 0 => aisLeft' <= BatchLen'
  BY <1>4, ServiceAssumption DEF BatchLen
<1>6. aisFrom' = aisFrom => BatchLen' = BatchLen
  BY DEF BatchLen
<1>7. (CacheTypeOK /\ AisTypeOK /\ PopInRange /\ NotifiedIsCached /\ AnnouncedIsCached)'
  <2>1. CASE FetchOk
    <3>1. CacheTypeOK' /\ NotifiedIsCached' /\ AnnouncedIsCached'
      BY <2>1, <1>2, <1>3 DEF FetchOk, cacheVars, CacheTypeOK, NotifiedIsCached, AnnouncedIsCached
    <3>2. snapshot' \in 1..MaxSnapshot
      BY <2>1 DEF FetchOk
    <3>3. AisTypeOK'
      BY <2>1, <3>2, <1>2, <1>4, ServiceAssumption DEF FetchOk, AisTypeOK
    <3>4. PopInRange'
      BY <2>1, <3>2, <1>4, <1>6, ServiceAssumption DEF FetchOk, PopInRange
    <3> QED
      BY <3>1, <3>3, <3>4
  <2>2. CASE FetchErr
    <3>1. CacheTypeOK' /\ NotifiedIsCached'
      BY <2>2, <1>2, <1>3 DEF FetchErr, cacheVars, CacheTypeOK, NotifiedIsCached
    <3>2. aisLeft = 0 /\ aisLeft' = 0
      BY <2>2, <1>2 DEF FetchErr, PopInRange
    <3>3. AisTypeOK'
      BY <2>2, <3>2, <1>2, <1>4 DEF FetchErr, AisTypeOK
    <3>4. aisPc' \notin {"insert", "notify"}
      BY <2>2, <1>4 DEF FetchErr
    <3>5. aisFrom' \in 0..(Len(Keys) - 1)
      BY <3>3 DEF AisTypeOK
    <3>6. PopInRange' /\ AnnouncedIsCached'
      BY <3>2, <3>4, <3>5, <1>5 DEF PopInRange, AnnouncedIsCached
    <3> QED
      BY <3>1, <3>3, <3>6
  <2>3. CASE InsertInfo
    <3>1. aisPc = "insert" /\ aisLeft \in 1..BatchLen /\ aisLeft' = aisLeft - 1
      BY <2>3, <1>2 DEF InsertInfo, AisTypeOK, PopInRange
    <3>2. snapshot' = snapshot /\ keyRx' = keyRx /\ snapshot \in Nat \ {0}
      BY <2>3, <3>1, <1>2, ServiceAssumption DEF InsertInfo, AisTypeOK, PopInRange
    <3>3. AccountKey(aisLeft) \in Key
      BY <3>1, <1>4
    <3>4. CASE Answer(aisLeft) = None /\ AfterInfo(aisLeft') /\ UNCHANGED cache
      <4>1. AfterAnswer(aisLeft')
        BY <3>1, <3>4, <1>2, <1>4, AfterInfoFacts
      <4>2. CacheTypeOK' /\ NotifiedIsCached'
        BY <3>2, <3>4, <1>2, <1>3 DEF CacheTypeOK, NotifiedIsCached
      <4> QED
        BY <4>1, <4>2, <3>1, <3>2, <1>2 DEF AfterAnswer, AisTypeOK, PopInRange, AnnouncedIsCached
    <3>5. CASE /\ Answer(aisLeft) # None
               /\ MapInsert(AccountKey(aisLeft), Answer(aisLeft))
               /\ aisPc' = "notify"
               /\ UNCHANGED <<aisFirst, aisFrom>>
      <4> DEFINE k == AccountKey(aisLeft)
      <4>1. Answer(aisLeft) \in AccountState
        BY <3>2, <3>3, <3>5 DEF Answer, AccountKey, AccountState
      <4>2. cache' = [cache EXCEPT ![k] = Answer(aisLeft)]
        BY <3>5 DEF MapInsert
      <4>3. CacheTypeOK'
        BY <4>1, <4>2, <3>2, <1>2 DEF CacheTypeOK
      <4>4. \A x \in Key : cache[x] # None => cache'[x] # None
        BY <4>1, <4>2, <3>3, <1>2, CacheAssumption DEF CacheTypeOK
      <4>5. \A p \in Providers : Elems(keyRx[p].q) \subseteq Key /\ held[p] \in Key \cup {None}
        BY <1>2, CacheElems DEF IInv, TypeOK, ProvTypeOK
      <4>6. NotifiedIsCached'
        BY <4>4, <4>5, <3>2, <1>2, <1>3 DEF NotifiedIsCached
      <4>7. AccountKey(aisLeft + 1)' = k
        BY <3>1, <3>5 DEF AccountKey, AisTypeOK
      <4>8. AnnouncedIsCached'
        BY <4>1, <4>2, <4>7, <3>3, <1>2, CacheAssumption DEF AnnouncedIsCached, CacheTypeOK
      <4>9. AisTypeOK' /\ PopInRange'
        BY <3>1, <3>2, <3>5, <1>2, <1>4, <1>6 DEF AisTypeOK, PopInRange
      <4> QED
        BY <4>3, <4>6, <4>8, <4>9
    <3> QED
      BY <2>3, <3>4, <3>5 DEF InsertInfo
  <2>4. CASE NotifyKey
    <3> DEFINE k == AccountKey(aisLeft + 1)
    <3>1. /\ aisPc = "notify" /\ aisLeft \in 0..(BatchLen - 1) /\ aisLeft' = aisLeft
          /\ snapshot' = snapshot /\ cache' = cache
      BY <2>4, <1>2, <1>4 DEF NotifyKey, AisTypeOK, PopInRange
    <3>2. k \in Key /\ cache[k] # None
      <4>1. aisLeft + 1 \in 1..BatchLen
        BY <3>1, <1>4
      <4> QED
        BY <4>1, <3>1, <1>2, <1>4 DEF AnnouncedIsCached
    <3>3. \A p \in Providers : keyRx'[p] = Push(keyRx[p], k, KeyCap) /\ keyRx[p] \in RxOf(Key)
      BY <2>4, <1>2 DEF NotifyKey, Notify, CacheTypeOK
    <3>4. \A p \in Providers : /\ keyRx'[p] \in RxOf(Key)
                               /\ Elems(keyRx'[p].q) \subseteq Elems(keyRx[p].q) \cup {k}
      BY <3>2, <3>3, PushKeeps, CacheAssumption
    <3>5. CacheTypeOK'
      BY <2>4, <3>1, <3>4, <1>2 DEF NotifyKey, Notify, CacheTypeOK
    <3>6. NotifiedIsCached'
      BY <3>1, <3>2, <3>4, <1>2, <1>3 DEF NotifiedIsCached
    <3>7. AfterAnswer(aisLeft)
      BY <2>4, <3>1, <1>2, <1>4, AfterInfoFacts DEF NotifyKey
    <3> QED
      BY <3>1, <3>5, <3>6, <3>7, <1>2 DEF AfterAnswer, AisTypeOK, PopInRange, AnnouncedIsCached
  <2>5. CASE Wake
    BY <2>5, <1>2, <1>3, <1>6 DEF Wake, cacheVars, CacheTypeOK, AisTypeOK, PopInRange,
                                  NotifiedIsCached, AnnouncedIsCached
  <2>6. CASE AisStop(shutdown)
    BY <2>6, <1>2, <1>3, <1>6 DEF AisStop, cacheVars, CacheTypeOK, AisTypeOK, PopInRange,
                                  NotifiedIsCached, AnnouncedIsCached
  <2> QED
    BY <2>1, <2>2, <2>3, <2>4, <2>5, <2>6
<1> QED
  BY <1>1, <1>7 DEF IInv, TypeOK

\* What a step that leaves the service and the map of the cache alone keeps.
LEMMA ServiceUnchanged ==
  ASSUME IInv, UNCHANGED <<cache, aisVars>>
  PROVE  /\ (AisTypeOK /\ PopInRange /\ AnnouncedIsCached)'
         /\ cache' \in [Key -> AccountState \cup {None}]
BY DEF IInv, TypeOK, AisTypeOK, PopInRange, AnnouncedIsCached, aisVars, BatchLen,
       AccountKey, CacheTypeOK

LEMMA ProviderLoopIInv ==
  ASSUME IInv, NEW p \in Providers, ProviderLoop(p)
  PROVE  IInv'
<1> USE DEF ProviderLoop, LoopTurn
<1>1. (StateRxTypeOK /\ BookTypeOK /\ ContextTypeOK /\ HandlerTypeOK /\ shutdown \in BOOLEAN)'
  BY DEF IInv, TypeOK, bookVars, sinkVars, contextVars, handlerVars,
         StateRxTypeOK, BookTypeOK, ContextTypeOK, HandlerTypeOK
<1>2. CacheTypeOK /\ ProvTypeOK /\ NotifiedIsCached
  BY DEF IInv, TypeOK
<1>3. cache' = cache /\ UNCHANGED aisVars
  BY DEF RecvKey, RecvKeyLagged, ProviderStop, cacheVars
<1>4. /\ (AisTypeOK /\ PopInRange /\ AnnouncedIsCached)'
      /\ cache' \in [Key -> AccountState \cup {None}]
  BY <1>3, ServiceUnchanged
<1>5. keyRx[p] \in RxOf(Key)
  BY <1>2 DEF CacheTypeOK
<1>6. (CacheTypeOK /\ ProvTypeOK /\ NotifiedIsCached)'
  <2>1. CASE RecvKey(p)
    <3> DEFINE k == Head(keyRx[p].q)
    <3>1. /\ Take(keyRx[p]) \in RxOf(Key)
          /\ k \in Key /\ k \in Elems(keyRx[p].q)
          /\ Elems(Take(keyRx[p]).q) \subseteq Elems(keyRx[p].q)
      BY <2>1, <1>5, TakeKeeps DEF RecvKey
    <3>2. /\ keyRx' = [keyRx EXCEPT ![p] = Take(@)]
          /\ held' = [held EXCEPT ![p] = IF k \in Watched[p] THEN k ELSE None]
          /\ provRunning' = provRunning
      BY <2>1 DEF RecvKey
    <3> HIDE DEF k
    <3>3. CacheTypeOK'
      BY <3>1, <3>2, <1>2, <1>4 DEF CacheTypeOK
    <3>4. ProvTypeOK'
      BY <3>1, <3>2, <1>2 DEF ProvTypeOK
    <3>5. cache[k] # None
      BY <3>1, <1>2 DEF NotifiedIsCached
    <3>6. NotifiedIsCached'
      BY <3>1, <3>2, <3>5, <1>2, <1>3 DEF NotifiedIsCached, CacheTypeOK, ProvTypeOK
    <3> QED
      BY <3>3, <3>4, <3>6
  <2>2. CASE RecvKeyLagged(p)
    <3>1. SkipLag(keyRx[p]) \in RxOf(Key) /\ SkipLag(keyRx[p]).q = keyRx[p].q
      BY <1>5, SkipLagKeeps
    <3>2. keyRx' = [keyRx EXCEPT ![p] = SkipLag(@)] /\ UNCHANGED <<held, provRunning>>
      BY <2>2 DEF RecvKeyLagged, provVars
    <3> QED
      BY <3>1, <3>2, <1>2, <1>3, <1>4 DEF CacheTypeOK, ProvTypeOK, NotifiedIsCached
  <2>3. CASE ProviderStop(p, shutdown)
    BY <2>3, <1>2, <1>4 DEF ProviderStop, cacheVars, CacheTypeOK, ProvTypeOK, NotifiedIsCached
  <2> QED
    BY <2>1, <2>2, <2>3
<1> QED
  BY <1>1, <1>4, <1>6 DEF IInv, TypeOK

LEMMA ForwardIInv ==
  ASSUME IInv, NEW p \in StateProvider, StateProviderNext(p)
  PROVE  IInv'
<1> USE DEF StateProviderNext
<1>1. CacheTypeOK /\ ProvTypeOK /\ StateRxTypeOK /\ NotifiedIsCached
  BY DEF IInv, TypeOK
<1>2. (BookTypeOK /\ ContextTypeOK /\ HandlerTypeOK /\ shutdown \in BOOLEAN)'
  BY DEF IInv, TypeOK, bookVars, sinkVars, contextVars, handlerVars,
         BookTypeOK, ContextTypeOK, HandlerTypeOK
<1>3. (AisTypeOK /\ PopInRange /\ AnnouncedIsCached)'
  BY ServiceUnchanged DEF Forward, cacheVars
<1>4. p \in Providers /\ held[p] \in Key /\ cache[held[p]] \in AccountState
  BY <1>1 DEF Forward, StateProvider, ProvTypeOK, CacheTypeOK, NotifiedIsCached
<1>5. StateRxTypeOK'
  <2>1. \A k \in StateKeys : /\ stateRx[k] \in RxOf(AccountState)
                             /\ Push(stateRx[k], cache[held[p]], StateCap) \in RxOf(AccountState)
    BY <1>1, <1>4, PushKeeps, StateCapAssumption DEF StateRxTypeOK
  <2> QED
    BY <2>1 DEF Forward, StateRxTypeOK
<1>6. (CacheTypeOK /\ ProvTypeOK /\ NotifiedIsCached)'
  BY <1>1, <1>4 DEF Forward, cacheVars, CacheTypeOK, ProvTypeOK, NotifiedIsCached
<1> QED
  BY <1>2, <1>3, <1>5, <1>6 DEF IInv, TypeOK

LEMMA BookProviderIInv ==
  ASSUME IInv, NEW m \in BookTasks, BookProviderNext(m)
  PROVE  IInv'
<1> USE DEF BookProviderNext
<1>1. CacheTypeOK /\ ProvTypeOK /\ BookTypeOK /\ NotifiedIsCached
  BY DEF IInv, TypeOK
<1>2. (StateRxTypeOK /\ ContextTypeOK /\ HandlerTypeOK /\ shutdown \in BOOLEAN)'
  BY DEF IInv, TypeOK, sinkVars, contextVars, handlerVars,
         StateRxTypeOK, ContextTypeOK, HandlerTypeOK
<1>3. (AisTypeOK /\ PopInRange /\ AnnouncedIsCached)'
  BY ServiceUnchanged DEF ObApply, ObSend, cacheVars
<1>4. (CacheTypeOK /\ ProvTypeOK /\ NotifiedIsCached)'
  BY <1>1 DEF ObApply, ObSend, Handling, cacheVars, provVars, CacheTypeOK, ProvTypeOK,
              NotifiedIsCached
<1>5. BookTypeOK'
  <2>1. CASE ObApply(m)
    <3> DEFINE k   == held["orderbook"]
               old == IF books[m] = None THEN EmptyBook ELSE books[m]
    <3>1. k \in Key /\ cache[k] \in AccountState \cup {None}
      BY <2>1, <1>1, CacheAssumption DEF ObApply, Handling, ProvTypeOK, CacheTypeOK, BookTasks, Key
    <3>2. old \in Book
      BY <1>1 DEF BookTypeOK, EmptyBook, Book
    <3> HIDE DEF k, old
    <3>3. [old EXCEPT !.bids = cache[k]] \in Book /\ [old EXCEPT !.asks = cache[k]] \in Book
      BY <3>1, <3>2 DEF Book
    <3>4. /\ books' = [books EXCEPT ![m] = IF k = BidsKey[m] THEN [old EXCEPT !.bids = cache[k]]
                                                               ELSE [old EXCEPT !.asks = cache[k]]]
          /\ updated' = TRUE /\ bookRx' = bookRx
      BY <2>1 DEF ObApply, k, old
    <3> QED
      BY <3>3, <3>4, <1>1 DEF BookTypeOK
  <2>2. CASE ObSend(m)
    <3>1. \A n \in BookTasks : Push(bookRx[n], m, BookCap) \in RxOf(BookTasks)
      BY <1>1, PushKeeps, BookCapAssumption DEF BookTypeOK
    <3> QED
      BY <2>2, <3>1, <1>1 DEF ObSend, BookTypeOK
  <2> QED
    BY <2>1, <2>2
<1> QED
  BY <1>2, <1>3, <1>4, <1>5 DEF IInv, TypeOK

LEMMA ContextIInv == IInv /\ ContextNext => IInv'
<1> SUFFICES ASSUME IInv, ContextNext PROVE IInv'
  OBVIOUS
<1> USE DEF ContextNext, ContextTurn
<1>1. StateRxTypeOK /\ ContextTypeOK
  BY DEF IInv, TypeOK
<1>2. (CacheTypeOK /\ ProvTypeOK /\ BookTypeOK /\ HandlerTypeOK /\ shutdown \in BOOLEAN
         /\ NotifiedIsCached)'
  BY DEF IInv, TypeOK, cacheVars, provVars, bookVars, handlerVars,
         CacheTypeOK, ProvTypeOK, BookTypeOK, HandlerTypeOK, NotifiedIsCached
<1>3. (AisTypeOK /\ PopInRange /\ AnnouncedIsCached)'
  BY ServiceUnchanged DEF cacheVars
<1>4. (StateRxTypeOK /\ ContextTypeOK)'
  <2>1. ASSUME NEW k \in ContextKeys, RecvContext(k)
        PROVE  (StateRxTypeOK /\ ContextTypeOK)'
    <3>1. k \in StateKeys /\ stateRx[k] \in RxOf(AccountState)
      BY <1>1 DEF ContextKeys, StateRxTypeOK
    <3>2. Take(stateRx[k]) \in RxOf(AccountState) /\ Head(stateRx[k].q) \in AccountState
      BY <2>1, <3>1, TakeKeeps DEF RecvContext
    <3> QED
      BY <2>1, <3>1, <3>2, <1>1 DEF RecvContext, StateRxTypeOK, ContextTypeOK
  <2>2. ASSUME NEW k \in ContextKeys, RecvContextLagged(k)
        PROVE  (StateRxTypeOK /\ ContextTypeOK)'
    <3>1. k \in StateKeys /\ stateRx[k] \in RxOf(AccountState)
      BY <1>1 DEF ContextKeys, StateRxTypeOK
    <3>2. SkipLag(stateRx[k]) \in RxOf(AccountState)
      BY <3>1, SkipLagKeeps
    <3> QED
      BY <2>2, <3>1, <3>2, <1>1 DEF RecvContextLagged, contextVars, StateRxTypeOK, ContextTypeOK
  <2>3. CASE ContextStop(shutdown)
    BY <2>3, <1>1 DEF ContextStop, StateRxTypeOK, ContextTypeOK
  <2> QED
    BY <2>1, <2>2, <2>3
<1> QED
  BY <1>2, <1>3, <1>4 DEF IInv, TypeOK

\* Handlers have a Receiver for the open orders of their market.
LEMMA OpenOrdersIsKept ==
  ASSUME NEW m \in OpenOrdersTasks
  PROVE  /\ m \in Markets /\ "openOrders" \in StateProvider
         /\ OpenOrdersKey[m] \in Watched["openOrders"] /\ OpenOrdersKey[m] \in StateKeys
<1>1. m \in Markets /\ "openOrders" \in StateProvider
  BY DEF OpenOrdersTasks, StateProvider
<1>2. Watched["openOrders"] = {OpenOrdersKey[n] : n \in Markets}
  BY DEF Watched
<1>3. OpenOrdersKey[m] \in Watched["openOrders"]
  BY <1>1, <1>2
<1> QED
  BY <1>1, <1>3 DEF StateKeys

LEMMA HandlerIInv ==
  ASSUME IInv, NEW m \in Markets, HandlerNext(m)
  PROVE  IInv'
<1> USE DEF HandlerNext, HandlerTurn
<1>1. StateRxTypeOK /\ BookTypeOK /\ HandlerTypeOK
  BY DEF IInv, TypeOK
<1>2. (CacheTypeOK /\ ProvTypeOK /\ ContextTypeOK /\ shutdown \in BOOLEAN /\ NotifiedIsCached)'
  BY DEF IInv, TypeOK, cacheVars, provVars, contextVars,
         CacheTypeOK, ProvTypeOK, ContextTypeOK, NotifiedIsCached
<1>3. (AisTypeOK /\ PopInRange /\ AnnouncedIsCached)'
  BY ServiceUnchanged DEF cacheVars
<1>4. (StateRxTypeOK /\ BookTypeOK /\ HandlerTypeOK)'
  <2>1. ASSUME m \in OpenOrdersTasks
        PROVE  OpenOrdersKey[m] \in StateKeys /\ stateRx[OpenOrdersKey[m]] \in RxOf(AccountState)
    <3>1. OpenOrdersKey[m] \in StateKeys
      BY <2>1, OpenOrdersIsKept
    <3> QED
      BY <3>1, <1>1 DEF StateRxTypeOK
  <2>2. CASE m \in OpenOrdersTasks /\ RecvOpenOrders(m)
    <3> DEFINE k == OpenOrdersKey[m]
    <3>1. Take(stateRx[k]) \in RxOf(AccountState) /\ Head(stateRx[k].q) \in AccountState
      BY <2>1, <2>2, TakeKeeps DEF RecvOpenOrders
    <3> QED
      BY <2>1, <2>2, <3>1, <1>1 DEF RecvOpenOrders, bookVars, StateRxTypeOK, BookTypeOK, HandlerTypeOK
  <2>3. CASE m \in OpenOrdersTasks /\ RecvOpenOrdersLagged(m)
    <3>1. SkipLag(stateRx[OpenOrdersKey[m]]) \in RxOf(AccountState)
      BY <2>1, <2>3, SkipLagKeeps
    <3> QED
      BY <2>1, <2>3, <3>1, <1>1 DEF RecvOpenOrdersLagged, bookVars, handlerVars, StateRxTypeOK,
                                    BookTypeOK, HandlerTypeOK
  <2>4. CASE m \in BookTasks /\ RecvBook(m)
    <3>1. Take(bookRx[m]) \in RxOf(BookTasks) /\ Head(bookRx[m].q) \in BookTasks
      BY <2>4, <1>1, TakeKeeps DEF RecvBook, BookTypeOK
    <3> QED
      BY <2>4, <3>1, <1>1 DEF RecvBook, StateRxTypeOK, BookTypeOK, HandlerTypeOK
  <2>5. CASE m \in BookTasks /\ RecvBookLagged(m)
    <3>1. SkipLag(bookRx[m]) \in RxOf(BookTasks)
      BY <2>5, <1>1, SkipLagKeeps DEF BookTypeOK
    <3> QED
      BY <2>5, <3>1, <1>1 DEF RecvBookLagged, handlerVars, StateRxTypeOK, BookTypeOK, HandlerTypeOK
  <2>6. CASE HandlerStop(m, shutdown)
    BY <2>6, <1>1 DEF HandlerStop, bookVars, StateRxTypeOK, BookTypeOK, HandlerTypeOK
  <2> QED
    BY <2>2, <2>3, <2>4, <2>5, <2>6
<1> QED
  BY <1>2, <1>3, <1>4 DEF IInv, TypeOK

LEMMA UnchangedIInv ==
  ASSUME IInv, UNCHANGED <<cacheVars, aisVars, provVars, stateRx, bookVars, sinkVars>>,
         shutdown' \in BOOLEAN
  PROVE  IInv'
<1>1. (ProvTypeOK /\ StateRxTypeOK /\ BookTypeOK /\ ContextTypeOK /\ HandlerTypeOK)'
  BY DEF IInv, TypeOK, provVars, bookVars, sinkVars, contextVars, handlerVars,
         ProvTypeOK, StateRxTypeOK, BookTypeOK, ContextTypeOK, HandlerTypeOK
<1>2. (AisTypeOK /\ PopInRange /\ AnnouncedIsCached)'
  BY ServiceUnchanged DEF cacheVars
<1>3. (CacheTypeOK /\ NotifiedIsCached)'
  BY DEF IInv, TypeOK, cacheVars, provVars, CacheTypeOK, NotifiedIsCached
<1> QED
  BY <1>1, <1>2, <1>3 DEF IInv, TypeOK

THEOREM InductiveInvariant == Spec => []IInv
<1>1. IInv /\ [Next]_vars => IInv'
  <2> SUFFICES ASSUME IInv, [Next]_vars PROVE IInv'
    OBVIOUS
  <2>1. CASE Shutdown
    BY <2>1, UnchangedIInv DEF Shutdown
  <2>2. CASE ServiceNext
    BY <2>2, ServiceIInv
  <2>3. CASE \E p \in Providers : ProviderLoop(p)
    BY <2>3, ProviderLoopIInv
  <2>4. CASE \E p \in StateProvider : StateProviderNext(p)
    BY <2>4, ForwardIInv
  <2>5. CASE \E m \in BookTasks : BookProviderNext(m)
    BY <2>5, BookProviderIInv
  <2>6. CASE ContextNext
    BY <2>6, ContextIInv
  <2>7. CASE \E m \in Markets : HandlerNext(m)
    BY <2>7, HandlerIInv
  <2>8. CASE UNCHANGED vars
    BY <2>8, UnchangedIInv DEF vars, sinkVars, IInv, TypeOK
  <2> QED
    BY <2>1, <2>2, <2>3, <2>4, <2>5, <2>6, <2>7, <2>8 DEF Next
<1> QED
  BY InitIInv, <1>1, PTL DEF Spec

\* Every variable keeps its type, whatever the capacities and the accounts.
THEOREM TypeCorrect == Spec => []TypeOK
BY InductiveInvariant, PTL DEF IInv

\* cache.get(&key).unwrap() never panics in a provider: insert() writes before
\* it notifies, and no entry is ever removed.
THEOREM UnwrapIsSafe == Spec => []NotifiedIsCached
BY InductiveInvariant, PTL DEF IInv

\* update_infos never indexes outside the slice it asked for.
THEOREM PopIsInRange == Spec => []PopInRange
BY InductiveInvariant, PTL DEF IInv
===========================================================================
