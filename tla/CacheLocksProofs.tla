-------------------------- MODULE CacheLocksProofs --------------------------
(* With enough worker threads the locks of the cache never stop the runtime. *)
EXTENDS CacheLocks, FiniteSetTheorems, TLAPS

\* A Ref is held by a task on a worker, but for the order book provider's, which
\* is held while a side is locked or waited for; insert() is on a worker.
LocksInv ==
  /\ workers \in Nat /\ readersWait \in BOOLEAN
  /\ on \subseteq Tasks
  /\ DOMAIN ref = StateProvider \cup {"orderbook"}
  /\ \A p \in StateProvider : ref[p] # None => p \in on
  /\ ref["orderbook"] # None => obAt \in {"lock", "retry"}
  /\ writing # None => "ais" \in on

\* Types, and that no ended task is ready; the guards that the order book provider
\* holds at each point.
TypeInv ==
  /\ TypeOK /\ ready \cap ended = {}
  /\ obAt = "create" => guards = 0
  /\ obAt = "lookup" => guards < 2

\* The order book provider waits only behind main and main only behind it, and
\* what it has or waits for is the side it is about to write.
QueueInv ==
  /\ \A s \in Side : waiter[s] = "main" => holder[s] = "orderbook"
  /\ \A s \in Side : waiter[s] = "orderbook" =>
       holder[s] = "main" /\ "orderbook" \notin on \cup ready \cup ended
  /\ \A s \in Side : holder[s] = "orderbook" \/ waiter[s] = "orderbook" =>
       obAt \in {"lock", "retry"} /\ obKey = s
  /\ obAt \in {"lock", "retry"} => "orderbook" \in on \cup ready \/ waiter[obKey] = "orderbook"
  /\ down => \A s \in Side : "main" \notin {holder[s], waiter[s]}

LEMMA LocksInit == Init => LocksInv
BY LocksAssumption DEF Init, LocksInv

\* The runtime: a task is put on a worker, or dropped while on none.
LEMMA RuntimeKeeps ==
  ASSUME LocksInv, NEW t \in Tasks, Dispatch(t) \/ DropTask(t)
  PROVE  LocksInv'
<1>1. CASE Dispatch(t)
  BY <1>1 DEF LocksInv, Dispatch, host, obVars
<1>2. CASE DropTask(t)
  <2>1. /\ UNCHANGED <<workers, readersWait, on, writing>> /\ DOMAIN ref' = DOMAIN ref
    BY <1>2 DEF DropTask, host
  <2>2. \A p \in DOMAIN ref : ref'[p] = IF p = t THEN None ELSE ref[p]
    BY <1>2 DEF DropTask
  <2>3. t # "orderbook" => obAt' = obAt
    BY <1>2 DEF DropTask
  <2> QED BY <2>1, <2>2, <2>3 DEF LocksInv
<1> QED BY <1>1, <1>2

LEMMA ServiceKeeps ==
  ASSUME LocksInv, Answer \/ AisTurn
  PROVE  LocksInv'
<1>1. CASE Answer
  BY <1>1 DEF LocksInv, Answer, host, obVars
<1>2. CASE \E a \in Accounts : InsertBegin(a)
  BY <1>2 DEF LocksInv, InsertBegin, host, obVars
<1>3. CASE InsertEnd
  <2>1. "ais" \notin StateProvider
    BY LocksAssumption DEF Accounts
  <2> QED BY <1>3, <2>1 DEF LocksInv, InsertEnd, host, obVars
<1> QED BY <1>1, <1>2, <1>3 DEF AisTurn

LEMMA StateProviderKeeps ==
  ASSUME LocksInv, NEW p \in StateProvider, ProviderTurn(p)
  PROVE  LocksInv'
<1>1. p # "orderbook" /\ p # "ais"
  BY LocksAssumption DEF Accounts
<1>2. CASE Get(p)
  BY <1>1, <1>2 DEF LocksInv, Get, host, obVars
<1>3. CASE Sent(p)
  BY <1>1, <1>3 DEF LocksInv, Sent, LeaveUnless, host, obVars
<1> QED BY <1>2, <1>3 DEF ProviderTurn

LEMMA OrderBookKeeps ==
  ASSUME LocksInv, ObTurn \/ ObYield
  PROVE  LocksInv'
<1>0. "orderbook" \notin StateProvider
  BY LocksAssumption DEF Accounts
<1>1. CASE \E k \in Side : ObFind(k)
  BY <1>1 DEF LocksInv, ObFind, At, host
<1>2. CASE ObCreate
  BY <1>2 DEF LocksInv, ObCreate, At, host
<1>3. CASE ObGet
  BY <1>0, <1>3 DEF LocksInv, ObGet, At, host
<1>4. CASE ObWrite
  BY <1>0, <1>4 DEF LocksInv, ObWrite, LeaveUnless, host
<1>5. CASE ObPark
  BY <1>0, <1>5 DEF LocksInv, ObPark, host, obVars
<1>6. CASE ObYield
  BY <1>0, <1>6 DEF LocksInv, ObYield, host
<1> QED BY <1>1, <1>2, <1>3, <1>4, <1>5, <1>6 DEF ObTurn

LEMMA LocksStep == LocksInv /\ [Next]_vars => LocksInv'
<1> SUFFICES ASSUME LocksInv, [Next]_vars PROVE LocksInv'
  OBVIOUS
<1>1. CASE \E s \in Side : MainRead(s) \/ MainDone(s)
  BY <1>1 DEF LocksInv, MainRead, MainDone, host, obVars
<1>2. CASE MainReturn
  BY <1>2 DEF LocksInv, MainReturn, host, obVars
<1>3. CASE UNCHANGED vars
  BY <1>3 DEF LocksInv, vars, host, obVars
<1> QED
  BY <1>1, <1>2, <1>3, RuntimeKeeps, ServiceKeeps, StateProviderKeeps, OrderBookKeeps DEF Next

---------------------------------------------------------------------------
(* Types *)

LEMMA Names ==
  /\ "ais" \notin StateProvider /\ "orderbook" \notin StateProvider
  /\ None \notin Accounts /\ None \notin {"ais", "orderbook", "main"}
  /\ Side \subseteq Accounts /\ StateProvider \subseteq Accounts
BY LocksAssumption DEF Accounts

\* There are no more workers than threads.
LEMMA FewerWorkers ==
  ASSUME TypeOK, workers' = workers,
         \/ on' \subseteq on
         \/ FreeWorker /\ \E t \in Tasks : on' = on \cup {t}
  PROVE  (on \subseteq Tasks /\ Cardinality(on) <= workers)'
<1>1. on \subseteq Tasks /\ Cardinality(on) <= workers /\ workers \in Nat
  BY LocksAssumption DEF TypeOK
<1>2. IsFiniteSet(Tasks)
  <2>1. IsFiniteSet({"ais"}) /\ IsFiniteSet({"ais"} \cup {"orderbook"})
    BY FS_Singleton, FS_AddElement
  <2>2. Tasks = StateProvider \cup ({"ais"} \cup {"orderbook"})
    BY DEF Tasks
  <2> QED BY <2>1, <2>2, LocksAssumption, FS_Union
<1>3. IsFiniteSet(on) /\ Cardinality(on) \in Nat
  BY <1>1, <1>2, FS_Subset, FS_CardinalityType
<1>4. CASE on' \subseteq on
  BY <1>1, <1>3, <1>4, FS_Subset, FS_CardinalityType
<1>5. ASSUME NEW t \in Tasks, on' = on \cup {t}, FreeWorker
      PROVE  (on \subseteq Tasks /\ Cardinality(on) <= workers)'
  <2>1. /\ Cardinality(on \cup {t}) = IF t \in on THEN Cardinality(on) ELSE Cardinality(on) + 1
    BY <1>3, FS_AddElement
  <2> QED BY <1>1, <1>3, <1>5, <2>1 DEF FreeWorker
<1> QED BY <1>4, <1>5

LEMMA TypeInit == Init => TypeInv
<1> SUFFICES ASSUME Init PROVE TypeInv
  OBVIOUS
<1>1. workers \in Nat /\ workers >= 1 /\ Cardinality(on) = 0
  BY LocksAssumption, FS_EmptySet DEF Init
<1>2. obKey \in Side
  BY LocksAssumption DEF Init
<1>3. /\ ref \in [StateProvider \cup {"orderbook"} -> Accounts \cup {None}]
      /\ {holder, waiter} \subseteq [Side -> {"orderbook", "main", None}]
  BY DEF Init
<1>4. on = {} /\ ready = {} /\ ended = {} /\ workers \in 1..MaxWorkers /\ Cardinality(on) <= workers
  BY <1>1 DEF Init
<1>5. book \in BOOLEAN /\ down \in BOOLEAN
  BY Zenon DEF Init
<1>6. TypeOK
  BY <1>2, <1>3, <1>4, <1>5 DEF Init, TypeOK
<1> QED BY <1>4, <1>6 DEF Init, TypeInv

\* The lock of a side is handed from one to another.
LEMMA ReleaseType ==
  ASSUME TypeOK, NEW s \in Side, Release(s)
  PROVE  ({holder, waiter} \subseteq [Side -> {"orderbook", "main", None}])'
BY DEF TypeOK, Release

LEMMA RuntimeTypes ==
  ASSUME LocksInv, TypeInv, NEW t \in Tasks, Dispatch(t) \/ DropTask(t)
  PROVE  TypeInv'
<1>1. CASE Dispatch(t)
  <2>1. (on \subseteq Tasks /\ Cardinality(on) <= workers)'
    BY <1>1, FewerWorkers DEF TypeInv, Dispatch, host
  <2> QED BY <1>1, <2>1 DEF TypeInv, TypeOK, Dispatch, host, obVars
<1>2. CASE DropTask(t)
  <2>1. /\ UNCHANGED <<workers, readersWait, shard, on, todo, writing, pending, obKey, book, down>>
        /\ t \notin on /\ ended' = ended \cup {t} /\ ready' = ready \ {t}
        /\ ref' = [p \in DOMAIN ref |-> IF p = t THEN None ELSE ref[p]]
    BY <1>2 DEF DropTask, host
  <2>2. ref' \in [StateProvider \cup {"orderbook"} -> Accounts \cup {None}]
    BY <2>1 DEF TypeInv, TypeOK
  <2>3. CASE t = "orderbook"
    <3>1. /\ obAt' = "recv" /\ guards' = 0
          /\ {holder', waiter'} \subseteq [Side -> {"orderbook", "main", None}]
      BY <1>2, <2>3 DEF DropTask, TypeInv, TypeOK
    <3> QED BY <2>1, <2>2, <3>1 DEF TypeInv, TypeOK
  <2>4. CASE t # "orderbook"
    <3>1. UNCHANGED <<obAt, guards, holder, waiter>>
      BY <1>2, <2>4 DEF DropTask
    <3> QED BY <2>1, <2>2, <3>1 DEF TypeInv, TypeOK
  <2> QED BY <2>3, <2>4
<1> QED BY <1>1, <1>2

LEMMA ServiceTypes ==
  ASSUME LocksInv, TypeInv, Answer \/ AisTurn
  PROVE  TypeInv'
<1>1. CASE Answer
  <2>1. ready' \subseteq Tasks \ on /\ ready' \cap ended = {}
    BY <1>1 DEF Answer, TypeInv, TypeOK, Tasks
  <2> QED BY <1>1, <2>1 DEF Answer, TypeInv, TypeOK, host, obVars
<1>2. CASE \E a \in Accounts : InsertBegin(a)
  BY <1>2 DEF InsertBegin, TypeInv, TypeOK, host, obVars
<1>3. CASE InsertEnd
  <2>1. (on \subseteq Tasks /\ Cardinality(on) <= workers)' /\ on' \subseteq on
    BY <1>3, FewerWorkers DEF TypeInv, InsertEnd, host
  <2>2. writing \in Accounts
    BY <1>3 DEF InsertEnd, TypeInv, TypeOK
  <2>3. Woken(writing) \subseteq Tasks \ (on \cup ended)
    BY <2>2 DEF Woken, Tasks, Accounts
  <2>4. ready' \subseteq Tasks \ on' /\ ready' \cap ended = {} /\ ended \subseteq Tasks \ on'
    BY <1>3, <2>1, <2>3 DEF InsertEnd, TypeInv, TypeOK
  <2> QED BY <1>3, <2>1, <2>2, <2>4 DEF InsertEnd, TypeInv, TypeOK, host, obVars
<1> QED BY <1>1, <1>2, <1>3 DEF AisTurn

LEMMA StateProviderTypes ==
  ASSUME LocksInv, TypeInv, NEW p \in StateProvider, ProviderTurn(p)
  PROVE  TypeInv'
<1>1. p \in Accounts
  BY Names
<1>2. CASE Get(p)
  BY <1>1, <1>2 DEF Get, TypeInv, TypeOK, host, obVars
<1>3. CASE Sent(p)
  <2>1. on' \subseteq on
    BY <1>3 DEF Sent, LeaveUnless
  <2>2. (on \subseteq Tasks /\ Cardinality(on) <= workers)'
    BY <1>3, <2>1, FewerWorkers DEF TypeInv, Sent, host
  <2> QED BY <1>3, <2>1, <2>2 DEF Sent, TypeInv, TypeOK, host, obVars
<1> QED BY <1>2, <1>3 DEF ProviderTurn

LEMMA OrderBookTypes ==
  ASSUME LocksInv, TypeInv, ObTurn \/ ObYield
  PROVE  TypeInv'
<1>1. CASE \E k \in Side : ObFind(k)
  BY <1>1 DEF ObFind, At, TypeInv, TypeOK, host
<1>2. CASE ObCreate
  BY <1>2 DEF ObCreate, At, TypeInv, TypeOK, host
<1>3. CASE ObGet
  <2>1. guards' \in 0..2 /\ obKey \in Accounts
    BY <1>3, Names DEF ObGet, At, TypeInv, TypeOK
  <2>2. ref' \in [StateProvider \cup {"orderbook"} -> Accounts \cup {None}]
    BY <1>3, <2>1 DEF ObGet, TypeInv, TypeOK
  <2> QED BY <1>3, <2>1, <2>2 DEF ObGet, TypeInv, TypeOK, host
<1>4. CASE ObWrite
  <2>1. on' \subseteq on
    BY <1>4 DEF ObWrite, LeaveUnless
  <2>2. (on \subseteq Tasks /\ Cardinality(on) <= workers)'
    BY <1>4, <2>1, FewerWorkers DEF TypeInv, ObWrite, host
  <2>3. ({holder, waiter} \subseteq [Side -> {"orderbook", "main", None}])'
    BY <1>4, ReleaseType DEF ObWrite, TypeInv, TypeOK
  <2> QED BY <1>4, <2>1, <2>2, <2>3 DEF ObWrite, TypeInv, TypeOK, host
<1>5. CASE ObPark
  <2>1. (on \subseteq Tasks /\ Cardinality(on) <= workers)' /\ on' \subseteq on
    BY <1>5, FewerWorkers DEF TypeInv, ObPark, host
  <2>2. waiter' \in [Side -> {"orderbook", "main", None}]
    BY <1>5 DEF ObPark, TypeInv, TypeOK
  <2> QED BY <1>5, <2>1, <2>2 DEF ObPark, TypeInv, TypeOK, host, obVars
<1>6. CASE ObYield
  <2>1. (on \subseteq Tasks /\ Cardinality(on) <= workers)' /\ on' \subseteq on
    BY <1>6, FewerWorkers DEF TypeInv, ObYield, host
  <2>2. ready' \subseteq Tasks \ on' /\ ready' \cap ended = {}
    BY <1>6 DEF ObYield, At, TypeInv, TypeOK, Tasks
  <2> QED BY <1>6, <2>1, <2>2 DEF ObYield, TypeInv, TypeOK, host
<1> QED BY <1>1, <1>2, <1>3, <1>4, <1>5, <1>6 DEF ObTurn

\* Who waited for a side is made ready: main is no task, the order book provider
\* is on no worker.
LEMMA MainTypes ==
  ASSUME LocksInv, TypeInv, QueueInv,
         (\E s \in Side : MainRead(s) \/ MainDone(s)) \/ MainReturn
  PROVE  TypeInv'
<1>1. ASSUME NEW s \in Side, MainRead(s)  PROVE TypeInv'
  <2>1. {holder', waiter'} \subseteq [Side -> {"orderbook", "main", None}]
    BY <1>1 DEF MainRead, TypeInv, TypeOK
  <2> QED BY <1>1, <2>1 DEF MainRead, TypeInv, TypeOK, host, obVars
<1>2. ASSUME NEW s \in Side, MainDone(s)  PROVE TypeInv'
  <2>1. waiter[s] # "main" /\ waiter[s] \in {"orderbook", "main", None}
    BY <1>2 DEF MainDone, QueueInv, TypeInv, TypeOK
  <2>2. {waiter[s]} \ {None} \subseteq Tasks \ (on \cup ended)
    BY <2>1 DEF QueueInv, Tasks
  <2>3. ({holder, waiter} \subseteq [Side -> {"orderbook", "main", None}])'
    BY <1>2, ReleaseType DEF MainDone, TypeInv
  <2> QED BY <1>2, <2>2, <2>3 DEF MainDone, TypeInv, TypeOK, host, obVars
<1>3. CASE MainReturn
  <2>1. waiter' \in [Side -> {"orderbook", "main", None}]
    BY <1>3 DEF MainReturn, TypeInv, TypeOK
  <2> QED BY <1>3, <2>1 DEF MainReturn, TypeInv, TypeOK, host, obVars
<1> QED BY <1>1, <1>2, <1>3

---------------------------------------------------------------------------
(* The sides of the book *)

LEMMA QueueInit == Init => QueueInv
BY Names DEF Init, QueueInv

LEMMA RuntimeQueues ==
  ASSUME TypeInv, QueueInv, NEW t \in Tasks, Dispatch(t) \/ DropTask(t)
  PROVE  QueueInv'
<1>1. CASE Dispatch(t)
  BY <1>1 DEF Dispatch, QueueInv, host, obVars
<1>2. CASE DropTask(t)
  <2>1. down /\ t \notin on /\ down' = down /\ on' = on /\ obKey' = obKey
        /\ ready' = ready \ {t} /\ ended' = ended \cup {t}
    BY <1>2 DEF DropTask
  <2>2. CASE t = "orderbook"
    <3>1. /\ obAt' = "recv"
          /\ holder' = [s \in Side |-> IF holder[s] = t THEN None ELSE holder[s]]
          /\ waiter' = [s \in Side |-> IF waiter[s] = t THEN None ELSE waiter[s]]
      BY <1>2, <2>2 DEF DropTask
    <3>2. \A s \in Side : holder'[s] \notin {"main", "orderbook"} /\ waiter'[s] \notin {"main", "orderbook"}
      BY <2>1, <2>2, <3>1, Names DEF QueueInv
    <3> QED BY <2>1, <3>1, <3>2 DEF QueueInv
  <2>3. CASE t # "orderbook"
    <3>1. UNCHANGED <<obAt, holder, waiter>>
      BY <1>2, <2>3 DEF DropTask
    <3> QED BY <2>1, <2>3, <3>1 DEF QueueInv
  <2> QED BY <2>2, <2>3
<1> QED BY <1>1, <1>2

\* A key wakes the order book provider only where it receives keys.
LEMMA ServiceQueues ==
  ASSUME TypeInv, QueueInv, Answer \/ AisTurn
  PROVE  QueueInv'
<1>1. CASE Answer
  BY <1>1 DEF Answer, QueueInv, host, obVars
<1>2. CASE \E a \in Accounts : InsertBegin(a)
  BY <1>2 DEF InsertBegin, QueueInv, host, obVars
<1>3. CASE InsertEnd
  <2>1. obAt \in {"lock", "retry"} => "orderbook" \notin Woken(writing)
    BY Names DEF Woken, Accounts
  <2>2. \A s \in Side : waiter[s] = "orderbook" => "orderbook" \notin on' \cup ready' \cup ended
    BY <1>3, <2>1 DEF InsertEnd, QueueInv
  <2>3. "orderbook" \in on \cup ready => "orderbook" \in on' \cup ready'
    BY <1>3 DEF InsertEnd
  <2> QED BY <1>3, <2>2, <2>3 DEF InsertEnd, QueueInv, obVars
<1> QED BY <1>1, <1>2, <1>3 DEF AisTurn

LEMMA StateProviderQueues ==
  ASSUME TypeInv, QueueInv, NEW p \in StateProvider, ProviderTurn(p)
  PROVE  QueueInv'
<1>1. p # "orderbook"
  BY Names
<1>2. CASE Get(p)
  BY <1>2 DEF Get, QueueInv, host, obVars
<1>3. CASE Sent(p)
  BY <1>1, <1>3 DEF Sent, LeaveUnless, QueueInv, host, obVars
<1> QED BY <1>2, <1>3 DEF ProviderTurn

LEMMA OrderBookQueues ==
  ASSUME TypeInv, QueueInv, ObTurn \/ ObYield
  PROVE  QueueInv'
<1>0. "orderbook" \in on => \A s \in Side : waiter[s] # "orderbook"
  BY DEF QueueInv
<1>1. CASE \E k \in Side : ObFind(k)
  BY <1>1 DEF ObFind, At, QueueInv, host
<1>2. CASE ObCreate
  BY <1>2 DEF ObCreate, At, QueueInv, host
<1>3. CASE ObGet
  BY <1>3 DEF ObGet, At, QueueInv, host
<1>4. CASE ObWrite
  <2>1. /\ obKey \in Side /\ "orderbook" \in on /\ obAt' = "recv" /\ down' = down
        /\ holder[obKey] \in {None, "orderbook"}
        /\ holder' = [holder EXCEPT ![obKey] = waiter[obKey]]
        /\ waiter' = [waiter EXCEPT ![obKey] = None]
        /\ {holder, waiter} \subseteq [Side -> {"orderbook", "main", None}]
    BY <1>4 DEF ObWrite, AtLock, At, FreeSide, Release, TypeInv, TypeOK, obVars
  <2>2. \A s \in Side : waiter'[s] # "orderbook" /\ holder'[s] # "orderbook"
    BY <1>0, <2>1, Names DEF QueueInv
  <2>3. \A s \in Side : waiter'[s] = "main" => holder'[s] = "orderbook"
    <3> SUFFICES ASSUME NEW s \in Side, waiter'[s] = "main"  PROVE FALSE
      OBVIOUS
    <3>1. s # obKey /\ waiter[s] = "main"
      BY <2>1, Names
    <3>2. holder[s] = "orderbook" /\ s = obKey
      BY <3>1 DEF QueueInv
    <3> QED BY <3>1, <3>2
  <2>4. down => \A s \in Side : "main" \notin {holder'[s], waiter'[s]}
    BY <2>1, Names DEF QueueInv
  <2> QED BY <2>1, <2>2, <2>3, <2>4 DEF QueueInv
<1>5. CASE ObPark
  <2>1. /\ obKey \in Side /\ "orderbook" \in on /\ obAt \in {"lock", "retry"}
        /\ holder[obKey] = "main" /\ holder' = holder /\ on' = on \ {"orderbook"}
        /\ waiter' = [waiter EXCEPT ![obKey] = "orderbook"]
        /\ UNCHANGED <<obAt, obKey, ready, ended, down>>
        /\ waiter \in [Side -> {"orderbook", "main", None}]
    BY <1>5 DEF ObPark, AtLock, At, TypeInv, TypeOK, obVars
  <2>2. "orderbook" \notin on' \cup ready' \cup ended'
    BY <2>1 DEF TypeInv, TypeOK
  <2>3. \A s \in Side : waiter'[s] = IF s = obKey THEN "orderbook" ELSE waiter[s]
    BY <2>1
  <2> QED BY <1>0, <2>1, <2>2, <2>3 DEF QueueInv
<1>6. CASE ObYield
  BY <1>0, <1>6 DEF ObYield, At, QueueInv, host
<1> QED BY <1>1, <1>2, <1>3, <1>4, <1>5, <1>6 DEF ObTurn

LEMMA MainQueues ==
  ASSUME TypeInv, QueueInv,
         (\E s \in Side : MainRead(s) \/ MainDone(s)) \/ MainReturn
  PROVE  QueueInv'
<1>1. {holder, waiter} \subseteq [Side -> {"orderbook", "main", None}]
  BY DEF TypeInv, TypeOK
<1>2. obKey \in Side
  BY DEF TypeInv, TypeOK
<1>3. ASSUME NEW s \in Side, MainRead(s)  PROVE QueueInv'
  <2>1. ~down /\ UNCHANGED <<on, ready, ended, obAt, obKey, down>>
    BY <1>3 DEF MainRead, obVars
  <2>2. CASE FreeSide(s)
    <3>1. holder[s] = None /\ waiter' = waiter /\ holder' = [holder EXCEPT ![s] = "main"]
      BY <1>3, <2>2 DEF MainRead, FreeSide
    <3>2. waiter[s] \notin {"main", "orderbook"}
      BY <3>1, Names DEF QueueInv
    <3>3. \A r \in Side : holder'[r] = IF r = s THEN "main" ELSE holder[r]
      BY <1>1, <3>1
    <3> QED BY <2>1, <3>1, <3>2, <3>3 DEF QueueInv
  <2>3. CASE ~FreeSide(s)
    <3>1. holder[s] = "orderbook" /\ holder' = holder /\ waiter' = [waiter EXCEPT ![s] = "main"]
      BY <1>1, <1>3, <2>3 DEF MainRead, FreeSide, MainIdle
    <3>2. waiter[s] # "orderbook"
      BY <3>1 DEF QueueInv
    <3>3. \A r \in Side : waiter'[r] = IF r = s THEN "main" ELSE waiter[r]
      BY <1>1, <3>1
    <3> QED BY <2>1, <3>1, <3>2, <3>3 DEF QueueInv
  <2> QED BY <2>2, <2>3
<1>4. ASSUME NEW s \in Side, MainDone(s)  PROVE QueueInv'
  <2>1. /\ holder[s] = "main" /\ waiter[s] # "main"
        /\ ready' = ready \cup ({waiter[s]} \ {None})
        /\ UNCHANGED <<on, ended, obAt, obKey, down>>
    BY <1>4 DEF MainDone, QueueInv, obVars
  <2>2. \A r \in Side : /\ holder'[r] = IF r = s THEN waiter[s] ELSE holder[r]
                        /\ waiter'[r] = IF r = s THEN None ELSE waiter[r]
    BY <1>1, <1>4 DEF MainDone, Release
  <2>3. waiter[s] \in {"orderbook", None}
    BY <1>1, <2>1
  <2>4. \A r \in Side : waiter[r] = "orderbook" => r = s \/ waiter[s] # "orderbook"
    BY DEF QueueInv
  <2>5. \A r \in Side : waiter'[r] = "orderbook" =>
          holder'[r] = "main" /\ "orderbook" \notin on' \cup ready' \cup ended'
    BY <2>1, <2>2, <2>4, Names DEF QueueInv
  <2>6. obAt \in {"lock", "retry"} => "orderbook" \in on' \cup ready' \/ waiter'[obKey] = "orderbook"
    BY <1>2, <2>1, <2>2, Names DEF QueueInv
  <2> QED BY <2>1, <2>2, <2>3, <2>5, <2>6, Names DEF QueueInv
<1>5. CASE MainReturn
  <2>1. UNCHANGED <<on, ready, ended, obAt, obKey, holder>> /\ \A s \in Side : holder[s] # "main"
    BY <1>5 DEF MainReturn, obVars
  <2>2. \A s \in Side : waiter'[s] = IF waiter[s] = "main" THEN None ELSE waiter[s]
    BY <1>5 DEF MainReturn
  <2>3. \A s \in Side : waiter[s] # "orderbook"
    BY <2>1 DEF QueueInv
  <2> QED BY <1>2, <2>1, <2>2, <2>3, Names DEF QueueInv
<1> QED BY <1>3, <1>4, <1>5

\* The three invariants together are inductive.
LEMMA AlwaysLocks == Spec => [](LocksInv /\ TypeInv /\ QueueInv)
<1>1. Init => LocksInv /\ TypeInv /\ QueueInv
  BY LocksInit, TypeInit, QueueInit
<1>2. (LocksInv /\ TypeInv /\ QueueInv) /\ [Next]_vars => (LocksInv /\ TypeInv /\ QueueInv)'
  <2> SUFFICES ASSUME LocksInv, TypeInv, QueueInv, [Next]_vars PROVE TypeInv' /\ QueueInv'
    BY LocksStep
  <2>1. CASE UNCHANGED vars
    BY <2>1 DEF vars, host, obVars, TypeInv, TypeOK, QueueInv
  <2> QED
    BY <2>1, RuntimeTypes, ServiceTypes, StateProviderTypes, OrderBookTypes, MainTypes,
       RuntimeQueues, ServiceQueues, StateProviderQueues, OrderBookQueues, MainQueues DEF Next
<1> QED BY <1>1, <1>2, PTL DEF Spec

\* Type correctness; no more tasks are on workers than there are threads, and none
\* of them is queued or gone.
THEOREM TypeCorrect == Spec => []TypeOK
<1>1. TypeInv => TypeOK
  BY DEF TypeInv
<1> QED BY <1>1, AlwaysLocks, PTL

\* Nobody waits for a side of a book that is free or its own, and the order book
\* provider is never left behind with a side that it wants or has.
THEOREM WakeupsArrive == Spec => []NoLostWakeup
<1>1. TypeInv /\ QueueInv => NoLostWakeup
  <2> SUFFICES ASSUME TypeInv, QueueInv PROVE NoLostWakeup
    OBVIOUS
  <2>1. \A s \in Side : waiter[s] \in {"orderbook", "main", None}
    BY DEF TypeInv, TypeOK
  <2> QED BY <2>1, Names DEF QueueInv, NoLostWakeup
<1> QED BY <1>1, AlwaysLocks, PTL

---------------------------------------------------------------------------
(* The workers *)

\* The order book provider is not among the blocked when all are: who it waited
\* for would be the service, the service would wait for a Ref, and each Ref is
\* either its own, which it does not hold then, or that of a task that goes on.
LEMMA WhoIsBlocked ==
  ASSUME LocksInv, \A t \in on : Blocked(t)
  PROVE  on \subseteq {"ais"} \cup (IF readersWait THEN StateProvider ELSE {})
<1>1. CASE ~readersWait
  <2>1. \A a : CanGet(a)
    BY <1>1 DEF CanGet
  <2> QED BY <1>1, <2>1 DEF Blocked
<1>2. CASE readersWait
  <2> SUFFICES ASSUME "orderbook" \in on PROVE FALSE
    BY <1>2 DEF LocksInv, Tasks
  <2>1. obAt = "lookup" /\ ~CanGet(obKey)
    BY LocksAssumption DEF Blocked, Accounts
  <2>2. writing # None
    BY <2>1 DEF CanGet
  <2>3. "ais" \in on /\ Referred(writing)
    BY <2>2, LocksAssumption DEF LocksInv, Blocked, Accounts
  <2>4. PICK p \in DOMAIN ref : ref[p] # None
    BY <2>3 DEF Referred
  <2>5. p \in StateProvider /\ p \in on
    BY <2>1, <2>4 DEF LocksInv
  <2>6. ref[p] = None
    BY <2>5, LocksAssumption DEF Blocked, Accounts
  <2> QED BY <2>4, <2>6
<1> QED BY <1>1, <1>2 DEF LocksInv

LEMMA InvForbidsWedge == LocksInv => NeverWedged
<1> SUFFICES ASSUME LocksInv, EnoughWorkers, Wedged PROVE FALSE
  BY DEF NeverWedged
<1> DEFINE P == IF readersWait THEN StateProvider ELSE {}
<1>1. on \subseteq P \cup {"ais"}
  BY WhoIsBlocked DEF Wedged
<1>2. IsFiniteSet(P) /\ IsFiniteSet(StateProvider)
  <2>1. CASE readersWait BY <2>1, LocksAssumption
  <2>2. CASE ~readersWait BY <2>2, LocksAssumption, FS_EmptySet
  <2> QED BY <2>1, <2>2
<1> HIDE DEF P
<1>3. /\ IsFiniteSet(P \cup {"ais"}) /\ Cardinality(P) \in Nat
      /\ Cardinality(P \cup {"ais"}) <= Cardinality(P) + 1
  <2>1. /\ IsFiniteSet(P \cup {"ais"})
        /\ Cardinality(P \cup {"ais"}) = IF "ais" \in P THEN Cardinality(P) ELSE Cardinality(P) + 1
    BY <1>2, FS_AddElement
  <2> QED BY <1>2, <2>1, FS_CardinalityType
<1>4. Cardinality(on) <= Cardinality(P) + 1 /\ Cardinality(on) \in Nat /\ Cardinality(P) \in Nat
  BY <1>1, <1>3, FS_Subset, FS_CardinalityType
<1>5. Cardinality(P) = IF readersWait THEN Cardinality(StateProvider) ELSE 0
  BY FS_EmptySet DEF P
<1> QED BY <1>4, <1>5 DEF Wedged, EnoughWorkers

\* The Ref that the order book provider keeps across an await never stops the
\* runtime if there are enough workers for the tasks that may block.
THEOREM WorkersSuffice == Spec => []NeverWedged
<1>1. Spec => []LocksInv
  BY LocksInit, LocksStep, PTL DEF Spec
<1> QED BY <1>1, InvForbidsWedge, PTL
=============================================================================
