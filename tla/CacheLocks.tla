----------------------------- MODULE CacheLocks -----------------------------
(***************************************************************************)
(* The locks the tasks of DataPipeline share, and the worker threads they  *)
(* run on.  A shard of the cache's map is locked by blocking the thread;   *)
(* a side of an order book is locked by an await, which leaves the thread. *)
(* The order book provider awaits a side while its Ref keeps a shard       *)
(* locked for reading, so that insert() may block a worker thread until    *)
(* the provider, which needs a worker too, goes on.                        *)
(*                                                                         *)
(* The state providers follow one account each and are named like it; the  *)
(* order book provider follows the two sides of one book.  The commands    *)
(* run on the main thread, which is no worker.                             *)
(***************************************************************************)
EXTENDS Naturals, FiniteSets

CONSTANTS
  StateProvider,  \* the providers but for the order book's
  Side,           \* the accounts of the sides of the book
  MaxWorkers,     \* bound: worker threads of the runtime
  Placements,     \* how the accounts may be hashed to the shards of the map
  None

Accounts == StateProvider \cup Side
Tasks == StateProvider \cup {"ais", "orderbook"}

ASSUME LocksAssumption ==
  /\ IsFiniteSet(StateProvider) /\ MaxWorkers \in Nat
  /\ \A f \in Placements : DOMAIN f = Accounts
  /\ Side # {} /\ StateProvider \cap Side = {}
  /\ {"ais", "orderbook", "main", None} \cap Accounts = {}
  /\ None \notin {"ais", "orderbook", "main"}

VARIABLES
  workers,      \* number of worker threads
  readersWait,  \* a shard's readers wait behind a waiting writer
  shard,        \* shard[a]: the shard that account a's entry lies in
  on,           \* the tasks that occupy a worker
  ready,        \* the tasks that wait for one
  todo,         \* the accounts of an answer that the service has yet to write
  writing,      \* the account whose insert() is in progress
  pending,      \* the accounts whose keys wait for their provider
  ref,          \* ref[p]: the account to whose entry p holds a Ref
  obAt,         \* where process_updates of the order book provider is
  obKey,        \* its key
  guards,       \* read guards on books it holds
  book,         \* the book of the market exists
  holder,       \* holder[s]: who has locked side s
  waiter,       \* waiter[s]: who is next to lock it
  down,         \* main has returned, the runtime is being dropped
  ended         \* the tasks that are gone

host == <<workers, readersWait, shard>>
obVars == <<obAt, obKey, guards, book>>
vars == <<host, on, ready, todo, writing, pending, ref, obVars, holder, waiter, down, ended>>

TypeOK ==
  /\ workers \in 1..MaxWorkers /\ readersWait \in BOOLEAN /\ shard \in Placements
  /\ on \subseteq Tasks /\ Cardinality(on) <= workers
  /\ {ready, ended} \subseteq SUBSET (Tasks \ on)
  /\ {todo, pending} \subseteq SUBSET Accounts /\ writing \in Accounts \cup {None}
  /\ ref \in [StateProvider \cup {"orderbook"} -> Accounts \cup {None}]
  /\ obAt \in {"recv", "create", "lookup", "lock", "retry"} /\ obKey \in Side
  /\ guards \in 0..2 /\ book \in BOOLEAN
  /\ {holder, waiter} \subseteq [Side -> {"orderbook", "main", None}]
  /\ down \in BOOLEAN

Init ==
  /\ workers \in 1..MaxWorkers /\ readersWait \in BOOLEAN /\ shard \in Placements
  /\ on = {} /\ ready = {} /\ todo = {} /\ writing = None /\ pending = {}
  /\ ref = [p \in StateProvider \cup {"orderbook"} |-> None]
  /\ obAt = "recv" /\ obKey = (CHOOSE s \in Side : TRUE) /\ guards = 0 /\ book = FALSE
  /\ holder = [s \in Side |-> None] /\ waiter = [s \in Side |-> None]
  /\ down = FALSE /\ ended = {}

---------------------------------------------------------------------------
(* The runtime *)

FreeWorker == Cardinality(on) < workers

\* A free worker polls a task.
Dispatch(t) ==
  /\ t \in ready /\ FreeWorker
  /\ on' = on \cup {t} /\ ready' = ready \ {t}
  /\ UNCHANGED <<host, todo, writing, pending, ref, obVars, holder, waiter, down, ended>>

\* Wrong on purpose: also a task that is on a worker is queued.
WokenAlways(a) == {IF a \in Side THEN "orderbook" ELSE a} \ ended

\* The provider of a is woken by a key if it waits for one.
Woken(a) ==
  LET p == IF a \in Side THEN "orderbook" ELSE a
  IN  IF p \in on \cup ended \/ (p = "orderbook" /\ obAt # "recv") THEN {} ELSE {p}

\* Wrong on purpose: it is free for all, and who waited is not told.
ReleaseOnly(s) == holder' = [holder EXCEPT ![s] = None] /\ UNCHANGED waiter

\* Wrong on purpose: it is free for all, and who waited has to try again.
ReleaseToAll(s) ==
  /\ holder' = [holder EXCEPT ![s] = None]
  /\ waiter' = [waiter EXCEPT ![s] = None]

\* The lock goes to the one who waits for it.
Release(s) ==
  /\ holder' = [holder EXCEPT ![s] = waiter[s]]
  /\ waiter' = [waiter EXCEPT ![s] = None]

---------------------------------------------------------------------------
(* The account info service: update_infos and insert() *)

\* An answer arrives, some of its accounts exist.
Answer ==
  /\ "ais" \notin on \cup ready \cup ended /\ ~down
  /\ todo' \in SUBSET Accounts \ {{}}
  /\ ready' = ready \cup {"ais"}
  /\ UNCHANGED <<host, on, writing, pending, ref, obVars, holder, waiter, down, ended>>

InsertBegin(a) ==
  /\ "ais" \in on /\ writing = None /\ a \in todo
  /\ writing' = a /\ todo' = todo \ {a}
  /\ UNCHANGED <<host, on, ready, pending, ref, obVars, holder, waiter, down, ended>>

\* Someone reads an entry of the shard in which a lies.
Referred(a) == \E p \in DOMAIN ref : ref[p] # None /\ shard[ref[p]] = shard[a]

\* The shard is locked for writing as soon as nobody reads it; the key is sent.
\* After the last account the service awaits the next answer or its sleep.
InsertEnd ==
  /\ "ais" \in on /\ writing # None /\ ~Referred(writing)
  /\ writing' = None
  /\ pending' = pending \cup {writing} /\ ready' = ready \cup Woken(writing)
  /\ on' = IF todo = {} THEN on \ {"ais"} ELSE on
  /\ UNCHANGED <<host, todo, ref, obVars, holder, waiter, down, ended>>

---------------------------------------------------------------------------
(* The providers *)

\* Wrong on purpose: get_mut() in place of get().
CanGetMut(a) == ~Referred(a) /\ (readersWait /\ writing # None => shard[writing] # shard[a])

\* get() does not block the thread.
CanGet(a) == readersWait /\ writing # None => shard[writing] # shard[a]

\* A task that has handled its last key leaves its worker.
LeaveUnless(p, more) == on' = IF more THEN on ELSE on \ {p}

\* A state provider receives its key and gets the entry.
Get(p) ==
  /\ p \in StateProvider \cap on \cap pending /\ ref[p] = None /\ CanGet(p)
  /\ ref' = [ref EXCEPT ![p] = p] /\ pending' = pending \ {p}
  /\ UNCHANGED <<host, on, ready, todo, writing, obVars, holder, waiter, down, ended>>

\* It has parsed and sent the account: the Ref is dropped.
Sent(p) ==
  /\ p \in StateProvider \cap on /\ ref[p] # None
  /\ ref' = [ref EXCEPT ![p] = None]
  /\ LeaveUnless(p, p \in pending)
  /\ UNCHANGED <<host, ready, todo, writing, pending, obVars, holder, waiter, down, ended>>

At(pc) == "orderbook" \in on /\ obAt = pc

\* Wrong on purpose: without drop(rb).
ObFindKeepsGuard(k) ==
  /\ At("recv") /\ k \in pending
  /\ obKey' = k /\ pending' = pending \ {k}
  /\ obAt' = IF book THEN "lookup" ELSE "create"
  /\ guards' = 1
  /\ UNCHANGED <<host, on, ready, todo, writing, ref, book, holder, waiter, down, ended>>

\* The order book provider receives a key and looks for the book; the guard is
\* dropped only if there is none.
ObFind(k) ==
  /\ At("recv") /\ k \in pending
  /\ obKey' = k /\ pending' = pending \ {k}
  /\ obAt' = IF book THEN "lookup" ELSE "create"
  /\ guards' = IF book THEN 1 ELSE 0
  /\ UNCHANGED <<host, on, ready, todo, writing, ref, book, holder, waiter, down, ended>>

\* books.write(), which needs all guards gone, and push.
ObCreate ==
  /\ At("create") /\ guards = 0
  /\ book' = TRUE /\ obAt' = "lookup"
  /\ UNCHANGED <<host, on, ready, todo, writing, pending, ref, obKey, guards, holder, waiter, down, ended>>

\* The second read guard; the Ref; the depth of the side.
ObGet ==
  /\ At("lookup") /\ CanGet(obKey)
  /\ guards' = guards + 1
  /\ ref' = [ref EXCEPT !["orderbook"] = obKey] /\ obAt' = "lock"
  /\ UNCHANGED <<host, on, ready, todo, writing, pending, obKey, book, holder, waiter, down, ended>>

AtLock == At("lock") \/ At("retry")
FreeSide(s) == holder[s] = None

\* write().await on the side succeeds: the side is written, everything dropped.
ObWrite ==
  /\ AtLock /\ (FreeSide(obKey) \/ holder[obKey] = "orderbook")
  /\ Release(obKey)
  /\ ref' = [ref EXCEPT !["orderbook"] = None] /\ obAt' = "recv" /\ guards' = 0
  /\ LeaveUnless("orderbook", pending \cap Side # {})
  /\ UNCHANGED <<host, ready, todo, writing, pending, obKey, book, down, ended>>

\* The side is locked: the provider queues up and leaves its worker, with its Ref.
ObPark ==
  /\ AtLock /\ holder[obKey] = "main"
  /\ waiter' = [waiter EXCEPT ![obKey] = "orderbook"] /\ on' = on \ {"orderbook"}
  /\ UNCHANGED <<host, ready, todo, writing, pending, ref, obVars, holder, down, ended>>

\* Its budget of awaits for this poll is used up: it leaves, with its Ref, for
\* the other tasks to run, and has a new budget when it tries again.
ObYield ==
  /\ At("lock") /\ obAt' = "retry"
  /\ on' = on \ {"orderbook"} /\ ready' = ready \cup {"orderbook"}
  /\ UNCHANGED <<host, todo, writing, pending, ref, obKey, guards, book, holder, waiter, down, ended>>

---------------------------------------------------------------------------
(* The commands, which read one side at a time, and the end *)

MainIdle == \A s \in Side : holder[s] # "main" /\ waiter[s] # "main"

MainRead(s) ==
  /\ MainIdle /\ book /\ ~down
  /\ IF FreeSide(s) THEN holder' = [holder EXCEPT ![s] = "main"] /\ UNCHANGED waiter
                    ELSE waiter' = [waiter EXCEPT ![s] = "main"] /\ UNCHANGED holder
  /\ UNCHANGED <<host, on, ready, todo, writing, pending, ref, obVars, down, ended>>

\* The guard is dropped, after a copy or a search without an await.
MainDone(s) ==
  /\ holder[s] = "main" /\ Release(s)
  /\ ready' = ready \cup ({waiter[s]} \ {None})
  /\ UNCHANGED <<host, on, todo, writing, pending, ref, obVars, down, ended>>

\* exit, or Ctrl-C, which drops a command that waits for a side.
MainReturn ==
  /\ ~down /\ \A s \in Side : holder[s] # "main"
  /\ down' = TRUE
  /\ waiter' = [s \in Side |-> IF waiter[s] = "main" THEN None ELSE waiter[s]]
  /\ UNCHANGED <<host, on, ready, todo, writing, pending, ref, obVars, holder, ended>>

\* A worker that is in no task drops a task that is on no worker, and with it
\* all that the task has locked.
DropTask(t) ==
  /\ down /\ FreeWorker /\ t \in Tasks \ (on \cup ended)
  /\ ended' = ended \cup {t} /\ ready' = ready \ {t}
  /\ ref' = [p \in DOMAIN ref |-> IF p = t THEN None ELSE ref[p]]
  /\ IF t = "orderbook"
     THEN /\ obAt' = "recv" /\ guards' = 0
          /\ holder' = [s \in Side |-> IF holder[s] = t THEN None ELSE holder[s]]
          /\ waiter' = [s \in Side |-> IF waiter[s] = t THEN None ELSE waiter[s]]
     ELSE UNCHANGED <<obAt, guards, holder, waiter>>
  /\ UNCHANGED <<host, on, todo, writing, pending, obKey, book, down>>

AisTurn == (\E a \in Accounts : InsertBegin(a)) \/ InsertEnd
ProviderTurn(p) == Get(p) \/ Sent(p)
ObTurn == (\E k \in Side : ObFind(k)) \/ ObCreate \/ ObGet \/ ObWrite \/ ObPark

Next ==
  \/ \E t \in Tasks : Dispatch(t) \/ DropTask(t)
  \/ Answer \/ AisTurn
  \/ \E p \in StateProvider : ProviderTurn(p)
  \/ ObTurn \/ ObYield
  \/ \E s \in Side : MainRead(s) \/ MainDone(s)
  \/ MainReturn

Spec == Init /\ [][Next]_vars

\* Threads go on unless a lock blocks them, and no ready task is passed over for
\* ever: the queues of the runtime are served in turn.  A shard that is free time
\* and again is not refused to a reader for ever.
Fairness ==
  /\ \A t \in Tasks : SF_vars(Dispatch(t)) /\ WF_vars(DropTask(t))
  /\ WF_vars(AisTurn) /\ WF_vars(ObTurn) /\ SF_vars(ObGet)
  /\ \A p \in StateProvider : WF_vars(ProviderTurn(p))
  /\ \A s \in Side : WF_vars(MainDone(s))

FairSpec == Spec /\ Fairness
---------------------------------------------------------------------------
\* Nobody waits for a side of a book that is free or that is its own, the side
\* that is the order book provider's is the one it is about to write, and while it
\* wants one it runs, is about to, or is the next to get it.
NoLostWakeup ==
  /\ \A s \in Side : waiter[s] # None => holder[s] \notin {None, waiter[s]}
  /\ \A s \in Side : holder[s] = "orderbook" => obAt \in {"lock", "retry"} /\ obKey = s
  /\ obAt \in {"lock", "retry"} => "orderbook" \in on \cup ready \/ waiter[obKey] = "orderbook"

\* The task blocks its worker in a lock of the map.
Blocked(t) ==
  \/ t = "ais" /\ writing # None /\ Referred(writing)
  \/ t \in StateProvider /\ t \in pending /\ ref[t] = None /\ ~CanGet(t)
  \/ t = "orderbook" /\ obAt = "lookup" /\ ~CanGet(obKey)

\* All workers are blocked: the owner of the Ref they wait for never runs again.
Wedged == Cardinality(on) = workers /\ \A t \in on : Blocked(t)

\* One for the service, one for each provider that may block behind it, and one
\* for the order book provider.
EnoughWorkers == workers > 1 + (IF readersWait THEN Cardinality(StateProvider) ELSE 0)

\* With so many workers, the order book provider's Ref never stops the runtime.
NeverWedged == EnoughWorkers => ~Wedged

\* Then no insert() hangs,
InsertReturns == EnoughWorkers /\ writing # None ~> writing = None

\* no key hangs in the order book provider, which locks books twice for it,
KeyIsHandled == EnoughWorkers /\ obAt # "recv" ~> obAt = "recv"

\* no command waits for ever for a side of a book,
BookReadReturns ==
  \A s \in Side : EnoughWorkers /\ waiter[s] = "main" ~> waiter[s] # "main"

\* and when main returns the runtime gets rid of all tasks.
ProgramEnds == EnoughWorkers /\ down ~> ended = Tasks
=============================================================================
