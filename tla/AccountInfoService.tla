------------------------ MODULE AccountInfoService ------------------------
(***************************************************************************)
(* src/src/services/account_info_service.rs: the task that polls the RPC   *)
(* node for every account of the program, BatchSize accounts a request,    *)
(* and writes the answers to the cache from the last account of the answer *)
(* to the first.  The first pass over the accounts unwraps each result;    *)
(* later passes ignore errors and are SLEEP apart.                         *)
(*                                                                         *)
(* The RPC node is outside the program.  Its answers are numbered in the   *)
(* order the task receives them: an answer carries the state of the        *)
(* previous answer or a new one, up to MaxSnapshot.  Absent[s] is the set  *)
(* of accounts that do not exist in state s (None in the answer).          *)
(***************************************************************************)
EXTENDS AccountsCache

CONSTANTS
  Keys,         \* the sequence ais_pks of start_services
  BatchSize,    \* accounts per request (100)
  MaxSnapshot,  \* bound: different states the node answers with
  Absent

ASSUME ServiceAssumption ==
  /\ Keys \in Seq(Key) /\ Keys # <<>>
  /\ BatchSize \in Nat \ {0}
  /\ MaxSnapshot \in Nat \ {0}
  /\ Absent \in [1..MaxSnapshot -> SUBSET Key]

VARIABLES
  snapshot,  \* number of the last answer, 0 before the first
  aisPc,     \* where the task is
  aisFirst,  \* TRUE during the pass whose results are unwrapped
  aisFrom,   \* from of update_infos
  aisLeft    \* infos.len()

aisVars == <<snapshot, aisPc, aisFirst, aisFrom, aisLeft>>

AisTypeOK ==
  /\ snapshot \in 0..MaxSnapshot
  /\ aisPc \in {"fetch", "insert", "notify", "sleep", "stopped", "panicked"}
  /\ aisFirst \in BOOLEAN
  /\ aisFrom \in 0..(Len(Keys) - 1)
  /\ aisLeft \in Nat

AisInit ==
  /\ snapshot = 0
  /\ aisPc = "fetch"
  /\ aisFirst = TRUE
  /\ aisFrom = 0
  /\ aisLeft = 0

\* to - from
BatchLen == IF aisFrom + BatchSize < Len(Keys) THEN BatchSize ELSE Len(Keys) - aisFrom

\* The index of update_infos stays within its slice: an account is popped only
\* while there is one, and the popped one is a member of the slice.
PopInRange ==
  /\ aisLeft <= BatchLen
  /\ aisPc = "insert" => aisLeft > 0
  /\ aisPc = "notify" => aisLeft < BatchLen
  /\ aisPc \in {"insert", "notify"} => snapshot > 0
  /\ aisPc \notin {"insert", "notify"} => aisLeft = 0

\* Wrong on purpose: from is not set back for the next pass.
NextBatchNoReset ==
  /\ aisFrom' = aisFrom + BatchSize
  /\ aisFirst' = (aisFirst /\ aisFrom' < Len(Keys))
  /\ aisPc' = IF aisFrom' < Len(Keys) \/ aisFirst THEN "fetch" ELSE "sleep"

\* The for loop after a batch: the next batch; after the last one of the first
\* pass the replay loop, at once; after the last one of a later pass the sleep.
NextBatch ==
  /\ aisFrom' = IF aisFrom + BatchSize < Len(Keys) THEN aisFrom + BatchSize ELSE 0
  /\ aisFirst' = (aisFirst /\ aisFrom' # 0)
  /\ aisPc' = IF aisFrom' # 0 \/ aisFirst THEN "fetch" ELSE "sleep"

\* The while loop after an account: the next one, or the end of the batch.
AfterInfo(left) ==
  \/ left > 0 /\ aisPc' = "insert" /\ UNCHANGED <<aisFirst, aisFrom>>
  \/ left = 0 /\ NextBatch

\* get_multiple_accounts answers.
FetchOk ==
  /\ aisPc = "fetch"
  /\ snapshot' \in {snapshot, snapshot + 1} \cap 1..MaxSnapshot
  /\ aisLeft' = BatchLen
  /\ aisPc' = "insert"
  /\ UNCHANGED <<aisFirst, aisFrom, cacheVars>>

\* It fails: unwrap() ends the task in the first pass, a later pass goes on.
FetchErr ==
  /\ aisPc = "fetch"
  /\ \/ aisFirst /\ aisPc' = "panicked" /\ UNCHANGED <<aisFirst, aisFrom>>
     \/ ~aisFirst /\ NextBatch
  /\ UNCHANGED <<snapshot, aisLeft, cacheVars>>

\* Wrong on purpose: self.keys[i], without the offset of the slice.
AccountKeyNoOffset(i) == Keys[i]

\* account_keys[i], in the slice from..to of update_infos.
AccountKey(i) == Keys[aisFrom + i]

\* The i-th account of the answer to the request for that slice.
Answer(i) ==
  LET k == Keys[aisFrom + i]
  IN  IF k \in Absent[snapshot] THEN None ELSE [key |-> k, snap |-> snapshot]

\* Wrong on purpose: a missing account is announced like any other.
InsertInfoAnnounceMissing ==
  /\ aisPc = "insert"
  /\ aisLeft' = aisLeft - 1
  /\ aisPc' = "notify"
  /\ IF Answer(aisLeft) = None THEN UNCHANGED cache
                               ELSE MapInsert(AccountKey(aisLeft), Answer(aisLeft))
  /\ UNCHANGED <<snapshot, keyRx, aisFirst, aisFrom>>

\* infos.pop(): a missing account is skipped, which keeps its cache entry; an
\* existing one is written to the map of the cache.
InsertInfo ==
  /\ aisPc = "insert"
  /\ aisLeft' = aisLeft - 1
  /\ \/ Answer(aisLeft) = None /\ AfterInfo(aisLeft') /\ UNCHANGED cache
     \/ /\ Answer(aisLeft) # None
        /\ MapInsert(AccountKey(aisLeft), Answer(aisLeft))
        /\ aisPc' = "notify"
        /\ UNCHANGED <<aisFirst, aisFrom>>
  /\ UNCHANGED <<snapshot, keyRx>>

\* The send() of insert(), for the account popped last.
NotifyKey ==
  /\ aisPc = "notify"
  /\ Notify(AccountKey(aisLeft + 1))
  /\ AfterInfo(aisLeft)
  /\ UNCHANGED <<snapshot, aisLeft, cache>>

\* sleep(500 ms) is over.
Wake ==
  /\ aisPc = "sleep"
  /\ aisPc' = "fetch"
  /\ UNCHANGED <<snapshot, aisFirst, aisFrom, aisLeft, cacheVars>>

\* The task ends where it awaits: in the replay loop because the signal arrives,
\* in the first pass, which does not look at it, because the runtime is dropped.
AisStop(signal) ==
  /\ signal
  /\ aisPc \in {"fetch", "sleep"}
  /\ aisPc' = "stopped"
  /\ UNCHANGED <<snapshot, aisFirst, aisFrom, aisLeft, cacheVars>>
===========================================================================
