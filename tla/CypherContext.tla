--------------------------- MODULE CypherContext ---------------------------
(***************************************************************************)
(* src/src/cypher_context.rs: the task that keeps the last cypher user and *)
(* the last cypher group it was sent, for the commands to read.            *)
(***************************************************************************)
EXTENDS StateProviders

ContextKeys == StateKeys \cap {UserKey, GroupKey}

VARIABLES
  context,        \* context[UserKey]: cypher_user, context[GroupKey]: cypher_group
  contextRunning  \* the task has not left its loop

contextVars == <<context, contextRunning>>

ContextTypeOK ==
  /\ context \in [ContextKeys -> AccountState \cup {None}]
  /\ contextRunning \in BOOLEAN

ContextInit ==
  /\ context = [k \in ContextKeys |-> None]
  /\ contextRunning = TRUE

\* One branch of the select! each for user and group: store what arrives.
RecvContext(k) ==
  /\ contextRunning /\ CanTake(stateRx[k])
  /\ stateRx' = [stateRx EXCEPT ![k] = Take(@)]
  /\ context' = [context EXCEPT ![k] = Head(stateRx[k].q)]
  /\ UNCHANGED contextRunning

\* Wrong on purpose: after an error nothing is available.
RecvContextLaggedClear(k) ==
  /\ contextRunning /\ stateRx[k].lagged
  /\ stateRx' = [stateRx EXCEPT ![k] = SkipLag(@)]
  /\ context' = [context EXCEPT ![k] = None]
  /\ UNCHANGED contextRunning

\* The error branch: only a line is printed.
RecvContextLagged(k) ==
  /\ contextRunning /\ stateRx[k].lagged
  /\ stateRx' = [stateRx EXCEPT ![k] = SkipLag(@)]
  /\ UNCHANGED contextVars

\* shutdown.recv() yields, or the runtime drops the task.
ContextStop(signal) ==
  /\ signal
  /\ contextRunning
  /\ contextRunning' = FALSE
  /\ UNCHANGED <<stateRx, context>>
============================================================================
