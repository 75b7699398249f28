--------------------------- MODULE ProgramProofs ---------------------------
(* The commands over the copies that the tasks really keep, for any accounts, *)
(* channels, lines and widths.                                                *)
EXTENDS Program, MirrorProofs

\* The commands do not disturb the tasks.
THEOREM TasksAsBefore == ProgramSpec => Spec
<1>1. ProgramInit => Init
  BY DEF ProgramInit
<1>2. [ProgramNext]_programVars => [Next]_vars
  BY DEF ProgramNext, programVars, Task, Main
<1> QED BY <1>1, <1>2, PTL DEF ProgramSpec, Spec

---------------------------------------------------------------------------
\* The viewers that the commands read through, and a step that replaces the
\* copy of no other than w.
ReadViewers == ({"context"} \X ContextKeys) \cup ({"openOrders"} \X OpenOrdersTasks)

OnlyMoves(w) == \A v \in ReadViewers \ {w} : KeptBy(v)' = KeptBy(v)

\* No step of the tasks replaces two copies that commands read: they are under
\* different locks.
LEMMA OneMoves ==
  ASSUME IInv, [Next]_vars
  PROVE  \E w : OnlyMoves(w)
<1>1. \A v \in ReadViewers : \/ \E k \in ContextKeys : v = <<"context", k>>
                             \/ \E m \in OpenOrdersTasks : v = <<"openOrders", m>>
  BY DEF ReadViewers
<1>2. /\ \A k \in ContextKeys : KeptBy(<<"context", k>>) = context[k]
                                 /\ KeptBy(<<"context", k>>)' = context'[k]
      /\ \A m \in OpenOrdersTasks : KeptBy(<<"openOrders", m>>) = openOrders[m]
                                     /\ KeptBy(<<"openOrders", m>>)' = openOrders'[m]
  BY DEF KeptBy
<1>3. /\ context \in [ContextKeys -> AccountState \cup {None}]
      /\ openOrders \in [OpenOrdersTasks -> AccountState \cup {None}]
  BY DEF IInv, TypeOK, ContextTypeOK, HandlerTypeOK
<1>4. CASE UNCHANGED <<context, openOrders>>
  BY <1>1, <1>2, <1>4 DEF OnlyMoves
<1>5. ASSUME NEW k \in ContextKeys, ContextTurn(RecvContext(k))
      PROVE  OnlyMoves(<<"context", k>>)
  <2>1. openOrders' = openOrders /\ \A x \in ContextKeys \ {k} : context'[x] = context[x]
    BY <1>3, <1>5 DEF ContextTurn, RecvContext, handlerVars
  <2> QED
    BY <1>1, <1>2, <2>1 DEF OnlyMoves
<1>6. ASSUME NEW m \in OpenOrdersTasks, HandlerTurn(RecvOpenOrders(m))
      PROVE  OnlyMoves(<<"openOrders", m>>)
  <2>1. context' = context /\ \A n \in OpenOrdersTasks \ {m} : openOrders'[n] = openOrders[n]
    BY <1>3, <1>6 DEF HandlerTurn, RecvOpenOrders, contextVars
  <2> QED
    BY <1>1, <1>2, <2>1 DEF OnlyMoves
<1>7. \/ UNCHANGED <<context, openOrders>>
      \/ \E k \in ContextKeys : ContextTurn(RecvContext(k))
      \/ \E m \in OpenOrdersTasks : HandlerTurn(RecvOpenOrders(m))
  <2> USE DEF sinkVars, contextVars, handlerVars
  <2>1. CASE Shutdown \/ UNCHANGED vars
    BY <2>1 DEF Shutdown, vars
  <2>2. CASE ServiceNext
    BY <2>2 DEF ServiceNext, ServiceTurn
  <2>3. CASE \E p \in Providers : ProviderLoop(p)
    BY <2>3 DEF ProviderLoop, LoopTurn
  <2>4. CASE \E p \in StateProvider : StateProviderNext(p)
    BY <2>4 DEF StateProviderNext
  <2>5. CASE \E m \in BookTasks : BookProviderNext(m)
    BY <2>5 DEF BookProviderNext
  <2>6. CASE ContextNext
    BY <2>6 DEF ContextNext, ContextTurn, RecvContextLagged, ContextStop
  <2>7. CASE \E m \in Markets : HandlerNext(m)
    BY <2>7 DEF HandlerNext, HandlerTurn, RecvOpenOrdersLagged, RecvBook, RecvBookLagged,
                HandlerStop
  <2> QED
    BY <2>1, <2>2, <2>3, <2>4, <2>5, <2>6, <2>7 DEF Next
<1> QED
  BY <1>4, <1>5, <1>6, <1>7

\* The copies that group, user and a market stand for are different ones.
LEMMA ViewersDiffer ==
  ASSUME NEW c \in Read, NEW d \in Read, c # d
  PROVE  ViewerOf(c) # ViewerOf(d) \/ ViewerOf(c) \notin Viewers
<1>1. GroupKey \in ContextKeys => GroupKey # UserKey
  BY ProvidersAssumption, DistinctKeys
  DEF ContextKeys, StateKeys, StateProvider, Watched
<1> QED
  BY <1>1 DEF ViewerOf, Viewers

LEMMA ViewIsTyped == OInv => \A v \in Viewers : View[v] \in Nat
BY ShownIsKnown DEF View

\* A step of the tasks replaces no copy with an older one, and at most one.
LEMMA CopiesMove ==
  ASSUME OInv, [Next]_vars
  PROVE  \/ Copies' = Copies
         \/ \E c \in Read : \E v \in (Copies[c] + 1)..MaxSnapshot :
              Copies' = [Copies EXCEPT ![c] = v]
<1>1. OInv' /\ [M!Next]_<<snapshot, View>>
  BY MirrorStep
<1>2. PICK w : OnlyMoves(w)
  BY OneMoves DEF OInv
<1>3. snapshot \in 0..MaxSnapshot /\ MaxSnapshot \in Nat /\ \A v \in Viewers : View[v] \in Nat
  <2>1. snapshot \in 0..MaxSnapshot
    BY DEF OInv, IInv, TypeOK, AisTypeOK
  <2> QED BY <2>1, ViewIsTyped, ServiceAssumption
<1>4. \A v \in Viewers :
        \/ View'[v] = View[v]
        \/ View[v] < View'[v] /\ View'[v] \in Nat /\ View'[v] <= MaxSnapshot
  <2>1. (OInv => \A v \in Viewers : View[v] \in Nat)'
    BY ViewIsTyped, PTL
  <2> QED BY <1>1, <1>3, <2>1 DEF M!Next, M!Publish, M!Deliver
<1>5. \A v \in ReadViewers : v \in Viewers /\ (v # w => View'[v] = View[v])
  BY <1>2 DEF OnlyMoves, ReadViewers, Viewers, View
<1>6. \A c \in Read : ViewerOf(c) \in Viewers => ViewerOf(c) \in ReadViewers
  BY DEF Read, ViewerOf, Viewers, ReadViewers
<1>7. \A c \in Read : ViewerOf(c) # w => Copies'[c] = Copies[c]
  BY <1>5, <1>6 DEF Copies
<1>8. CASE \E c \in Read : ViewerOf(c) = w /\ w \in Viewers
  <2>1. PICK c \in Read : ViewerOf(c) = w /\ w \in Viewers
    BY <1>8
  <2>2. \A d \in Read \ {c} : Copies'[d] = Copies[d]
    BY <1>7, <2>1, ViewersDiffer
  <2>3. Copies[c] = View[w] /\ Copies'[c] = View'[w]
    BY <2>1 DEF Copies
  <2>4. Copies' = [Copies EXCEPT ![c] = View'[w]]
    BY <2>2, <2>3 DEF Copies
  <2>5. CASE View'[w] = View[w]
    BY <2>4, <2>5, <2>3 DEF Copies
  <2>6. CASE View'[w] # View[w]
    <3>1. View'[w] \in (Copies[c] + 1)..MaxSnapshot
      BY <1>3, <1>4, <2>1, <2>3, <2>6
    <3> QED BY <2>4, <3>1
  <2> QED BY <2>5, <2>6
<1>9. CASE ~ \E c \in Read : ViewerOf(c) = w /\ w \in Viewers
  <2>1. \A c \in Read : Copies'[c] = Copies[c]
    BY <1>7, <1>9 DEF Copies
  <2> QED BY <2>1 DEF Copies
<1> QED BY <1>8, <1>9

\* A step of the tasks is at most an arrival for the commands.
LEMMA ProgramStep ==
  ASSUME OInv, [ProgramNext]_programVars
  PROVE  OInv' /\ [C!Next]_(C!vars)
<1>1. [Next]_vars
  BY DEF ProgramNext, programVars, Task, Main
<1>2. OInv'
  BY <1>1, MirrorStep
<1>3. CASE Task \/ UNCHANGED programVars
  <2>1. UNCHANGED cmdVars
    BY <1>3 DEF Task, programVars
  <2>2. CASE Copies' = Copies
    BY <1>2, <2>1, <2>2 DEF cmdVars, C!vars, C!cmdVars, C!metaVars
  <2>3. CASE \E c \in Read : \E v \in (Copies[c] + 1)..MaxSnapshot :
               Copies' = [Copies EXCEPT ![c] = v]
    <3>1. \E c \in C!Copies : C!Arrive(c)
      BY <2>1, <2>3 DEF cmdVars, C!Arrive, C!cmdVars, C!metaVars, C!Copies, Read
    <3> QED BY <1>2, <3>1 DEF C!Next
  <2> QED BY <1>1, <2>2, <2>3, CopiesMove
<1>4. CASE Main
  BY <1>2, <1>4 DEF Main, C!Next
<1> QED BY <1>2, <1>3, <1>4 DEF ProgramNext

\* The program implements CommandLine, whose copies move forward one at a time:
\* what is proved of the commands holds of the program.
THEOREM ImplementsCommandLine == ProgramSpec => CommandLineSpec
<1>1. ProgramInit => Init /\ C!Init
  BY DEF ProgramInit
<1>2. OInv /\ [ProgramNext]_programVars => OInv' /\ [C!Next]_(C!vars)
  BY ProgramStep
<1> QED BY InitOInv, <1>1, <1>2, PTL DEF ProgramSpec, CommandLineSpec, C!Spec

---------------------------------------------------------------------------
\* A copy that a command can read is an answer of the node with its account.
LEMMA CopiesWereAnswers ==
  ASSUME OInv, NEW c \in Read, Copies[c] # 0
  PROVE  Copies[c] <= snapshot /\ AccountOf(ViewerOf(c)) \notin Absent[Copies[c]]
<1>1. ViewerOf(c) \in Viewers /\ Copies[c] = View[ViewerOf(c)]
  BY DEF Copies
<1>2. KeptBy(ViewerOf(c)) # None /\ Copies[c] = KeptBy(ViewerOf(c)).snap
  BY <1>1 DEF View
<1> QED BY <1>1, <1>2, ShownIsKnown DEF ViewHistory

\* The reads of a command follow the answers of the node.
LEMMA ReadsFollow ==
  ASSUME C!CommandLineAssumption, OInv, C!IInv, ReadsWereAnswers, [ProgramNext]_programVars
  PROVE  ReadsWereAnswers'
<1>1. \A c \in Read : got'[c] \in {0, got[c], Copies[c]}
  BY ProgramStep, C!ReadsComeFromCopies DEF C!Copies, Read
<1>2. snapshot \in Nat /\ snapshot' \in {snapshot, snapshot + 1}
  <2>1. [Next]_vars
    BY DEF ProgramNext, programVars, Task, Main
  <2> QED BY <2>1, NextOInv DEF OInv, IInv, TypeOK, AisTypeOK
<1>3. \A c \in Read : got[c] \in Nat /\ Copies[c] \in Nat
  BY ServiceAssumption DEF C!IInv, C!TypeOK, C!Copies, C!Reads, Read
<1>4. ASSUME NEW c \in Read, got'[c] # 0
      PROVE  got'[c] <= snapshot' /\ AccountOf(ViewerOf(c)) \notin Absent[got'[c]]
  <2>1. got'[c] <= snapshot /\ AccountOf(ViewerOf(c)) \notin Absent[got'[c]]
    BY <1>1, <1>4, CopiesWereAnswers DEF ReadsWereAnswers
  <2> QED BY <1>1, <1>2, <1>3, <2>1
<1> QED BY <1>4 DEF ReadsWereAnswers, AccountOf, ViewerOf

\* What a command has read of an account is an answer of the node in which the
\* account existed, over any channels, batches and lags on the way.
THEOREM ReadsWereAlwaysAnswers ==
  ASSUME C!CommandLineAssumption
  PROVE  ProgramSpec => []ReadsWereAnswers
<1>1. ProgramInit => OInv /\ C!IInv /\ ReadsWereAnswers
  <2>1. ProgramInit => OInv /\ C!IInv
    BY InitOInv, C!InitIInv DEF ProgramInit
  <2>2. ProgramInit => ReadsWereAnswers
    BY DEF ProgramInit, C!Init, C!NoReads, C!Reads, C!Copies, Read, ReadsWereAnswers
  <2> QED BY <2>1, <2>2
<1>2. /\ OInv /\ C!IInv /\ ReadsWereAnswers /\ [ProgramNext]_programVars
      => (OInv /\ C!IInv /\ ReadsWereAnswers)'
  BY ProgramStep, C!NextIInv, ReadsFollow
<1> QED BY <1>1, <1>2, PTL DEF ProgramSpec

\* An order is submitted with copies no older than those there were when its line
\* was typed, and a command panics in the known ways only, also with the tasks at
\* work between its steps.
THEOREM CommandsStayCorrect ==
  ASSUME C!CommandLineAssumption
  PROVE  ProgramSpec => [](C!ReadsAreCurrent /\ C!PanicsAreKnown)
<1>1. ProgramInit => OInv /\ C!IInv
  BY InitOInv, C!InitIInv DEF ProgramInit
<1>2. OInv /\ C!IInv /\ [ProgramNext]_programVars => (OInv /\ C!IInv)'
  BY ProgramStep, C!NextIInv
<1>3. C!IInv => C!ReadsAreCurrent /\ C!PanicsAreKnown
  BY C!SubmittedIsCurrent DEF C!IInv
<1> QED BY <1>1, <1>2, <1>3, PTL DEF ProgramSpec
============================================================================
