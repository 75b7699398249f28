------------------------------ MODULE Program ------------------------------
(***************************************************************************)
(* The program once it has started: the tasks of DataPipeline, and the     *)
(* commands of CommandLine, which read the copies those tasks keep where   *)
(* CommandLine by itself has copies that move forward at will.  The tasks  *)
(* are told to end when main has returned or panicked.                     *)
(***************************************************************************)
EXTENDS DataPipeline

CONSTANTS Config, Lines, Value, PublicKeys, OrdersAt, Devnet, Checked, NoRates, U64

VARIABLES pc, line, at, got, order, submitted, since, recentHash, polling, interrupted

cmdVars == <<pc, line, at, got, order, submitted, since, recentHash, polling, interrupted>>
programVars == <<vars, cmdVars>>

\* What the commands read: user and group from the context, the open orders of a
\* market from its handler.
Read == {"group", "user"} \cup OpenOrdersTasks

ViewerOf(c) ==
  CASE c = "group" -> <<"context", GroupKey>>
    [] c = "user"  -> <<"context", UserKey>>
    [] OTHER       -> <<"openOrders", c>>

Copies == [c \in Read |-> IF ViewerOf(c) \in Viewers THEN View[ViewerOf(c)] ELSE 0]

\* CommandLine, with the lemmas about it.
C == INSTANCE CommandLineProofs
       WITH view <- Copies, Handled <- OpenOrdersTasks, MaxVersion <- MaxSnapshot

ProgramInit == Init /\ C!Init

MainIsOver == ~C!TasksRun

\* A task goes on; main's select! or its end is the signal.
Task == Next /\ (shutdown' # shutdown => MainIsOver) /\ UNCHANGED cmdVars

\* The main task goes on, or the chain meta service does.
Main ==
  /\ UNCHANGED vars
  /\ (\E l \in Lines : C!Read(l)) \/ C!Step \/ C!Hear \/ C!CtrlC \/ C!Meta

ProgramNext == Task \/ Main

ProgramSpec == ProgramInit /\ [][ProgramNext]_programVars
---------------------------------------------------------------------------
\* The commands over the pipeline are commands over copies that only move forward.
CommandLineSpec == C!Spec

\* Whatever a command has read of an account, up to the orders it submits, is an
\* answer of the node to which the account belonged, though the reads of a command
\* may be of different answers.
ReadsWereAnswers ==
  \A c \in Read : got[c] # 0 =>
    got[c] <= snapshot /\ AccountOf(ViewerOf(c)) \notin Absent[got[c]]
=============================================================================
