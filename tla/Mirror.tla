------------------------------- MODULE Mirror -------------------------------
(***************************************************************************)
(* What the commands may expect of the copies they read.  The RPC node     *)
(* shows a growing number of states of the chain; each viewer keeps the    *)
(* version of one account that some state had.  A viewer may skip          *)
(* versions, and may wait, but it never goes back to an older version and  *)
(* never shows one in which its account did not exist.                     *)
(***************************************************************************)
EXTENDS Naturals

CONSTANTS
  Viewers,
  History   \* History[v]: the states in which the account of v exists

VARIABLES
  source,   \* the last state the node has shown
  view      \* view[v]: the state v's copy is of, 0 without a copy

Init ==
  /\ source = 0
  /\ view = [v \in Viewers |-> 0]

Publish ==
  /\ source' = source + 1
  /\ UNCHANGED view

\* Some viewers move forward, others keep their copy.
Deliver ==
  /\ DOMAIN view' = Viewers
  /\ \A v \in Viewers :
       \/ view'[v] = view[v]
       \/ view[v] < view'[v] /\ view'[v] <= source /\ view'[v] \in History[v]
  /\ UNCHANGED source

Next == Publish \/ Deliver

Spec == Init /\ [][Next]_<<source, view>>
=============================================================================
