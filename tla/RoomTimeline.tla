----------------------------- MODULE RoomTimeline -----------------------------
(***************************************************************************)
(* What the room promises every page, without connections, queues, locks   *)
(* or replays: a shared log grows, and a page shows a stretch of it.  A    *)
(* page extends what it shows by exactly the next event, replaces it by a  *)
(* snapshot of the room at some position, clears it, or forgets its        *)
(* position and then shows nothing new until it is given a snapshot or     *)
(* cleared.  RoomReplay implements this.                                   *)
(***************************************************************************)
EXTENDS Naturals

CONSTANT Pages

VARIABLES
  committed,  \* events in the log
  position,   \* per page: the last event applied
  view        \* per page: the events the timeline reflects

vars == <<committed, position, view>>

Init ==
  /\ committed = 0
  /\ position = [p \in Pages |-> 0]
  /\ view = [p \in Pages |-> {}]

CommitEvent ==
  /\ committed' = committed + 1
  /\ UNCHANGED <<position, view>>

\* The next event of the log, and only the next.
ShowNext(p) ==
  /\ position[p] < committed
  /\ position[p] = 0 => view[p] = {}
  /\ position' = [position EXCEPT ![p] = @ + 1]
  /\ view' = [view EXCEPT ![p] = @ \cup {position[p] + 1}]
  /\ UNCHANGED committed

ShowSnapshot(p) ==
  \E n \in 0 .. committed :
    /\ position' = [position EXCEPT ![p] = n]
    /\ view' = [view EXCEPT ![p] = 1 .. n]
    /\ UNCHANGED committed

Clear(p) ==
  \E n \in 0 .. committed :
    /\ position' = [position EXCEPT ![p] = n]
    /\ view' = [view EXCEPT ![p] = {}]
    /\ UNCHANGED committed

ForgetPosition(p) ==
  /\ position' = [position EXCEPT ![p] = 0]
  /\ UNCHANGED <<committed, view>>

Next ==
  \/ CommitEvent
  \/ \E p \in Pages :
       ShowNext(p) \/ ShowSnapshot(p) \/ Clear(p) \/ ForgetPosition(p)

Spec == Init /\ [][Next]_vars
=============================================================================
