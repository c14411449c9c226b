------------------------------- MODULE RoomQueue -------------------------------
(***************************************************************************)
(* What the room promises everybody who says something, without            *)
(* connections, repeated requests, scores, pauses, failures or the steps   *)
(* of a turn: while the process lives a message is given to the director   *)
(* once, and one at a time is taken and served.  What was not answered     *)
(* when the process ended may be kept, given again later or lost; what was *)
(* answered never comes back.                                              *)
(*                                                                         *)
(* RoomSubmission and RoomTurn see this queue from its two ends.  Both     *)
(* implement it.                                                           *)
(***************************************************************************)
CONSTANTS Messages, None

VARIABLES
  given,    \* messages the director has been given
  waiting,  \* those it still has
  current,  \* the one being served, or None
  life      \* changes when the process ends, and may when it starts

vars == <<given, waiting, current, life>>

Init == given = {} /\ waiting = {} /\ current = None

Give(m) ==
  /\ m \notin given
  /\ given' = given \cup {m} /\ waiting' = waiting \cup {m}
  /\ UNCHANGED <<current, life>>

\* A message may be dropped as soon as it is taken.
Take(m) ==
  /\ current = None /\ m \in waiting
  /\ waiting' = waiting \ {m}
  /\ current' \in {m, None}
  /\ UNCHANGED <<given, life>>

Finish ==
  /\ current # None
  /\ current' = None
  /\ UNCHANGED <<given, waiting, life>>

Unanswered == (waiting \cup {current}) \ {None}

\* The design document (section 5.2) has what was not consumed evaluated again
\* after a restart; the code forgets it.  Both keep this promise.
ProcessEnds ==
  /\ life' # life
  /\ waiting' \in SUBSET Unanswered
  /\ \E again \in SUBSET (Unanswered \ waiting') : given' = given \ again
  /\ current' = None

Next ==
  \/ \E m \in Messages : Give(m) \/ Take(m)
  \/ Finish \/ ProcessEnds

Spec == Init /\ [][Next]_vars

-----------------------------------------------------------------------------
Served == given \ (waiting \cup {current})

\* A message that was served, or given up, is not served again: no crash,
\* repetition or cancellation makes the character answer it twice.
ServedForGood == [][Served \subseteq Served']_vars
=============================================================================
