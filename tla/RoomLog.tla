-------------------------------- MODULE RoomLog --------------------------------
(***************************************************************************)
(* What submitting a message promises a browser that may repeat itself on  *)
(* any connection, without idempotency rows, locks, connections, cleanups  *)
(* and crashes: a request is accepted unless a message of it is shown,     *)
(* answers name a message of the request they answer, and a shown message  *)
(* disappears only by retention and for good.  RoomSubmission implements   *)
(* this.                                                                   *)
(***************************************************************************)
EXTENDS Naturals, Sequences

CONSTANTS Visitors, Requests

VARIABLES
  log,    \* what was accepted: who asked what
  shown,  \* the messages that are still kept
  told    \* answers: request and message

vars == <<log, shown, told>>

Init == log = <<>> /\ shown = {} /\ told = {}

Accept(v, r) ==
  LET new == [by |-> v, request |-> r]
  IN  /\ \A m \in shown : log[m] # new
      /\ log' = Append(log, new)
      /\ shown' = shown \cup {Len(log) + 1}
      /\ UNCHANGED told

Answer(m) ==
  /\ told' = told \cup {[by |-> log[m].by, request |-> log[m].request, message |-> m]}
  /\ UNCHANGED <<log, shown>>

Expire ==
  /\ shown' \subseteq shown
  /\ UNCHANGED <<log, told>>

Next ==
  \/ \E v \in Visitors, r \in Requests : Accept(v, r)
  \/ \E m \in DOMAIN log : Answer(m)
  \/ Expire

Spec == Init /\ [][Next]_vars
=============================================================================
