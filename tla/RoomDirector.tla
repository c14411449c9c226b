----------------------------- MODULE RoomDirector -----------------------------
(***************************************************************************)
(* Which message the character answers next.                               *)
(*                                                                         *)
(*   main_logic/room/director.py   RoomDirector                            *)
(*   main_logic/room/service.py    _room_worker, which takes the turns;    *)
(*                                 _proactive_loop, which adds a prompt    *)
(*                                 when the room is quiet                  *)
(*                                                                         *)
(* Time passes in steps of one point of age score; a candidate's age is    *)
(* what its waiting adds to its score, and stops growing at AgeLimit.      *)
(* Messages arrive in the order of their room_seq: commit and broadcast    *)
(* hold the event lock, and nothing is awaited between its release and the *)
(* director's list.  RoomTurn has the turns themselves.  Left out: how a   *)
(* mention is recognised, and the timers of the prompt.                    *)
(***************************************************************************)
EXTENDS Integers, Sequences, SequencesExt

CONSTANTS
  Visitors,
  Room,         \* the author of prompts
  Nobody,
  Remembered,   \* recent targets that are remembered: 5
  AgeLimit,     \* the most that waiting adds: 30
  Penalty,      \* for a recent target: 25
  MentionBonus, \* 100
  PromptMalus,  \* 1000
  MaxQueue      \* bound: candidates that wait at the same time

ASSUME DirectorConstants ==
  /\ Room \notin Visitors /\ Nobody \notin Visitors \cup {Room}
  /\ Remembered \in Nat \ {0}
  /\ AgeLimit \in Nat /\ Penalty \in Nat /\ MentionBonus \in Nat /\ PromptMalus \in Nat
  /\ AgeLimit + Penalty < MentionBonus /\ AgeLimit + Penalty < PromptMalus
  /\ MaxQueue \in Nat

VARIABLES
  queue,    \* _candidates, each with its reason_code and its age
  recent,   \* _recent_targets
  closed,   \* _closed
  turn,     \* the turn that the worker has taken
  speaking  \* that turn is in _active_generations

vars == <<queue, recent, closed, turn, speaking>>

Authors   == Visitors \cup {Room}
Reasons   == {"direct_mention", "queued_message", "dead_air"}
\* passed is a history: later candidates of the same reason that were answered
\* first, since the author was last answered; counted until they are too many.
Candidate == [author : Authors, reason : Reasons, age : 0 .. AgeLimit, passed : 0 .. Remembered + 1]
NoTurn    == [target |-> Nobody, reason |-> "dead_air"]

TypeOK ==
  /\ queue \in Seq(Candidate)
  /\ recent \in Seq(Authors) /\ Len(recent) <= Remembered
  /\ closed \in BOOLEAN /\ speaking \in BOOLEAN
  /\ turn \in [target : Authors, reason : Reasons] \cup {NoTurn}

Init ==
  /\ queue = <<>> /\ recent = <<>> /\ closed = FALSE
  /\ turn = NoTurn /\ speaking = FALSE

-----------------------------------------------------------------------------
IsRecent(author) == \E i \in DOMAIN recent : recent[i] = author

\* Variant with a fault: the penalty is as heavy as a mention.
HeavyPenalty(c) ==
    (IF c.reason = "direct_mention" THEN MentionBonus ELSE 0) + c.age
  - (IF IsRecent(c.author) THEN MentionBonus ELSE 0)
  - (IF c.reason = "dead_air" THEN PromptMalus ELSE 0)

Score(c) ==
    (IF c.reason = "direct_mention" THEN MentionBonus ELSE 0) + c.age
  - (IF IsRecent(c.author) THEN Penalty ELSE 0)
  - (IF c.reason = "dead_air" THEN PromptMalus ELSE 0)

\* Variant with a fault: of equal scores the last is taken.
LastOfTheBest(i) ==
  \A j \in DOMAIN queue :
    Score(queue[j]) < Score(queue[i]) \/ (Score(queue[j]) = Score(queue[i]) /\ j <= i)

\* The highest score, and of equal ones the smallest room_seq.
IsChosen(i) ==
  \A j \in DOMAIN queue :
    Score(queue[j]) < Score(queue[i]) \/ (Score(queue[j]) = Score(queue[i]) /\ i <= j)

\* Variant with a fault: no target is ever forgotten.
RememberAll(author) == recent' = Append(recent, author)

\* A deque with a maximal length.
Remember(author) ==
  recent' = Append(IF Len(recent) = Remembered THEN Tail(recent) ELSE recent, author)

\* How the others see that candidate i is taken.
SeesTaken(j, i) ==
  [queue[j] EXCEPT !.passed = IF queue[j].author = queue[i].author THEN 0
                              ELSE IF j < i /\ queue[j].reason = queue[i].reason /\ @ <= Remembered
                              THEN @ + 1 ELSE @]

Enqueue(author, reason) ==
  /\ Len(queue) < MaxQueue
  /\ queue' = Append(queue, [author |-> author, reason |-> reason, age |-> 0, passed |-> 0])

\* submit_message.
Submit(v) ==
  /\ \E reason \in {"direct_mention", "queued_message"} : Enqueue(v, reason)
  /\ UNCHANGED <<recent, closed, turn, speaking>>

\* _proactive_loop: nobody waits and nothing is being said.
Prompt ==
  /\ queue = <<>> /\ ~speaking
  /\ Enqueue(Room, "dead_air")
  /\ UNCHANGED <<recent, closed, turn, speaking>>

Tick ==
  /\ \E i \in DOMAIN queue : queue[i].age < AgeLimit
  /\ queue' = [i \in DOMAIN queue |->
                 [queue[i] EXCEPT !.age = IF @ < AgeLimit THEN @ + 1 ELSE @]]
  /\ UNCHANGED <<recent, closed, turn, speaking>>

\* next_turn, by the worker between two turns.
NextTurn(i) ==
  /\ ~closed /\ turn = NoTurn /\ IsChosen(i)
  /\ queue' = RemoveAt([j \in DOMAIN queue |-> SeesTaken(j, i)], i)
  /\ Remember(queue[i].author)
  /\ turn' = [target |-> queue[i].author, reason |-> queue[i].reason]
  /\ UNCHANGED <<closed, speaking>>

StartSpeaking ==
  /\ turn # NoTurn /\ ~speaking
  /\ speaking' = TRUE
  /\ UNCHANGED <<queue, recent, closed, turn>>

\* A turn ends, or fails before anything is said.
EndTurn ==
  /\ turn # NoTurn
  /\ turn' = NoTurn /\ speaking' = FALSE
  /\ UNCHANGED <<queue, recent, closed>>

\* shutdown: the worker's next call of next_turn raises.
Close ==
  /\ ~closed
  /\ closed' = TRUE
  /\ UNCHANGED <<queue, recent, turn, speaking>>

Next ==
  \/ \E v \in Visitors : Submit(v)
  \/ \E i \in DOMAIN queue : NextTurn(i)
  \/ Prompt \/ Tick \/ StartSpeaking \/ EndTurn \/ Close

\* Turns end (RoomTurn, TurnsEnd) and the worker takes the next one.
Fairness == WF_vars(\E i \in DOMAIN queue : NextTurn(i)) /\ WF_vars(EndTurn)

Spec     == Init /\ [][Next]_vars
FairSpec == Spec /\ Fairness

-----------------------------------------------------------------------------
Waits(author, reason) ==
  \E i \in DOMAIN queue : queue[i].author = author /\ queue[i].reason = reason

\* A mention goes before every other message, however long that has waited and
\* whomever the character has just answered, and a prompt is answered only when
\* no visitor waits (director.py:65-73): age and penalty never outweigh a class.
ClassesKeepTheirOrder ==
  [][turn' # turn /\ turn' # NoTurn =>
       /\ turn'.reason # "direct_mention" => ~\E v \in Visitors : Waits(v, "direct_mention")
       /\ turn'.reason = "dead_air" => ~\E v \in Visitors : Waits(v, "queued_message")]_vars

\* Since its author was last answered, a candidate is passed by at most as many
\* later ones of its kind as targets are remembered: the penalty that lets quiet
\* visitors go first (director.py:70) does not put the active ones off for longer.
FewArePassed == \A i \in DOMAIN queue : queue[i].passed <= Remembered

\* Whatever arrives meanwhile, a visitor who mentions the character is answered, and
\* so is everyone else unless mentions keep arriving.
VisitorsAreAnswered ==
  \A v \in Visitors :
    /\ Waits(v, "direct_mention") ~> turn.target = v \/ closed
    /\ Waits(v, "queued_message") ~>
         \/ turn.target = v \/ closed
         \/ \E w \in Visitors : Waits(w, "direct_mention")
=============================================================================
