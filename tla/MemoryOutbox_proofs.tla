------------------------- MODULE MemoryOutbox_proofs -------------------------
(***************************************************************************)
(* Theorems about MemoryOutbox, for any set of operations and any number   *)
(* of crashes and failed writes.                                           *)
(***************************************************************************)
EXTENDS MemoryOutbox, TLAPS

Underway == {"waiting", "running", "raised"}

\* The attempts a task counts are those on disk, and a task that may still call
\* its handler is below the threshold.
CountInv(o) ==
  /\ attempts[o] <= raised[o]
  /\ task[o] \in Underway => prior[o] = attempts[o] /\ prior[o] < MaxAttempts
  /\ task[o] = "raised" => attempts[o] < raised[o]

\* An op is closed only when it is settled, and an attempt that led to that is
\* on disk.
CloseInv(o) ==
  /\ task[o] \in Underway \cup {"closing"} => o \notin done
  /\ task[o] = "closing" \/ o \in done =>
       /\ Settled(o)
       /\ o \notin succeeded /\ <<o, "attempt">> \notin swallowed => attempts[o] >= MaxAttempts

\* Without failed writes, no op at the threshold is left open.
ThresholdInv(o) ==
  process = "up" /\ clean /\ o \in pending /\ o \notin done /\ attempts[o] >= MaxAttempts =>
    task[o] = "closing"

\* What was promised is on disk, and nothing else is.
PromiseInv(o) ==
  /\ o \in accepted => <<o, "pending">> \in swallowed \/ o \in pending \/ Settled(o)
  /\ o \notin accepted =>
       o \notin pending /\ o \notin done /\ attempts[o] = 0 /\ task[o] = "none"

OpInv == \A o \in Ops : CountInv(o) /\ CloseInv(o) /\ ThresholdInv(o) /\ PromiseInv(o)

NoTaskWhileDown == process # "up" => \A o \in Ops : task[o] = "none"

OutboxInv == TypeOK /\ OpInv /\ NoTaskWhileDown

-----------------------------------------------------------------------------
LEMMA InitInv == Init => OutboxInv
<1> SUFFICES ASSUME Init PROVE OutboxInv
  OBVIOUS
<1>1. fragment \in BOOLEAN /\ clean \in BOOLEAN
  BY DEF Init
<1>2. TypeOK
  BY <1>1, OutboxConstants DEF Init, TypeOK, NoAttempts
<1>3. OpInv
  BY OutboxConstants DEF Init, OpInv, CountInv, CloseInv, ThresholdInv, PromiseInv, NoAttempts, Underway
<1>4. NoTaskWhileDown
  BY DEF Init, NoTaskWhileDown
<1> QED
  BY <1>2, <1>3, <1>4 DEF OutboxInv

\* A written line keeps the types.
LEMMA WriteLineTypes ==
  ASSUME TypeOK, NEW o \in Ops, NEW status \in Statuses, WriteLine(o, status)
  PROVE  /\ pending' \subseteq Ops /\ attempts' \in [Ops -> Nat] /\ done' \subseteq Ops
         /\ fragment' \in BOOLEAN /\ clean' \in BOOLEAN
         /\ swallowed' \subseteq Ops \X Statuses
<1>1. fragment' \in BOOLEAN /\ clean' \in BOOLEAN
  BY DEF WriteLine
<1>2. CASE fragment
  BY <1>1, <1>2 DEF TypeOK, WriteLine, lines
<1>3. CASE ~fragment
  BY <1>1, <1>3 DEF TypeOK, WriteLine, lines
<1> QED
  BY <1>2, <1>3

\* A failed write costs a fault, and a reader of the file sees no difference.
LEMMA WriteFailsEffect ==
  ASSUME TypeOK, WriteFails
  PROVE  /\ fragment' \in BOOLEAN /\ clean' \in BOOLEAN /\ ~clean'
         /\ UNCHANGED <<pending, attempts, done, swallowed>>
         /\ faults' \in 0 .. MaxFaults
<1>1. clean' \in BOOLEAN /\ ~clean' /\ fragment' \in BOOLEAN
  BY DEF WriteFails
<1>2. faults' \in 0 .. MaxFaults
  BY OutboxConstants DEF TypeOK, WriteFails
<1>3. UNCHANGED <<pending, attempts, done, swallowed>>
  BY DEF WriteFails, lines
<1> QED
  BY <1>1, <1>2, <1>3

\* Every action preserves the types.
LEMMA NextTypes == OutboxInv /\ [Next]_vars => TypeOK'
<1> SUFFICES ASSUME OutboxInv, [Next]_vars PROVE TypeOK'
  OBVIOUS
<1> USE OutboxConstants
<1>t. TypeOK
  BY DEF OutboxInv
<1>1. CASE UNCHANGED vars
  BY <1>t, <1>1 DEF TypeOK, vars, file, lines, budgets, history
<1>2. CASE Boot
  BY <1>t, <1>2 DEF TypeOK, Boot, file, lines, budgets
<1>3. CASE Scan
  BY <1>t, <1>3, SMTT(30) DEF OutboxInv, NoTaskWhileDown, TypeOK, Scan, file, lines, budgets, history
<1>4. CASE ScanNothing
  <2>1. fragment' \in BOOLEAN
    BY <1>t, <1>4 DEF TypeOK, ScanNothing, file
  <2> QED
    BY <1>t, <1>4, <2>1 DEF TypeOK, ScanNothing, NoAttempts, file, lines, budgets, history
<1>5. CASE Crash
  BY <1>t, <1>5 DEF TypeOK, Crash, file, lines, history
<1>6. ASSUME NEW o \in Ops, Register(o) PROVE TypeOK'
  <2>1. "pending" \in Statuses
    BY DEF Statuses
  <2> QED
    BY <1>t, <1>6, <2>1, WriteLineTypes DEF TypeOK, Register, budgets
<1>7. ASSUME NEW o \in Ops, RegisterFails(o) PROVE TypeOK'
  BY <1>t, <1>7, WriteFailsEffect DEF TypeOK, RegisterFails
<1>8. ASSUME NEW o \in Ops, GetSlot(o) \/ HandlerReturns(o) \/ HandlerRaises(o) PROVE TypeOK'
  BY <1>t, <1>8 DEF TypeOK, GetSlot, HandlerReturns, HandlerRaises, file, lines, budgets, history
<1>9. ASSUME NEW o \in Ops, RecordAttempt(o) \/ RecordDone(o) PROVE TypeOK'
  <2>1. "attempt" \in Statuses /\ "done" \in Statuses
    BY DEF Statuses
  <2> QED
    BY <1>t, <1>9, <2>1, WriteLineTypes DEF TypeOK, RecordAttempt, RecordDone, EndTask, budgets
<1>10. ASSUME NEW o \in Ops, RecordAttemptFails(o) \/ RecordDoneFails(o) PROVE TypeOK'
  BY <1>t, <1>10, WriteFailsEffect DEF TypeOK, RecordAttemptFails, RecordDoneFails, EndTask
<1> QED
  BY <1>1, <1>2, <1>3, <1>4, <1>5, <1>6, <1>7, <1>8, <1>9, <1>10 DEF Next, Run

-----------------------------------------------------------------------------
\* A step touches the line, task and history of one op, or all tasks at once.
LEMMA NextOps == OutboxInv /\ [Next]_vars => OpInv'
<1> SUFFICES ASSUME OutboxInv, [Next]_vars, NEW p \in Ops
             PROVE  (CountInv(p) /\ CloseInv(p) /\ ThresholdInv(p) /\ PromiseInv(p))'
  BY DEF OpInv
<1> USE OutboxConstants
<1> DEFINE Goal == (CountInv(p) /\ CloseInv(p) /\ ThresholdInv(p) /\ PromiseInv(p))'
<1>t. TypeOK /\ NoTaskWhileDown
  BY DEF OutboxInv
<1>p. CountInv(p) /\ CloseInv(p) /\ ThresholdInv(p) /\ PromiseInv(p)
  BY DEF OutboxInv, OpInv
<1>1. CASE UNCHANGED vars
  BY <1>p, <1>1 DEF CountInv, CloseInv, ThresholdInv, PromiseInv, Settled, vars, file, lines, budgets, history
<1>2. CASE Boot
  BY <1>p, <1>2 DEF Boot, CountInv, CloseInv, ThresholdInv, PromiseInv, Settled, file, lines, budgets
<1>3. CASE Scan
  <2>1. UNCHANGED <<pending, attempts, done, accepted, succeeded, raised, swallowed, clean>>
    BY <1>3 DEF Scan, file, lines, history
  <2>2. CASE Pending(p)
    <3>1. prior'[p] = attempts[p] /\ p \in pending /\ p \notin done
      BY <1>3, <2>2 DEF Scan, Pending
    <3>2. CASE attempts[p] >= MaxAttempts
      <4>1. task'[p] = "closing"
        BY <1>3, <2>2, <3>2 DEF Scan
      <4> QED
        BY <1>t, <1>p, <2>1, <3>1, <3>2, <4>1
        DEF TypeOK, CountInv, CloseInv, ThresholdInv, PromiseInv, Settled, Underway
    <3>3. CASE ~(attempts[p] >= MaxAttempts)
      <4>1. task'[p] \in {"running", "waiting"}
        BY <1>3, <2>2, <3>3 DEF Scan
      <4> QED
        BY <1>t, <1>p, <2>1, <3>1, <3>3, <4>1
        DEF TypeOK, CountInv, CloseInv, ThresholdInv, PromiseInv, Settled, Underway
    <3> QED
      BY <3>2, <3>3
  <2>3. CASE ~Pending(p)
    <3>1. task'[p] = "none" /\ ~(p \in pending /\ p \notin done)
      BY <1>3, <2>3 DEF Scan, Pending
    <3> QED
      BY <1>t, <1>p, <2>1, <3>1
      DEF TypeOK, CountInv, CloseInv, ThresholdInv, PromiseInv, Settled, Underway
  <2> QED
    BY <2>2, <2>3
<1>4. CASE ScanNothing
  <2>1. task'[p] = "none" /\ ~(p \in pending /\ p \notin done)
    BY <1>t, <1>4 DEF NoTaskWhileDown, ScanNothing, Pending
  <2>2. UNCHANGED <<accepted, succeeded, raised, swallowed>>
    BY <1>4 DEF ScanNothing, history
  <2>3. CASE UNCHANGED file
    BY <1>t, <1>p, <2>1, <2>2, <2>3
    DEF TypeOK, CountInv, CloseInv, ThresholdInv, PromiseInv, Settled, Underway, file, lines
  <2>4. CASE pending' = {} /\ attempts' = NoAttempts /\ done' = {}
    BY <1>t, <1>p, <2>1, <2>2, <2>4
    DEF TypeOK, CountInv, CloseInv, ThresholdInv, PromiseInv, Settled, Underway, NoAttempts
  <2> QED
    BY <1>4, <2>3, <2>4 DEF ScanNothing
<1>5. CASE Crash
  BY <1>t, <1>p, <1>5
  DEF TypeOK, Crash, CountInv, CloseInv, ThresholdInv, PromiseInv, Settled, Underway, file, lines, history
<1>6. ASSUME NEW o \in Ops, Register(o) PROVE Goal
  BY <1>t, <1>p, <1>6
  DEF TypeOK, Register, WriteLine, CountInv, CloseInv, ThresholdInv, PromiseInv, Settled, Underway, lines, budgets
<1>7. ASSUME NEW o \in Ops, RegisterFails(o) PROVE Goal
  BY <1>t, <1>p, <1>7, WriteFailsEffect
  DEF RegisterFails, CountInv, CloseInv, ThresholdInv, PromiseInv, Settled, Underway
<1>8. ASSUME NEW o \in Ops, GetSlot(o) \/ HandlerReturns(o) \/ HandlerRaises(o) PROVE Goal
  BY <1>t, <1>p, <1>8
  DEF TypeOK, GetSlot, HandlerReturns, HandlerRaises, CountInv, CloseInv, ThresholdInv, PromiseInv,
      Settled, Underway, file, lines, budgets, history
<1>9. ASSUME NEW o \in Ops, RecordAttempt(o) PROVE Goal
  BY <1>t, <1>p, <1>9
  DEF TypeOK, RecordAttempt, EndTask, WriteLine, CountInv, CloseInv, ThresholdInv, PromiseInv, Settled,
      Underway, lines, budgets
<1>10. ASSUME NEW o \in Ops, RecordDone(o) PROVE Goal
  BY <1>t, <1>p, <1>10
  DEF TypeOK, RecordDone, EndTask, WriteLine, CountInv, CloseInv, ThresholdInv, PromiseInv, Settled,
      Underway, lines, budgets
<1>11. ASSUME NEW o \in Ops, RecordAttemptFails(o) \/ RecordDoneFails(o) PROVE Goal
  BY <1>t, <1>p, <1>11, WriteFailsEffect
  DEF TypeOK, RecordAttemptFails, RecordDoneFails, EndTask, CountInv, CloseInv, ThresholdInv, PromiseInv,
      Settled, Underway
<1> QED
  BY <1>1, <1>2, <1>3, <1>4, <1>5, <1>6, <1>7, <1>8, <1>9, <1>10, <1>11 DEF Next, Run

LEMMA NextDown == OutboxInv /\ [Next]_vars => NoTaskWhileDown'
<1> SUFFICES ASSUME OutboxInv, [Next]_vars PROVE NoTaskWhileDown'
  OBVIOUS
<1>t. TypeOK /\ NoTaskWhileDown
  BY DEF OutboxInv
<1>1. \A o \in Ops : task[o] # "none" => process = "up"
  BY <1>t DEF NoTaskWhileDown
<1>2. CASE Boot \/ Scan \/ ScanNothing \/ Crash \/ UNCHANGED vars
  BY <1>t, <1>2 DEF NoTaskWhileDown, Boot, Scan, ScanNothing, Crash, vars
<1>3. ASSUME NEW o \in Ops, Register(o) \/ RegisterFails(o) \/ Run(o) PROVE process' = "up"
  BY <1>1, <1>3
  DEF Register, RegisterFails, Run, GetSlot, HandlerReturns, HandlerRaises, RecordAttempt,
      RecordAttemptFails, RecordDone, RecordDoneFails
<1> QED
  BY <1>2, <1>3 DEF Next, NoTaskWhileDown

-----------------------------------------------------------------------------
\* The inductive invariant: task, counter and file agree on every op.
THEOREM OutboxInvariant == Spec => []OutboxInv
<1>1. OutboxInv /\ [Next]_vars => OutboxInv'
  BY NextTypes, NextOps, NextDown DEF OutboxInv
<1> QED
  BY InitInv, <1>1, PTL DEF Spec

\* The file, the tasks and the replay slots have their types.
THEOREM OutboxTypes == Spec => []TypeOK
<1>1. OutboxInv => TypeOK
  BY DEF OutboxInv
<1> QED
  BY <1>1, OutboxInvariant, PTL

\* A registered op stays pending until it has succeeded or been tried MaxAttempts
\* times, whatever crashes and whichever writes fail (outbox.py:130-143, 195-230).
THEOREM AcceptedOpsAreKept == Spec => []AcceptedIsKept
<1>1. OutboxInv => AcceptedIsKept
  BY DEF OutboxInv, TypeOK, OpInv, CloseInv, PromiseInv, AcceptedIsKept, Pending
<1> QED
  BY <1>1, OutboxInvariant, PTL

\* Every op that was given up has its attempts on disk (outbox_infra.py:110-124).
THEOREM DeadLettersHaveAttempts == Spec => []DeadLettersAreDocumented
<1>1. OutboxInv => DeadLettersAreDocumented
  BY DEF OutboxInv, OpInv, CloseInv, DeadLettersAreDocumented
<1> QED
  BY <1>1, OutboxInvariant, PTL

\* A replay without failed writes leaves no op at the threshold open.
THEOREM ThresholdOpsAreClosed == Spec => []GivenUpIsClosed
<1>1. OutboxInv => GivenUpIsClosed
  BY OutboxConstants DEF OutboxInv, TypeOK, OpInv, ThresholdInv, GivenUpIsClosed, Pending
<1> QED
  BY <1>1, OutboxInvariant, PTL

\* No handler is started for an op that is done or given up
\* (outbox_infra.py:82-101).
THEOREM GivenUpOpsDoNotRun == Spec => NoRunAfterGivenUp
<1> DEFINE A == \A o \in Ops : task'[o] = "running" /\ task[o] # "running" =>
                  o \notin done' /\ attempts'[o] < MaxAttempts
<1>1. OutboxInv /\ OutboxInv' /\ [Next]_vars => [A]_vars
  <2>1. OutboxInv' => A
    BY DEF OutboxInv, OpInv, CountInv, CloseInv, Underway
  <2> QED
    BY <2>1
<1> QED
  BY <1>1, OutboxInvariant, PTL DEF Spec, NoRunAfterGivenUp
=============================================================================
