---------------------------- MODULE RoomTurn_proofs ----------------------------
(***************************************************************************)
(* The safety of RoomTurn, for any number of messages and administrators   *)
(* and any number of commands, failures, shutdowns and crashes.            *)
(***************************************************************************)
EXTENDS RoomTurn, TLAPS

-----------------------------------------------------------------------------
(***************************************************************************)
(* The inductive invariant, one idea per conjunct.                         *)
(***************************************************************************)
\* No trace of the message yet: it has had no turn.
Fresh(m) ==
  /\ pc[m] = "none" /\ row[m] = "none" /\ sent[m] = {} /\ m \notin reply
  /\ \A call \in threads : call[2] # m

\* A candidate is fresh until its turn begins, so no message has two turns.
CandidatesFresh ==
  /\ held \in offered \cup {NoMessage}
  /\ \A m \in Messages \ offered : Fresh(m)
  /\ \A m \in waiting : Fresh(m) /\ held # m
  /\ worker = "recheck" => held \in Messages /\ Fresh(held)

\* The one turn that is running is the worker's, and is the active one.
RunningIsHeld ==
  /\ worker = "turn" => held \in Messages /\ pc[held] # "none"
  /\ \A m \in Messages : pc[m] \in Running => worker = "turn" /\ held = m /\ active = m

\* While the process is down there are neither tasks nor threads.
DownIsEmpty ==
  process = "down" =>
    /\ worker = "stopped" /\ waiting = {} /\ threads = {} /\ ~woken
    /\ \A m \in Messages : pc[m] = "none"

\* The phase that cancel_generation looks at follows the progress of the turn.
PhaseFollows ==
  \A m \in Messages :
    /\ pc[m] \in BeforeTry \cup {"preparing"} => phase[m] = "preparing"
    /\ pc[m] \in {"generating", "finalizing"} => phase[m] = "generating"
    /\ pc[m] \in {"appending", "finishing"} => phase[m] = "finalizing"
    /\ pc[m] \in {"recording", "reporting"} => phase[m] \in {"interrupted", "failed"}

\* A database call nobody waits for belongs to a turn that was cancelled.
OrphanedCalls ==
  \A call \in threads :
    /\ pc[call[2]] \in {"done"} \cup InHandler
    /\ call[1] = "complete" => call[2] \in reply
    /\ call[1] = "record" => pc[call[2]] = "done" /\ phase[call[2]] \in {"interrupted", "failed"}

\* The row and the reply follow the progress of the turn.
RowFollows ==
  \A m \in Messages :
    /\ pc[m] \in {"announcing", "shown"} \cup InTry => row[m] = "generating"
    /\ pc[m] = "finishing" => m \in reply

\* Before its try block, nothing of a turn is shown but its announcement.
SilentBeforeTry == \A m \in Messages : pc[m] \in BeforeTry => sent[m] \subseteq {"stream.started"}

\* As long as nothing fails, a reply is on its way to "completed" or there,
\* and only the insertion of a turn can have lost its caller.
NothingLost ==
  /\ process # "up" => stops > 0
  /\ faults = 0 /\ stops = 0 =>
     /\ \A m \in reply : pc[m] = "finishing" \/ (pc[m] = "done" /\ row[m] = "completed")
     /\ \A call \in threads : call[1] = "insert" /\ pc[call[2]] = "done" /\ call[2] \notin reply

\* Somebody has paused the room and has not yet cancelled the turn.
PauseUnderWay == \E a \in Admins : admin[a] = "persisting" /\ ~wasPaused[a]

Quiet ==
  \A m \in Messages : pc[m] \notin BeforeTry \cup {"preparing", "generating", "finalizing"}

PauseCancels == paused /\ storeFaults = 0 => (Quiet /\ ~woken) \/ PauseUnderWay

HeldInv     == RunningIsHeld /\ DownIsEmpty /\ GenerationLockHeld
ProgressInv == PhaseFollows /\ RowFollows /\ SilentBeforeTry /\ StaleActiveHasNoText
CallsInv    == OrphanedCalls /\ CompletedHasReply

TurnInv ==
  TypeOK /\ CandidatesFresh /\ HeldInv /\ ProgressInv /\ CallsInv /\ NothingLost /\ PauseCancels

-----------------------------------------------------------------------------
(***************************************************************************)
(* Every step preserves every conjunct.                                    *)
(***************************************************************************)
LEMMA TypeStep == TurnInv /\ [Next]_vars => TypeOK'
<1> SUFFICES ASSUME TurnInv, [Next]_vars PROVE TypeOK'
  OBVIOUS
<1> USE TurnConstants DEF TurnInv, TypeOK, Statuses, Phases, Reasons, Frames, DbCalls,
        directorVars, workerVars, controlVars, turnVars, dbVars
<1>1. ASSUME NEW m \in Messages, Offer(m) PROVE TypeOK'
  BY <1>1 DEF Offer
<1>2. CASE WorkerStep
  <2>1. CASE WaitResumed BY <2>1 DEF WaitResumed
  <2>2. CASE NextTurn BY <2>2 DEF NextTurn
  <2>3. CASE BeginTurn BY <2>3 DEF BeginTurn, CandidatesFresh, Running, BeforeTry
  <2>4. CASE EndTurn BY <2>4 DEF EndTurn
  <2> QED BY <1>2, <2>1, <2>2, <2>3, <2>4 DEF WorkerStep
<1>3. ASSUME NEW m \in Messages, TurnStep(m) PROVE TypeOK'
  <2> USE DEF Running, BeforeTry, InTry, InHandler
  <2>1. CASE InsertTurn(m) BY <2>1 DEF InsertTurn
  <2>2. CASE Announce(m) BY <2>2 DEF Announce
  <2>20. CASE EnterTry(m) BY <2>20 DEF EnterTry
  <2>3. CASE Prepare(m) BY <2>3 DEF Prepare
  <2>4. CASE Delta(m) BY <2>4 DEF Delta
  <2>5. CASE Generated(m) BY <2>5 DEF Generated
  <2>6. CASE LockToFinalize(m) BY <2>6 DEF LockToFinalize
  <2>7. CASE AppendReply(m) BY <2>7 DEF AppendReply
  <2>8. CASE FinishTurn(m) BY <2>8 DEF FinishTurn
  <2>9. CASE LockToRecord(m) BY <2>9 DEF LockToRecord
  <2>10. CASE RecordEnd(m) BY <2>10 DEF RecordEnd, ProgressInv, PhaseFollows
  <2>11. CASE ReportEnd(m) BY <2>11 DEF ReportEnd
  <2> QED
    BY <1>3, <2>1, <2>2, <2>3, <2>4, <2>5, <2>6, <2>7, <2>8, <2>9, <2>10, <2>11, <2>20 DEF TurnStep
<1>4. ASSUME NEW m \in Messages, TurnFault(m) PROVE TypeOK'
  <2> USE DEF Fault
  <2>1. CASE StartFails(m) BY <2>1 DEF StartFails
  <2>2. CASE GenerationFails(m) BY <2>2 DEF GenerationFails, Running, InHandler
  <2>3. CASE FinalizeFails(m) BY <2>3 DEF FinalizeFails, Running, InHandler
  <2>4. CASE HandlerFails(m) BY <2>4 DEF HandlerFails
  <2> QED BY <1>4, <2>1, <2>2, <2>3, <2>4 DEF TurnFault
<1>5. CASE ReaderLocks \/ ReaderUnlocks
  BY <1>5 DEF ReaderLocks, ReaderUnlocks
<1>6. ASSUME NEW a \in Admins PROVE AdminCancel(a) \/ StoreControls(a) => TypeOK'
  BY <1>6 DEF AdminCancel, StoreControls, Command, CancelGeneration, Cancellable, TurnInProgress, RaiseCancelled, AwaitedCall, HeldInv, RunningIsHeld, Running, InHandler
<1>7. ASSUME NEW a \in Admins, ApplyControls(a) PROVE TypeOK'
  BY <1>7 DEF ApplyControls, Command
<1>8. ASSUME NEW a \in Admins, StoreFails(a) \/ Gathered(a) \/ AnnounceControls(a) PROVE TypeOK'
  BY <1>8 DEF StoreFails, Gathered, AnnounceControls, Fault
<1>9. CASE ThreadStep
  BY <1>9 DEF ThreadStep, RunThread, DropThread, CallsInv, OrphanedCalls
<1>10. CASE Shutdown
  <2>1. CASE TurnInProgress
    BY <1>10, <2>1 DEF Shutdown, Stop, TurnInProgress, RaiseCancelled, AwaitedCall, HeldInv, RunningIsHeld, Running, InHandler
  <2>2. CASE ~TurnInProgress
    <3>1. stops' \in 0 .. MaxStops
      BY <1>10 DEF Shutdown, Stop
    <3> QED BY <1>10, <2>2, <3>1 DEF Shutdown
  <2> QED BY <2>1, <2>2
<1>11. CASE Exit
  <2>1. stops' \in 0 .. MaxStops
    BY <1>11 DEF Exit, Stop
  <2> QED BY <1>11, <2>1 DEF Exit
<1>12. CASE Start
  BY <1>12 DEF Start
<1>13. CASE UNCHANGED vars
  BY <1>13 DEF vars
<1> QED
  BY <1>1, <1>2, <1>3, <1>4, <1>5, <1>6, <1>7, <1>8, <1>9, <1>10, <1>11, <1>12, <1>13 DEF Next, AdminStep

\* What the cancellation of the running turn leaves alone.
LEMMA CancelFrame ==
  ASSUME TurnInv, TurnInProgress, RaiseCancelled(held)
  PROVE  /\ held \in Messages /\ pc[held] \in Running /\ active = held
         /\ pc'[held] = IF pc[held] \in InTry THEN "cancelled" ELSE "done"
         /\ \A m \in Messages \ {held} : pc'[m] = pc[m]
         /\ \A call \in threads' : call \in threads \/ (call \in AwaitedCall(held) /\ call[2] = held)
<1>1. held \in Messages /\ pc[held] \in Running /\ active = held
  BY DEF TurnInv, TypeOK, TurnInProgress, HeldInv, RunningIsHeld
<1>2. \A call \in AwaitedCall(held) : call[2] = held
  BY DEF AwaitedCall
<1> QED
  BY <1>1, <1>2 DEF RaiseCancelled, TurnInv, TypeOK

LEMMA FreshStep == TurnInv /\ [Next]_vars => CandidatesFresh'
<1> SUFFICES ASSUME TurnInv, [Next]_vars PROVE CandidatesFresh'
  OBVIOUS
<1> USE TurnConstants DEF TurnInv, TypeOK, CandidatesFresh, Fresh,
        directorVars, workerVars, controlVars, turnVars, dbVars
<1>1. ASSUME NEW m \in Messages, Offer(m) PROVE CandidatesFresh'
  BY <1>1 DEF Offer
<1>2. CASE WorkerStep
  <2>1. CASE WaitResumed BY <2>1 DEF WaitResumed
  <2>2. CASE NextTurn BY <2>2 DEF NextTurn
  <2>3. CASE BeginTurn BY <2>3 DEF BeginTurn
  <2>4. CASE EndTurn BY <2>4 DEF EndTurn
  <2> QED BY <1>2, <2>1, <2>2, <2>3, <2>4 DEF WorkerStep
<1>3. ASSUME NEW m \in Messages, TurnStep(m) \/ TurnFault(m) PROVE CandidatesFresh'
  <2> USE DEF BeforeTry
  <2>1. CASE InsertTurn(m) BY <2>1 DEF InsertTurn
  <2>2. CASE Announce(m) BY <2>2 DEF Announce
  <2>20. CASE EnterTry(m) BY <2>20 DEF EnterTry
  <2>3. CASE Prepare(m) BY <2>3 DEF Prepare
  <2>4. CASE Delta(m) BY <2>4 DEF Delta
  <2>5. CASE Generated(m) BY <2>5 DEF Generated
  <2>6. CASE LockToFinalize(m) BY <2>6 DEF LockToFinalize
  <2>7. CASE AppendReply(m) BY <2>7 DEF AppendReply
  <2>8. CASE FinishTurn(m) BY <2>8 DEF FinishTurn
  <2>9. CASE LockToRecord(m) BY <2>9 DEF LockToRecord
  <2>10. CASE RecordEnd(m) BY <2>10 DEF RecordEnd
  <2>11. CASE ReportEnd(m) BY <2>11 DEF ReportEnd
  <2>12. CASE TurnFault(m)
    BY <2>12 DEF TurnFault, StartFails, GenerationFails, FinalizeFails, HandlerFails
  <2> QED
    BY <1>3, <2>1, <2>2, <2>3, <2>4, <2>5, <2>6, <2>7, <2>8, <2>9, <2>10, <2>11, <2>12, <2>20 DEF TurnStep
<1>4. ASSUME NEW a \in Admins, AdminCancel(a) \/ StoreControls(a) PROVE CandidatesFresh'
  <2>1. UNCHANGED <<offered, waiting, held, worker, row, sent, reply>>
    BY <1>4 DEF AdminCancel, StoreControls, CancelGeneration
  <2>2. CASE UNCHANGED <<pc, threads>>
    BY <2>1, <2>2
  <2>3. CASE TurnInProgress /\ RaiseCancelled(held)
    BY <2>1, <2>3, CancelFrame DEF HeldInv, RunningIsHeld, TurnInProgress
  <2> QED BY <1>4, <2>2, <2>3 DEF AdminCancel, StoreControls, CancelGeneration, Cancellable
<1>5. CASE \/ ReaderLocks \/ ReaderUnlocks \/ Start
           \/ \E a \in Admins : ApplyControls(a) \/ StoreFails(a) \/ Gathered(a) \/ AnnounceControls(a)
  BY <1>5 DEF ReaderLocks, ReaderUnlocks, Start, ApplyControls, StoreFails, Gathered, AnnounceControls
<1>6. CASE ThreadStep
  BY <1>6 DEF ThreadStep, RunThread, DropThread
<1>7. CASE Shutdown
  <2>1. UNCHANGED <<offered, waiting, row, sent, reply>>
    BY <1>7 DEF Shutdown
  <2>2. CASE UNCHANGED <<pc, threads>> /\ worker' = "stopped" /\ held' = NoMessage
    BY <2>1, <2>2
  <2>3. CASE TurnInProgress /\ RaiseCancelled(held) /\ UNCHANGED workerVars
    BY <2>1, <2>3, CancelFrame DEF TurnInProgress
  <2> QED BY <1>7, <2>2, <2>3 DEF Shutdown
<1>8. CASE Exit
  BY <1>8 DEF Exit
<1>9. CASE UNCHANGED vars
  BY <1>9 DEF vars
<1> QED
  BY <1>1, <1>2, <1>3, <1>4, <1>5, <1>6, <1>7, <1>8, <1>9 DEF Next, AdminStep

LEMMA HeldStep == TurnInv /\ [Next]_vars => HeldInv'
<1> SUFFICES ASSUME TurnInv, [Next]_vars PROVE HeldInv'
  OBVIOUS
<1> USE TurnConstants DEF TurnInv, TypeOK, HeldInv, RunningIsHeld, DownIsEmpty, GenerationLockHeld, CandidatesFresh, Fresh, LockHeld, Running, BeforeTry, InTry, InHandler,
        directorVars, workerVars, controlVars, turnVars, dbVars
<1>1. CASE WorkerStep \/ \E m \in Messages : Offer(m)
  <2>1. CASE WaitResumed BY <2>1 DEF WaitResumed
  <2>2. CASE NextTurn BY <2>2 DEF NextTurn
  <2>3. CASE BeginTurn BY <2>3 DEF BeginTurn
  <2>4. CASE EndTurn BY <2>4 DEF EndTurn
  <2> QED BY <1>1, <2>1, <2>2, <2>3, <2>4 DEF WorkerStep, Offer
<1>2. ASSUME NEW m \in Messages, TurnStep(m) \/ TurnFault(m) PROVE HeldInv'
  <2>1. CASE InsertTurn(m) BY <2>1 DEF InsertTurn
  <2>2. CASE Announce(m) BY <2>2 DEF Announce
  <2>20. CASE EnterTry(m) BY <2>20 DEF EnterTry
  <2>3. CASE Prepare(m) BY <2>3 DEF Prepare
  <2>4. CASE Delta(m) BY <2>4 DEF Delta
  <2>5. CASE Generated(m) BY <2>5 DEF Generated
  <2>6. CASE LockToFinalize(m) BY <2>6 DEF LockToFinalize
  <2>7. CASE AppendReply(m) BY <2>7 DEF AppendReply
  <2>8. CASE FinishTurn(m) BY <2>8 DEF FinishTurn
  <2>9. CASE LockToRecord(m) BY <2>9 DEF LockToRecord
  <2>10. CASE RecordEnd(m) BY <2>10 DEF RecordEnd
  <2>11. CASE ReportEnd(m) BY <2>11 DEF ReportEnd
  <2>12. CASE StartFails(m) BY <2>12 DEF StartFails
  <2>13. CASE GenerationFails(m) BY <2>13 DEF GenerationFails
  <2>14. CASE FinalizeFails(m) BY <2>14 DEF FinalizeFails
  <2>15. CASE HandlerFails(m) BY <2>15 DEF HandlerFails
  <2> QED
    BY <1>2, <2>1, <2>2, <2>3, <2>4, <2>5, <2>6, <2>7, <2>8, <2>9, <2>10, <2>11, <2>12, <2>13, <2>14, <2>15, <2>20
    DEF TurnStep, TurnFault
<1>3. ASSUME NEW a \in Admins, AdminCancel(a) \/ StoreControls(a) PROVE HeldInv'
  <2>1. UNCHANGED <<process, worker, held, woken, waiting, offered, phase, row, reply, sent, faults, stops>>
    BY <1>3 DEF AdminCancel, StoreControls, CancelGeneration
  <2>2. CASE UNCHANGED <<pc, active, genLock, threads>>
    BY <2>1, <2>2
  <2>3. CASE Cancellable /\ RaiseCancelled(held)
    BY <2>1, <2>3, CancelFrame DEF Cancellable, TurnInProgress, RaiseCancelled
  <2> QED BY <1>3, <2>2, <2>3 DEF AdminCancel, StoreControls, CancelGeneration
<1>4. CASE \/ ReaderLocks \/ ReaderUnlocks \/ Start
           \/ \E a \in Admins : ApplyControls(a) \/ StoreFails(a) \/ Gathered(a) \/ AnnounceControls(a)
  BY <1>4 DEF ReaderLocks, ReaderUnlocks, Start, ApplyControls, StoreFails, Gathered, AnnounceControls
<1>5. CASE ThreadStep
  BY <1>5 DEF ThreadStep, RunThread, DropThread
<1>6. CASE Shutdown
  <2>1. UNCHANGED <<offered, waiting, phase, row, sent, reply, faults>> /\ process' = "closing"
    BY <1>6 DEF Shutdown
  <2>2. CASE UNCHANGED <<pc, active, genLock, threads>> /\ worker' = "stopped" /\ held' = NoMessage /\ ~TurnInProgress
    BY <2>1, <2>2 DEF TurnInProgress
  <2>3. CASE TurnInProgress /\ RaiseCancelled(held) /\ UNCHANGED workerVars
    BY <2>1, <2>3, CancelFrame DEF TurnInProgress, RaiseCancelled
  <2> QED BY <1>6, <2>2, <2>3 DEF Shutdown
<1>7. CASE Exit
  BY <1>7 DEF Exit
<1>8. CASE UNCHANGED vars
  BY <1>8 DEF vars
<1> QED
  BY <1>1, <1>2, <1>3, <1>4, <1>5, <1>6, <1>7, <1>8 DEF Next, AdminStep

LEMMA ProgressStep == TurnInv /\ [Next]_vars => ProgressInv'
<1> SUFFICES ASSUME TurnInv, [Next]_vars PROVE ProgressInv'
  OBVIOUS
<1> USE TurnConstants DEF TurnInv, TypeOK, ProgressInv, PhaseFollows, RowFollows, SilentBeforeTry, StaleActiveHasNoText, HeldInv, RunningIsHeld, CandidatesFresh, Fresh, CallsInv, OrphanedCalls, Running, BeforeTry, InTry, InHandler,
        directorVars, workerVars, controlVars, turnVars, dbVars
<1>1. CASE WorkerStep \/ \E m \in Messages : Offer(m)
  <2>1. CASE WaitResumed BY <2>1 DEF WaitResumed
  <2>2. CASE NextTurn BY <2>2 DEF NextTurn
  <2>3. CASE BeginTurn BY <2>3 DEF BeginTurn
  <2>4. CASE EndTurn BY <2>4 DEF EndTurn
  <2> QED BY <1>1, <2>1, <2>2, <2>3, <2>4 DEF WorkerStep, Offer
<1>2. ASSUME NEW m \in Messages, TurnStep(m) \/ TurnFault(m) PROVE ProgressInv'
  <2>1. CASE InsertTurn(m) BY <2>1 DEF InsertTurn
  <2>2. CASE Announce(m) BY <2>2 DEF Announce
  <2>20. CASE EnterTry(m) BY <2>20 DEF EnterTry
  <2>3. CASE Prepare(m) BY <2>3 DEF Prepare
  <2>4. CASE Delta(m) BY <2>4 DEF Delta
  <2>5. CASE Generated(m) BY <2>5 DEF Generated
  <2>6. CASE LockToFinalize(m) BY <2>6 DEF LockToFinalize
  <2>7. CASE AppendReply(m) BY <2>7 DEF AppendReply
  <2>8. CASE FinishTurn(m) BY <2>8 DEF FinishTurn
  <2>9. CASE LockToRecord(m) BY <2>9 DEF LockToRecord
  <2>10. CASE RecordEnd(m) BY <2>10 DEF RecordEnd
  <2>11. CASE ReportEnd(m) BY <2>11 DEF ReportEnd
  <2>12. CASE StartFails(m) BY <2>12 DEF StartFails
  <2>13. CASE GenerationFails(m) BY <2>13 DEF GenerationFails
  <2>14. CASE FinalizeFails(m) BY <2>14 DEF FinalizeFails
  <2>15. CASE HandlerFails(m) BY <2>15 DEF HandlerFails
  <2> QED
    BY <1>2, <2>1, <2>2, <2>3, <2>4, <2>5, <2>6, <2>7, <2>8, <2>9, <2>10, <2>11, <2>12, <2>13, <2>14, <2>15, <2>20
    DEF TurnStep, TurnFault
<1>3. ASSUME NEW a \in Admins, AdminCancel(a) \/ StoreControls(a) PROVE ProgressInv'
  <2>1. UNCHANGED <<process, worker, held, woken, waiting, offered, phase, row, reply, sent, faults, stops>>
    BY <1>3 DEF AdminCancel, StoreControls, CancelGeneration
  <2>2. CASE UNCHANGED <<pc, active, genLock, threads>>
    BY <2>1, <2>2
  <2>3. CASE Cancellable /\ RaiseCancelled(held)
    BY <2>1, <2>3, CancelFrame DEF Cancellable, TurnInProgress, RaiseCancelled
  <2> QED BY <1>3, <2>2, <2>3 DEF AdminCancel, StoreControls, CancelGeneration
<1>4. CASE \/ ReaderLocks \/ ReaderUnlocks \/ Start
           \/ \E a \in Admins : ApplyControls(a) \/ StoreFails(a) \/ Gathered(a) \/ AnnounceControls(a)
  BY <1>4 DEF ReaderLocks, ReaderUnlocks, Start, ApplyControls, StoreFails, Gathered, AnnounceControls
<1>5. CASE ThreadStep
  BY <1>5 DEF ThreadStep, RunThread, DropThread
<1>6. CASE Shutdown
  <2>1. UNCHANGED <<offered, waiting, phase, row, sent, reply, faults>> /\ process' = "closing"
    BY <1>6 DEF Shutdown
  <2>2. CASE UNCHANGED <<pc, active, genLock, threads>> /\ worker' = "stopped" /\ held' = NoMessage /\ ~TurnInProgress
    BY <2>1, <2>2 DEF TurnInProgress
  <2>3. CASE TurnInProgress /\ RaiseCancelled(held) /\ UNCHANGED workerVars
    BY <2>1, <2>3, CancelFrame DEF TurnInProgress, RaiseCancelled
  <2> QED BY <1>6, <2>2, <2>3 DEF Shutdown
<1>7. CASE Exit
  BY <1>7 DEF Exit
<1>8. CASE UNCHANGED vars
  BY <1>8 DEF vars
<1> QED
  BY <1>1, <1>2, <1>3, <1>4, <1>5, <1>6, <1>7, <1>8 DEF Next, AdminStep

LEMMA CallsStep == TurnInv /\ [Next]_vars => CallsInv'
<1> SUFFICES ASSUME TurnInv, [Next]_vars PROVE CallsInv'
  OBVIOUS
<1> USE TurnConstants DEF TurnInv, TypeOK, CallsInv, OrphanedCalls, CompletedHasReply, ProgressInv, RowFollows, PhaseFollows, CandidatesFresh, Fresh, AwaitedCall, Running, BeforeTry, InTry, InHandler,
        directorVars, workerVars, controlVars, turnVars, dbVars
<1>1. CASE WorkerStep \/ \E m \in Messages : Offer(m)
  <2>1. CASE WaitResumed BY <2>1 DEF WaitResumed
  <2>2. CASE NextTurn BY <2>2 DEF NextTurn
  <2>3. CASE BeginTurn BY <2>3 DEF BeginTurn
  <2>4. CASE EndTurn BY <2>4 DEF EndTurn
  <2> QED BY <1>1, <2>1, <2>2, <2>3, <2>4 DEF WorkerStep, Offer
<1>2. ASSUME NEW m \in Messages, TurnStep(m) \/ TurnFault(m) PROVE CallsInv'
  <2>1. CASE InsertTurn(m) BY <2>1 DEF InsertTurn
  <2>2. CASE Announce(m) BY <2>2 DEF Announce
  <2>20. CASE EnterTry(m) BY <2>20 DEF EnterTry
  <2>3. CASE Prepare(m) BY <2>3 DEF Prepare
  <2>4. CASE Delta(m) BY <2>4 DEF Delta
  <2>5. CASE Generated(m) BY <2>5 DEF Generated
  <2>6. CASE LockToFinalize(m) BY <2>6 DEF LockToFinalize
  <2>7. CASE AppendReply(m) BY <2>7 DEF AppendReply
  <2>8. CASE FinishTurn(m) BY <2>8 DEF FinishTurn
  <2>9. CASE LockToRecord(m) BY <2>9 DEF LockToRecord
  <2>10. CASE RecordEnd(m) BY <2>10 DEF RecordEnd
  <2>11. CASE ReportEnd(m) BY <2>11 DEF ReportEnd
  <2>12. CASE StartFails(m) BY <2>12 DEF StartFails
  <2>13. CASE GenerationFails(m) BY <2>13 DEF GenerationFails
  <2>14. CASE FinalizeFails(m) BY <2>14 DEF FinalizeFails
  <2>15. CASE HandlerFails(m) BY <2>15 DEF HandlerFails
  <2> QED
    BY <1>2, <2>1, <2>2, <2>3, <2>4, <2>5, <2>6, <2>7, <2>8, <2>9, <2>10, <2>11, <2>12, <2>13, <2>14, <2>15, <2>20
    DEF TurnStep, TurnFault
<1>3. ASSUME NEW a \in Admins, AdminCancel(a) \/ StoreControls(a) PROVE CallsInv'
  <2>1. UNCHANGED <<process, worker, held, woken, waiting, offered, phase, row, reply, sent, faults, stops>>
    BY <1>3 DEF AdminCancel, StoreControls, CancelGeneration
  <2>2. CASE UNCHANGED <<pc, active, genLock, threads>>
    BY <2>1, <2>2
  <2>3. CASE Cancellable /\ RaiseCancelled(held)
    BY <2>1, <2>3, CancelFrame DEF Cancellable, TurnInProgress, RaiseCancelled
  <2> QED BY <1>3, <2>2, <2>3 DEF AdminCancel, StoreControls, CancelGeneration
<1>4. CASE \/ ReaderLocks \/ ReaderUnlocks \/ Start
           \/ \E a \in Admins : ApplyControls(a) \/ StoreFails(a) \/ Gathered(a) \/ AnnounceControls(a)
  BY <1>4 DEF ReaderLocks, ReaderUnlocks, Start, ApplyControls, StoreFails, Gathered, AnnounceControls
<1>5. CASE ThreadStep
  BY <1>5 DEF ThreadStep, RunThread, DropThread
<1>6. CASE Shutdown
  <2>1. UNCHANGED <<offered, waiting, phase, row, sent, reply, faults>> /\ process' = "closing"
    BY <1>6 DEF Shutdown
  <2>2. CASE UNCHANGED <<pc, active, genLock, threads>> /\ worker' = "stopped" /\ held' = NoMessage /\ ~TurnInProgress
    BY <2>1, <2>2 DEF TurnInProgress
  <2>3. CASE TurnInProgress /\ RaiseCancelled(held) /\ UNCHANGED workerVars
    BY <2>1, <2>3, CancelFrame DEF TurnInProgress, RaiseCancelled
  <2> QED BY <1>6, <2>2, <2>3 DEF Shutdown
<1>7. CASE Exit
  BY <1>7 DEF Exit
<1>8. CASE UNCHANGED vars
  BY <1>8 DEF vars
<1> QED
  BY <1>1, <1>2, <1>3, <1>4, <1>5, <1>6, <1>7, <1>8 DEF Next, AdminStep

LEMMA LossStep == TurnInv /\ [Next]_vars => NothingLost'
<1> SUFFICES ASSUME TurnInv, [Next]_vars PROVE NothingLost'
  OBVIOUS
<1> USE TurnConstants DEF TurnInv, TypeOK, NothingLost, CallsInv, OrphanedCalls, ProgressInv, RowFollows, PhaseFollows, CandidatesFresh, Fresh, AwaitedCall, Fault, Stop, Running, BeforeTry, InTry, InHandler,
        directorVars, workerVars, controlVars, turnVars, dbVars
<1>1. CASE WorkerStep \/ \E m \in Messages : Offer(m)
  <2>1. CASE WaitResumed BY <2>1 DEF WaitResumed
  <2>2. CASE NextTurn BY <2>2 DEF NextTurn
  <2>3. CASE BeginTurn BY <2>3 DEF BeginTurn
  <2>4. CASE EndTurn BY <2>4 DEF EndTurn
  <2> QED BY <1>1, <2>1, <2>2, <2>3, <2>4 DEF WorkerStep, Offer
<1>2. ASSUME NEW m \in Messages, TurnStep(m) \/ TurnFault(m) PROVE NothingLost'
  <2>1. CASE InsertTurn(m) BY <2>1 DEF InsertTurn
  <2>2. CASE Announce(m) BY <2>2 DEF Announce
  <2>20. CASE EnterTry(m) BY <2>20 DEF EnterTry
  <2>3. CASE Prepare(m) BY <2>3 DEF Prepare
  <2>4. CASE Delta(m) BY <2>4 DEF Delta
  <2>5. CASE Generated(m) BY <2>5 DEF Generated
  <2>6. CASE LockToFinalize(m) BY <2>6 DEF LockToFinalize
  <2>7. CASE AppendReply(m) BY <2>7 DEF AppendReply
  <2>8. CASE FinishTurn(m) BY <2>8 DEF FinishTurn
  <2>9. CASE LockToRecord(m) BY <2>9 DEF LockToRecord
  <2>10. CASE RecordEnd(m) BY <2>10 DEF RecordEnd
  <2>11. CASE ReportEnd(m) BY <2>11 DEF ReportEnd
  <2>12. CASE StartFails(m) BY <2>12 DEF StartFails
  <2>13. CASE GenerationFails(m) BY <2>13 DEF GenerationFails
  <2>14. CASE FinalizeFails(m) BY <2>14 DEF FinalizeFails
  <2>15. CASE HandlerFails(m) BY <2>15 DEF HandlerFails
  <2> QED
    BY <1>2, <2>1, <2>2, <2>3, <2>4, <2>5, <2>6, <2>7, <2>8, <2>9, <2>10, <2>11, <2>12, <2>13, <2>14, <2>15, <2>20
    DEF TurnStep, TurnFault
<1>3. ASSUME NEW a \in Admins, AdminCancel(a) \/ StoreControls(a) PROVE NothingLost'
  <2>1. UNCHANGED <<process, worker, held, woken, waiting, offered, phase, row, reply, sent, faults, stops>>
    BY <1>3 DEF AdminCancel, StoreControls, CancelGeneration
  <2>2. CASE UNCHANGED <<pc, active, genLock, threads>>
    BY <2>1, <2>2
  <2>3. CASE Cancellable /\ RaiseCancelled(held)
    BY <2>1, <2>3, CancelFrame DEF Cancellable, TurnInProgress, RaiseCancelled
  <2> QED BY <1>3, <2>2, <2>3 DEF AdminCancel, StoreControls, CancelGeneration
<1>4. CASE \/ ReaderLocks \/ ReaderUnlocks \/ Start
           \/ \E a \in Admins : ApplyControls(a) \/ StoreFails(a) \/ Gathered(a) \/ AnnounceControls(a)
  BY <1>4 DEF ReaderLocks, ReaderUnlocks, Start, ApplyControls, StoreFails, Gathered, AnnounceControls
<1>5. CASE ThreadStep
  BY <1>5 DEF ThreadStep, RunThread, DropThread
<1>6. CASE Shutdown
  BY <1>6 DEF Shutdown
<1>7. CASE Exit
  BY <1>7 DEF Exit
<1>8. CASE UNCHANGED vars
  BY <1>8 DEF vars
<1> QED
  BY <1>1, <1>2, <1>3, <1>4, <1>5, <1>6, <1>7, <1>8 DEF Next, AdminStep

LEMMA PauseStep == TurnInv /\ [Next]_vars => PauseCancels'
<1> SUFFICES ASSUME TurnInv, [Next]_vars PROVE PauseCancels'
  OBVIOUS
<1> USE TurnConstants DEF TurnInv, TypeOK, PauseCancels, PauseUnderWay, Quiet, BeforeTry,
        directorVars, workerVars, controlVars, turnVars, dbVars
<1>1. CASE WorkerStep \/ \E m \in Messages : Offer(m)
  <2>1. CASE WaitResumed BY <2>1 DEF WaitResumed
  <2>2. CASE NextTurn BY <2>2 DEF NextTurn
  <2>3. CASE BeginTurn BY <2>3 DEF BeginTurn, MayResume
  <2>4. CASE EndTurn BY <2>4 DEF EndTurn
  <2> QED BY <1>1, <2>1, <2>2, <2>3, <2>4 DEF WorkerStep, Offer
<1>2. ASSUME NEW m \in Messages, TurnStep(m) \/ TurnFault(m) PROVE PauseCancels'
  <2>1. UNCHANGED <<woken, paused, admin, wasPaused>>
    BY <1>2 DEF TurnStep, TurnFault, InsertTurn, Announce, EnterTry, Prepare, Delta, Generated, LockToFinalize, AppendReply, FinishTurn, LockToRecord, RecordEnd, ReportEnd, StartFails, GenerationFails, FinalizeFails, HandlerFails
  <2>2. storeFaults' = storeFaults
    BY <1>2 DEF TurnStep, TurnFault, InsertTurn, Announce, EnterTry, Prepare, Delta, Generated, LockToFinalize, AppendReply, FinishTurn, LockToRecord, RecordEnd, ReportEnd, StartFails, GenerationFails, FinalizeFails, HandlerFails
  <2>3. Quiet => Quiet'
    BY <1>2 DEF TurnStep, TurnFault, InsertTurn, Announce, EnterTry, Prepare, Delta, Generated, LockToFinalize, AppendReply, FinishTurn, LockToRecord, RecordEnd, ReportEnd, StartFails, GenerationFails, FinalizeFails, HandlerFails
  <2> QED BY <2>1, <2>2, <2>3
<1>3. CASE \E a \in Admins : AdminCancel(a)
  BY <1>3, CancelFrame DEF AdminCancel, CancelGeneration, Cancellable, TurnInProgress
<1>4. ASSUME NEW a \in Admins, StoreControls(a) PROVE PauseCancels'
  <2>1. CASE paused /\ ~wasPaused[a]
    <3>1. CASE Cancellable
      BY <1>4, <2>1, <3>1, CancelFrame DEF StoreControls, CancelGeneration, Cancellable, HeldInv, RunningIsHeld, Running, InTry
    <3>2. CASE ~Cancellable
      <4>1. Quiet
        BY <3>2 DEF Cancellable, TurnInProgress, HeldInv, RunningIsHeld, Running, InTry, ProgressInv, PhaseFollows
      <4> QED BY <1>4, <2>1, <3>2, <4>1 DEF StoreControls, CancelGeneration
    <3> QED BY <3>1, <3>2
  <2>2. CASE ~(paused /\ ~wasPaused[a])
    BY <1>4, <2>2 DEF StoreControls
  <2> QED BY <2>1, <2>2
<1>5. ASSUME NEW a \in Admins, ApplyControls(a) PROVE PauseCancels'
  BY <1>5 DEF ApplyControls
<1>6. ASSUME NEW a \in Admins, StoreFails(a) \/ Gathered(a) \/ AnnounceControls(a) PROVE PauseCancels'
  <2>1. CASE StoreFails(a)
    <3>1. storeFaults' # 0
      BY <2>1 DEF StoreFails
    <3> QED BY <3>1
  <2>2. CASE Gathered(a) BY <2>2 DEF Gathered
  <2>3. CASE AnnounceControls(a) BY <2>3 DEF AnnounceControls
  <2> QED BY <1>6, <2>1, <2>2, <2>3
<1>7. CASE ReaderLocks \/ ReaderUnlocks \/ ThreadStep
  BY <1>7 DEF ReaderLocks, ReaderUnlocks, ThreadStep, RunThread, DropThread
<1>8. CASE Shutdown
  BY <1>8, CancelFrame DEF Shutdown, TurnInProgress
<1>9. CASE Exit \/ Start
  BY <1>9 DEF Exit, Start, HeldInv, DownIsEmpty
<1>10. CASE UNCHANGED vars
  BY <1>10 DEF vars
<1> QED
  BY <1>1, <1>2, <1>3, <1>4, <1>5, <1>6, <1>7, <1>8, <1>9, <1>10 DEF Next, AdminStep

-----------------------------------------------------------------------------
THEOREM TurnInvariant == Spec => []TurnInv
<1>1. Init => TurnInv
  <2> SUFFICES ASSUME Init PROVE TurnInv
    OBVIOUS
  <2> USE TurnConstants DEF Init, Running, BeforeTry, InTry, InHandler
  <2>1. TypeOK
    <3>1. faults \in 0 .. MaxFaults /\ storeFaults \in 0 .. faults
      OBVIOUS
    <3>2. commands \in 0 .. MaxCommands /\ stops \in 0 .. MaxStops
      OBVIOUS
    <3> QED BY <3>1, <3>2 DEF TypeOK, Statuses, Phases, Reasons, Frames, DbCalls
  <2>2. CandidatesFresh BY DEF CandidatesFresh, Fresh
  <2>3. HeldInv
    <3>1. \A m \in Messages : pc[m] \notin Running /\ pc[m] \notin LockHeld
      BY DEF LockHeld
    <3>2. RunningIsHeld BY <3>1 DEF RunningIsHeld
    <3>3. DownIsEmpty BY DEF DownIsEmpty
    <3>4. GenerationLockHeld BY <3>1 DEF GenerationLockHeld
    <3> QED BY <3>2, <3>3, <3>4 DEF HeldInv
  <2>4. ProgressInv BY DEF ProgressInv, PhaseFollows, RowFollows, SilentBeforeTry, StaleActiveHasNoText
  <2>5. CallsInv /\ NothingLost /\ PauseCancels
    BY DEF CallsInv, OrphanedCalls, CompletedHasReply, NothingLost, PauseCancels
  <2> QED BY <2>1, <2>2, <2>3, <2>4, <2>5 DEF TurnInv
<1>2. TurnInv /\ [Next]_vars => TurnInv'
  BY TypeStep, FreshStep, HeldStep, ProgressStep, CallsStep, LossStep, PauseStep DEF TurnInv
<1> QED
  BY <1>1, <1>2, PTL DEF Spec

\* Design document, section 1.3: in any room, whatever is cancelled, paused,
\* failing or restarted, at most one reply is being generated.
THEOREM AtMostOneTurn == Spec => []OneTurnAtATime
<1>1. TurnInv => OneTurnAtATime
  BY DEF TurnInv, HeldInv, RunningIsHeld, OneTurnAtATime
<1> QED BY <1>1, TurnInvariant, PTL

\* The types of the turn state, for every room.
THEOREM TurnTypes == Spec => []TypeOK
<1>1. TurnInv => TypeOK
  BY DEF TurnInv
<1> QED BY <1>1, TurnInvariant, PTL

\* The generation lock is a turn's exactly while that turn is inside one of
\* its critical sections; no cancellation leaves it taken.
THEOREM LockIsGivenBack == Spec => []GenerationLockHeld
<1>1. TurnInv => GenerationLockHeld
  BY DEF TurnInv, HeldInv
<1> QED BY <1>1, TurnInvariant, PTL

\* A turn recorded as completed has its reply in the log, however many
\* database calls failed, were orphaned or ended with the process.
THEOREM CompletedTurnsHaveReplies == Spec => []CompletedHasReply
<1>1. TurnInv => CompletedHasReply
  BY DEF TurnInv, CallsInv
<1> QED BY <1>1, TurnInvariant, PTL

\* The comment above _run_turn's final critical section, for administrators:
\* no sequence of cancellations and pauses separates a committed reply from
\* its turn's status.
THEOREM AdministratorsLoseNoReply == Spec => []AdminsLoseNoReply
<1>1. TurnInv => AdminsLoseNoReply
  BY DEF TurnInv, TypeOK, ProgressInv, RowFollows, NothingLost, AdminsLoseNoReply, InTry
<1> QED BY <1>1, TurnInvariant, PTL

\* A pause that has been carried out leaves nothing being generated, for any
\* number of administrators pausing, resuming and cancelling at once.
THEOREM PauseSilencesTheRoom == Spec => []PausedIsQuiet
<1>1. TurnInv => PausedIsQuiet
  BY DEF TurnInv, PauseCancels, PauseUnderWay, Quiet, PausedIsQuiet
<1> QED BY <1>1, TurnInvariant, PTL

\* Of a generation that is still listed although its turn is over nothing was
\* shown but the announcement of a stream: it ended before its try block.
THEOREM StaleGenerationsHaveNoText == Spec => []StaleActiveHasNoText
<1>1. TurnInv => StaleActiveHasNoText
  BY DEF TurnInv, ProgressInv
<1> QED BY <1>1, TurnInvariant, PTL

-----------------------------------------------------------------------------
(***************************************************************************)
(* The ends of turns: what the worker holds between two of them, and what  *)
(* is still to be written about a turn that has not been stopped.          *)
(***************************************************************************)
IdleHoldsNothing == worker \in {"resume", "next", "stopped"} => held = NoMessage

\* A row is inserted by its turn, or by a call that outlived the turn.
RowOfTheTurn ==
  /\ \A m \in Messages : pc[m] = "starting" => row[m] = "none"
  /\ stops = 0 =>
       /\ \A m \in Messages : pc[m] \in {"cancelled", "failed", "recording"} => row[m] = "generating"
       /\ \A call \in threads :
            call[1] = "insert" /\ pc[call[2]] = "done" /\ row[call[2]] = "none"

EndsInv == IdleHoldsNothing /\ RowOfTheTurn /\ TakenHasTurn

LEMMA EndsStep == TurnInv /\ EndsInv /\ [Next]_vars => EndsInv'
<1> SUFFICES ASSUME TurnInv, EndsInv, [Next]_vars PROVE EndsInv'
  OBVIOUS
<1> USE TurnConstants DEF TurnInv, TypeOK, EndsInv, IdleHoldsNothing, RowOfTheTurn, TakenHasTurn, HeldInv, RunningIsHeld, CandidatesFresh, Fresh, ProgressInv, RowFollows, Running, BeforeTry, InTry, InHandler,
        directorVars, workerVars, controlVars, turnVars, dbVars
<1>1. CASE WorkerStep \/ \E m \in Messages : Offer(m)
  <2>1. CASE WaitResumed BY <2>1 DEF WaitResumed
  <2>2. CASE NextTurn BY <2>2 DEF NextTurn
  <2>3. CASE BeginTurn BY <2>3 DEF BeginTurn
  <2>4. CASE EndTurn BY <2>4 DEF EndTurn
  <2>5. ASSUME NEW m \in Messages, Offer(m) PROVE EndsInv'
    BY <2>5 DEF Offer
  <2> QED BY <1>1, <2>1, <2>2, <2>3, <2>4, <2>5 DEF WorkerStep
<1>2. ASSUME NEW m \in Messages, TurnStep(m) \/ TurnFault(m) PROVE EndsInv'
  <2>1. CASE InsertTurn(m) BY <2>1 DEF InsertTurn
  <2>2. CASE Announce(m) BY <2>2 DEF Announce
  <2>20. CASE EnterTry(m) BY <2>20 DEF EnterTry
  <2>3. CASE Prepare(m) BY <2>3 DEF Prepare
  <2>4. CASE Delta(m) BY <2>4 DEF Delta
  <2>5. CASE Generated(m) BY <2>5 DEF Generated
  <2>6. CASE LockToFinalize(m) BY <2>6 DEF LockToFinalize
  <2>7. CASE AppendReply(m) BY <2>7 DEF AppendReply
  <2>8. CASE FinishTurn(m) BY <2>8 DEF FinishTurn
  <2>9. CASE LockToRecord(m) BY <2>9 DEF LockToRecord
  <2>10. CASE RecordEnd(m) BY <2>10 DEF RecordEnd
  <2>11. CASE ReportEnd(m) BY <2>11 DEF ReportEnd
  <2>12. CASE StartFails(m) BY <2>12 DEF StartFails
  <2>13. CASE GenerationFails(m) BY <2>13 DEF GenerationFails
  <2>14. CASE FinalizeFails(m) BY <2>14 DEF FinalizeFails
  <2>15. CASE HandlerFails(m) BY <2>15 DEF HandlerFails
  <2> QED
    BY <1>2, <2>1, <2>2, <2>3, <2>4, <2>5, <2>6, <2>7, <2>8, <2>9, <2>10, <2>11, <2>12, <2>13, <2>14, <2>15, <2>20
    DEF TurnStep, TurnFault
<1>3. ASSUME NEW a \in Admins, AdminCancel(a) \/ StoreControls(a) PROVE EndsInv'
  <2>1. UNCHANGED <<worker, held, waiting, offered, phase, row, stops>>
    BY <1>3 DEF AdminCancel, StoreControls, CancelGeneration
  <2>2. CASE UNCHANGED <<pc, threads>>
    BY <2>1, <2>2
  <2>3. CASE Cancellable /\ RaiseCancelled(held)
    <3>1. pc[held] \notin {"appending", "finishing", "recording"}
      BY <2>3, CancelFrame DEF Cancellable, PhaseFollows
    <3>2. \A call \in threads' : call \in threads \/ (call = <<"insert", held>> /\ pc[held] = "starting")
      BY <2>3, <3>1, CancelFrame DEF Cancellable, RaiseCancelled, AwaitedCall
    <3>3. /\ held \in Messages /\ pc[held] \in Running
          /\ pc'[held] = IF pc[held] \in InTry THEN "cancelled" ELSE "done"
          /\ \A m \in Messages \ {held} : pc'[m] = pc[m]
      BY <2>3, CancelFrame DEF Cancellable
    <3> QED BY <2>1, <3>2, <3>3
  <2> QED BY <1>3, <2>2, <2>3 DEF AdminCancel, StoreControls, CancelGeneration
<1>4. CASE \/ ReaderLocks \/ ReaderUnlocks \/ Start
           \/ \E a \in Admins : ApplyControls(a) \/ StoreFails(a) \/ Gathered(a) \/ AnnounceControls(a)
  BY <1>4 DEF DownIsEmpty, ReaderLocks, ReaderUnlocks, Start, ApplyControls, StoreFails, Gathered, AnnounceControls
<1>5. CASE ThreadStep
  BY <1>5 DEF ThreadStep, RunThread, DropThread, CallsInv, OrphanedCalls
<1>6. CASE Shutdown
  <2>1. stops' # 0
    BY <1>6 DEF Shutdown, Stop
  <2>2. UNCHANGED <<waiting, offered, row>>
    BY <1>6 DEF Shutdown
  <2>3. CASE UNCHANGED pc /\ worker' = "stopped" /\ held' = NoMessage
    BY <2>1, <2>2, <2>3
  <2>4. CASE TurnInProgress /\ RaiseCancelled(held) /\ UNCHANGED workerVars
    BY <2>1, <2>2, <2>4, CancelFrame
  <2> QED BY <1>6, <2>3, <2>4 DEF Shutdown
<1>7. CASE Exit
  <2>1. stops' # 0
    BY <1>7 DEF Exit, Stop, NothingLost
  <2> QED BY <1>7, <2>1 DEF Exit
<1>8. CASE UNCHANGED vars
  BY <1>8 DEF vars
<1> QED
  BY <1>1, <1>2, <1>3, <1>4, <1>5, <1>6, <1>7, <1>8 DEF Next, AdminStep

\* What is left to do for a turn is left only once.
THEOREM EndsInvariant == Spec => []EndsInv
<1>1. Init => EndsInv
  BY DEF Init, EndsInv, IdleHoldsNothing, RowOfTheTurn, TakenHasTurn
<1>2. TurnInv /\ EndsInv /\ [Next]_vars => EndsInv'
  BY EndsStep
<1> QED BY <1>1, <1>2, TurnInvariant, PTL DEF Spec

\* Unless the process is stopped, every message that left the queue has had its
\* turn or is having it: neither cancellations nor failures lose a candidate.
THEOREM CandidatesHaveTurns == Spec => []TakenHasTurn
<1>1. EndsInv => TakenHasTurn
  BY DEF EndsInv
<1> QED BY <1>1, EndsInvariant, PTL

\* Unless the process is stopped, nothing overwrites the final status of a turn.
THEOREM StatusesAreFinal == Spec => StatusIsFinal
<1> DEFINE Final == {"completed", "interrupted", "failed"}
           A == stops = 0 => \A m \in Messages : row[m] \in Final => row'[m] = row[m]
<1>1. TurnInv /\ EndsInv /\ [Next]_vars => [A]_vars
  <2> SUFFICES ASSUME TurnInv, EndsInv, Next, stops = 0, NEW n \in Messages, row[n] \in Final
               PROVE  row'[n] = row[n]
    OBVIOUS
  <2> HIDE DEF Final
  <2>t. row \in [Messages -> Statuses]
    BY DEF TurnInv, TypeOK
  <2>1. /\ \A m \in Messages : pc[m] = "starting" => row[m] = "none"
        /\ \A m \in Messages : pc[m] \in {"finishing", "recording"} => row[m] = "generating"
        /\ \A call \in threads : call \in DbCalls \X Messages /\ call[1] = "insert" /\ row[call[2]] = "none"
    BY DEF EndsInv, RowOfTheTurn, TurnInv, TypeOK, ProgressInv, RowFollows, InTry
  <2>2. CASE ThreadStep
    <3>1. PICK call \in threads : RunThread(call) \/ DropThread(call)
      BY <2>2 DEF ThreadStep
    <3> QED BY <2>t, <2>1, <3>1 DEF RunThread, DropThread, Final
  <2>3. ASSUME NEW m \in Messages, TurnStep(m) PROVE row'[n] = row[n]
    <3> USE <2>t, <2>1 DEF dbVars, Final
    <3>1. CASE InsertTurn(m) BY <3>1 DEF InsertTurn
    <3>2. CASE FinishTurn(m) BY <3>2 DEF FinishTurn
    <3>3. CASE RecordEnd(m) BY <3>3 DEF RecordEnd
    <3>4. CASE Announce(m) \/ EnterTry(m) \/ Prepare(m) \/ Delta(m) \/ Generated(m) \/ LockToFinalize(m)
               \/ AppendReply(m) \/ LockToRecord(m) \/ ReportEnd(m)
      BY <3>4 DEF Announce, EnterTry, Prepare, Delta, Generated, LockToFinalize, AppendReply, LockToRecord, ReportEnd
    <3> QED BY <2>3, <3>1, <3>2, <3>3, <3>4 DEF TurnStep
  <2>4. CASE row' = row
    BY <2>4
  <2> QED
    BY <2>2, <2>3, <2>4
    DEF Next, WorkerStep, WaitResumed, NextTurn, BeginTurn, EndTurn, ReaderLocks, ReaderUnlocks, Offer,
        TurnFault, StartFails, GenerationFails, FinalizeFails, HandlerFails, AdminCancel, ApplyControls,
        StoreFails, AdminStep, StoreControls, Gathered, AnnounceControls, Shutdown, Exit, Start, dbVars
<1> QED BY <1>1, TurnInvariant, EndsInvariant, PTL DEF Spec, StatusIsFinal

-----------------------------------------------------------------------------
(***************************************************************************)
(* RoomTurn implements RoomQueue.                                          *)
(***************************************************************************)
\* The steps of a turn, of its cancellation and of an administrator leave the
\* queue alone.
LEMMA QueueStep == TurnInv /\ EndsInv /\ [Next]_vars => [Queue!Next]_Queue!vars
<1> SUFFICES ASSUME TurnInv, EndsInv, [Next]_vars PROVE Queue!Next \/ UNCHANGED Queue!vars
  OBVIOUS
<1> USE DEF directorVars, workerVars, Queue!vars
<1>1. ASSUME NEW m \in Messages, Offer(m) PROVE Queue!Next
  <2>1. Queue!Give(m)
    BY <1>1 DEF Offer, Queue!Give
  <2> QED BY <2>1 DEF Queue!Next
<1>2. CASE NextTurn
  <2>1. PICK m \in waiting : held' = m /\ waiting' = waiting \ {m}
    BY <1>2 DEF NextTurn
  <2>2. m \in Messages /\ held = NoMessage /\ offered' = offered /\ process' = process
    BY <1>2 DEF NextTurn, TurnInv, TypeOK, EndsInv, IdleHoldsNothing
  <2>3. Queue!Take(m)
    BY <2>1, <2>2 DEF Queue!Take
  <2> QED BY <2>2, <2>3 DEF Queue!Next
<1>3. ASSUME UNCHANGED <<offered, waiting>>, held' \in {held, NoMessage}, (process' = "down") = (process = "down")
      PROVE  Queue!Next \/ UNCHANGED Queue!vars
  BY <1>3 DEF Queue!Next, Queue!Finish
<1>4. CASE Exit \/ Start
  <2> DEFINE owed == (waiting \cup {held}) \ {NoMessage}
  <2>1. (process' = "down") # (process = "down") /\ held' = NoMessage /\ UNCHANGED offered
    BY <1>4 DEF Exit, Start, TurnInv, HeldInv, DownIsEmpty, EndsInv, IdleHoldsNothing
  <2>2. waiting' \in SUBSET owed
    BY <1>4, TurnConstants DEF Exit, Start, TurnInv, TypeOK
  <2>3. \E again \in SUBSET (owed \ waiting') : offered' = offered \ again
    BY <2>1
  <2> QED BY <2>1, <2>2, <2>3 DEF Queue!Next, Queue!ProcessEnds, Queue!Unanswered
<1>5. CASE WaitResumed \/ BeginTurn \/ EndTurn \/ Shutdown
  BY <1>3, <1>5 DEF WaitResumed, BeginTurn, EndTurn, Shutdown
<1>6. ASSUME NEW m \in Messages, TurnStep(m) \/ TurnFault(m) PROVE UNCHANGED Queue!vars
  BY <1>6
  DEF TurnStep, TurnFault, InsertTurn, Announce, EnterTry, Prepare, Delta, Generated, LockToFinalize, AppendReply, FinishTurn,
      LockToRecord, RecordEnd, ReportEnd, StartFails, GenerationFails, FinalizeFails, HandlerFails
<1>7. ASSUME NEW a \in Admins, AdminCancel(a) \/ ApplyControls(a) \/ StoreFails(a) \/ AdminStep(a)
      PROVE  UNCHANGED Queue!vars
  BY <1>7 DEF AdminCancel, ApplyControls, StoreFails, AdminStep, StoreControls, Gathered, AnnounceControls
<1>8. CASE ThreadStep \/ ReaderLocks \/ ReaderUnlocks
  BY <1>8 DEF ThreadStep, RunThread, DropThread, ReaderLocks, ReaderUnlocks
<1>9. CASE UNCHANGED vars
  BY <1>9 DEF vars
<1> QED
  BY <1>1, <1>2, <1>4, <1>5, <1>6, <1>7, <1>8, <1>9 DEF Next, WorkerStep

\* The worker serves the queue as RoomQueue promises, whatever is cancelled,
\* paused, failing or restarted.
THEOREM WorkerServesQueue == Spec => ImplementsQueue
<1>1. Init => Queue!Init
  BY DEF Init, Queue!Init
<1>2. TurnInv /\ EndsInv /\ [Next]_vars => [Queue!Next]_Queue!vars
  BY QueueStep
<1> QED
  BY <1>1, <1>2, TurnInvariant, EndsInvariant, PTL DEF Spec, ImplementsQueue, Queue!Spec

\* So no message is answered twice.
THEOREM NoSecondTurn == Spec => Queue!ServedForGood
<1>1. TypeOK /\ TypeOK' /\ [Queue!Next]_Queue!vars => [Queue!Served \subseteq Queue!Served']_Queue!vars
  BY TurnConstants
  DEF TypeOK, Queue!Next, Queue!vars, Queue!Served, Queue!Give, Queue!Take, Queue!Finish, Queue!ProcessEnds, Queue!Unanswered
<1>2. TurnInv /\ TurnInv' /\ EndsInv /\ [Next]_vars => [Queue!Served \subseteq Queue!Served']_Queue!vars
  BY <1>1, QueueStep DEF TurnInv
<1> QED
  BY <1>2, TurnInvariant, EndsInvariant, PTL DEF Spec, Queue!ServedForGood
=============================================================================
