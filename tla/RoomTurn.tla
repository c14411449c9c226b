------------------------------- MODULE RoomTurn -------------------------------
(***************************************************************************)
(* One room's turns: the worker that takes candidates from the director,   *)
(* the turn task it runs, the administrators that cancel it and pause the  *)
(* room, and the process that shuts down, dies and starts again.           *)
(*                                                                         *)
(*   main_logic/room/service.py   _room_worker, _run_turn,                 *)
(*                                cancel_generation, update_controls,      *)
(*                                start, shutdown                          *)
(*   main_logic/room/store.py     the turns table and its statuses         *)
(*                                                                         *)
(* A turn is named by the message it answers: a candidate is taken from    *)
(* the director once.  Which candidate is taken is left open here.         *)
(*                                                                         *)
(* Task cancellation: Task.cancel() makes the task's next step raise, so   *)
(* it is one step of this model with the canceller's.  A database call     *)
(* runs in a thread that cancellation cannot stop: it may still commit     *)
(* later, or may never have been started.                                  *)
(***************************************************************************)
EXTENDS Naturals, FiniteSets

CONSTANTS
  Messages,      \* persisted visitor messages
  Admins,        \* concurrent administrator requests
  NoMessage,     \* no candidate held, no active generation
  MaxCommands,   \* bound: administrator commands
  MaxFaults,     \* bound: database failures
  MaxStops       \* bound: shutdowns and crashes

ASSUME TurnConstants ==
  /\ NoMessage \notin Messages
  /\ {MaxCommands, MaxFaults, MaxStops} \subseteq Nat

VARIABLES
  process,   \* "up", "closing" (shutdown in progress) or "down"
  offered,   \* messages persisted by submit_message
  waiting,   \* RoomDirector._candidates
  worker,    \* _room_worker: where it waits
  held,      \* the candidate it took
  woken,     \* the wait of a paused worker has been resolved by a resume
  paused,    \* controls["paused"]; _room_resumed is its negation
  stored,    \* the same, in service_settings
  admin,     \* per administrator request: its progress
  wasPaused, \* per administrator request: previous["paused"]
  pc,        \* per turn: progress of _run_turn
  phase,     \* per turn: generation.phase
  reason,    \* per turn: generation.cancel_reason
  active,    \* _active_generations[room]
  genLock,   \* _generation_locks[room]: "free", "turn" or "reader"
  row,       \* per turn: its row in the turns table
  reply,     \* turns whose assistant message is committed
  sent,      \* per turn: frames broadcast about it
  threads,   \* database calls whose awaiting task was cancelled
  storeFaults,              \* controls that could not be stored
  commands, faults, stops   \* used budget

directorVars == <<offered, waiting>>
workerVars   == <<worker, held, woken>>
controlVars  == <<paused, stored, admin, wasPaused, storeFaults, commands>>
turnVars     == <<pc, phase, reason, active, genLock, sent>>
dbVars       == <<row, reply, threads>>
vars == <<process, directorVars, workerVars, controlVars, turnVars, dbVars, faults, stops>>

\* Where _run_turn can stand.  The first three lie before its try block.
BeforeTry == {"starting", "announcing", "shown"}
InTry     == {"preparing", "generating", "finalizing", "appending", "finishing"}
InHandler == {"cancelled", "failed", "recording", "reporting"}
Running   == BeforeTry \cup InTry \cup InHandler
LockHeld  == {"appending", "finishing", "recording", "reporting"}

Statuses == {"none", "generating", "completed", "interrupted", "failed"}
Phases   == {"preparing", "generating", "finalizing", "completed", "interrupted", "failed"}
Reasons  == {"none", "admin_cancelled", "room_paused"}
Frames   == {"stream.started", "stream.delta", "stream.completed", "stream.failed"}
DbCalls  == {"insert", "append", "complete", "record"}

TypeOK ==
  /\ process \in {"up", "closing", "down"}
  /\ offered \subseteq Messages /\ waiting \subseteq offered
  /\ worker \in {"resume", "next", "recheck", "turn", "stopped"}
  /\ held \in Messages \cup {NoMessage} /\ woken \in BOOLEAN
  /\ paused \in BOOLEAN /\ stored \in BOOLEAN
  /\ admin \in [Admins -> {"idle", "persisting", "gathering", "announcing"}]
  /\ wasPaused \in [Admins -> BOOLEAN]
  /\ pc \in [Messages -> {"none", "done"} \cup Running]
  /\ phase \in [Messages -> Phases]
  /\ reason \in [Messages -> Reasons]
  /\ active \in Messages \cup {NoMessage}
  /\ genLock \in {"free", "turn", "reader"}
  /\ row \in [Messages -> Statuses]
  /\ reply \subseteq Messages
  /\ sent \in [Messages -> SUBSET Frames]
  /\ threads \subseteq DbCalls \X Messages
  /\ faults \in 0 .. MaxFaults /\ storeFaults \in 0 .. faults
  /\ commands \in 0 .. MaxCommands /\ stops \in 0 .. MaxStops

Init ==
  /\ process = "up" /\ offered = {} /\ waiting = {}
  /\ worker = "resume" /\ held = NoMessage /\ woken = FALSE
  /\ paused = FALSE /\ stored = FALSE
  /\ admin = [a \in Admins |-> "idle"]
  /\ wasPaused = [a \in Admins |-> FALSE]
  /\ pc = [m \in Messages |-> "none"]
  /\ phase = [m \in Messages |-> "preparing"]
  /\ reason = [m \in Messages |-> "none"]
  /\ active = NoMessage /\ genLock = "free"
  /\ row = [m \in Messages |-> "none"]
  /\ reply = {}
  /\ sent = [m \in Messages |-> {}]
  /\ threads = {}
  /\ storeFaults = 0 /\ commands = 0 /\ faults = 0 /\ stops = 0

Fault == faults < MaxFaults /\ faults' = faults + 1

-----------------------------------------------------------------------------
(***************************************************************************)
(* Candidates and the worker.                                              *)
(***************************************************************************)
\* submit_message of a message that is new and accepted.
Offer(m) ==
  /\ process = "up" /\ ~paused /\ m \notin offered
  /\ offered' = offered \cup {m} /\ waiting' = waiting \cup {m}
  /\ UNCHANGED <<process, workerVars, controlVars, turnVars, dbVars, faults, stops>>

\* _room_resumed.wait() returns: the event is set, or was set since.
MayResume == ~paused \/ woken

WaitResumed ==
  /\ worker = "resume" /\ MayResume
  /\ worker' = "next" /\ woken' = FALSE
  /\ UNCHANGED <<process, directorVars, held, controlVars, turnVars, dbVars, faults, stops>>

NextTurn ==
  /\ worker = "next"
  /\ \E m \in waiting : held' = m /\ waiting' = waiting \ {m}
  /\ worker' = "recheck"
  /\ UNCHANGED <<process, offered, woken, controlVars, turnVars, dbVars, faults, stops>>

\* Variant with a fault: the pause is not looked at again.
BeginTurnUnchecked ==
  /\ worker = "recheck"
  /\ worker' = "turn" /\ woken' = FALSE
  /\ pc' = [pc EXCEPT ![held] = "starting"]
  /\ phase' = [phase EXCEPT ![held] = "preparing"]
  /\ active' = held
  /\ UNCHANGED <<process, directorVars, held, controlVars, reason, genLock, sent, dbVars, faults, stops>>

\* The task is created and runs to its first await before anything that has
\* to wait for the database can go on.
BeginTurn ==
  /\ worker = "recheck" /\ MayResume
  /\ worker' = "turn" /\ woken' = FALSE
  /\ pc' = [pc EXCEPT ![held] = "starting"]
  /\ phase' = [phase EXCEPT ![held] = "preparing"]
  /\ active' = held
  /\ UNCHANGED <<process, directorVars, held, controlVars, reason, genLock, sent, dbVars, faults, stops>>

\* Variant with a fault: the worker does not wait for the handler of a
\* cancelled turn.
EndTurnEarly ==
  /\ worker = "turn" /\ pc[held] \in {"done", "cancelled"}
  /\ worker' = IF process = "up" THEN "resume" ELSE "stopped"
  /\ held' = NoMessage
  /\ UNCHANGED <<process, directorVars, woken, controlVars, turnVars, dbVars, faults, stops>>

\* Variant with a fault: the cancellation of a turn ends the worker as well.
EndTurnDies ==
  /\ worker = "turn" /\ pc[held] = "done"
  /\ worker' = IF process = "up" /\ reason[held] = "none" THEN "resume" ELSE "stopped"
  /\ held' = NoMessage
  /\ UNCHANGED <<process, directorVars, woken, controlVars, turnVars, dbVars, faults, stops>>

\* Variant with a fault: the message of a cancelled turn is put back.
EndTurnRequeues ==
  /\ worker = "turn" /\ pc[held] = "done"
  /\ worker' = IF process = "up" THEN "resume" ELSE "stopped"
  /\ held' = NoMessage
  /\ waiting' = IF reason[held] = "none" THEN waiting ELSE waiting \cup {held}
  /\ UNCHANGED <<process, offered, woken, controlVars, turnVars, dbVars, faults, stops>>

\* await turn_task returns, raises or was cancelled; the loop goes on unless
\* the worker itself is being cancelled.
EndTurn ==
  /\ worker = "turn" /\ pc[held] = "done"
  /\ worker' = IF process = "up" THEN "resume" ELSE "stopped"
  /\ held' = NoMessage
  /\ UNCHANGED <<process, directorVars, woken, controlVars, turnVars, dbVars, faults, stops>>

-----------------------------------------------------------------------------
(***************************************************************************)
(* _run_turn.                                                              *)
(***************************************************************************)
InsertTurn(m) ==
  /\ pc[m] = "starting"
  /\ row' = [row EXCEPT ![m] = "generating"]
  /\ pc' = [pc EXCEPT ![m] = "announcing"]
  /\ UNCHANGED <<process, directorVars, workerVars, controlVars, phase, reason, active, genLock, sent, reply, threads, faults, stops>>

\* turn.started is committed and broadcast, then stream.started; hub.broadcast
\* may go on to close slow connections.
Announce(m) ==
  /\ pc[m] = "announcing"
  /\ sent' = [sent EXCEPT ![m] = @ \cup {"stream.started"}]
  /\ pc' = [pc EXCEPT ![m] = "shown"]
  /\ UNCHANGED <<process, directorVars, workerVars, controlVars, phase, reason, active, genLock, dbVars, faults, stops>>

\* The broadcast returns and the try block begins.
EnterTry(m) ==
  /\ pc[m] = "shown"
  /\ pc' = [pc EXCEPT ![m] = "preparing"]
  /\ UNCHANGED <<process, directorVars, workerVars, controlVars, phase, reason, active, genLock, sent, dbVars, faults, stops>>

\* A database error before the try block ends the task; nothing clears
\* _active_generations.
StartFails(m) ==
  /\ pc[m] \in {"starting", "announcing"} /\ Fault
  /\ pc' = [pc EXCEPT ![m] = "done"]
  /\ UNCHANGED <<process, directorVars, workerVars, controlVars, phase, reason, active, genLock, sent, dbVars, stops>>

\* Visitor, recent messages and memory context are read.
Prepare(m) ==
  /\ pc[m] = "preparing"
  /\ pc' = [pc EXCEPT ![m] = "generating"]
  /\ phase' = [phase EXCEPT ![m] = "generating"]
  /\ UNCHANGED <<process, directorVars, workerVars, controlVars, reason, active, genLock, sent, dbVars, faults, stops>>

\* on_delta takes the generation lock for one broadcast.
Delta(m) ==
  /\ pc[m] = "generating" /\ genLock = "free"
  /\ "stream.delta" \notin sent[m]
  /\ sent' = [sent EXCEPT ![m] = @ \cup {"stream.delta"}]
  /\ UNCHANGED <<process, directorVars, workerVars, controlVars, pc, phase, reason, active, genLock, dbVars, faults, stops>>

\* The model returned a text; the task waits for the generation lock.
Generated(m) ==
  /\ pc[m] = "generating"
  /\ pc' = [pc EXCEPT ![m] = "finalizing"]
  /\ UNCHANGED <<process, directorVars, workerVars, controlVars, phase, reason, active, genLock, sent, dbVars, faults, stops>>

\* The visitor is gone, memory or the model fails, the reply is empty, or
\* the time limit passes: except Exception.
GenerationFails(m) ==
  /\ pc[m] \in {"preparing", "generating"}
  /\ pc' = [pc EXCEPT ![m] = "failed"]
  /\ UNCHANGED <<process, directorVars, workerVars, controlVars, phase, reason, active, genLock, sent, dbVars, faults, stops>>

\* Variant with a fault: the turn stays cancellable while it commits.
LockToFinalizeCancellable(m) ==
  /\ pc[m] = "finalizing" /\ genLock = "free"
  /\ genLock' = "turn"
  /\ pc' = [pc EXCEPT ![m] = "appending"]
  /\ UNCHANGED <<process, directorVars, workerVars, controlVars, phase, reason, active, sent, dbVars, faults, stops>>

LockToFinalize(m) ==
  /\ pc[m] = "finalizing" /\ genLock = "free"
  /\ genLock' = "turn"
  /\ phase' = [phase EXCEPT ![m] = "finalizing"]
  /\ pc' = [pc EXCEPT ![m] = "appending"]
  /\ UNCHANGED <<process, directorVars, workerVars, controlVars, reason, active, sent, dbVars, faults, stops>>

\* append_assistant_message commits; message.created and stream.completed
\* are broadcast.
AppendReply(m) ==
  /\ pc[m] = "appending"
  /\ reply' = reply \cup {m}
  /\ sent' = [sent EXCEPT ![m] = @ \cup {"stream.completed"}]
  /\ pc' = [pc EXCEPT ![m] = "finishing"]
  /\ UNCHANGED <<process, directorVars, workerVars, controlVars, phase, reason, active, genLock, row, threads, faults, stops>>

\* finish_turn(status="completed").
FinishTurn(m) ==
  /\ pc[m] = "finishing"
  /\ row' = [row EXCEPT ![m] = "completed"]
  /\ phase' = [phase EXCEPT ![m] = "completed"]
  /\ active' = NoMessage /\ genLock' = "free"
  /\ pc' = [pc EXCEPT ![m] = "done"]
  /\ UNCHANGED <<process, directorVars, workerVars, controlVars, reason, sent, reply, threads, faults, stops>>

\* Variant with a fault: a reply that could not be stored goes unnoticed.
FinalizeFailsSilently(m) ==
  /\ pc[m] = "appending" /\ Fault
  /\ pc' = [pc EXCEPT ![m] = "finishing"]
  /\ UNCHANGED <<process, directorVars, workerVars, controlVars, phase, reason, active, genLock, sent, dbVars, stops>>

\* A database error while finalizing: the lock is released, then
\* except Exception.
FinalizeFails(m) ==
  /\ pc[m] \in {"appending", "finishing"} /\ Fault
  /\ genLock' = "free"
  /\ pc' = [pc EXCEPT ![m] = "failed"]
  /\ UNCHANGED <<process, directorVars, workerVars, controlVars, phase, reason, active, sent, dbVars, stops>>

\* The handler gets the generation lock and sets the final phase.
LockToRecord(m) ==
  /\ pc[m] \in {"cancelled", "failed"} /\ genLock = "free"
  /\ genLock' = "turn"
  /\ phase' = [phase EXCEPT ![m] = IF pc[m] = "cancelled" THEN "interrupted" ELSE "failed"]
  /\ pc' = [pc EXCEPT ![m] = "recording"]
  /\ UNCHANGED <<process, directorVars, workerVars, controlVars, reason, active, sent, dbVars, faults, stops>>

\* finish_turn(status="interrupted" or "failed").
RecordEnd(m) ==
  /\ pc[m] = "recording"
  /\ row' = [row EXCEPT ![m] = phase[m]]
  /\ pc' = [pc EXCEPT ![m] = "reporting"]
  /\ UNCHANGED <<process, directorVars, workerVars, controlVars, phase, reason, active, genLock, sent, reply, threads, faults, stops>>

\* Variant with a fault: the generation lock is never given back.
ReportEndLocked(m) ==
  /\ pc[m] = "reporting"
  /\ sent' = [sent EXCEPT ![m] = @ \cup {"stream.failed"}]
  /\ active' = NoMessage
  /\ pc' = [pc EXCEPT ![m] = "done"]
  /\ UNCHANGED <<process, directorVars, workerVars, controlVars, phase, reason, genLock, dbVars, faults, stops>>

\* turn.interrupted is committed and broadcast, then stream.failed.
ReportEnd(m) ==
  /\ pc[m] = "reporting"
  /\ sent' = [sent EXCEPT ![m] = @ \cup {"stream.failed"}]
  /\ active' = NoMessage /\ genLock' = "free"
  /\ pc' = [pc EXCEPT ![m] = "done"]
  /\ UNCHANGED <<process, directorVars, workerVars, controlVars, phase, reason, dbVars, faults, stops>>

\* A database error inside the handler: only the finally block is left.
HandlerFails(m) ==
  /\ pc[m] \in {"recording", "reporting"} /\ Fault
  /\ active' = NoMessage /\ genLock' = "free"
  /\ pc' = [pc EXCEPT ![m] = "done"]
  /\ UNCHANGED <<process, directorVars, workerVars, controlVars, phase, reason, sent, dbVars, stops>>

\* A connection bootstrap holds the generation lock for its whole replay.
ReaderLocks ==
  /\ process # "down" /\ genLock = "free"
  /\ genLock' = "reader"
  /\ UNCHANGED <<process, directorVars, workerVars, controlVars, pc, phase, reason, active, sent, dbVars, faults, stops>>

ReaderUnlocks ==
  /\ genLock = "reader"
  /\ genLock' = "free"
  /\ UNCHANGED <<process, directorVars, workerVars, controlVars, pc, phase, reason, active, sent, dbVars, faults, stops>>

-----------------------------------------------------------------------------
(***************************************************************************)
(* Cancellation.                                                           *)
(***************************************************************************)
\* The database call a turn is awaiting, if any.
AwaitedCall(m) ==
  CASE pc[m] = "starting"  -> {<<"insert", m>>}
    [] pc[m] = "appending" -> {<<"append", m>>}
    [] pc[m] = "finishing" -> {<<"complete", m>>}
    [] pc[m] = "recording" -> {<<"record", m>>}
    [] OTHER               -> {}

\* Variant with a fault: no finally block after the handlers.
RaiseCancelledNoFinally(m) ==
  /\ pc' = [pc EXCEPT ![m] = IF pc[m] \in InTry THEN "cancelled" ELSE "done"]
  /\ genLock' = IF pc[m] \in LockHeld THEN "free" ELSE genLock
  /\ active' = active
  /\ threads' = threads \cup AwaitedCall(m)

\* CancelledError is raised at the await the turn stands at.  Inside the try
\* block the handler runs next; inside a handler only the finally block is
\* left; before the try block there is neither.
RaiseCancelled(m) ==
  /\ pc' = [pc EXCEPT ![m] = IF pc[m] \in InTry THEN "cancelled" ELSE "done"]
  /\ genLock' = IF pc[m] \in LockHeld THEN "free" ELSE genLock
  /\ active' = IF pc[m] \in InHandler THEN NoMessage ELSE active
  /\ threads' = threads \cup AwaitedCall(m)

\* _active_turn_tasks[room] is set and not done.
TurnInProgress == worker = "turn" /\ pc[held] # "done"

Cancellable ==
  /\ TurnInProgress
  /\ active # NoMessage /\ phase[active] \in {"preparing", "generating"}

\* cancel_generation: the request waits for the task if it cancelled it.
CancelGeneration(a, why, otherwise) ==
  \/ /\ Cancellable
     /\ reason' = [reason EXCEPT ![active] = why]
     /\ RaiseCancelled(held)
     /\ admin' = [admin EXCEPT ![a] = "gathering"]
     /\ UNCHANGED <<phase, sent>>
  \/ /\ ~Cancellable
     /\ admin' = [admin EXCEPT ![a] = otherwise]
     /\ UNCHANGED <<turnVars, threads>>

Command == process = "up" /\ commands < MaxCommands /\ commands' = commands + 1

AdminCancel(a) ==
  /\ admin[a] = "idle" /\ Command
  /\ CancelGeneration(a, "admin_cancelled", "idle")
  /\ UNCHANGED <<process, directorVars, workerVars, paused, stored, wasPaused, storeFaults, row, reply, faults, stops>>

\* update_controls: the new controls take effect before they are stored.
ApplyControls(a) ==
  /\ admin[a] = "idle" /\ Command
  /\ paused' \in BOOLEAN
  /\ wasPaused' = [wasPaused EXCEPT ![a] = paused]
  /\ woken' = (woken \/ (paused /\ ~paused' /\ worker \in {"resume", "recheck"}))
  /\ admin' = [admin EXCEPT ![a] = "persisting"]
  /\ UNCHANGED <<process, directorVars, worker, held, stored, storeFaults, turnVars, dbVars, faults, stops>>

\* A worker that a resume has woken runs before any later database answer.
StoreControls(a) ==
  /\ admin[a] = "persisting" /\ ~woken
  /\ stored' = paused
  /\ IF paused /\ ~wasPaused[a]
       THEN CancelGeneration(a, "room_paused", "announcing")
       ELSE /\ admin' = [admin EXCEPT ![a] = "announcing"]
            /\ UNCHANGED <<turnVars, threads>>
  /\ UNCHANGED <<process, directorVars, workerVars, paused, wasPaused, storeFaults, commands, row, reply, faults, stops>>

\* set_setting raises: the request fails, the controls stay applied.
StoreFails(a) ==
  /\ admin[a] = "persisting" /\ ~woken /\ Fault
  /\ storeFaults' = storeFaults + 1
  /\ admin' = [admin EXCEPT ![a] = "idle"]
  /\ UNCHANGED <<process, directorVars, workerVars, paused, stored, wasPaused, commands, turnVars, dbVars, stops>>

\* gather(task) returns; the cancellation is audited.
Gathered(a) ==
  /\ admin[a] = "gathering"
  /\ ~TurnInProgress
  /\ admin' = [admin EXCEPT ![a] = "announcing"]
  /\ UNCHANGED <<process, directorVars, workerVars, paused, stored, wasPaused, storeFaults, commands, turnVars, dbVars, faults, stops>>

\* room.control.updated and queue.updated are broadcast, the request returns.
AnnounceControls(a) ==
  /\ admin[a] = "announcing"
  /\ admin' = [admin EXCEPT ![a] = "idle"]
  /\ UNCHANGED <<process, directorVars, workerVars, paused, stored, wasPaused, storeFaults, commands, turnVars, dbVars, faults, stops>>

-----------------------------------------------------------------------------
(***************************************************************************)
(* Orphaned database calls, shutdown, crash and start.                     *)
(***************************************************************************)
RunThread(call) ==
  LET m == call[2] IN
  /\ threads' = threads \ {call}
  /\ row' = [row EXCEPT ![m] = CASE call[1] = "insert"   -> "generating"
                                 [] call[1] = "complete" -> "completed"
                                 [] call[1] = "record"   -> phase[m]
                                 [] OTHER                -> @]
  /\ reply' = IF call[1] = "append" THEN reply \cup {m} ELSE reply
  /\ UNCHANGED <<process, directorVars, workerVars, controlVars, turnVars, faults, stops>>

\* The executor had not started the call, or the commit failed.
DropThread(call) ==
  /\ threads' = threads \ {call}
  /\ UNCHANGED <<process, directorVars, workerVars, controlVars, turnVars, row, reply, faults, stops>>

Stop == stops < MaxStops /\ stops' = stops + 1

\* shutdown(): the director is closed, the worker and the turn are cancelled,
\* whatever the turn's phase.
Shutdown ==
  /\ process = "up" /\ Stop
  /\ process' = "closing"
  /\ \/ /\ TurnInProgress
        /\ RaiseCancelled(held)
        /\ UNCHANGED workerVars
     \/ /\ ~TurnInProgress
        /\ worker' = "stopped" /\ held' = NoMessage /\ woken' = FALSE
        /\ UNCHANGED <<pc, genLock, active, threads>>
  /\ UNCHANGED <<directorVars, controlVars, phase, reason, sent, row, reply, faults>>

\* The process ends: after shutdown once the worker stopped, or at any time.
Exit ==
  /\ \/ process = "closing" /\ worker = "stopped" /\ threads = {} /\ UNCHANGED stops
     \/ process # "down" /\ Stop
  /\ process' = "down"
  /\ waiting' = {} /\ worker' = "stopped" /\ held' = NoMessage /\ woken' = FALSE
  /\ paused' = FALSE
  /\ admin' = [a \in Admins |-> "idle"] /\ wasPaused' = [a \in Admins |-> FALSE]
  /\ pc' = [m \in Messages |-> "none"]
  /\ phase' = [m \in Messages |-> "preparing"]
  /\ reason' = [m \in Messages |-> "none"]
  /\ active' = NoMessage /\ genLock' = "free" /\ threads' = {}
  /\ UNCHANGED <<offered, stored, storeFaults, commands, sent, row, reply, faults>>

\* start(): settings are read, a director and a worker are created.
Start ==
  /\ process = "down"
  /\ process' = "up" /\ worker' = "resume" /\ paused' = stored
  /\ UNCHANGED <<directorVars, held, woken, stored, admin, wasPaused, storeFaults, commands, turnVars, dbVars, faults, stops>>

-----------------------------------------------------------------------------
WorkerStep == WaitResumed \/ NextTurn \/ BeginTurn \/ EndTurn

TurnStep(m) ==
  \/ InsertTurn(m) \/ Announce(m) \/ EnterTry(m) \/ Prepare(m) \/ Delta(m) \/ Generated(m)
  \/ LockToFinalize(m) \/ AppendReply(m) \/ FinishTurn(m)
  \/ LockToRecord(m) \/ RecordEnd(m) \/ ReportEnd(m)

TurnFault(m) ==
  StartFails(m) \/ GenerationFails(m) \/ FinalizeFails(m) \/ HandlerFails(m)

AdminStep(a) == StoreControls(a) \/ Gathered(a) \/ AnnounceControls(a)

ThreadStep == \E call \in threads : RunThread(call) \/ DropThread(call)

Next ==
  \/ WorkerStep \/ ThreadStep \/ ReaderLocks \/ ReaderUnlocks
  \/ \E m \in Messages : Offer(m) \/ TurnStep(m) \/ TurnFault(m)
  \/ \E a \in Admins : AdminCancel(a) \/ ApplyControls(a) \/ StoreFails(a) \/ AdminStep(a)
  \/ Shutdown \/ Exit \/ Start

Spec == Init /\ [][Next]_vars

-----------------------------------------------------------------------------
(***************************************************************************)
(* Properties.                                                             *)
(***************************************************************************)
\* Design document, section 1.3: at most one reply of NEKO is being
\* generated in a room, across cancellations, pauses and restarts.
OneTurnAtATime ==
  \A m, n \in Messages : pc[m] \in Running /\ pc[n] \in Running => m = n

\* The generation lock is held by a turn exactly while that turn stands
\* inside one of its critical sections: cancelling a turn there releases it.
GenerationLockHeld ==
  (genLock = "turn") <=> \E m \in Messages : pc[m] \in LockHeld

\* Administrators cannot lose a reply: as long as neither the database nor
\* the process fails, a reply that was committed is recorded as completed,
\* and a turn recorded as interrupted has no reply, however cancellations
\* and pauses race with the end of the generation.
AdminsLoseNoReply ==
  faults = 0 /\ stops = 0 =>
    \A m \in Messages :
      /\ m \in reply /\ pc[m] = "done" => row[m] = "completed"
      /\ row[m] = "interrupted" => m \notin reply

\* A turn recorded as completed has its reply in the log, whatever failed.
CompletedHasReply == \A m \in Messages : row[m] = "completed" => m \in reply

\* Once a pause has been carried out, nothing is generated until the room
\* is resumed: a turn was cancelled, had committed to its reply, or the
\* worker waits.  (A pause that could not be stored cancels nothing, nor
\* does repeating it.)
PausedIsQuiet ==
  paused /\ storeFaults = 0 /\ (\A a \in Admins : admin[a] = "idle") =>
    \A m \in Messages : pc[m] \notin BeforeTry \cup {"preparing", "generating", "finalizing"}

\* A finished turn that is still listed as the active generation, and sent to
\* every page that connects, ended before its try block: of its stream nothing
\* but the announcement was shown, neither text nor an end (service.py:652-680).
StaleActiveHasNoText ==
  active # NoMessage /\ pc[active] = "done" => sent[active] \subseteq {"stream.started"}

\* As long as the process is not stopped, a message that has left the queue is
\* the worker's or has had its turn, whatever was cancelled, paused or failing:
\* the worker neither drops a candidate nor abandons a turn (service.py, the
\* loop of _room_worker).
TakenHasTurn ==
  stops = 0 => \A m \in offered \ waiting : m = held \/ pc[m] = "done"

\* As long as the process is not stopped, the final status of a turn is written
\* once, though finish_turn overwrites whatever the row says: no cancelled
\* call, failed handler or administrator comes back to it (store.py:908-915).
StatusIsFinal ==
  [][stops = 0 =>
       \A m \in Messages : row[m] \in {"completed", "interrupted", "failed"} => row'[m] = row[m]]_vars

-----------------------------------------------------------------------------
(***************************************************************************)
(* Liveness.  Ready tasks run, database calls return, a lock is granted in *)
(* arrival order, a bootstrap ends within its send timeouts, and the model *)
(* call ends within wait_for's time limit.  Nothing is assumed of          *)
(* administrators, of failures or of the process being started again.      *)
(***************************************************************************)
Fairness ==
  /\ WF_vars(WaitResumed) /\ WF_vars(NextTurn) /\ SF_vars(BeginTurn) /\ WF_vars(EndTurn)
  /\ WF_vars(ReaderUnlocks)
  /\ \A m \in Messages :
       /\ WF_vars(InsertTurn(m)) /\ WF_vars(Announce(m)) /\ WF_vars(EnterTry(m)) /\ WF_vars(Prepare(m))
       /\ WF_vars(Generated(m) \/ GenerationFails(m))
       /\ SF_vars(LockToFinalize(m)) /\ WF_vars(AppendReply(m)) /\ WF_vars(FinishTurn(m))
       /\ SF_vars(LockToRecord(m)) /\ WF_vars(RecordEnd(m)) /\ WF_vars(ReportEnd(m))
  /\ \A a \in Admins : WF_vars(AdminStep(a))

FairSpec == Spec /\ Fairness

\* Every turn ends, and frees the worker for the next one.
TurnsEnd == \A m \in Messages : pc[m] \in Running ~> pc[m] \in {"none", "done"}

\* In a room that stays up and is not paused for good, every candidate is
\* taken, whatever happened to the turns before it.
CandidatesAreTaken ==
  \A m \in Messages : <>[](process = "up" /\ ~paused) => <>[](m \notin waiting)

-----------------------------------------------------------------------------
(***************************************************************************)
(* The worker serves the room's queue as RoomQueue promises.               *)
(***************************************************************************)
Queue ==
  INSTANCE RoomQueue WITH
    None <- NoMessage, given <- offered, waiting <- waiting, current <- held,
    life <- process = "down"

\* However turns are cancelled, fail or end with the process, the worker holds
\* one message at a time, and none twice.
ImplementsQueue == Queue!Spec
=============================================================================
