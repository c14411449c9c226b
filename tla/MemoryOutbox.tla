----------------------------- MODULE MemoryOutbox -----------------------------
(***************************************************************************)
(* The outbox of a character's memory: background work that is written     *)
(* down before it is started, so that it is run again after a crash.       *)
(*                                                                         *)
(*   memory/outbox.py                     the file outbox.ndjson           *)
(*   app/memory_server/outbox_infra.py    running one op, the replay       *)
(*   app/memory_server/post_turn.py, routes.py   who registers ops         *)
(*                                                                         *)
(* The file holds a pending, attempt and done line for an op.  Nothing     *)
(* reads the order of lines of different ops, and no op has an attempt     *)
(* line before its pending line, so the file is what it says of each op.   *)
(* A failed append may leave half a line: the line behind it is lost.      *)
(*                                                                         *)
(* A handler may return, raise or never end; what it does is its own       *)
(* module's business, the outbox only asks that it can be repeated.        *)
(***************************************************************************)
EXTENDS Naturals, FiniteSets

CONSTANTS
  Ops,          \* operations
  Locale,       \* those that persist a prompt locale
  MaxAttempts,  \* MEMORY_LIVENESS_MAX_ATTEMPTS
  Slots,        \* _REPLAY_CONCURRENCY
  MaxCrashes,   \* bound: crashes
  MaxFaults     \* bound: failed writes

ASSUME OutboxConstants ==
  /\ Locale \subseteq Ops
  /\ MaxAttempts \in Nat \ {0} /\ Slots \in Nat \ {0}
  /\ MaxCrashes \in Nat /\ MaxFaults \in Nat

VARIABLES
  process,    \* "down", "starting" (nothing but the startup runs) or "up"
  pending,    \* outbox.ndjson: the ops with a pending line,
  attempts,   \*   per op the number of its attempt lines,
  done,       \*   and the ops with a done line
  fragment,   \* the file ends in half a line
  task,       \* per op: how far _run_outbox_op is
  prior,      \* per op: the op's _attempt_count when its task was made
  holders,    \* the ops that hold a replay slot
  crashes, faults,  \* used budgets
  accepted,   \* history: ops whose registration succeeded
  succeeded,  \* history: ops whose handler has returned
  raised,     \* history: per op, how often its handler has raised
  swallowed,  \* history: the lines written behind half a line
  clean       \* history: no write failed or was swallowed since the last boot

lines   == <<pending, attempts, done>>
file    == <<lines, fragment>>
budgets == <<crashes, faults>>
history == <<accepted, succeeded, raised, swallowed, clean>>
vars    == <<process, file, task, prior, holders, budgets, history>>

Statuses == {"pending", "attempt", "done"}
NoAttempts == [o \in Ops |-> 0]

TypeOK ==
  /\ process \in {"down", "starting", "up"}
  /\ pending \subseteq Ops /\ attempts \in [Ops -> Nat] /\ done \subseteq Ops
  /\ fragment \in BOOLEAN
  /\ task \in [Ops -> {"none", "waiting", "running", "raised", "closing", "over"}]
  /\ prior \in [Ops -> Nat]
  /\ holders \subseteq {o \in Ops : task[o] \in {"running", "raised", "closing"}}
  /\ crashes \in 0 .. MaxCrashes /\ faults \in 0 .. MaxFaults
  /\ accepted \subseteq Ops /\ succeeded \subseteq Ops
  /\ swallowed \subseteq Ops \X Statuses
  /\ raised \in [Ops -> Nat] /\ clean \in BOOLEAN

Init ==
  /\ process = "down" /\ pending = {} /\ attempts = NoAttempts /\ done = {}
  /\ fragment = FALSE
  /\ task = [o \in Ops |-> "none"] /\ prior = [o \in Ops |-> 0] /\ holders = {}
  /\ crashes = 0 /\ faults = 0
  /\ accepted = {} /\ succeeded = {} /\ raised = [o \in Ops |-> 0] /\ swallowed = {}
  /\ clean = TRUE

\* pending_ops: a pending line and no done line.
Pending(o) == o \in pending \ done

\* _write_line of a line of op o with the given status.
WriteLine(o, status) ==
  /\ IF fragment
     THEN UNCHANGED lines /\ swallowed' = swallowed \cup {<<o, status>>}
     ELSE /\ pending'  = IF status = "pending" THEN pending \cup {o} ELSE pending
          /\ attempts' = IF status = "attempt" THEN [attempts EXCEPT ![o] = @ + 1] ELSE attempts
          /\ done'     = IF status = "done" THEN done \cup {o} ELSE done
          /\ UNCHANGED swallowed
  /\ fragment' = FALSE
  /\ clean' = (clean /\ ~fragment)

\* The write raises; nothing or half a line is on disk.
WriteFails ==
  /\ faults < MaxFaults /\ faults' = faults + 1
  /\ fragment' \in BOOLEAN /\ (fragment => fragment')
  /\ clean' = FALSE
  /\ UNCHANGED <<lines, swallowed>>

\* The end of _run_outbox_op: its slot is free again.
EndTask(o) ==
  /\ task' = [task EXCEPT ![o] = "over"]
  /\ holders' = holders \ {o}

-----------------------------------------------------------------------------
\* The line is written, then the task is made; it needs no slot.
Register(o) ==
  /\ process = "up" /\ o \notin accepted
  /\ WriteLine(o, "pending")
  /\ accepted' = accepted \cup {o}
  /\ task' = [task EXCEPT ![o] = "running"] /\ prior' = [prior EXCEPT ![o] = 0]
  /\ UNCHANGED <<process, holders, budgets, succeeded, raised>>

\* A turn's signals are then handled by a task that nothing remembers, a new
\* dialog is refused; in both cases the outbox has promised nothing.
RegisterFails(o) ==
  /\ process = "up" /\ o \notin accepted
  /\ WriteFails
  /\ UNCHANGED <<process, task, prior, holders, crashes, accepted, succeeded, raised>>

GetSlot(o) ==
  /\ task[o] = "waiting" /\ Cardinality(holders) < Slots
  /\ holders' = holders \cup {o}
  /\ task' = [task EXCEPT ![o] = "running"]
  /\ UNCHANGED <<process, file, prior, budgets, history>>

HandlerReturns(o) ==
  /\ task[o] = "running"
  /\ succeeded' = succeeded \cup {o}
  /\ task' = [task EXCEPT ![o] = "closing"]
  /\ UNCHANGED <<process, file, prior, holders, budgets, accepted, raised, swallowed, clean>>

\* Variant with a fault: an exception of the handler is swallowed.
HandlerRaisesUnseen(o) ==
  /\ task[o] = "running"
  /\ raised' = [raised EXCEPT ![o] = @ + 1]
  /\ task' = [task EXCEPT ![o] = "closing"]
  /\ UNCHANGED <<process, file, prior, holders, budgets, accepted, succeeded, swallowed, clean>>

HandlerRaises(o) ==
  /\ task[o] = "running"
  /\ raised' = [raised EXCEPT ![o] = @ + 1]
  /\ task' = [task EXCEPT ![o] = "raised"]
  /\ UNCHANGED <<process, file, prior, holders, budgets, accepted, succeeded, swallowed, clean>>

\* Variant with a fault: the threshold is compared before this attempt.
RecordAttemptLate(o) ==
  /\ task[o] = "raised"
  /\ WriteLine(o, "attempt")
  /\ IF prior[o] + 1 > MaxAttempts
     THEN task' = [task EXCEPT ![o] = "closing"] /\ UNCHANGED holders
     ELSE EndTask(o)
  /\ UNCHANGED <<process, prior, budgets, accepted, succeeded, raised>>

\* The op is given up when this attempt, now on disk, reaches the threshold.
RecordAttempt(o) ==
  /\ task[o] = "raised"
  /\ WriteLine(o, "attempt")
  /\ IF prior[o] + 1 >= MaxAttempts
     THEN task' = [task EXCEPT ![o] = "closing"] /\ UNCHANGED holders
     ELSE EndTask(o)
  /\ UNCHANGED <<process, prior, budgets, accepted, succeeded, raised>>

\* Variant with a fault: an attempt that could not be written counts.
RecordAttemptFailsCounted(o) ==
  /\ task[o] = "raised"
  /\ WriteFails
  /\ IF prior[o] + 1 >= MaxAttempts
     THEN task' = [task EXCEPT ![o] = "closing"] /\ UNCHANGED holders
     ELSE EndTask(o)
  /\ UNCHANGED <<process, prior, crashes, accepted, succeeded, raised>>

\* An attempt that is not on disk does not count.
RecordAttemptFails(o) ==
  /\ task[o] = "raised"
  /\ WriteFails
  /\ EndTask(o)
  /\ UNCHANGED <<process, prior, crashes, accepted, succeeded, raised>>

RecordDone(o) ==
  /\ task[o] = "closing"
  /\ WriteLine(o, "done")
  /\ EndTask(o)
  /\ UNCHANGED <<process, prior, budgets, accepted, succeeded, raised>>

RecordDoneFails(o) ==
  /\ task[o] = "closing"
  /\ WriteFails
  /\ EndTask(o)
  /\ UNCHANGED <<process, prior, crashes, accepted, succeeded, raised>>

-----------------------------------------------------------------------------
Boot ==
  /\ process = "down"
  /\ process' = "starting" /\ clean' = TRUE
  /\ UNCHANGED <<file, task, prior, holders, budgets, accepted, succeeded, raised, swallowed>>

\* Variant with a fault: the threshold is not looked at before the handler.
ScanRunsAll ==
  /\ process = "starting" /\ \E o \in Ops : Pending(o)
  /\ process' = "up"
  /\ task'  = [o \in Ops |-> IF ~Pending(o) THEN "none"
                             ELSE IF o \in Locale THEN "running" ELSE "waiting"]
  /\ prior' = [o \in Ops |-> IF Pending(o) THEN attempts[o] ELSE 0]
  /\ UNCHANGED <<file, holders, budgets, history>>

\* Variant with a fault: locale ops need a slot, too.
ScanQueuesAll ==
  /\ process = "starting" /\ \E o \in Ops : Pending(o)
  /\ process' = "up"
  /\ task'  = [o \in Ops |-> CASE ~Pending(o)                        -> "none"
                               [] Pending(o) /\ attempts[o] >= MaxAttempts -> "closing"
                               [] OTHER -> "waiting"]
  /\ prior' = [o \in Ops |-> IF Pending(o) THEN attempts[o] ELSE 0]
  /\ UNCHANGED <<file, holders, budgets, history>>

\* _replay_pending_outbox, before the server takes requests.  At the threshold
\* the handler is not called any more.  Other tasks need a slot, unless they
\* persist a locale: that may have to wait for long.
Scan ==
  /\ process = "starting" /\ \E o \in Ops : Pending(o)
  /\ process' = "up"
  /\ task'  = [o \in Ops |-> CASE ~Pending(o)                        -> "none"
                               [] Pending(o) /\ attempts[o] >= MaxAttempts -> "closing"
                               [] OTHER -> IF o \in Locale THEN "running" ELSE "waiting"]
  /\ prior' = [o \in Ops |-> IF Pending(o) THEN attempts[o] ELSE 0]
  /\ UNCHANGED <<file, holders, budgets, history>>

\* With nothing pending, a long file is rewritten: nothing in it is kept.
ScanNothing ==
  /\ process = "starting" /\ ~\E o \in Ops : Pending(o)
  /\ process' = "up"
  /\ \/ UNCHANGED file
     \/ pending' = {} /\ attempts' = NoAttempts /\ done' = {} /\ fragment' = FALSE
  /\ UNCHANGED <<task, prior, holders, budgets, history>>

Crash ==
  /\ process # "down" /\ crashes < MaxCrashes
  /\ process' = "down" /\ crashes' = crashes + 1
  /\ task' = [o \in Ops |-> "none"] /\ prior' = [o \in Ops |-> 0] /\ holders' = {}
  /\ UNCHANGED <<file, faults, history>>

Run(o) ==
  \/ GetSlot(o) \/ HandlerReturns(o) \/ HandlerRaises(o)
  \/ RecordAttempt(o) \/ RecordAttemptFails(o) \/ RecordDone(o) \/ RecordDoneFails(o)

Next ==
  \/ Boot \/ Scan \/ ScanNothing \/ Crash
  \/ \E o \in Ops : Register(o) \/ RegisterFails(o) \/ Run(o)

\* Tasks are scheduled and file writes end.  Handlers need not: a locale and the
\* signals of a turn wait for the maintenance fence as long as it takes.
Fairness ==
  \A o \in Ops : /\ WF_vars(GetSlot(o))
                 /\ WF_vars(RecordAttempt(o) \/ RecordAttemptFails(o))
                 /\ WF_vars(RecordDone(o) \/ RecordDoneFails(o))

Spec == Init /\ [][Next]_vars
FairSpec == Spec /\ Fairness

-----------------------------------------------------------------------------
Settled(o) == o \in succeeded \/ raised[o] >= MaxAttempts

\* Whatever crashes and whichever writes fail, an op whose registration succeeded
\* stays pending until its handler has returned or raised MaxAttempts times.  The
\* exception is a pending line behind half a line (outbox.py:115-124 appends to
\* whatever the file ends in): the scan cannot parse it.
AcceptedIsKept ==
  \A o \in accepted : <<o, "pending">> \in swallowed \/ Pending(o) \/ Settled(o)

\* An op is given up only when MaxAttempts attempts are on disk
\* (outbox_infra.py:110-124): a restart sees why.
DeadLettersAreDocumented ==
  \A o \in Ops : o \in done /\ o \notin succeeded /\ <<o, "attempt">> \notin swallowed =>
    attempts[o] >= MaxAttempts

\* When a replay without failed writes is through, no op at the threshold is
\* left: it would block compaction for ever (outbox.py:156-164).
GivenUpIsClosed ==
  process = "up" /\ clean /\ (\A o \in Ops : task[o] \in {"none", "over"}) =>
    \A o \in Ops : Pending(o) => attempts[o] < MaxAttempts

\* No handler is called for an op that is done or at the threshold, however the
\* crash fell between its attempts and its done line (outbox_infra.py:82-101).
NoRunAfterGivenUp ==
  [][\A o \in Ops : task'[o] = "running" /\ task[o] # "running" =>
       o \notin done' /\ attempts'[o] < MaxAttempts]_vars

\* Locale ops that wait for ever keep no slot from the replay
\* (outbox_infra.py:223-230): a waiting task is served as long as the handlers
\* of the other ops come back.  (Those of turns, too, wait for the fence, and
\* keep their slots while they do: post_turn.py:197-223, 247-266.)
WaitingIsServed ==
  (\A o \in Ops \ Locale : []<>(task[o] # "running")) =>
    \A o \in Ops : task[o] = "waiting" ~> task[o] # "waiting"
=============================================================================
