# Verification of NEKO-ONE's public room and memory

TLA+ models, TLC runs and TLAPS proofs kept beside the code of NEKO-ONE
(`src/`). NEKO-ONE is a public chat room around one character: visitors write
messages over WebSockets, a director picks which message the character answers,
a model streams the answer, everything that matters is persisted in PostgreSQL
with a room-wide sequence number, and a separate memory service learns from the
conversation.

All paths below are relative to `src/`. "Design" is
`docs/design/public-room-web-architecture.md`.

## 1. Inventory

| component | code | state | operations | module |
|---|---|---|---|---|
| Event log and publication | `main_logic/room/store.py`, `service.py` | `rooms.last_seq`, `room_events`, event lock per room | append + broadcast, moderation, replay reads, retention | `RoomReplay` |
| Connection hub | `main_logic/room/hub.py` | `_rooms`, per connection a bounded queue, a writer task, `active` | register, send_wait, activate, broadcast, unregister, disconnect_visitor, shutdown | `RoomReplay` |
| WebSocket handler | `main_routers/room_websocket_router.py` | `after_seq`, place in the bootstrap | bootstrap, receive loop, teardown | `RoomReplay` |
| Public page | `frontend/public-room/app.js` | `socket`, `lastSeq`, `resyncing`, `stopped`, the timeline | connect, handleEvent, resync, reconnect, pagehide/pageshow | `RoomClient`, `RoomReplay` |
| Turns | `service.py`, `store.py` (turns table) | worker, active task, active generation, generation lock, controls, `turns` rows | worker loop, `_run_turn`, cancel, pause, start, shutdown | `RoomTurn` |
| Submission | `service.py:219`, `store.py:314-396` | `client_requests`, per-visitor lock, rate window | submit_message, repeats | `RoomSubmission` |
| Visitors | `session.py`, `public_admin_router.py`, `hub.disconnect_visitor` | status, last_seen_at, registered connections | resolve, ban, unban | `RoomSubmission` |
| Director | `director.py` | candidates, last five targets, closed | enqueue, next_turn, close | `RoomDirector`; `RoomTurn` leaves the choice open |
| Retention | `service.py:341-421`, `store.py:720-836` | policy, cleanup lock, stale visitors, what was forgotten | loop, run, policy update | events in `RoomReplay`, the rest in `RoomSubmission` |
| Proactive hosting, cursors | `service.py:431-486, 601-637` | timers, zones | enqueue a synthetic candidate | the prompt in `RoomDirector` |
| Speech | `speech.py`, `service.py:893`, `tts_client/workers/gptsovits.py` | worker thread, request and response queues, two locks, executor threads | synthesize_complete, reconfigure, stop | `RoomSpeech` |
| Memory event log | `memory/event_log.py`, `evidence_handlers.py`, `archive_shards.py` | journal, sentinel, views, shards | record_and_save, apply_and_advance, areconcile | `MemoryJournal` |
| Memory outbox | `memory/outbox.py`, `app/memory_server/outbox_infra.py` | ndjson of pending/attempt/done lines, replay slots | append, scan, compact, run one op | `MemoryOutbox` |
| Memory server | `app/memory_server/runtime.py` | startup order | reconcile, then replay the outbox | its order, in both memory modules |
| Avatars, other TTS providers, model client, what the memory stores extract and score, configuration, front-end presentation, scripts | see `PROJECT.json` | - | - | not modelled, with the reason |

How they interact. One asyncio process owns the hub, the locks, the worker and
the turn; database calls run in threads (`asyncio.to_thread`), so every one of
them is a point where other tasks run and where a cancelled task leaves a call
behind. The event lock joins commit and broadcast of one persisted event and
excludes connection replays; the generation lock joins stream frames and the end
of a turn and excludes the same replays; both are taken in the order generation,
event. A page knows the server only by the frames it receives and remembers one
number, `lastSeq`.

What is hard here: the hand-over from replay to live fan-out; queues that
overflow; writers and bootstraps that time out; retention that deletes while a
replay reads; cancellation at every await, and what an uncancellable database
thread does afterwards; a second cancellation during the handling of the first;
pauses that race with the worker; requests repeated on a second connection while
the first is still being served; retention that deletes what a visitor is just
using; files that are appended to, half written, replaced and replayed; threads
that go on waiting after their task has given up; a process that ends at any of
these points.
`PROJECT.json` lists each hazard at its line with the properties that would
catch it.

## 2. Modules

* `RoomTimeline` - what the room promises a page: a log that grows, and a view
  that is one stretch of it, extended by exactly the next event or replaced by a
  snapshot.
* `RoomClient` - the timeline half of `app.js` as a function from the page's
  record and one frame to the next record (`HandleFrame`).
* `RoomLog` - what submitting a message promises a browser that may repeat itself: a
  log in which a request stands once for as long as its message is kept, and answers
  that name a message of the request.
* `RoomQueue` - what the room promises everybody who says something: while the process
  lives his message is given to the director once, and one message is served at a time.
  What was not answered when the process ended may be kept, given again later or lost
  (the design document asks for the second, the code does the third; both conform);
  what was answered never comes back.
* `RoomReplay` - log, publication, hub, bootstrap, pages, retention, faults. Its
  last lines instantiate `RoomTimeline` under the mapping
  `committed <- last`, `position <- lastSeq`, `view <- shown`.
* `RoomTurn` - worker, turn, administrators, shutdown, crash, start. It implements
  `RoomQueue` (`given <- offered`, `current <- held`, `life <- process = "down"`).
* `RoomDirector` - which candidate is answered next: scores, waiting, recent targets.
* `RoomSubmission` - from the cookie of a connection to the director's queue, and
  how visitors go: repeats, bans, retention with the memory service, crashes. It
  implements `RoomLog` (`log <- sent`, `shown <- messages`) and `RoomQueue` (`given` is
  what was offered, `waiting <- queue`, `current <- turn`, `life <- crashes`).
* `RoomSpeech` - the tasks that speak replies, their TTS worker and its queues.
* `MemoryJournal` - the memory's event log, views, marker and reconciliation.
* `MemoryOutbox` - background work that is written down before it is started.
* `RoomReplay_proofs`, `RoomHandover_proofs`, `RoomTurn_proofs`,
  `RoomDirector_proofs`, `RoomSubmission_proofs`, `RoomSpeech_proofs`,
  `MemoryJournal_proofs`, `MemoryOutbox_proofs` - theorems.
* `MC...` - names, functions and symmetry sets for TLC.

`RoomQueue` is where submission and turns meet: `RoomSubmission` has all that can be
done to a message before its turn and takes any turn, `RoomTurn` has the turn and takes
any message, and both are shown to treat the queue between them in the same way.

Definitions preceded by "Variant with a fault" are copies of the next definition
with a plausible bug. No specification uses them; each shows that some property
notices the bug.

### RoomReplay and the code

| action | code |
|---|---|
| `StartPublish`, `Commit`, `Publish`, `CommitFails` | `_append_and_broadcast_event` (the same shape in `submit_message`, `_run_turn`, `moderate_message`) |
| `CancelPublish`, `OrphanCommits` | a turn cancelled while the commit runs: locks released, thread goes on |
| `CancelFanout` | the same while `broadcast` closes slow connections one by one: the others have the frame, some slow ones stay active without it |
| `BroadcastNote` | frames without `room_seq` (queue, presence, stream): no lock |
| `Age`, `CleanupExpired` | the retention cutoff, `cleanup_expired` (takes no room lock) |
| `Connect` | `app.js` connect, resolve/accept/`hub.register` |
| `LockForReplay` .. `Activate`, `ActivateFails`, `SendTimeout` | the bootstrap, `room_websocket_router.py:76-172` |
| `HandlerExit` | end of the receive loop and `finally` |
| `Deliver`, `WriterTimeout`, `WriterBreaks` | `hub._writer` and the page's message event (`Receive`) |
| `NetworkDrop`, `SocketClosed`, `PageHide`, `PageShow`, `Restart` | the connection, the page's events, the process |

`hub` and `open` are separate because the code separates them: a writer that
gives up removes the connection from `_rooms` and does not close the socket.
A page that finds a gap does not close it either: `socket.close(1012)` raises in a
browser, the message listener swallows the exception, and the page stays with
`lastSeq = 0` and `resyncing` set on a connection that is still active in the hub
(`Receive`, `Stuck`; section 6).
`published` is a history variable. Message bodies, moderation and the 100
messages of a snapshot are abstracted: a snapshot taken at `n` shows `1..n`.

Simplifications, all in the direction of the code's own atomicity: the two locks
of a bootstrap are one (nobody takes the generation lock to publish in this
module; `RoomTurn` has it separately); closing the overflowed connections is one
step with the broadcast unless that is cancelled (`CancelFanout`; a cancelled
broadcast of a note leaves an unregistered connection with an open socket, which
`WriterTimeout` has too); the two reads of `room_snapshot` are one step;
`connect()` is one step, so two overlapping calls of it are not modelled;
`after > last` ("sequence_ahead") is in `ResetTarget` but cannot happen without
restoring an older database. The cutoff lies days in the past, so `Age` happens
only while no bootstrap or publication is in progress; the deletion it allows may
then happen at any moment.

### RoomTurn and the code

A turn is named by the message it answers. `pc` says where `_run_turn` stands
(one value per await that matters), `phase`, `reason`, `active` and `genLock` are
the fields of the same names in `service.py`, `row` and `reply` are the database,
`sent` the stream frames broadcast, `threads` the database calls whose awaiting
task was cancelled. `Announce` ends with the broadcast of `stream.started`, which may
still await the closing of slow connections; only `EnterTry` brings the turn into its
try block, and a cancellation at `shown`, between the two, meets no handler. A failed
database call is taken to have committed nothing. `RaiseCancelled` is Task.cancel(): inside the try block the
handler runs next, inside a handler only `finally` is left, before the try block
there is neither. `ReaderLocks`/`ReaderUnlocks` stand for connection bootstraps.
`wasPaused` is the local `previous["paused"]` of `update_controls`; `woken` is a
waiter that `Event.set()` has already released, which a later `clear()` does not
take back. A worker that a resume has woken runs before any later database
answer, hence the guard of `StoreControls`.

### RoomDirector and the code

`queue` is `_candidates` in the order of arrival, which is that of `room_seq`, so that
the first of equal scores is the one with the smallest `room_seq`. `Submit` and `Prompt`
are the two callers of `enqueue`, `NextTurn` is `next_turn`, `Tick` lets every age grow
by one point up to `AgeLimit` (120 seconds, 30 points), `Score` is the formula of
`director.py:72`. `speaking` is the test of `_active_generations` in `_proactive_loop`,
whose timers are left out: it may add its prompt whenever the queue is empty.
`passed` is a history: how many later candidates of the same kind went first.
`DirectorConstants` says of the scores only what 30, 25, 100 and 1000 satisfy:
age and penalty together stay below a mention's bonus and a prompt's malus.
`RoomTurn` takes any candidate and is therefore about every rule of choice.

### RoomSubmission and the code

| action | code |
|---|---|
| `Resolve`, `Register` | `sessions.resolve` (`session.py:63-71`) and `hub.register`; between them the socket is accepted |
| `Send` | `chat.send` is read in the receive loop |
| `Repeat`, `RepeatFails`, `Admit` | under the visitor's lock: `find_client_request`, then rate limit and room state |
| `Commit`, `AppendFails` | `append_user_message`: message and idempotency row in one transaction |
| `Enqueue` | `director.enqueue` and `chat.accepted` |
| `TakeTurn`, `AbandonTurn`, `CompleteTurn` | `_run_turn`, as far as the visitor's row and the recorder are concerned |
| `RecordInteraction`, `StopRecording` | an attempt of `_record_completed_turn`; the attempts are used up |
| `VisitorAges`, `MessageAges` | the cutoffs move on |
| `SelectStale`, `Forget`, `ForgetFails`, `CleanUp` | `run_retention_cleanup`: selection, calls of the memory service, one transaction |
| `Ban`, `ListConnections`, `Disconnect`, `BanEnds`, `Unban` | `set_visitor_status`, then `hub.disconnect_visitor` connection by connection |
| `DropSlow`, `HangUp`, `Crash` | the hub's overflow, the browser, the process |

`sent`, `offers`, `unanswered`, `told`, `early` and `revived` are history variables. A
message and its idempotency row carry timestamps taken one after the other, so
`SelectStale` lets one row be younger than its message's cutoff: the row then
outlives the message, and a repeat ends the handler (`RepeatFails`).
The reads of `Resolve` and the two reads of `SelectStale` are one step each.

### RoomSpeech and the code

`task` says where `_publish_speech` stands for a reply: `ready` wants the
synthesis lock, `start` is in `_ensure_started`, `reading` in the loop of
`synthesize`, `stopping` in `_stop_worker` after a timeout. `Leave` is an exception
out of `synthesize`: segments are dropped, the next attempt begins. `parts` stands for
the counter and `pcm_parts` of `synthesize_complete`, and `chunks` for the list of the
one `synthesize` that holds the lock. `TakeRequest`,
`MakeChunk`, `EndSession`, `SkipRequest`, `ProviderError` and `WorkerEnds` are the loop
of `gptsovits.py`. `tagged` covers providers that name the speech of their audio
and those that put bare bytes. `stuck` counts executor threads that wait for a
queue nobody else has: `wait_for` abandons `to_thread(response_queue.get)`, it
cannot stop it.

### MemoryJournal and the code

| action | code |
|---|---|
| `LoadView` | a manager takes its asyncio lock and reads its view (`evidence_flow.py:85`, `persona/facts.py:441`) |
| `AppendEvent`, `SaveView`, `MarkApplied` | `record_and_save`, `event_log.py:641-673`, under the journal's lock |
| `AppendShard` | `aappend_to_shard`, after it and without the lock |
| `...Fails` | the same calls when they raise; a failed append leaves nothing, half a line or the whole line |
| `ReadSentinel`, `ReadTail` | `event_log.py:832-833` |
| `ApplyEvent`, `ApplyFails`, `ShardUnreadable` | a handler of `evidence_handlers.py` inside `apply_and_advance` |
| `AdvanceSentinel`, `AdvanceFails` | the marker behind the handler |
| `MeetConflict`, `EndOfTail`, `ProbeTail` | `SentinelConflictError`, the frozen replay and its rescans |
| `Boot`, `Crash` | `runtime.py:672-702`; with `ordered` live writers wait for the replay, without it they do not |

An entry of the model stands for what one kind of event writes whole: of a real entry,
its evidence fields or its status, since payloads carry only theirs. Its value is the
id of the last event applied to it, and a later event covers an earlier one of the same
part only; parts of one real entry are entries of the same file, for any number of
which the theorems hold. That a real archive takes all its parts at once is left out.
`lossy` records the four ways in which an event can
be lost; `ViewFollowsJournal` says that there is no fifth.

### MemoryOutbox and the code

`Register` is `append_pending` and the spawn of `_run_outbox_op`; `GetSlot`,
`HandlerReturns`, `HandlerRaises`, `RecordAttempt`, `RecordDone` and their failures are
that function from its semaphore to its `finally`. `Scan` is
`_replay_pending_outbox`, `ScanNothing` the same with nothing pending, when the
file may be compacted. The file is what it says of each operation (`pending`,
`attempts`, `done`) and whether it ends in half a line (`fragment`).

## 3. Runs

| run | constants | shows | about |
|---|---|---|---|
| `replay_safety` | 1 page, 2 connections, queue 2, window 3, 3 events, 1 note, 1 fault, 1 cancelled commit | 5 invariants and the refinement of `RoomTimeline` | 3.1 million states |
| `turn_safety` | 2 messages, 2 administrators, 3 commands, 1 failure, 1 stop | 6 invariants of turns, final statuses, the refinement of `RoomQueue` | 3.5 million states |
| `turn_liveness` | 2 messages, 1 administrator, 2 commands, 1 failure | turns end, candidates are taken | 132 000 states |
| `director` | 3 visitors, queue 3, 1 remembered target, ages to 2 | the order of classes, few are passed, visitors are answered | 164 000 states |
| `submission` | 1 visitor, 2 connections, 1 request id, 2 messages, 1 crash | idempotency, bans, retention, the refinements of `RoomLog` and `RoomQueue` | 2.1 million states |
| `speech` | 2 replies of 2 segments, 2 attempts, 3 threads, 2 faults | whose audio is published; what costs a thread; speeches end | 173 000 states |
| `memory_journal` | 2 view files, 3 events, 1 rescan, 2 crashes, 1 failure | views follow the journal; losses and the startup order | 2.4 million states |
| `memory_outbox` | 2 ops, 2 attempts, 1 slot, 3 crashes, 2 failed writes | accepted work is kept; dead letters; slots | 221 000 states |

Four more runs expect a violation; see section 6. Type correctness is proved for every
module with a `TypeOK` (section 5) and is not checked once more by the runs.

Bounds. A queue of two can overflow during a bootstrap (ready, reset, snapshot
and event compete for two places) and during live fan-out. Three events allow a
replay, an overflow and a later event that reveals the gap; two connections allow
a page to be on its second connection while the handler of the first is still
tearing down. A page that finds a gap stays connected in `replay_safety`, drops what
follows, and may still be hidden, dropped, timed out or restarted with the process.
There a page stands at most exactly at the window (three of three events; a fresh page,
at 0, in a full room too), never beyond it; `replay_lost_snapshot` has a window of one,
where `CaughtUpShowsRetained` fails (section 6), and the proofs have windows of every
size. One fault is
enough to separate a page from the server at every step; the budget is shared by
drops, timeouts, page hides, commit failures and restarts, so each of them is
explored alone and combined with overflow, retention and cancelled publications.
Two messages and two administrators give a turn, its successor, a double
cancellation and a cancellation racing with a pause.

One visitor is enough for submissions, whose locks, rows and bans are per visitor;
what visitors share, the cleanup, treats each on its own, and the theorems hold
for any number. Two messages of one request id are a message, its expiry and its
successor. Two replies of two segments make the worker's queue alternate between
them; two faults are an error and a second one while its leftovers are still
queued. Three events over two files are one event behind the marker, one that
overtakes a replay and one appended during a frozen rescan; one rescan is enough to
use up the bound. Two crashes hit a writer and then the replay that repairs it.
Two attempts and three crashes take an op to its threshold, lose its done line and
scan it again; one slot and a locale that may wait for ever decide whether the
slot is free for the others.

Three visitors over one remembered target are a penalised author and two who are
not; an age of two and a penalty of one let waiting outweigh the penalty, as 30 and 25
do; the queue of three is refilled for ever, so that the liveness property is about an
endless stream of messages.

`MaxSeq`, `MaxNotes`, `MaxFaults`, `MaxOrphans`, `MaxCommands`, `MaxStops`,
`MaxMessages`, `MaxEvents`, `MaxQueue` and `MaxCrashes` bound only the environment.

`CHECK_DEADLOCK FALSE` except in `submission`, which cannot stop: a quiet room
ends once these budgets are used up, which is no fault of the code; that nobody
waits for ever is the business of the liveness properties.

Symmetry is used only in runs without liveness: connections are interchangeable
slots; messages and administrators are never compared.

## 4. Fairness

`RoomReplay!Fairness` serves only the run `replay_no_resync`, whose counterexample must
not be a system that has simply stopped: ready tasks of the event loop run, database calls return,
writers and the page's reconnect timer make progress (weak fairness). A waiting
bootstrap gets the event lock although publications keep taking it: asyncio.Lock
is granted in arrival order (strong fairness of `LockForReplay`). Nothing is
assumed of new publications, retention, faults or slow writers.

`RoomTurn!Fairness`: the worker and the turn take their steps, database calls
return, the model call ends because `wait_for` bounds it (`Generated` or
`GenerationFails`), a waiting turn gets the generation lock (arrival order), a
bootstrap ends within its send timeouts. `BeginTurn` is strongly fair: each
resume wakes a waiting worker, even if the room is paused again at once.
Administrators need not act, failures need not happen.

`RoomDirector!Fairness`: turns end, which `RoomTurn` shows (`TurnsEnd`), and the worker
takes the next one, in a room that is not paused for good.

`RoomSpeech!Fairness`: deadlines pass (`StartTimesOut`, `ReadTimesOut`), calls in a
free executor thread return, and a task that waits for the synthesis lock gets it
in the order of arrival (strong fairness of `Synthesize`). Nothing is assumed of
the provider, which may be silent for ever.

`MemoryOutbox!Fairness`: tasks and file writes are scheduled. Handlers need not end: a
locale may wait for an order that never comes, and the signals of a turn wait for the
maintenance fence for as long as it is up (`post_turn.py:197-223, 247-266`), with a slot
in their hands. `WaitingIsServed` therefore says what the slots promise: if the handlers
that hold slots come back, everything waiting is served, whatever the locales do.

## 5. Proofs

Checked by TLAPS for every value of the constants, under `ConstantsAssumption`,
`TurnConstants`, `DirectorConstants`, `SubmissionConstants`, `JournalConstants` and
`OutboxConstants`
(distinct special values, natural bounds, a non-empty queue and window, an owner
for every connection).

`RoomReplay_proofs`. `LockInv` is type correctness together with
`EventLockExclusion` and `ActiveAfterReplay`. Type correctness includes
`Len(queue[k]) <= QueueSize`: the lemmas `FanoutType`, `PutType`, `TakeType` show
that every way to put a frame respects the bound. The exclusion is inductive with
the types: each lock step sets lock and stage together, and `Restart` clears both.

`RoomHandover_proofs` extends it to everything `replay_safety` checks: the hand-over
from replay to live fan-out, and that `RoomReplay` implements `RoomTimeline`
(`PagesFollowTimeline`). The invariant is about `Stream(k)`, the frames queued on a
connection followed by those its handler is about to queue, as they will meet the
page:

* `StreamInv` - positions in the stream rise from the page's own (`Ahead`,
  `Rising`); once the replay is complete, no event comes before one that the page
  needs first (`Covered`) and the stream brings everything broadcast and retained
  (`Complete`); before that, the handler's `after` is what the page will have
  reached (`Promised`); a page that shows events and has forgotten its position is
  about to be given a snapshot (`Guided`);
* `WiringInv` - every page has a connection of its own, and a handler outside the
  bootstrap has nothing left to queue;
* `BoundInv` - no page and no frame is beyond the log, nor has it reached the event
  being published, which is therefore new to everyone;
* `StuckInv` - the alternative to `StreamInv` for a page that has found a gap and is still
  connected: it is at 0, and all it is still sent are notes and events it drops;
* `RetainedInv` - a reset clears only what has expired, and what is retained up to a
  page's position is shown. It is kept by every step that does not reset a page for
  missing more than the window (`NoWindowReset`). `RetainedIsShown` says: as long as no
  bootstrap meets such a page, in a room of any age, `CaughtUpShowsRetained` holds. The
  hypothesis is about pages, not about the log, and it is needed: section 6.

`DeliverKeeps` (a page takes a frame) and `PublishKeeps` (a publication adds one) are
where the proof has its weight; the steps of the bootstrap move frames inside the
stream and leave it as it is.

`RoomTurn_proofs`. The properties of turns are far from inductive. `TurnInv` adds
what ties the pieces of state together:

* `CandidatesFresh` - a message that still waits has never been started;
* `HeldInv` - only the candidate the worker holds can be running, and a
  process that is down runs nothing;
* `ProgressInv` - `phase` and `row` are determined, up to failures, by `pc`;
* `CallsInv` - an orphaned database call belongs to a turn that has ended or is
  in its handler, and a `completed` row, or a call that would write one, implies
  a committed reply;
* `SilentBeforeTry` - before its try block a turn has shown nothing but `stream.started`;
* `NothingLost` - without failures and stops, no orphaned call can add a reply
  to an interrupted turn: the phase `finalizing` is set under the lock before the
  first call that could;
* `PauseCancels` - from the moment a pause is applied until it has been carried
  out, a request is still on its way that will cancel a cancellable turn.

One lemma per part shows that every action preserves it (`CancelFrame` gathers
what a cancellation can change); `TurnInvariant` combines them, and the theorems
listed in `PROJECT.json` follow from it.

How turns end needs more (`EndsInv`): a worker between two turns holds nothing; until
the process is stopped, a turn in its handler still has the row `generating`, and the
only database call that a cancellation can leave behind is the insertion of a row
that is not there yet (`RowOfTheTurn`). Hence nobody can come back to a status that is
final (`StatusesAreFinal`), although `finish_turn` overwrites whatever it finds.
`QueueStep` maps every step to one of `RoomQueue` or to none (`WorkerServesQueue`); a step
that changes `life` is a `ProcessEnds`. That nothing is served twice (`NoSecondTurn`) is
then a fact about `RoomQueue` alone.

`RoomDirector_proofs`. `FewArePassed` follows from `PassedFits`: a candidate has been
passed at most as often as turns have gone to others since its author's last one, which
is how far the author has moved back in the memory of recent targets. The step is
`PassedIsRecent`: since ages fall along the queue, only the penalty puts an earlier
candidate of the same kind behind a later one. `MentionsFirst` compares the bounds of
the scores of the three classes.

`RoomSubmission_proofs`. `SubmissionInv` adds to types and properties

* `RowsMatch` - a message has the idempotency row that names it, and a row names
  what was sent for its request; a row may outlive its message;
* `CleanupKeepsPairs` - a cleanup in progress deletes no row whose message it
  leaves, although its selection is some steps old when it deletes. This is what
  makes `OneMessagePerRequest` survive retention;
* `EnqueueOwns` - between commit and enqueue exactly one handler has a message, and
  the director has not seen it;
* `BanReaches` - a connection past the status check of a banned visitor is about
  to be listed, about to be dropped, or had passed before;
* `MemoryIsLater` - memory of a deleted visitor, or of one whose deletion has
  begun, came after it was forgotten.

`LogStep` maps `Commit` to `Accept`, every answer to `Answer` and the cleanup to `Expire`.
It rests on `RowsMatch`: a kept message of the request would have a row, which `Commit`
has just looked for in vain, and a row that is answered again names a message of its
request (`TellIsAnswer`). In the other `QueueStep`, `EnqueueOwns` makes the message of
`Enqueue` new to the director.

`RoomSpeech_proofs`. `RecordingsAreOwn` is about what a file contains at the end; the
invariant says where each chunk is on its way there:

* `AskedInv` - every speech in a queue, at the worker or cut short is the one a task is
  reading or an earlier one (`Old`), so that the next one is new to both queues;
* `OrderInv` - a speech is asked for once, and answered by rising chunks and then its
  end, with nothing behind the end;
* `CleanInv` - as long as no error was read, the queues hold only the present speech.
  This is all that untagged audio has to go by, and why `spoilt` is needed after one;
* `ReadingInv` - the chunks the task has, and those still queued, are all the worker has
  made of the speech; behind its end, all there will ever be;
* `PartsInv` - the same of the segments that are done.

`Answers` (the worker adds an item) and `AudioReading` (the task takes one) carry the
proof; `HeardIsOwn` joins a segment to those before it.

`LostThreadsArePaid` needs one fact more, `LossInv`: a reading task whose speech is
neither asked for nor at the worker nor ended in the response queue (`Unanswered`) got
there by a failure that no lost thread has been charged with yet. Its timeout then
charges it. Neither skipping foreign items nor replacing the worker makes a speech
unanswered.

`MemoryOutbox_proofs`. `OutboxInv` says per operation that a task counts the
attempts on disk and one that may still call its handler is below the threshold
(`CountInv`), that closing follows settling and the attempt that led to it is on
disk (`CloseInv`), that a scan without failed writes leaves nothing at the threshold
(`ThresholdInv`), and that what was promised is on disk (`PromiseInv`).
`GivenUpOpsDoNotRun` is an action property proved from it.

`MemoryJournal_proofs` proves every property of its passing run, along three
inductive invariants on top of the types (`TypeInv`):

* `OrderInv` - with the startup order and while nothing fails, the views lack at
  most the latest event, either the replay or the live writers are at work, never
  both, and nothing is lost. It gives `StartupOrderSuffices`,
  `ReplayNeverRegresses` and `ViewsShown`;
* `MarkerInv`, under all failures - events rise in the journal, the tail a replay
  holds lies behind the place it has reached, and whoever has the journal's lock
  moves the marker to the last event or the next one of the tail. It gives
  `SentinelMovesForward`;
* `LossInv`, under all failures and crashes - there is a place in the journal
  behind which every difference between journal and views lies: the marker's when
  no replay runs, the one the replay has reached otherwise. Unless one of the named
  losses happened, every step keeps it, and a replay that ends at the end of the
  journal leaves no difference: `ViewFollowsJournal`.

The lock invariants `EventLockExclusion`, `ActiveAfterReplay` and `GenerationLockHeld`,
and the types of `RoomDirector`,
are proved and no longer checked by runs of their own, and so are the types of the other
modules: `ReplayTypes` contains the bound of a page's queue, `OutboxTypes` that no slot
outlives its task.

Left to TLC: all liveness (`TurnsEnd`, `CandidatesAreTaken`,
`SpeechEnds`, `WaitingIsServed`, `VisitorsAreAnswered`), which is out of the prover's reach,
and with it the promise that what `RoomQueue` is given is served at all.

## 6. Where the code and its documents differ

With a run:

| run | property | what happens |
|---|---|---|
| `replay_lost_snapshot` | `CaughtUpShowsRetained` | connection lost between `replay.reset` and `room.snapshot` beyond the window: the page returns with an empty timeline |
| `replay_no_resync` | `GapsAreResynced` | a page that finds a gap calls `socket.close(1012)` (`app.js:208`); browsers accept only 1000 and 3000-4999, the exception is swallowed at `app.js:420`, the socket stays open, no reconnect follows and every later event is dropped (Design, line 421: request a resync). Only a lost connection, a reload or a hidden page ends this |
| `memory_archive_crash` | `ArchiveIsHealed` | a crash between `record_and_save` of an archive event and the shard's append is not healed at the next boot (`evidence_flow.py:297`): the marker is already past the event |
| `retention_orphan` | `NoOrphanedMemory` | a turn recorded between the forgetting and the deletion of its visitor leaves memory nobody can address (`docs/design/retention-policy.md:33`) |

Seen while modelling, visible in the models, without a run of their own:

* `hub.py:139` - a writer that times out unregisters its connection and leaves the
  socket open (Design, line 590: disconnect): such a page receives nothing more.
* `service.py:178` - after a restart `start()` creates an empty director; Design 5.2
  step 4 (line 266) and line 589 have it evaluate again the visitor messages that were
  not consumed. What waited is never answered (`QueuedOnce`: `unanswered`; `RoomTurn`:
  `Start` with an empty queue). `RoomQueue` leaves both open, so that a program that
  followed the design would conform to it as the code does.
* `service.py:673` - a cancellation while `stream.started` is broadcast, before the try
  block: pages show a stream that gets neither text nor `stream.failed`, its generation
  stays in `_active_generations`, bootstraps send it as a `stream.snapshot`
  (`room_websocket_router.py:156-168`) and the proactive loop is silent (line 617) until
  the next turn (`StaleActiveHasNoText`).
* `service.py:510` - if `set_setting` fails, the controls are applied in memory and
  nothing is cancelled; a repeated pause finds the room paused and cancels nothing either.
* `service.py:240` - a visitor banned while his connection is being set up keeps a
  connection that had passed the status check (`BanRevokes`: `early`).
* `outbox_infra.py:222` - only locales leave their slot while they wait; the handler of a
  turn keeps one while it waits for the maintenance fence, so two of them stop the replay
  for as long as the fence is up (`WaitingIsServed`).
* `director.py:72` - waiting adds at most 30 points, a mention 100: the floor that
  Design, line 193, asks to rise stops below the mentions, and as long as these keep
  arriving other messages wait (`ClassesKeepTheirOrder`, `MentionsFirst`).
* `speech.py:219` - `wait_for` leaves the executor's thread in `Queue.get` of a queue that
  `_stop_worker` drops: a speech that is never answered costs a thread for good (`stuck`).
  The room's database calls need the same threads; Design, line 587, has text go on
  when TTS fails.
* `service.py:562` - cancelling a turn during `turn.started` leaves a committed
  event unbroadcast (Design 5.2: one critical section); pages find the gap, and are then
  not resynced (`replay_no_resync`). So does a cancellation while `broadcast` closes slow
  connections (`hub.py:109`): those behind the first stay active without the event.
* `service.py:178` - `start()` does not mark unfinished turns (Design, line 264).
* `service.py:1025` - `shutdown()` may cancel a turn inside its commit (comment at
  758): the reply commits, the row says interrupted.
* `service.py:826` - a second cancellation aborts the handler of the first: no
  `stream.failed`, row stays `generating` (Design, line 304).
* `event_log.py:234`, `outbox.py:115` - nothing terminates a half-written line
  before the next append; the next record is lost with it (`lossy = {"torn"}`,
  `swallowed`).
* `event_log.py:629-656` - the documented limitation: a live write during a replay
  that pauses moves the marker past events nobody will replay (`"overtaken"`).
* `evidence_handlers.py:353` - a corrupt shard is to be retried at the next boot;
  the handler returns `False` and the marker moves past the event (`"skipped"`).
* `speech.py:232` - audio without a tag that a provider still makes after an error
  is taken by the next speech (`spoilt`).
* `store.py:593` - an idempotency row may outlive its message by the time between
  their two timestamps; a repeat then ends the handler.

## 7. Plan and what is not modelled

Done: `RoomReplay` with `RoomClient` and `RoomTimeline`, `RoomTurn`, `RoomDirector`,
`RoomSubmission` (with retention and bans), `RoomLog` and `RoomQueue`, `RoomSpeech`,
`MemoryJournal`, `MemoryOutbox`, and proofs about all of them.

Next: an abstract specification of the outbox, as a list of work that is done at least
once, and of the journal, as views that lag behind a log, each with its refinement; two
overlapping calls of `connect()`, and submissions during an orderly shutdown.

Not modelled, and why:

* submissions during an orderly shutdown, two overlapping calls of the page's
  `connect()`, the turns table in retention: listed as hazards without a property;
* outbox operations of a type without a handler, which stay pending by design;
* what the memory stores extract, score and merge, prompts, configuration tables,
  localisation, asset handling and rendering: data without a protocol. They are
  most of the repository's lines, which is why the models cover a small share of
  it;
* the model client and the TTS providers other than `gptsovits`: external protocols.
