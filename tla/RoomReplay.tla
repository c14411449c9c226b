------------------------------ MODULE RoomReplay ------------------------------
(***************************************************************************)
(* The room's persisted event log, the hub that fans events out, the       *)
(* WebSocket handler that bootstraps a connection, and the pages that      *)
(* apply what they receive.                                                *)
(*                                                                         *)
(*   main_logic/room/store.py                 the log (last_seq, events)   *)
(*   main_logic/room/service.py               append + broadcast, the lock *)
(*   main_logic/room/hub.py                   queues, writers, overflow    *)
(*   main_routers/room_websocket_router.py    bootstrap and receive loop   *)
(*   frontend/public-room/app.js              connect, reconnect, resync   *)
(*                                                                         *)
(* One action is one stretch of code between two awaits that matter: a     *)
(* database call, a queue put that can block, the acquisition of the       *)
(* per-room event lock, the arrival of a frame.                            *)
(***************************************************************************)
EXTENDS RoomClient, Sequences, FiniteSets

CONSTANTS
  Clients,      \* pages
  Conns,        \* WebSocket connections; a closed one is reused
  NoConn,       \* state.socket === null
  NoOne,        \* the event lock is free
  Publisher,    \* the task that holds the lock to append and broadcast
  QueueSize,    \* per_connection_queue_size
  Window,       \* the 1000 events a bootstrap replays at most
  MaxSeq,       \* bound: events ever committed
  MaxFaults,    \* bound: drops, timeouts, page hides, failures, restarts
  MaxOrphans,   \* bound: publications cancelled while their commit runs
  MaxNotes      \* bound: frames without room_seq

ASSUME ConstantsAssumption ==
  /\ NoConn \notin Conns
  /\ NoOne \notin Conns \cup {Publisher}
  /\ Publisher \notin Conns
  /\ QueueSize \in Nat \ {0}
  /\ Window \in Nat \ {0}
  /\ {MaxSeq, MaxFaults, MaxOrphans, MaxNotes} \subseteq Nat

VARIABLES
  last,       \* rooms.last_seq
  oldest,     \* the oldest retained event; last + 1 when none is left
  aged,       \* events up to this one are older than the retention cutoff
  published,  \* history: the events whose broadcast was completed
  lock,       \* holder of _room_event_locks[room]
  pubStage,   \* what the Publisher holding the lock is doing
  pubSeq,     \* the event it committed
  orphans,    \* commit threads whose awaiting task was cancelled
  client,     \* per page: lastSeq, shown, resyncing, stopped
  sock,       \* per page: state.socket
  open,       \* per connection: the WebSocket is open
  hub,        \* per connection: absent from _rooms, inactive or active
  queue,      \* per connection: RoomConnection.queue
  stage,      \* per connection: progress of the WebSocket handler
  after,      \* per connection: the handler's after_seq
  outbox,     \* per connection: frames the handler is about to put
  faults,     \* faults injected so far
  notes       \* frames without room_seq injected so far

logVars   == <<last, oldest, aged>>
lockVars  == <<lock, pubStage, pubSeq, orphans>>
pageVars  == <<client, sock>>
hubVars   == <<hub, queue, open>>
bootVars  == <<stage, after, outbox>>
vars == <<logVars, published, lockVars, pageVars, hubVars, bootVars, faults, notes>>

Replaying == {"room", "history", "events", "activate"}
Stages    == {"free", "waiting", "live", "closing"} \cup Replaying

TypeOK ==
  /\ last \in Nat /\ oldest \in Nat \ {0} /\ aged \in Nat
  /\ published \subseteq Nat
  /\ lock \in Conns \cup {NoOne, Publisher}
  /\ pubStage \in {"idle", "committing", "publishing"}
  /\ pubSeq \in Nat /\ orphans \in Nat
  /\ client \in [Clients -> ClientState]
  /\ sock \in [Clients -> Conns \cup {NoConn}]
  /\ open \in [Conns -> BOOLEAN]
  /\ hub \in [Conns -> {"absent", "inactive", "active"}]
  /\ queue \in [Conns -> Seq(Frame)]
  /\ \A k \in Conns : Len(queue[k]) <= QueueSize
  /\ stage \in [Conns -> Stages]
  /\ after \in [Conns -> Nat]
  /\ outbox \in [Conns -> Seq(Frame)]
  /\ faults \in Nat /\ notes \in Nat

Init ==
  /\ last = 0 /\ oldest = 1 /\ aged = 0
  /\ published = {}
  /\ lock = NoOne /\ pubStage = "idle" /\ pubSeq = 0 /\ orphans = 0
  /\ client = [c \in Clients |-> NewPage]
  /\ sock = [c \in Clients |-> NoConn]
  /\ open = [k \in Conns |-> FALSE]
  /\ hub = [k \in Conns |-> "absent"]
  /\ queue = [k \in Conns |-> << >>]
  /\ stage = [k \in Conns |-> "free"]
  /\ after = [k \in Conns |-> 0]
  /\ outbox = [k \in Conns |-> << >>]
  /\ faults = 0 /\ notes = 0

-----------------------------------------------------------------------------
(***************************************************************************)
(* Environment faults share one budget, so that every run is finite and    *)
(* the faults eventually stop.                                             *)
(***************************************************************************)
Fault   == faults < MaxFaults /\ faults' = faults + 1
NoFault == faults' = faults

Broadcast == {k \in Conns : hub[k] = "active"}
Overfull  == {k \in Broadcast : Len(queue[k]) >= QueueSize}

\* put_nowait on the queue of every active connection that has room.
Enqueue(f) ==
  queue' = [k \in Conns |-> IF k \in Broadcast \ Overfull
                              THEN Append(queue[k], f) ELSE queue[k]]

\* Variant with a fault: a full queue loses the frame and stays connected.
FanoutDropsSilently(f) == Enqueue(f) /\ UNCHANGED <<hub, open>>

\* RoomConnectionHub.broadcast: put the frame on every active connection's
\* queue; unregister and close the connections whose queue is full.
Fanout(f) ==
  /\ Enqueue(f)
  /\ hub'  = [k \in Conns |-> IF k \in Overfull THEN "absent" ELSE hub[k]]
  /\ open' = [k \in Conns |-> open[k] /\ k \notin Overfull]

-----------------------------------------------------------------------------
(***************************************************************************)
(* Publication of one persisted event, under the event lock.               *)
(***************************************************************************)
StartPublish ==
  /\ lock = NoOne /\ last + orphans < MaxSeq
  /\ lock' = Publisher /\ pubStage' = "committing"
  /\ UNCHANGED <<logVars, published, pubSeq, orphans, pageVars, hubVars, bootVars, faults, notes>>

\* _next_seq_on and _insert_event_on commit in one transaction.
Commit ==
  /\ pubStage = "committing"
  /\ last' = last + 1 /\ pubSeq' = last + 1
  /\ pubStage' = "publishing"
  /\ UNCHANGED <<oldest, aged, published, lock, orphans, pageVars, hubVars, bootVars, faults, notes>>

\* The transaction rolls back and the exception leaves the critical section.
CommitFails ==
  /\ pubStage = "committing" /\ Fault
  /\ pubStage' = "idle" /\ lock' = NoOne
  /\ UNCHANGED <<logVars, published, pubSeq, orphans, pageVars, hubVars, bootVars, notes>>

Publish ==
  /\ pubStage = "publishing"
  /\ Fanout(EventFrame(pubSeq))
  /\ published' = published \cup {pubSeq}
  /\ pubStage' = "idle" /\ pubSeq' = 0 /\ lock' = NoOne
  /\ UNCHANGED <<logVars, orphans, pageVars, bootVars, faults, notes>>

\* The publishing task is cancelled inside asyncio.to_thread: the locks are
\* released, the thread goes on.
CancelPublish ==
  /\ pubStage = "committing" /\ orphans < MaxOrphans
  /\ orphans' = orphans + 1
  /\ pubStage' = "idle" /\ lock' = NoOne
  /\ UNCHANGED <<logVars, published, pubSeq, pageVars, hubVars, bootVars, faults, notes>>

OrphanCommits ==
  /\ orphans > 0
  /\ orphans' = orphans - 1 /\ last' = last + 1
  /\ UNCHANGED <<oldest, aged, published, lock, pubStage, pubSeq, pageVars, hubVars, bootVars, faults, notes>>

\* The publishing task is cancelled while broadcast closes the slow connections
\* one by one: all other queues have the frame; of the slow ones some are gone,
\* one may be unregistered but not closed, the rest stay active without it.
CancelFanout ==
  /\ pubStage = "publishing"
  /\ Enqueue(EventFrame(pubSeq))
  /\ \E gone \in SUBSET Overfull \ {{}} : \E closed \in SUBSET gone :
       /\ Cardinality(gone \ closed) <= 1
       /\ hub'  = [k \in Conns |-> IF k \in gone THEN "absent" ELSE hub[k]]
       /\ open' = [k \in Conns |-> open[k] /\ k \notin closed]
  /\ pubStage' = "idle" /\ pubSeq' = 0 /\ lock' = NoOne
  /\ UNCHANGED <<logVars, published, orphans, pageVars, bootVars, faults, notes>>

\* Presence, queue, cursor and stream frames: no lock, no room_seq.
BroadcastNote ==
  /\ notes < MaxNotes /\ notes' = notes + 1
  /\ Fanout(NoteFrame)
  /\ UNCHANGED <<logVars, published, lockVars, pageVars, bootVars, faults>>

-----------------------------------------------------------------------------
(***************************************************************************)
(* Retention.  The cutoff lies days in the past, so the events it reaches  *)
(* are older than any bootstrap or publication in progress.                *)
(***************************************************************************)
Age ==
  /\ aged < last
  /\ lock = NoOne /\ orphans = 0
  /\ \A k \in Conns : stage[k] \in {"free", "live"}
  /\ aged' = last
  /\ UNCHANGED <<last, oldest, published, lockVars, pageVars, hubVars, bootVars, faults, notes>>

\* cleanup_expired takes neither room lock.
CleanupExpired ==
  /\ \E n \in oldest + 1 .. aged + 1 : oldest' = n
  /\ UNCHANGED <<last, aged, published, lockVars, pageVars, hubVars, bootVars, faults, notes>>

-----------------------------------------------------------------------------
(***************************************************************************)
(* The WebSocket handler.                                                  *)
(***************************************************************************)
\* connect() on the page; resolve, accept and hub.register on the server.
Connect(c, k) ==
  /\ ~client[c].stopped /\ sock[c] = NoConn
  /\ stage[k] = "free" /\ \A d \in Clients : sock[d] # k
  /\ sock' = [sock EXCEPT ![c] = k]
  /\ open' = [open EXCEPT ![k] = TRUE]
  /\ hub' = [hub EXCEPT ![k] = "inactive"]
  /\ stage' = [stage EXCEPT ![k] = "waiting"]
  /\ after' = [after EXCEPT ![k] = client[c].lastSeq]
  /\ UNCHANGED <<logVars, published, lockVars, client, queue, outbox, faults, notes>>

LockForReplay(k) ==
  /\ stage[k] = "waiting" /\ lock = NoOne
  /\ lock' = k
  /\ stage' = [stage EXCEPT ![k] = "room"]
  /\ UNCHANGED <<logVars, published, pubStage, pubSeq, orphans, pageVars, hubVars, after, outbox, faults, notes>>

ReplayFrom == oldest - 1

\* Variant with a fault: expired history resets the page to the end of the log.
ResetTargetLatest(k) ==
  IF after[k] < ReplayFrom \/ last - after[k] > Window THEN {last} ELSE {}

\* The page's position cannot be continued from the retained events.
ResetTarget(k) ==
  IF after[k] < ReplayFrom \/ after[k] > last THEN {ReplayFrom}
  ELSE IF last - after[k] > Window THEN {last}
  ELSE {}

NeedsSnapshot(k) == (after[k] = 0 /\ last > 0) \/ ResetTarget(k) # {}

\* room_snapshot, then session.ready and, where needed, replay.reset.
ReadRoom(k) ==
  /\ stage[k] = "room"
  /\ \/ /\ ResetTarget(k) = {}
        /\ outbox' = [outbox EXCEPT ![k] = <<ReadyFrame>>]
     \/ \E n \in ResetTarget(k) :
          outbox' = [outbox EXCEPT ![k] = <<ReadyFrame, ResetFrame(n)>>]
  /\ stage' = [stage EXCEPT ![k] = IF NeedsSnapshot(k) THEN "history" ELSE "events"]
  /\ UNCHANGED <<logVars, published, lockVars, pageVars, hubVars, after, faults, notes>>

\* bootstrap_send of the next frame: queue.put waits for a free slot.
SendFrame(k) ==
  /\ stage[k] \in Replaying /\ outbox[k] # << >>
  /\ Len(queue[k]) < QueueSize
  /\ queue' = [queue EXCEPT ![k] = Append(@, Head(outbox[k]))]
  /\ outbox' = [outbox EXCEPT ![k] = Tail(@)]
  /\ UNCHANGED <<logVars, published, lockVars, pageVars, hub, open, stage, after, faults, notes>>

\* The handler closes the socket, raises and leaves both critical sections.
AbortReplay(k) ==
  /\ open' = [open EXCEPT ![k] = FALSE]
  /\ stage' = [stage EXCEPT ![k] = "closing"]
  /\ outbox' = [outbox EXCEPT ![k] = << >>]
  /\ lock' = NoOne

\* bootstrap_too_slow: certain once the writer is gone, else a slow page.
SendTimeout(k) ==
  /\ stage[k] \in Replaying /\ outbox[k] # << >>
  /\ Len(queue[k]) >= QueueSize
  /\ IF hub[k] = "absent" THEN NoFault ELSE Fault
  /\ AbortReplay(k)
  /\ UNCHANGED <<logVars, published, pubStage, pubSeq, orphans, pageVars, hub, queue, after, notes>>

\* room_history_snapshot: one repeatable-read transaction.
ReadHistory(k) ==
  /\ stage[k] = "history" /\ outbox[k] = << >>
  /\ outbox' = [outbox EXCEPT ![k] = <<SnapshotFrame(last)>>]
  /\ after' = [after EXCEPT ![k] = last]
  /\ stage' = [stage EXCEPT ![k] = "events"]
  /\ UNCHANGED <<logVars, published, lockVars, pageVars, hubVars, faults, notes>>

Larger(m, n)  == IF m > n THEN m ELSE n
Smaller(m, n) == IF m < n THEN m ELSE n

\* Variant with a fault: the position itself is replayed again.
EventsAfterInclusive(seq) ==
  LET first == Larger(seq, oldest)
      final == Smaller(last, first + Window - 1)
  IN  IF final < first THEN << >>
      ELSE [i \in 1 .. final - first + 1 |-> EventFrame(first + i - 1)]

\* Retained events after a position, oldest first, at most Window of them.
EventsAfter(seq) ==
  LET first == Larger(seq + 1, oldest)
      final == Smaller(last, first + Window - 1)
  IN  IF final < first THEN << >>
      ELSE [i \in 1 .. final - first + 1 |-> EventFrame(first + i - 1)]

\* Variant with a fault: the event lock is released before activation.
ReadEventsUnlocks(k) ==
  /\ stage[k] = "events" /\ outbox[k] = << >>
  /\ outbox' = [outbox EXCEPT ![k] = EventsAfter(after[k])]
  /\ stage' = [stage EXCEPT ![k] = "activate"]
  /\ lock' = NoOne
  /\ UNCHANGED <<logVars, published, pubStage, pubSeq, orphans, pageVars, hubVars, after, faults, notes>>

ReadEvents(k) ==
  /\ stage[k] = "events" /\ outbox[k] = << >>
  /\ outbox' = [outbox EXCEPT ![k] = EventsAfter(after[k])]
  /\ stage' = [stage EXCEPT ![k] = "activate"]
  /\ UNCHANGED <<logVars, published, lockVars, pageVars, hubVars, after, faults, notes>>

\* RoomConnectionHub.activate, with or without a stream.snapshot frame.
Activate(k) ==
  /\ stage[k] = "activate" /\ outbox[k] = << >>
  /\ hub[k] # "absent"
  /\ \/ UNCHANGED <<queue, notes>>
     \/ /\ notes < MaxNotes /\ notes' = notes + 1
        /\ Len(queue[k]) < QueueSize
        /\ queue' = [queue EXCEPT ![k] = Append(@, NoteFrame)]
  /\ hub' = [hub EXCEPT ![k] = "active"]
  /\ stage' = [stage EXCEPT ![k] = "live"]
  /\ lock' = NoOne
  /\ UNCHANGED <<logVars, published, pubStage, pubSeq, orphans, pageVars, open, after, outbox, faults>>

\* Unregistered meanwhile, or no room for the stream.snapshot.
ActivateFails(k) ==
  /\ stage[k] = "activate" /\ outbox[k] = << >>
  /\ \/ hub[k] = "absent" /\ UNCHANGED notes
     \/ /\ notes < MaxNotes /\ notes' = notes + 1
        /\ Len(queue[k]) >= QueueSize
  /\ AbortReplay(k)
  /\ UNCHANGED <<logVars, published, pubStage, pubSeq, orphans, pageVars, hub, queue, after, faults>>

\* The receive loop ends with the socket; finally: unregister.
HandlerExit(k) ==
  /\ stage[k] \in {"live", "closing"} /\ ~open[k]
  /\ hub' = [hub EXCEPT ![k] = "absent"]
  /\ queue' = [queue EXCEPT ![k] = << >>]
  /\ stage' = [stage EXCEPT ![k] = "free"]
  /\ after' = [after EXCEPT ![k] = 0]
  /\ UNCHANGED <<logVars, published, lockVars, pageVars, open, outbox, faults, notes>>

-----------------------------------------------------------------------------
(***************************************************************************)
(* The writer task of a connection, and the page at its other end.         *)
(***************************************************************************)
\* The frames the writer is going to send to a page.
Incoming(c) ==
  LET k == sock[c] IN
  IF k # NoConn /\ open[k] /\ hub[k] # "absent" THEN queue[k] ELSE << >>

\* At a gap the socket stays open: a page may close with 1000 or 3000 to 4999,
\* close(1012) raises, and the message listener swallows the exception.
Receive(c, k) == client' = [client EXCEPT ![c] = HandleFrame(@, Head(queue[k]))]

Deliver(c) ==
  LET k == sock[c] IN
  /\ Incoming(c) # << >>
  /\ Receive(c, k)
  /\ queue' = [queue EXCEPT ![k] = Tail(@)]
  /\ UNCHANGED <<logVars, published, lockVars, sock, hub, open, bootVars, faults, notes>>

\* send_text takes longer than five seconds: the writer unregisters the
\* connection and ends; the frame may still reach the page.
WriterTimeout(c) ==
  LET k == sock[c] IN
  /\ Incoming(c) # << >>
  /\ Fault
  /\ \/ Receive(c, k)
     \/ UNCHANGED client
  /\ queue' = [queue EXCEPT ![k] = Tail(@)]
  /\ hub' = [hub EXCEPT ![k] = "absent"]
  /\ UNCHANGED <<logVars, published, lockVars, sock, open, bootVars, notes>>

\* send_text on a closed socket raises.
WriterBreaks(k) ==
  /\ ~open[k] /\ hub[k] # "absent" /\ queue[k] # << >>
  /\ hub' = [hub EXCEPT ![k] = "absent"]
  /\ queue' = [queue EXCEPT ![k] = Tail(@)]
  /\ UNCHANGED <<logVars, published, lockVars, pageVars, open, bootVars, faults, notes>>

NetworkDrop(k) ==
  /\ open[k] /\ Fault
  /\ open' = [open EXCEPT ![k] = FALSE]
  /\ UNCHANGED <<logVars, published, lockVars, pageVars, hub, queue, bootVars, notes>>

\* The close event: forget the socket and schedule connect().
SocketClosed(c) ==
  /\ sock[c] # NoConn /\ ~open[sock[c]]
  /\ sock' = [sock EXCEPT ![c] = NoConn]
  /\ UNCHANGED <<logVars, published, lockVars, client, hubVars, bootVars, faults, notes>>

PageHide(c) ==
  /\ ~client[c].stopped /\ Fault
  /\ client' = [client EXCEPT ![c].stopped = TRUE]
  /\ sock' = [sock EXCEPT ![c] = NoConn]
  /\ open' = [k \in Conns |-> open[k] /\ sock[c] # k]
  /\ UNCHANGED <<logVars, published, lockVars, hub, queue, bootVars, notes>>

PageShow(c) ==
  /\ client[c].stopped
  /\ client' = [client EXCEPT ![c].stopped = FALSE]
  /\ UNCHANGED <<logVars, published, lockVars, sock, hubVars, bootVars, faults, notes>>

\* The process dies: connections, tasks and locks go, the database stays.
Restart ==
  /\ Fault
  /\ lock' = NoOne /\ pubStage' = "idle" /\ pubSeq' = 0 /\ orphans' = 0
  /\ open' = [k \in Conns |-> FALSE]
  /\ hub' = [k \in Conns |-> "absent"]
  /\ queue' = [k \in Conns |-> << >>]
  /\ stage' = [k \in Conns |-> "free"]
  /\ after' = [k \in Conns |-> 0]
  /\ outbox' = [k \in Conns |-> << >>]
  /\ UNCHANGED <<logVars, published, pageVars, notes>>

-----------------------------------------------------------------------------
PublisherStep ==
  \/ StartPublish \/ Commit \/ CommitFails \/ Publish
  \/ CancelPublish \/ CancelFanout \/ OrphanCommits \/ BroadcastNote

HandlerStep(k) ==
  \/ LockForReplay(k) \/ ReadRoom(k) \/ SendFrame(k) \/ SendTimeout(k)
  \/ ReadHistory(k) \/ ReadEvents(k) \/ Activate(k) \/ ActivateFails(k)
  \/ HandlerExit(k) \/ WriterBreaks(k)

PageStep(c) ==
  \/ \E k \in Conns : Connect(c, k)
  \/ Deliver(c) \/ WriterTimeout(c) \/ SocketClosed(c) \/ PageHide(c) \/ PageShow(c)

Next ==
  \/ PublisherStep
  \/ \E k \in Conns : HandlerStep(k) \/ NetworkDrop(k)
  \/ \E c \in Clients : PageStep(c)
  \/ Age \/ CleanupExpired \/ Restart

Spec == Init /\ [][Next]_vars

-----------------------------------------------------------------------------
(***************************************************************************)
(* Properties.                                                             *)
(***************************************************************************)
\* The event lock is held by whoever is inside a critical section, and a
\* connection is in its replay exactly while it holds the lock
\* (service.room_event_lock: commit, live publish and replay exclude each
\* other), so that no event is committed and broadcast between the reads of
\* a replay and its activation.
EventLockExclusion ==
  /\ (pubStage # "idle") <=> (lock = Publisher)
  /\ \A k \in Conns : (stage[k] \in Replaying) <=> (lock = k)

\* Live fan-out reaches a connection only after its handler has finished
\* the replay: hub.activate is the last step under the lock, and a bootstrap
\* that failed leaves nothing active behind.
ActiveAfterReplay ==
  \A k \in Conns : hub[k] = "active" => stage[k] = "live"

\* The positions the frames still queued will take the page to.
Pending(k) ==
  {queue[k][i].seq : i \in {j \in DOMAIN queue[k] : queue[k][j].type \in {"event", "snapshot"}}}

\* Replay and live fan-out hand over exactly once: the page never receives
\* an event it has already applied, so handleEvent's duplicate check is never
\* needed on a single connection.
NoDuplicateDelivery ==
  \A c \in Clients :
    LET q == Incoming(c) IN
    q # << >> /\ Head(q).type = "event" => Head(q).seq > client[c].lastSeq

\* When a page first finds a gap (and asks for a resync), what it misses was
\* never broadcast to the end (the publication was cancelled) or was removed by
\* retention during the replay: a completed broadcast skips no connection that
\* stays open.
GapsAreExplained ==
  \A c \in Clients :
    LET q == Incoming(c) IN
    q # << >> /\ StartsResync(client[c], Head(q)) =>
      \A s \in client[c].lastSeq + 1 .. Head(q).seq - 1 : s \notin published \/ s < oldest

\* What the page shows is one unbroken stretch of the log that ends at
\* lastSeq: handleEvent stops at a gap instead of appending past it.  A page
\* that waits for the snapshot of a resync (lastSeq = 0) is excepted.
NoHoles ==
  \A c \in Clients :
    client[c].lastSeq = 0
      \/ \E n \in 0 .. client[c].lastSeq : client[c].shown = n + 1 .. client[c].lastSeq

\* The page found a gap on this connection: it waits for a resync that has not
\* been asked for (see Receive), and drops every event.
Stuck(c) ==
  LET k == sock[c] IN
  /\ client[c].resyncing /\ k # NoConn /\ open[k] /\ stage[k] \in {"activate", "live"}
  /\ \A i \in DOMAIN queue[k] : queue[k][i].type # "ready"

\* A registered live connection has every event that was broadcast to the end
\* and is retained either applied or queued: one that missed an event because
\* its queue was full is gone.  The page that found a gap on it is excepted.
ActiveHoldsLatest ==
  \A c \in Clients :
    LET k == sock[c] IN
    k # NoConn /\ hub[k] = "active" /\ open[k] /\ ~Stuck(c) =>
      \A s \in published :
        s < oldest \/ s <= client[c].lastSeq \/ \E m \in Pending(k) : s <= m

\* A page with nothing left to receive shows every event still retained: a
\* replay that was cut short by a lost connection is made good by the next
\* one.  Design document, section 7.4: the snapshot and the window of recent
\* messages keep a replay from being truncated.  (Holds while a page misses
\* at most Window events.  Fails beyond: replay.reset moves the position to
\* the end of the log before the snapshot that justifies it has arrived.)
CaughtUpShowsRetained ==
  \A c \in Clients :
    LET k == sock[c] IN
    k # NoConn /\ hub[k] = "active" /\ open[k] /\ queue[k] = << >>
      => oldest .. client[c].lastSeq \subseteq client[c].shown

-----------------------------------------------------------------------------
(***************************************************************************)
(* Liveness.  The event loop runs every ready task, database calls and     *)
(* writers make progress, an asyncio.Lock is granted in arrival order, and *)
(* a page's reconnect timer fires.  Nothing is assumed of faults, of new   *)
(* publications or of retention.                                           *)
(***************************************************************************)
Fairness ==
  /\ WF_vars(Commit) /\ WF_vars(Publish) /\ WF_vars(OrphanCommits)
  /\ \A k \in Conns :
       /\ SF_vars(LockForReplay(k))
       /\ WF_vars(ReadRoom(k)) /\ WF_vars(SendFrame(k)) /\ WF_vars(ReadHistory(k))
       /\ WF_vars(ReadEvents(k)) /\ WF_vars(Activate(k)) /\ WF_vars(ActivateFails(k))
       /\ WF_vars(SendTimeout(k) /\ hub[k] = "absent")
       /\ WF_vars(HandlerExit(k)) /\ WF_vars(WriterBreaks(k))
  /\ \A c \in Clients :
       /\ WF_vars(Deliver(c)) /\ WF_vars(SocketClosed(c))
       /\ WF_vars(\E k \in Conns : Connect(c, k))

FairSpec == Spec /\ Fairness

\* A page that finds a gap gets its resync: Design document, section 7.4: "a
\* client that finds a gap in room_seq stops appending and requests a resync".
\* (Fails: close(1012) raises, so no close event and no reconnect follow.)
GapsAreResynced ==
  \A c \in Clients : client[c].resyncing ~> (~client[c].resyncing \/ client[c].stopped)

-----------------------------------------------------------------------------
(***************************************************************************)
(* The pages of this system show what RoomTimeline promises.               *)
(***************************************************************************)
Timeline ==
  INSTANCE RoomTimeline WITH
    Pages <- Clients,
    committed <- last,
    position <- [c \in Clients |-> client[c].lastSeq],
    view <- [c \in Clients |-> client[c].shown]

\* Whatever the interleaving of publications, replays, overflows, dropped
\* connections and restarts, each page shows one stretch of the log that
\* grows by exactly the next event or is replaced by a snapshot.
ImplementsTimeline == Timeline!Spec
=============================================================================
