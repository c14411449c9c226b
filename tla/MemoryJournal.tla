----------------------------- MODULE MemoryJournal -----------------------------
(***************************************************************************)
(* The event journal of one character's memory, the view files it is the   *)
(* source of truth for, and the marker that says how far the views follow  *)
(* it.                                                                     *)
(*                                                                         *)
(*   memory/event_log.py           EventLog, Reconciler                    *)
(*   memory/evidence_handlers.py   what a replayed event does to a view    *)
(*   memory/reflection/evidence_flow.py, memory/persona/facts.py           *)
(*                                 the live writers                        *)
(*   app/memory_server/runtime.py  reconcile before any live writer        *)
(*                                                                         *)
(* An entry stands for what one kind of event writes whole: of a real      *)
(* entry its evidence fields, or its status; payloads carry only theirs.   *)
(* Its value is the number of the last event applied to it.  An "archive"  *)
(* event takes it out of its view, and a shard file keeps it; that a real  *)
(* archive takes all parts of an entry at once is left out.                *)
(*                                                                         *)
(* A view file has one live writer at a time (the manager's asyncio lock): *)
(* it reads its snapshot, then enters record_and_save, which runs under    *)
(* the journal's lock.  Files are replaced atomically, the journal is      *)
(* appended to; a failed append may leave half a line.                     *)
(*                                                                         *)
(* Left out: compaction, which nothing calls; restoring archived subjects; *)
(* corrupt view files, which only make a handler raise (ApplyFails).       *)
(***************************************************************************)
EXTENDS Naturals, Sequences, FiniteSets, FiniteSetsExt

CONSTANTS
  Files,       \* view files: reflections.json, persona.json
  Entries,     \* entries of the views
  FileOf,      \* the file an entry belongs to
  Gone,        \* the value of an entry that its view does not have; no entry
  MaxRescans,  \* _MAX_FROZEN_RESCANS
  MaxEvents,   \* bound: appended events
  MaxCrashes,  \* bound: crashes
  MaxFaults    \* bound: failed writes and handlers

ASSUME JournalConstants ==
  /\ FileOf \in [Entries -> Files]
  /\ {MaxRescans, MaxEvents, MaxCrashes, MaxFaults} \subseteq Nat
  /\ Gone \notin Nat /\ Gone \notin Entries
  /\ {"free", "replay"} \cap Files = {}

VARIABLES
  process,   \* "up" or "down"
  ordered,   \* reconciled by runtime.py, before live writers resume
  journal,   \* events.ndjson: the lines that can be parsed
  fragment,  \* the file ends in half a line
  sentinel,  \* events_applied.json: last_applied_event_id, 0 for null
  view,      \* the view files
  shard,     \* entries in the archive shards
  lock,      \* EventLog's lock: "free", "replay" or the file being written
  writer,    \* per file: its live writer
  replay,    \* Reconciler.areconcile
  written,   \* number of events appended so far
  crashes,   \* used budget
  failed,    \* history: the kinds of write and handler that have failed
  healthy,   \* history: none of them since the process started
  lossy      \* history: what may have cost an event, see LossKinds

diskVars    == <<journal, fragment, sentinel, view, shard, written>>
historyVars == <<failed, healthy, lossy>>
vars == <<process, ordered, diskVars, lock, writer, replay, crashes, historyVars>>

Kinds  == {"set", "archive"}
Values == 0 .. MaxEvents \cup {Gone}
Events == [id : 1 .. MaxEvents, kind : Kinds, entry : Entries]
FaultKinds == {"append", "fragment", "save", "mark", "shard", "apply", "corrupt", "advance"}

\* "snapshot": a replay changed a file under a loaded snapshot.
\* "overtaken": the marker was moved past an event that is not in its view and
\* that no replay in progress is going to apply.
\* "torn": a line was written behind half a line.
\* "skipped": a replay moved past an event whose handler had changed nothing.
LossKinds == {"snapshot", "overtaken", "torn", "skipped"}

Idle    == [at |-> "idle", snap |-> [e \in Entries |-> 0], kind |-> "set",
            entry |-> Gone, id |-> 0]
Unborn  == [at |-> "off", expected |-> 0, tail |-> <<>>, frozen |-> FALSE,
            rescans |-> MaxRescans]

TypeOK ==
  /\ process \in {"up", "down"} /\ ordered \in BOOLEAN
  /\ journal \in Seq(Events) /\ fragment \in BOOLEAN
  /\ sentinel \in 0 .. MaxEvents
  /\ view \in [Entries -> Values] /\ shard \subseteq Entries
  /\ lock \in Files \cup {"free", "replay"}
  /\ writer \in [Files -> [at : {"idle", "loaded", "appended", "saved", "archiving"},
                           snap : [Entries -> Values], kind : Kinds,
                           entry : Entries \cup {Gone}, id : 0 .. MaxEvents]]
  /\ replay \in [at : {"off", "sentinel", "read", "apply", "advance", "probe", "done", "paused"},
                 expected : 0 .. MaxEvents, tail : Seq(Events),
                 frozen : BOOLEAN, rescans : 0 .. MaxRescans]
  /\ written \in 0 .. MaxEvents /\ crashes \in 0 .. MaxCrashes
  /\ failed \subseteq FaultKinds /\ healthy \in BOOLEAN /\ lossy \subseteq LossKinds

Init ==
  /\ process = "down" /\ ordered \in BOOLEAN
  /\ journal = <<>> /\ fragment = FALSE /\ sentinel = 0
  /\ view = [e \in Entries |-> 0] /\ shard = {}
  /\ lock = "free" /\ writer = [f \in Files |-> Idle] /\ replay = Unborn
  /\ written = 0 /\ crashes = 0 /\ failed = {} /\ healthy = TRUE /\ lossy = {}

\* A failure of kind k.  Each kind is met at most once, and MaxFaults in all.
Fault(k) ==
  /\ Cardinality(failed) < MaxFaults /\ k \notin failed
  /\ failed' = failed \cup {k} /\ healthy' = FALSE

Lossy(k, condition) == lossy' = IF condition THEN lossy \cup {k} ELSE lossy

\* Where the event id stands in the journal, 0 if it is not there.
Position(id) ==
  LET found == {i \in DOMAIN journal : journal[i].id = id}
  IN  IF found = {} THEN 0 ELSE Max(found)

\* Variant with a fault: the marker is ignored.
SinceTheStart(id) == journal

\* read_since: everything if the marker is null or its event cannot be found.
Since(id) == SubSeq(journal, Position(id) + 1, Len(journal))

\* What the journal says about entry e: the events applied in file order.  An
\* event about an archived entry changes nothing.
Recorded(e) ==
  LET about == {i \in DOMAIN journal : journal[i].entry = e}
  IN  IF \E i \in about : journal[i].kind = "archive" THEN Gone
      ELSE IF about = {} THEN 0 ELSE journal[Max(about)].id

ViewIsJournal == \A e \in Entries : view[e] = Recorded(e)

InFlight == replay.at \in {"read", "apply", "advance", "probe"}

-----------------------------------------------------------------------------
(***************************************************************************)
(* The live writers: read the view, then record_and_save, and for archive  *)
(* events the shard.                                                       *)
(***************************************************************************)
\* Variant with a fault: the outbox is resumed while reconciliations run.
MayWriteFromBoot == process = "up"

\* runtime.py awaits every reconciliation before it resumes the outbox.  Any
\* other caller of areconcile meets live writers, at the latest once it awaits
\* the read of the marker.
MayWrite ==
  /\ process = "up"
  /\ replay.at \in IF ordered THEN {"done", "paused"}
                   ELSE {"read", "apply", "advance", "probe", "done", "paused"}

LoadView(f, k, e) ==
  /\ MayWrite /\ writer[f].at = "idle" /\ FileOf[e] = f
  /\ view[e] # Gone
  /\ writer' = [writer EXCEPT ![f] =
                  [at |-> "loaded", snap |-> [x \in Entries |-> IF FileOf[x] = f THEN view[x] ELSE 0],
                   kind |-> k, entry |-> e, id |-> 0]]
  /\ UNCHANGED <<process, ordered, diskVars, lock, replay, crashes, historyVars>>

\* Variant with a fault: the marker is written with the event, before the view.
AppendAndMark(f) ==
  /\ writer[f].at = "loaded" /\ lock = "free" /\ written < MaxEvents
  /\ written' = written + 1
  /\ journal' = IF fragment THEN journal
                ELSE Append(journal, [id |-> written', kind |-> writer[f].kind,
                                      entry |-> writer[f].entry])
  /\ fragment' = FALSE
  /\ Lossy("torn", fragment)
  /\ lock' = f /\ sentinel' = written'
  /\ writer' = [writer EXCEPT ![f].at = "appended", ![f].id = written']
  /\ UNCHANGED <<process, ordered, view, shard, replay, crashes, failed, healthy>>

\* The line is written and fsynced.  Behind half a line it cannot be parsed.
AppendEvent(f) ==
  /\ writer[f].at = "loaded" /\ lock = "free" /\ written < MaxEvents
  /\ written' = written + 1
  /\ journal' = IF fragment THEN journal
                ELSE Append(journal, [id |-> written', kind |-> writer[f].kind,
                                      entry |-> writer[f].entry])
  /\ fragment' = FALSE
  /\ Lossy("torn", fragment)
  /\ lock' = f
  /\ writer' = [writer EXCEPT ![f].at = "appended", ![f].id = written']
  /\ UNCHANGED <<process, ordered, sentinel, view, shard, replay, crashes, failed, healthy>>

\* write or fsync raises: nothing, half a line or the whole line is on disk.
AppendFails(f) ==
  /\ writer[f].at = "loaded" /\ lock = "free" /\ written < MaxEvents
  /\ \/ /\ Fault("append")
        /\ \/ UNCHANGED <<journal, fragment, written>>
           \/ /\ written' = written + 1
              /\ journal' = IF fragment THEN journal
                            ELSE Append(journal, [id |-> written', kind |-> writer[f].kind,
                                                  entry |-> writer[f].entry])
              /\ fragment' = FALSE
     \/ Fault("fragment") /\ fragment' = TRUE /\ UNCHANGED <<journal, written>>
  /\ Lossy("torn", fragment)
  /\ writer' = [writer EXCEPT ![f] = Idle]
  /\ UNCHANGED <<process, ordered, sentinel, view, shard, lock, replay, crashes>>

\* The whole file is replaced by the snapshot with the change.
SaveView(f) ==
  /\ writer[f].at = "appended"
  /\ view' = [e \in Entries |->
                IF FileOf[e] # f THEN view[e]
                ELSE IF e # writer[f].entry THEN writer[f].snap[e]
                ELSE IF writer[f].kind = "archive" THEN Gone ELSE writer[f].id]
  /\ writer' = [writer EXCEPT ![f].at = "saved"]
  /\ UNCHANGED <<process, ordered, journal, fragment, sentinel, shard, written,
                 lock, replay, crashes, historyVars>>

\* The file cannot be replaced, or the cloud-save gate has closed.
SaveFails(f) ==
  /\ writer[f].at = "appended" /\ Fault("save")
  /\ writer' = [writer EXCEPT ![f] = Idle] /\ lock' = "free"
  /\ UNCHANGED <<process, ordered, diskVars, replay, crashes, lossy>>

\* _write_sentinel_unlocked at the end of record_and_save.
MarkApplied(f) ==
  /\ writer[f].at = "saved"
  /\ sentinel' = writer[f].id
  /\ lock' = "free"
  /\ writer' = [writer EXCEPT ![f] = IF @.kind = "archive" THEN [@ EXCEPT !.at = "archiving"]
                                     ELSE Idle]
  /\ Lossy("overtaken", ~ViewIsJournal /\ ~InFlight)
  /\ UNCHANGED <<process, ordered, journal, fragment, view, shard, written,
                 replay, crashes, failed, healthy>>

MarkFails(f) ==
  /\ writer[f].at = "saved" /\ Fault("mark")
  /\ writer' = [writer EXCEPT ![f] = Idle] /\ lock' = "free"
  /\ UNCHANGED <<process, ordered, diskVars, replay, crashes, lossy>>

\* aappend_to_shard, outside the journal's lock.
AppendShard(f) ==
  /\ writer[f].at = "archiving"
  /\ shard' = shard \cup {writer[f].entry}
  /\ writer' = [writer EXCEPT ![f] = Idle]
  /\ UNCHANGED <<process, ordered, journal, fragment, sentinel, view, written,
                 lock, replay, crashes, historyVars>>

AppendShardFails(f) ==
  /\ writer[f].at = "archiving" /\ Fault("shard")
  /\ writer' = [writer EXCEPT ![f] = Idle]
  /\ UNCHANGED <<process, ordered, diskVars, lock, replay, crashes, lossy>>

-----------------------------------------------------------------------------
(***************************************************************************)
(* Reconciler.areconcile and EventLog.apply_and_advance.                   *)
(***************************************************************************)
ReadSentinel ==
  /\ replay.at = "sentinel"
  /\ replay' = [replay EXCEPT !.at = "read", !.expected = sentinel]
  /\ UNCHANGED <<process, ordered, diskVars, lock, writer, crashes, historyVars>>

ReadTail ==
  /\ replay.at = "read" /\ lock = "free"
  /\ replay' = [replay EXCEPT !.at = "apply", !.tail = Since(replay.expected)]
  /\ UNCHANGED <<process, ordered, diskVars, lock, writer, crashes, historyVars>>

\* Variant with a fault: the marker is not compared.
NoConflict == FALSE

Conflict == ~replay.frozen /\ sentinel # replay.expected

\* SentinelConflictError: read the tail again and never move the marker.
MeetConflict ==
  /\ replay.at = "apply" /\ replay.tail # <<>> /\ lock = "free" /\ Conflict
  /\ replay' = [replay EXCEPT !.at = "read", !.frozen = TRUE]
  /\ UNCHANGED <<process, ordered, diskVars, lock, writer, crashes, historyVars>>

\* The handler has returned.  A frozen replay goes on, another one has the
\* marker to move first.
HandlerReturned(ev) ==
  IF replay.frozen
  THEN /\ replay' = [replay EXCEPT !.expected = ev.id, !.tail = Tail(@)]
       /\ UNCHANGED lock
  ELSE /\ replay' = [replay EXCEPT !.at = "advance"]
       /\ lock' = "replay"

\* The handler of one event: load, change and save its view; an archived
\* entry is put into the shard first.
ApplyEvent ==
  /\ replay.at = "apply" /\ replay.tail # <<>> /\ lock = "free" /\ ~Conflict
  /\ LET ev   == Head(replay.tail)
         file == FileOf[ev.entry]
     IN  /\ view' = IF ev.kind = "archive" THEN [view EXCEPT ![ev.entry] = Gone]
                    ELSE IF view[ev.entry] = Gone THEN view
                    ELSE [view EXCEPT ![ev.entry] = ev.id]
         /\ shard' = IF ev.kind = "archive" THEN shard \cup {ev.entry} ELSE shard
         /\ Lossy("snapshot", writer[file].at = "loaded" /\ view' # view)
         /\ HandlerReturned(ev)
  /\ UNCHANGED <<process, ordered, journal, fragment, sentinel, written, writer,
                 crashes, failed, healthy>>

\* The shard cannot be read.  The handler leaves the entry where it is and
\* returns FALSE, which areconcile does not tell from an event without effect.
ShardUnreadable ==
  /\ replay.at = "apply" /\ replay.tail # <<>> /\ lock = "free" /\ ~Conflict
  /\ LET ev == Head(replay.tail)
     IN  /\ ev.kind = "archive" /\ Fault("corrupt")
         /\ Lossy("skipped", view[ev.entry] # Gone)
         /\ HandlerReturned(ev)
  /\ UNCHANGED <<process, ordered, diskVars, writer, crashes>>

\* The handler raises, or the event's type has no handler.
ApplyFails ==
  /\ replay.at = "apply" /\ replay.tail # <<>> /\ lock = "free" /\ ~Conflict
  /\ Fault("apply")
  /\ Lossy("overtaken", replay.frozen)
  /\ replay' = [replay EXCEPT !.at = "paused"]
  /\ UNCHANGED <<process, ordered, diskVars, lock, writer, crashes>>

\* Still in the critical section of ApplyEvent.
AdvanceSentinel ==
  /\ replay.at = "advance"
  /\ sentinel' = Head(replay.tail).id
  /\ lock' = "free"
  /\ replay' = [replay EXCEPT !.at = "apply", !.expected = sentinel', !.tail = Tail(@)]
  /\ UNCHANGED <<process, ordered, journal, fragment, view, shard, written, writer,
                 crashes, historyVars>>

AdvanceFails ==
  /\ replay.at = "advance" /\ Fault("advance")
  /\ lock' = "free"
  /\ replay' = [replay EXCEPT !.at = "paused"]
  /\ UNCHANGED <<process, ordered, diskVars, writer, crashes, lossy>>

EndOfTail ==
  /\ replay.at = "apply" /\ replay.tail = <<>>
  /\ replay' = [replay EXCEPT !.at = IF replay.frozen THEN "probe" ELSE "done"]
  /\ Lossy("overtaken", Conflict /\ ~ViewIsJournal)
  /\ UNCHANGED <<process, ordered, diskVars, lock, writer, crashes, failed, healthy>>

\* A frozen replay looks for events appended since it read the tail.
ProbeTail ==
  /\ replay.at = "probe" /\ lock = "free"
  /\ LET extra == Since(replay.expected)
         more  == extra # <<>> /\ replay.rescans > 0
     IN  /\ replay' = IF more THEN [replay EXCEPT !.at = "apply", !.tail = extra,
                                                  !.rescans = @ - 1]
                      ELSE [replay EXCEPT !.at = "done"]
         /\ Lossy("overtaken", extra # <<>> /\ ~more)
  /\ UNCHANGED <<process, ordered, diskVars, lock, writer, crashes, failed, healthy>>

-----------------------------------------------------------------------------
(***************************************************************************)
(* The process.                                                            *)
(***************************************************************************)
Boot ==
  /\ process = "down"
  /\ process' = "up"
  /\ replay' = [Unborn EXCEPT !.at = "sentinel"]
  /\ healthy' = TRUE
  /\ UNCHANGED <<ordered, diskVars, lock, writer, crashes, failed, lossy>>

Crash ==
  /\ process = "up" /\ crashes < MaxCrashes
  /\ process' = "down" /\ crashes' = crashes + 1
  /\ lock' = "free" /\ writer' = [f \in Files |-> Idle] /\ replay' = Unborn
  /\ Lossy("overtaken", InFlight /\ sentinel # replay.expected)
  /\ UNCHANGED <<ordered, diskVars, failed, healthy>>

Write(f) ==
  \/ \E k \in Kinds, e \in Entries : LoadView(f, k, e)
  \/ AppendEvent(f) \/ AppendFails(f)
  \/ SaveView(f) \/ SaveFails(f)
  \/ MarkApplied(f) \/ MarkFails(f)
  \/ AppendShard(f) \/ AppendShardFails(f)

Reconcile ==
  \/ ReadSentinel \/ ReadTail \/ MeetConflict \/ ApplyEvent \/ ApplyFails \/ ShardUnreadable
  \/ AdvanceSentinel \/ AdvanceFails \/ EndOfTail \/ ProbeTail

Next == Boot \/ Crash \/ Reconcile \/ \E f \in Files : Write(f)

Spec == Init /\ [][Next]_vars

-----------------------------------------------------------------------------
Quiet ==
  /\ process = "up" /\ replay.at = "done" /\ lock = "free"

\* Whatever fails and whenever the process dies, once a replay without failures
\* has ended the views show what the journal recorded: an event is lost only if
\* a live writer moved the marker past it ("known limitation", event_log.py:
\* 629-649), saved a snapshot older than the replay, or wrote behind half a line,
\* or if its shard could not be read (evidence_handlers.py:368-373).
\* In particular the conflict check and the frozen rescans of areconcile bring
\* in what was queued when a live writer overtook the replay.
ViewFollowsJournal == Quiet /\ healthy /\ lossy = {} => ViewIsJournal

\* None of these happens while nothing fails: awaiting every reconciliation
\* before live writers resume (runtime.py:675-700) is enough.
StartupOrderSuffices == ordered /\ failed = {} => lossy = {}

\* A replay at startup never puts an older value over a newer one.
Regresses == \E e \in Entries : view[e] # Gone /\ view'[e] # Gone /\ view'[e] < view[e]
ReplayNeverRegresses == [][ordered /\ failed = {} => ~Regresses]_vars

\* The marker never goes back in the journal, although a replay and the live
\* writers set it and event ids have no order (event_log.py:350-363).
SentinelMovesForward ==
  [][lossy' \cap {"torn"} = {} => Position(sentinel)' >= Position(sentinel)]_vars

-----------------------------------------------------------------------------
\* evidence_flow.py:297, facts.py:990: a crash between record_and_save and the
\* append to the shard is healed by the next boot.  The marker is already past
\* the event, so no boot replays it.
ArchiveIsHealed ==
  Quiet /\ ordered /\ failed = {} /\ (\A f \in Files : writer[f].at # "archiving") =>
    \A e \in Entries : view[e] = Gone => e \in shard
=============================================================================
