------------------------------ MODULE RoomClient ------------------------------
(***************************************************************************)
(* The timeline half of the browser client, frontend/public-room/app.js:   *)
(* the record of what one page has applied, and handleEvent as a function  *)
(* from that record and one frame to the next record.                      *)
(*                                                                         *)
(* A frame is reduced to its type and its room_seq.  Frames that carry no  *)
(* room_seq (presence, queue, cursor, stream deltas) are "note": they      *)
(* occupy the connection's queue but never move the timeline.              *)
(*                                                                         *)
(* `shown' is the set of room_seq values the rendered timeline reflects.   *)
(* A room.snapshot taken at room_seq n reflects every event up to n.       *)
(***************************************************************************)
EXTENDS Naturals

FrameTypes == {"ready", "reset", "snapshot", "event", "note"}

Frame == [type : FrameTypes, seq : Nat]

ReadyFrame       == [type |-> "ready",    seq |-> 0]
NoteFrame        == [type |-> "note",     seq |-> 0]
ResetFrame(n)    == [type |-> "reset",    seq |-> n]
SnapshotFrame(n) == [type |-> "snapshot", seq |-> n]
EventFrame(n)    == [type |-> "event",    seq |-> n]

ClientState ==
  [lastSeq : Nat, shown : SUBSET Nat, resyncing : BOOLEAN, stopped : BOOLEAN]

\* The `state' object of a freshly loaded page.
NewPage ==
  [lastSeq |-> 0, shown |-> {}, resyncing |-> FALSE, stopped |-> FALSE]

-----------------------------------------------------------------------------
\* event.room_seq !== state.lastSeq + 1, for an event that is not a duplicate.
IsGap(cl, f) == f.type = "event" /\ f.seq > cl.lastSeq + 1

\* requestFullResync() returns at once on a page that is already resyncing.
\* Otherwise it clears lastSeq; that its close(1012) fails is in Receive.
StartsResync(cl, f) == IsGap(cl, f) /\ ~cl.resyncing /\ ~cl.stopped

\* Variant with a fault: the old timeline is not cleared.
ResetReplayKeepsView(cl, n, reflects) ==
  [cl EXCEPT !.lastSeq = n, !.shown = @ \cup reflects]

ResetReplay(cl, n, reflects) == [cl EXCEPT !.lastSeq = n, !.shown = reflects]

\* Variant with a fault: the gap check is gone.
ApplyEventPastGap(cl, f) ==
  IF f.seq > cl.lastSeq THEN [cl EXCEPT !.lastSeq = f.seq, !.shown = @ \cup {f.seq}] ELSE cl

ApplyEvent(cl, f) ==
  IF f.seq = cl.lastSeq + 1
    THEN [cl EXCEPT !.lastSeq = f.seq, !.shown = @ \cup {f.seq}]
    ELSE IF StartsResync(cl, f)
           THEN [cl EXCEPT !.lastSeq = 0, !.resyncing = TRUE]
           ELSE cl

HandleFrame(cl, f) ==
  CASE f.type = "ready"    -> [cl EXCEPT !.resyncing = FALSE]
    [] f.type = "reset"    -> ResetReplay(cl, f.seq, {})
    [] f.type = "snapshot" -> ResetReplay(cl, f.seq, 1 .. f.seq)
    [] f.type = "event"    -> ApplyEvent(cl, f)
    [] f.type = "note"     -> cl

=============================================================================
