--------------------------- MODULE RoomReplay_proofs ---------------------------
(***************************************************************************)
(* The locking discipline of RoomReplay, for any number of pages and       *)
(* connections, any queue size and replay window, and any number of        *)
(* events, faults and cancelled publications.                              *)
(***************************************************************************)
EXTENDS RoomReplay, Integers, TLAPS

-----------------------------------------------------------------------------
(***************************************************************************)
(* Types of what pages, queues and replays compute.                        *)
(***************************************************************************)
LEMMA FrameTypesOK ==
  /\ ReadyFrame \in Frame /\ NoteFrame \in Frame
  /\ \A n \in Nat : ResetFrame(n) \in Frame /\ SnapshotFrame(n) \in Frame /\ EventFrame(n) \in Frame
  BY DEF Frame, FrameTypes, ReadyFrame, NoteFrame, ResetFrame, SnapshotFrame, EventFrame

LEMMA HandleFrameType ==
  ASSUME NEW cl \in ClientState, NEW f \in Frame
  PROVE  HandleFrame(cl, f) \in ClientState
<1>1. ApplyEvent(cl, f) \in ClientState
  <2>1. [cl EXCEPT !.lastSeq = f.seq, !.shown = @ \cup {f.seq}] \in ClientState
    BY DEF ClientState, Frame
  <2>2. [cl EXCEPT !.lastSeq = 0, !.resyncing = TRUE] \in ClientState
    BY DEF ClientState
  <2> QED BY <2>1, <2>2 DEF ApplyEvent
<1>2. \A n \in Nat, reflects \in SUBSET Nat : ResetReplay(cl, n, reflects) \in ClientState
  BY DEF ResetReplay, ClientState
<1>3. f.seq \in Nat /\ {} \in SUBSET Nat /\ 1 .. f.seq \in SUBSET Nat
  BY DEF Frame
<1>4. [cl EXCEPT !.resyncing = FALSE] \in ClientState
  BY DEF ClientState
<1> QED
  BY <1>1, <1>2, <1>3, <1>4 DEF HandleFrame, Frame, FrameTypes

LEMMA EventsAfterType ==
  ASSUME NEW n \in Nat, last \in Nat, oldest \in Nat, Window \in Nat
  PROVE  EventsAfter(n) \in Seq(Frame)
<1> DEFINE first == Larger(n + 1, oldest)
           final == Smaller(last, first + Window - 1)
<1>1. first \in Nat /\ final \in Int
  BY DEF Larger, Smaller
<1>2. CASE final < first
  BY <1>2 DEF EventsAfter
<1>3. CASE ~(final < first)
  <2>1. final - first + 1 \in Nat
    BY <1>1, <1>3
  <2>2. \A i \in 1 .. final - first + 1 : EventFrame(first + i - 1) \in Frame
    BY <1>1, FrameTypesOK
  <2>3. [i \in 1 .. final - first + 1 |-> EventFrame(first + i - 1)] \in Seq(Frame)
    BY <2>1, <2>2
  <2> QED BY <1>3, <2>3 DEF EventsAfter
<1> QED BY <1>2, <1>3

LEMMA EnqueueType ==
  ASSUME TypeOK, NEW f \in Frame, Enqueue(f)
  PROVE  /\ queue' \in [Conns -> Seq(Frame)]
         /\ \A k \in Conns : Len(queue'[k]) <= QueueSize
  BY ConstantsAssumption DEF TypeOK, Enqueue, Broadcast, Overfull

LEMMA FanoutType ==
  ASSUME TypeOK, NEW f \in Frame, Fanout(f)
  PROVE  /\ queue' \in [Conns -> Seq(Frame)]
         /\ \A k \in Conns : Len(queue'[k]) <= QueueSize
         /\ hub' \in [Conns -> {"absent", "inactive", "active"}]
         /\ open' \in [Conns -> BOOLEAN]
  BY EnqueueType DEF TypeOK, Fanout

LEMMA PutType ==
  ASSUME TypeOK, NEW k \in Conns, NEW f \in Frame, Len(queue[k]) < QueueSize,
         queue' = [queue EXCEPT ![k] = Append(@, f)]
  PROVE  queue' \in [Conns -> Seq(Frame)] /\ \A j \in Conns : Len(queue'[j]) <= QueueSize
<1>1. Append(queue[k], f) \in Seq(Frame) /\ Len(Append(queue[k], f)) <= QueueSize
  BY ConstantsAssumption DEF TypeOK
<1> QED BY <1>1 DEF TypeOK

LEMMA TakeType ==
  ASSUME TypeOK, NEW k \in Conns, queue[k] # << >>, queue' = [queue EXCEPT ![k] = Tail(@)]
  PROVE  queue' \in [Conns -> Seq(Frame)] /\ \A j \in Conns : Len(queue'[j]) <= QueueSize
<1>1. Tail(queue[k]) \in Seq(Frame) /\ Len(Tail(queue[k])) <= QueueSize
  BY ConstantsAssumption DEF TypeOK
<1> QED BY <1>1 DEF TypeOK

LEMMA ReceiveType ==
  ASSUME TypeOK, NEW c \in Clients, NEW k \in Conns, queue[k] # << >>, Receive(c, k)
  PROVE  client' \in [Clients -> ClientState]
<1>1. Head(queue[k]) \in Frame
  BY DEF TypeOK
<1>2. HandleFrame(client[c], Head(queue[k])) \in ClientState
  BY <1>1, HandleFrameType DEF TypeOK
<1> QED BY <1>2 DEF Receive, TypeOK

LEMMA IncomingQueue ==
  ASSUME TypeOK, NEW c \in Clients, Incoming(c) # << >>
  PROVE  /\ sock[c] \in Conns /\ open[sock[c]] /\ hub[sock[c]] # "absent"
         /\ queue[sock[c]] # << >> /\ Incoming(c) = queue[sock[c]]
  BY DEF Incoming, TypeOK

-----------------------------------------------------------------------------
(***************************************************************************)
(* Types.                                                                  *)
(***************************************************************************)
LEMMA ReplayTypeStep == TypeOK /\ [Next]_vars => TypeOK'
<1> SUFFICES ASSUME TypeOK, [Next]_vars PROVE TypeOK'
  OBVIOUS
<1> USE ConstantsAssumption DEF TypeOK, logVars, lockVars, pageVars, hubVars, bootVars
<1>1. CASE PublisherStep
  <2>1. CASE StartPublish BY <2>1 DEF StartPublish
  <2>2. CASE Commit BY <2>2 DEF Commit
  <2>3. CASE CommitFails BY <2>3 DEF CommitFails, Fault
  <2>4. CASE Publish
    BY <2>4, FrameTypesOK, FanoutType DEF Publish
  <2>5. CASE CancelPublish BY <2>5 DEF CancelPublish
  <2>6. CASE OrphanCommits BY <2>6 DEF OrphanCommits
  <2>7. CASE BroadcastNote
    BY <2>7, FrameTypesOK, FanoutType DEF BroadcastNote
  <2>8. CASE CancelFanout
    BY <2>8, FrameTypesOK, EnqueueType DEF CancelFanout
  <2> QED BY <1>1, <2>1, <2>2, <2>3, <2>4, <2>5, <2>6, <2>7, <2>8 DEF PublisherStep
<1>2. ASSUME NEW k \in Conns, HandlerStep(k) PROVE TypeOK'
  <2> USE DEF Stages, Replaying
  <2>1. CASE LockForReplay(k) BY <2>1 DEF LockForReplay
  <2>2. CASE ReadRoom(k)
    <3>1. ResetTarget(k) \subseteq Nat
      BY DEF ResetTarget, ReplayFrom
    <3>2. outbox' \in [Conns -> Seq(Frame)]
      <4>1. <<ReadyFrame>> \in Seq(Frame)
        BY FrameTypesOK
      <4>2. \A n \in Nat : <<ReadyFrame, ResetFrame(n)>> \in Seq(Frame)
        BY FrameTypesOK
      <4>3. \/ outbox' = [outbox EXCEPT ![k] = <<ReadyFrame>>]
            \/ \E n \in ResetTarget(k) : outbox' = [outbox EXCEPT ![k] = <<ReadyFrame, ResetFrame(n)>>]
        BY <2>2 DEF ReadRoom
      <4>4. ASSUME NEW frames \in Seq(Frame), outbox' = [outbox EXCEPT ![k] = frames]
            PROVE  outbox' \in [Conns -> Seq(Frame)]
        BY <4>4
      <4>5. CASE outbox' = [outbox EXCEPT ![k] = <<ReadyFrame>>]
        BY <4>1, <4>4, <4>5
      <4>6. ASSUME NEW n \in ResetTarget(k), outbox' = [outbox EXCEPT ![k] = <<ReadyFrame, ResetFrame(n)>>]
            PROVE  outbox' \in [Conns -> Seq(Frame)]
        BY <3>1, <4>2, <4>4, <4>6
      <4> QED BY <4>3, <4>5, <4>6
    <3>3. stage' = [stage EXCEPT ![k] = IF NeedsSnapshot(k) THEN "history" ELSE "events"]
      BY <2>2 DEF ReadRoom
    <3>4. stage' \in [Conns -> Stages]
      BY <3>3
    <3>5. UNCHANGED <<logVars, published, lockVars, pageVars, hubVars, after, faults, notes>>
      BY <2>2 DEF ReadRoom
    <3> QED BY <3>2, <3>4, <3>5
  <2>3. CASE SendFrame(k)
    <3>1. Head(outbox[k]) \in Frame /\ Tail(outbox[k]) \in Seq(Frame)
      BY <2>3 DEF SendFrame
    <3>2. queue' \in [Conns -> Seq(Frame)] /\ \A j \in Conns : Len(queue'[j]) <= QueueSize
      BY <2>3, <3>1, PutType DEF SendFrame
    <3> QED BY <2>3, <3>1, <3>2 DEF SendFrame
  <2>4. CASE SendTimeout(k) BY <2>4 DEF SendTimeout, AbortReplay, Fault, NoFault
  <2>5. CASE ReadHistory(k) BY <2>5, FrameTypesOK DEF ReadHistory
  <2>6. CASE ReadEvents(k) 
    <3>1. EventsAfter(after[k]) \in Seq(Frame)
      BY EventsAfterType
    <3> QED BY <2>6, <3>1 DEF ReadEvents
  <2>7. CASE Activate(k) 
    <3>1. queue' \in [Conns -> Seq(Frame)] /\ \A j \in Conns : Len(queue'[j]) <= QueueSize
      BY <2>7, FrameTypesOK, PutType DEF Activate
    <3>2. notes' \in Nat
      BY <2>7 DEF Activate
    <3> QED BY <2>7, <3>1, <3>2 DEF Activate
  <2>8. CASE ActivateFails(k) BY <2>8 DEF ActivateFails, AbortReplay
  <2>9. CASE HandlerExit(k) BY <2>9 DEF HandlerExit
  <2>10. CASE WriterBreaks(k) 
    <3>1. queue' \in [Conns -> Seq(Frame)] /\ \A j \in Conns : Len(queue'[j]) <= QueueSize
      BY <2>10, TakeType DEF WriterBreaks
    <3> QED BY <2>10, <3>1 DEF WriterBreaks
  <2> QED
    BY <1>2, <2>1, <2>2, <2>3, <2>4, <2>5, <2>6, <2>7, <2>8, <2>9, <2>10 DEF HandlerStep
<1>3. ASSUME NEW c \in Clients, PageStep(c) PROVE TypeOK'
  <2>1. ASSUME NEW k \in Conns, Connect(c, k) PROVE TypeOK'
    BY <2>1 DEF Connect, ClientState, Stages
  <2>2. CASE Deliver(c) 
    <3>1. queue' \in [Conns -> Seq(Frame)] /\ \A j \in Conns : Len(queue'[j]) <= QueueSize
      BY <2>2, IncomingQueue, TakeType DEF Deliver
    <3>2. client' \in [Clients -> ClientState]
      BY <2>2, IncomingQueue, ReceiveType DEF Deliver
    <3> QED BY <2>2, <3>1, <3>2 DEF Deliver
  <2>3. CASE WriterTimeout(c) 
    <3>1. queue' \in [Conns -> Seq(Frame)] /\ \A j \in Conns : Len(queue'[j]) <= QueueSize
      BY <2>3, IncomingQueue, TakeType DEF WriterTimeout
    <3>2. client' \in [Clients -> ClientState]
      BY <2>3, IncomingQueue, ReceiveType DEF WriterTimeout
    <3>3. faults' \in Nat
      BY <2>3 DEF WriterTimeout, Fault
    <3> QED BY <2>3, <3>1, <3>2, <3>3 DEF WriterTimeout
  <2>4. CASE SocketClosed(c) BY <2>4 DEF SocketClosed
  <2>5. CASE PageHide(c) 
    <3>1. client' \in [Clients -> ClientState]
      BY <2>5 DEF PageHide, ClientState
    <3>2. open' \in [Conns -> BOOLEAN] /\ faults' \in Nat
      BY <2>5 DEF PageHide, Fault
    <3> QED BY <2>5, <3>1, <3>2 DEF PageHide
  <2>6. CASE PageShow(c) BY <2>6 DEF PageShow, ClientState
  <2> QED BY <1>3, <2>1, <2>2, <2>3, <2>4, <2>5, <2>6 DEF PageStep
<1>4. ASSUME NEW k \in Conns, NetworkDrop(k) PROVE TypeOK'
  BY <1>4 DEF NetworkDrop, Fault
<1>5. CASE Age BY <1>5 DEF Age
<1>6. CASE CleanupExpired BY <1>6 DEF CleanupExpired
<1>7. CASE Restart BY <1>7 DEF Restart, Fault, Stages
<1>8. CASE UNCHANGED vars BY <1>8 DEF vars
<1> QED
  BY <1>1, <1>2, <1>3, <1>4, <1>5, <1>6, <1>7, <1>8 DEF Next

-----------------------------------------------------------------------------
(***************************************************************************)
(* The event lock.                                                         *)
(***************************************************************************)
LockInv == TypeOK /\ EventLockExclusion /\ ActiveAfterReplay

LEMMA LockStep == LockInv /\ [Next]_vars => (EventLockExclusion /\ ActiveAfterReplay)'
<1> SUFFICES ASSUME LockInv, [Next]_vars PROVE (EventLockExclusion /\ ActiveAfterReplay)'
  OBVIOUS
<1> USE ConstantsAssumption
    DEF LockInv, TypeOK, EventLockExclusion, ActiveAfterReplay, Replaying,
        logVars, lockVars, pageVars, hubVars, bootVars
<1>1. CASE PublisherStep
  <2>1. CASE StartPublish BY <2>1 DEF StartPublish
  <2>2. CASE Commit BY <2>2 DEF Commit
  <2>3. CASE CommitFails BY <2>3 DEF CommitFails
  <2>4. CASE Publish BY <2>4 DEF Publish, Fanout
  <2>5. CASE CancelPublish BY <2>5 DEF CancelPublish
  <2>6. CASE OrphanCommits BY <2>6 DEF OrphanCommits
  <2>7. CASE BroadcastNote BY <2>7 DEF BroadcastNote, Fanout
  <2>8. CASE CancelFanout BY <2>8 DEF CancelFanout
  <2> QED BY <1>1, <2>1, <2>2, <2>3, <2>4, <2>5, <2>6, <2>7, <2>8 DEF PublisherStep
<1>2. ASSUME NEW k \in Conns, HandlerStep(k) PROVE (EventLockExclusion /\ ActiveAfterReplay)'
  <2>1. CASE LockForReplay(k) BY <2>1 DEF LockForReplay
  <2>2. CASE ReadRoom(k)
    <3>1. stage' = [stage EXCEPT ![k] = IF NeedsSnapshot(k) THEN "history" ELSE "events"]
      BY <2>2 DEF ReadRoom
    <3>2. stage[k] = "room" /\ UNCHANGED <<lockVars, hub>>
      BY <2>2 DEF ReadRoom
    <3> QED BY <3>1, <3>2
  <2>3. CASE SendFrame(k) BY <2>3 DEF SendFrame
  <2>4. CASE SendTimeout(k) BY <2>4 DEF SendTimeout, AbortReplay
  <2>5. CASE ReadHistory(k) BY <2>5 DEF ReadHistory
  <2>6. CASE ReadEvents(k) BY <2>6 DEF ReadEvents
  <2>7. CASE Activate(k) BY <2>7 DEF Activate
  <2>8. CASE ActivateFails(k) BY <2>8 DEF ActivateFails, AbortReplay
  <2>9. CASE HandlerExit(k) BY <2>9 DEF HandlerExit
  <2>10. CASE WriterBreaks(k) BY <2>10 DEF WriterBreaks
  <2> QED
    BY <1>2, <2>1, <2>2, <2>3, <2>4, <2>5, <2>6, <2>7, <2>8, <2>9, <2>10 DEF HandlerStep
<1>3. ASSUME NEW c \in Clients, PageStep(c) PROVE (EventLockExclusion /\ ActiveAfterReplay)'
  <2>1. ASSUME NEW k \in Conns, Connect(c, k) PROVE (EventLockExclusion /\ ActiveAfterReplay)'
    BY <2>1 DEF Connect
  <2>2. CASE WriterTimeout(c)
    BY <2>2, IncomingQueue DEF WriterTimeout
  <2>3. CASE Deliver(c) \/ SocketClosed(c) \/ PageHide(c) \/ PageShow(c)
    BY <2>3 DEF Deliver, SocketClosed, PageHide, PageShow
  <2> QED BY <1>3, <2>1, <2>2, <2>3 DEF PageStep
<1>4. CASE Age \/ CleanupExpired \/ \E k \in Conns : NetworkDrop(k)
  BY <1>4 DEF Age, CleanupExpired, NetworkDrop
<1>5. CASE Restart BY <1>5 DEF Restart
<1>6. CASE UNCHANGED vars BY <1>6 DEF vars
<1> QED
  BY <1>1, <1>2, <1>3, <1>4, <1>5, <1>6 DEF Next

THEOREM LockInvariant == Spec => []LockInv
<1>1. Init => LockInv
  <2> SUFFICES ASSUME Init PROVE LockInv
    OBVIOUS
  <2> USE ConstantsAssumption DEF Init
  <2>1. client \in [Clients -> ClientState]
    BY DEF NewPage, ClientState
  <2>2. TypeOK
    BY <2>1 DEF TypeOK, Stages
  <2> QED BY <2>2 DEF LockInv, EventLockExclusion, ActiveAfterReplay, Replaying
<1>2. LockInv /\ [Next]_vars => LockInv'
  BY ReplayTypeStep, LockStep DEF LockInv
<1> QED BY <1>1, <1>2, PTL DEF Spec

\* The types of the log, the hub, the handlers and the pages.
THEOREM ReplayTypes == Spec => []TypeOK
<1>1. LockInv => TypeOK BY DEF LockInv
<1> QED BY <1>1, LockInvariant, PTL

\* room_event_lock serializes commit, live publish and connection replay:
\* nobody is inside one of these sections without the lock, however
\* publications are cancelled, replays time out and processes restart.
THEOREM ReplaysExcludePublications == Spec => []EventLockExclusion
<1>1. LockInv => EventLockExclusion BY DEF LockInv
<1> QED BY <1>1, LockInvariant, PTL

\* hub.activate is the last step of a replay: no connection takes part in
\* live fan-out before its replay is complete, or after it was aborted.
THEOREM LiveOnlyAfterReplay == Spec => []ActiveAfterReplay
<1>1. LockInv => ActiveAfterReplay BY DEF LockInv
<1> QED BY <1>1, LockInvariant, PTL
=============================================================================
