------------------------- MODULE MemoryJournal_proofs -------------------------
(***************************************************************************)
(* Theorems about MemoryJournal, for any view files and entries and any    *)
(* number of events, crashes and failures.                                 *)
(***************************************************************************)
EXTENDS MemoryJournal, WellFoundedInduction, TLAPS

\* Max of a non-empty set of indices is its greatest element.
LEMMA MaxIsGreatest ==
  ASSUME NEW n \in Nat, NEW S \in SUBSET (1 .. n), S # {}
  PROVE  Max(S) \in S /\ \A y \in S : Max(S) >= y
<1> DEFINE T == {k \in Nat : k <= n /\ n - k \in S}
<1>1. T # {}
  <2>1. PICK x \in S : TRUE
    OBVIOUS
  <2>2. n - x \in T
    BY <2>1
  <2> QED
    BY <2>2
<1> DEFINE R == {ss \in Nat \X Nat : ss[1] < ss[2]}
<1>2. IsWellFoundedOn(R, Nat)
  BY NatLessThanWellFounded DEF OpToRel
<1>3. PICK k \in T : \A j \in T : k <= j
  <2>1. T \subseteq Nat
    OBVIOUS
  <2>2. \E k \in T : \A j \in T : ~(<<j, k>> \in R)
    <3> HIDE DEF T, R
    <3> QED
      BY <1>1, <1>2, <2>1, WFMin
  <2>3. PICK k \in T : \A j \in T : ~(<<j, k>> \in R)
    BY <2>2
  <2>4. \A j \in T : k <= j
    <3> SUFFICES ASSUME NEW j \in T PROVE k <= j
      OBVIOUS
    <3>1. j \in Nat /\ k \in Nat
      BY <2>1
    <3>2. j < k => <<j, k>> \in R
      BY <3>1
    <3> HIDE DEF T, R
    <3> QED
      BY <2>3, <3>1, <3>2
  <2> QED
    BY <2>4
<1>4. n - k \in S /\ \A y \in S : n - k >= y
  <2>1. \A y \in S : n - y \in T
    OBVIOUS
  <2> QED
    BY <1>3, <2>1
<1> QED
  BY <1>4 DEF Max

LEMMA PositionType ==
  ASSUME journal \in Seq(Events), NEW id
  PROVE  Position(id) \in 0 .. Len(journal)
<1> DEFINE found == {i \in DOMAIN journal : journal[i].id = id}
<1>1. found \in SUBSET (1 .. Len(journal)) /\ Len(journal) \in Nat
  OBVIOUS
<1>2. CASE found = {}
  BY <1>2 DEF Position
<1>3. CASE found # {}
  <2>1. Max(found) \in found
    BY <1>1, <1>3, MaxIsGreatest
  <2> QED
    BY <1>1, <1>3, <2>1 DEF Position
<1> QED
  BY <1>2, <1>3

LEMMA SinceType ==
  ASSUME journal \in Seq(Events), NEW id
  PROVE  Since(id) \in Seq(Events)
  BY PositionType DEF Since

WriterType == [at : {"idle", "loaded", "appended", "saved", "archiving"},
               snap : [Entries -> Values], kind : Kinds,
               entry : Entries \cup {Gone}, id : 0 .. MaxEvents]
ReplayType == [at : {"off", "sentinel", "read", "apply", "advance", "probe", "done", "paused"},
               expected : 0 .. MaxEvents, tail : Seq(Events),
               frozen : BOOLEAN, rescans : 0 .. MaxRescans]

LEMMA Bounds == MaxEvents \in Nat /\ MaxRescans \in Nat /\ MaxCrashes \in Nat /\ MaxFaults \in Nat
  BY JournalConstants

LEMMA IdleType == Idle \in WriterType
  BY Bounds DEF Idle, WriterType, Values, Kinds

LEMMA UnbornType == Unborn \in ReplayType
  BY Bounds DEF Unborn, ReplayType

\* A replay that moves on keeps its type.
LEMMA ReplayMoves ==
  ASSUME NEW r \in ReplayType,
         NEW place \in {"off", "sentinel", "read", "apply", "advance", "probe", "done", "paused"}
  PROVE  [r EXCEPT !.at = place] \in ReplayType
  BY DEF ReplayType

\* So does a writer.
LEMMA WriterMoves ==
  ASSUME writer \in [Files -> WriterType], NEW f \in Files,
         NEW place \in {"idle", "loaded", "appended", "saved", "archiving"}
  PROVE  /\ [writer EXCEPT ![f].at = place] \in [Files -> WriterType]
         /\ [writer EXCEPT ![f] = Idle] \in [Files -> WriterType]
<1>1. [writer[f] EXCEPT !.at = place] \in WriterType
  BY DEF WriterType
<1>2. [writer EXCEPT ![f].at = place] = [writer EXCEPT ![f] = [writer[f] EXCEPT !.at = place]]
  OBVIOUS
<1> QED
  BY <1>1, <1>2, IdleType

LEMMA InitTypes == Init => TypeOK
<1> SUFFICES ASSUME Init PROVE TypeOK
  OBVIOUS
<1>1. writer \in [Files -> WriterType] /\ replay \in ReplayType
  BY IdleType, UnbornType DEF Init
<1>2. view \in [Entries -> Values] /\ shard \subseteq Entries /\ journal \in Seq(Events)
  BY Bounds DEF Init, Values
<1>3. sentinel \in 0 .. MaxEvents /\ written \in 0 .. MaxEvents /\ crashes \in 0 .. MaxCrashes
  BY Bounds DEF Init
<1> QED
  BY <1>1, <1>2, <1>3 DEF Init, TypeOK, WriterType, ReplayType

\* A failure and a loss keep the types of their histories.
LEMMA FaultType ==
  ASSUME TypeOK, NEW k \in FaultKinds, Fault(k)
  PROVE  failed' \subseteq FaultKinds /\ healthy' \in BOOLEAN
  BY DEF TypeOK, Fault

LEMMA LossyType ==
  ASSUME TypeOK, NEW k \in LossKinds, NEW c, Lossy(k, c)
  PROVE  lossy' \subseteq LossKinds
  BY DEF TypeOK, Lossy

\* Types, together with what they need: a busy writer has an entry, and a replay
\* about to move the marker has an event.
TypeInv ==
  /\ TypeOK
  /\ \A f \in Files : writer[f].at # "idle" => writer[f].entry \in Entries
  /\ replay.at = "advance" => replay.tail # <<>>

\* The journal's type when a writer's event is appended to it.
LEMMA LoadedEvent ==
  ASSUME TypeOK, NEW f \in Files, writer[f].entry \in Entries, written < MaxEvents
  PROVE  /\ written + 1 \in 1 .. MaxEvents
         /\ Append(journal, [id |-> written + 1, kind |-> writer[f].kind, entry |-> writer[f].entry])
              \in Seq(Events)
<1>1. [id |-> written + 1, kind |-> writer[f].kind, entry |-> writer[f].entry] \in Events
  BY Bounds DEF TypeOK, Events
<1> QED
  BY <1>1 DEF TypeOK, Events

LEMMA WriteTypes ==
  ASSUME TypeInv, NEW f \in Files, Write(f)
  PROVE  TypeInv'
<1> USE DEF diskVars, historyVars
<1>w. writer \in [Files -> WriterType] /\ TypeOK
  BY DEF TypeInv, TypeOK, WriterType
<1>k. {"append", "fragment", "save", "mark", "shard"} \subseteq FaultKinds /\ {"torn", "overtaken"} \subseteq LossKinds
  BY DEF FaultKinds, LossKinds
<1>b. writer[f].at # "idle" => writer[f].entry \in Entries
  BY DEF TypeInv
<1>1. ASSUME NEW k \in Kinds, NEW e \in Entries, LoadView(f, k, e) PROVE TypeInv'
  <2>1. [x \in Entries |-> IF FileOf[x] = f THEN view[x] ELSE 0] \in [Entries -> Values]
    BY <1>w, Bounds DEF TypeOK, Values
  <2>2. writer' \in [Files -> WriterType]
    BY <1>1, <1>w, <2>1, Bounds DEF LoadView, WriterType
  <2>3. TypeOK'
    BY <1>1, <1>w, <2>2 DEF LoadView, TypeOK, WriterType
  <2> QED
    BY <1>1, <1>w, <2>3 DEF LoadView, TypeInv
<1>2. ASSUME AppendEvent(f) PROVE TypeInv'
  <2>1. journal' \in Seq(Events) /\ written' \in 0 .. MaxEvents
    BY <1>2, <1>w, <1>b, LoadedEvent DEF AppendEvent, TypeOK
  <2>2. lossy' \subseteq LossKinds
    BY <1>2, <1>w, <1>k, LossyType DEF AppendEvent
  <2>3. writer' \in [Files -> WriterType]
    BY <1>2, <1>w, <2>1 DEF AppendEvent, WriterType
  <2>4. TypeOK'
    BY <1>2, <1>w, <2>1, <2>2, <2>3 DEF AppendEvent, TypeOK, WriterType
  <2> QED
    BY <1>2, <1>w, <2>4 DEF AppendEvent, TypeInv, WriterType
<1>3. ASSUME AppendFails(f) PROVE TypeInv'
  <2>1. journal' \in Seq(Events) /\ written' \in 0 .. MaxEvents /\ fragment' \in BOOLEAN
    <3>1. \/ journal' = journal /\ written' = written
          \/ /\ written' = written + 1
             /\ \/ journal' = journal
                \/ journal' = Append(journal, [id |-> written + 1, kind |-> writer[f].kind,
                                              entry |-> writer[f].entry])
      BY <1>3 DEF AppendFails
    <3>2. fragment' = fragment \/ fragment' \in {TRUE, FALSE}
      BY <1>3 DEF AppendFails
    <3>3. written < MaxEvents /\ writer[f].entry \in Entries
      BY <1>3, <1>b DEF AppendFails
    <3>4. journal \in Seq(Events) /\ written \in 0 .. MaxEvents /\ fragment \in BOOLEAN
      BY <1>w DEF TypeOK
    <3>5. fragment' \in BOOLEAN
      BY <3>2, <3>4
    <3> QED
      BY <1>w, <3>1, <3>3, <3>4, <3>5, LoadedEvent
  <2>2. lossy' \subseteq LossKinds /\ failed' \subseteq FaultKinds /\ healthy' \in BOOLEAN
    BY <1>3, <1>w, <1>k, LossyType, FaultType DEF AppendFails
  <2>3. writer' \in [Files -> WriterType]
    BY <1>3, <1>w, WriterMoves DEF AppendFails
  <2>4. TypeOK'
    BY <1>3, <1>w, <2>1, <2>2, <2>3 DEF AppendFails, TypeOK, WriterType
  <2> QED
    BY <1>3, <1>w, <2>4 DEF AppendFails, TypeInv, WriterType, Idle
<1>4. ASSUME SaveView(f) PROVE TypeInv'
  <2>1. view' \in [Entries -> Values]
    BY <1>4, <1>w, Bounds DEF SaveView, TypeOK, Values, WriterType
  <2>2. writer' \in [Files -> WriterType]
    BY <1>4, <1>w, WriterMoves DEF SaveView
  <2>3. TypeOK'
    BY <1>4, <1>w, <2>1, <2>2 DEF SaveView, TypeOK, WriterType
  <2> QED
    BY <1>4, <1>w, <2>3 DEF SaveView, TypeInv, WriterType
<1>5. ASSUME SaveFails(f) PROVE TypeInv'
  <2>1. writer' \in [Files -> WriterType]
    BY <1>5, <1>w, WriterMoves DEF SaveFails
  <2>2. failed' \subseteq FaultKinds /\ healthy' \in BOOLEAN
    BY <1>5, <1>w, <1>k, FaultType DEF SaveFails
  <2>3. TypeOK'
    BY <1>5, <1>w, <2>1, <2>2 DEF SaveFails, TypeOK, WriterType
  <2> QED
    BY <1>5, <1>w, <2>3 DEF SaveFails, TypeInv, WriterType, Idle
<1>6. ASSUME MarkApplied(f) PROVE TypeInv'
  <2>1. writer' \in [Files -> WriterType]
    <3>1. writer' = [writer EXCEPT ![f] = Idle] \/ writer' = [writer EXCEPT ![f].at = "archiving"]
      BY <1>6, <1>w DEF MarkApplied, WriterType
    <3> QED
      BY <1>w, <3>1, WriterMoves
  <2>2. lossy' \subseteq LossKinds
    BY <1>6, <1>w, <1>k, LossyType DEF MarkApplied
  <2>3. TypeOK'
    BY <1>6, <1>w, <2>1, <2>2 DEF MarkApplied, TypeOK, WriterType
  <2> QED
    BY <1>6, <1>w, <2>3 DEF MarkApplied, TypeInv, WriterType, Idle
<1>7. ASSUME MarkFails(f) PROVE TypeInv'
  <2>1. writer' \in [Files -> WriterType]
    BY <1>7, <1>w, WriterMoves DEF MarkFails
  <2>2. failed' \subseteq FaultKinds /\ healthy' \in BOOLEAN
    BY <1>7, <1>w, <1>k, FaultType DEF MarkFails
  <2>3. TypeOK'
    BY <1>7, <1>w, <2>1, <2>2 DEF MarkFails, TypeOK, WriterType
  <2> QED
    BY <1>7, <1>w, <2>3 DEF MarkFails, TypeInv, WriterType, Idle
<1>8. ASSUME AppendShard(f) PROVE TypeInv'
  <2>1. writer' \in [Files -> WriterType]
    BY <1>8, <1>w, WriterMoves DEF AppendShard
  <2>2. TypeOK'
    BY <1>8, <1>w, <1>b, <2>1 DEF AppendShard, TypeOK, WriterType
  <2> QED
    BY <1>8, <1>w, <2>2 DEF AppendShard, TypeInv, WriterType, Idle
<1>9. ASSUME AppendShardFails(f) PROVE TypeInv'
  <2>1. writer' \in [Files -> WriterType]
    BY <1>9, <1>w, WriterMoves DEF AppendShardFails
  <2>2. failed' \subseteq FaultKinds /\ healthy' \in BOOLEAN
    BY <1>9, <1>w, <1>k, FaultType DEF AppendShardFails
  <2>3. TypeOK'
    BY <1>9, <1>w, <2>1, <2>2 DEF AppendShardFails, TypeOK, WriterType
  <2> QED
    BY <1>9, <1>w, <2>3 DEF AppendShardFails, TypeInv, WriterType, Idle
<1> QED
  BY <1>1, <1>2, <1>3, <1>4, <1>5, <1>6, <1>7, <1>8, <1>9 DEF Write

LEMMA ReconcileTypes ==
  ASSUME TypeInv, Reconcile
  PROVE  TypeInv'
<1> USE DEF diskVars, historyVars
<1>w. replay \in ReplayType /\ TypeOK
  BY DEF TypeInv, TypeOK, ReplayType
<1>k. {"apply", "corrupt", "advance"} \subseteq FaultKinds
      /\ {"snapshot", "overtaken", "skipped"} \subseteq LossKinds
  BY DEF FaultKinds, LossKinds
<1>s. \A id : Since(id) \in Seq(Events)
  BY <1>w, SinceType DEF TypeOK
<1>h. ASSUME replay.tail # <<>>
      PROVE  /\ Head(replay.tail) \in Events /\ Tail(replay.tail) \in Seq(Events)
             /\ Head(replay.tail).id \in 0 .. MaxEvents /\ Head(replay.tail).entry \in Entries
  <2>1. replay.tail \in Seq(Events)
    BY <1>w DEF ReplayType
  <2>2. Head(replay.tail) \in Events /\ Tail(replay.tail) \in Seq(Events)
    BY <1>h, <2>1
  <2> QED
    BY <2>2, Bounds DEF Events
<1>g. ASSUME replay.tail # <<>>, HandlerReturned(Head(replay.tail)), replay.at = "apply",
             lock \in Files \cup {"free", "replay"}
      PROVE  /\ replay' \in ReplayType /\ lock' \in Files \cup {"free", "replay"}
             /\ replay'.at = "advance" => replay'.tail # <<>>
  <2>1. CASE replay.frozen
    <3>1. replay' = [replay EXCEPT !.expected = Head(replay.tail).id, !.tail = Tail(replay.tail)]
      BY <1>g, <2>1 DEF HandlerReturned
    <3>2. replay' \in ReplayType /\ replay'.at = "apply"
      BY <1>g, <1>h, <1>w, <3>1 DEF ReplayType
    <3> QED
      BY <1>g, <2>1, <3>2 DEF HandlerReturned
  <2>2. CASE ~replay.frozen
    <3>1. replay' = [replay EXCEPT !.at = "advance"] /\ lock' = "replay"
      BY <1>g, <2>2 DEF HandlerReturned
    <3>2. replay' \in ReplayType /\ replay'.tail = replay.tail
      BY <1>w, <3>1 DEF ReplayType
    <3> QED
      BY <1>g, <3>1, <3>2
  <2> QED
    BY <2>1, <2>2
<1>1. ASSUME ReadSentinel PROVE TypeInv'
  <2>1. replay' \in ReplayType /\ replay'.at # "advance"
    BY <1>1, <1>w DEF ReadSentinel, ReplayType, TypeOK
  <2> QED
    BY <1>1, <1>w, <2>1 DEF ReadSentinel, TypeInv, TypeOK, ReplayType
<1>2. ASSUME ReadTail PROVE TypeInv'
  <2>1. replay' \in ReplayType /\ replay'.at # "advance"
    BY <1>2, <1>w, <1>s DEF ReadTail, ReplayType
  <2> QED
    BY <1>2, <1>w, <2>1 DEF ReadTail, TypeInv, TypeOK, ReplayType
<1>3. ASSUME MeetConflict PROVE TypeInv'
  <2>1. replay' \in ReplayType /\ replay'.at # "advance"
    BY <1>3, <1>w DEF MeetConflict, ReplayType
  <2> QED
    BY <1>3, <1>w, <2>1 DEF MeetConflict, TypeInv, TypeOK, ReplayType
<1>4. ASSUME ApplyEvent PROVE TypeInv'
  <2>1. /\ replay' \in ReplayType /\ lock' \in Files \cup {"free", "replay"}
        /\ replay'.at = "advance" => replay'.tail # <<>>
    BY <1>4, <1>w, <1>g DEF ApplyEvent, TypeOK
  <2>2. view' \in [Entries -> Values] /\ shard' \subseteq Entries
    BY <1>4, <1>w, <1>h DEF ApplyEvent, TypeOK, Values
  <2>3. lossy' \subseteq LossKinds
    BY <1>4, <1>w, <1>k, LossyType DEF ApplyEvent
  <2> QED
    BY <1>4, <1>w, <2>1, <2>2, <2>3 DEF ApplyEvent, TypeInv, TypeOK, ReplayType
<1>5. ASSUME ApplyFails PROVE TypeInv'
  <2>1. replay' \in ReplayType /\ replay'.at # "advance"
    BY <1>5, <1>w DEF ApplyFails, ReplayType
  <2>2. lossy' \subseteq LossKinds /\ failed' \subseteq FaultKinds /\ healthy' \in BOOLEAN
    BY <1>5, <1>w, <1>k, LossyType, FaultType DEF ApplyFails
  <2> QED
    BY <1>5, <1>w, <2>1, <2>2 DEF ApplyFails, TypeInv, TypeOK, ReplayType
<1>6. ASSUME ShardUnreadable PROVE TypeInv'
  <2>1. /\ replay' \in ReplayType /\ lock' \in Files \cup {"free", "replay"}
        /\ replay'.at = "advance" => replay'.tail # <<>>
    BY <1>6, <1>w, <1>g DEF ShardUnreadable, TypeOK
  <2>2. lossy' \subseteq LossKinds /\ failed' \subseteq FaultKinds /\ healthy' \in BOOLEAN
    BY <1>6, <1>w, <1>k, LossyType, FaultType DEF ShardUnreadable
  <2> QED
    BY <1>6, <1>w, <2>1, <2>2 DEF ShardUnreadable, TypeInv, TypeOK, ReplayType
<1>7. ASSUME AdvanceSentinel PROVE TypeInv'
  <2>0. replay.tail # <<>>
    BY <1>7 DEF AdvanceSentinel, TypeInv
  <2>1. sentinel' \in 0 .. MaxEvents
    BY <1>7, <1>h, <2>0 DEF AdvanceSentinel
  <2>2. replay' \in ReplayType /\ replay'.at # "advance"
    BY <1>7, <1>h, <1>w, <2>0, <2>1 DEF AdvanceSentinel, ReplayType
  <2> QED
    BY <1>7, <1>w, <2>1, <2>2 DEF AdvanceSentinel, TypeInv, TypeOK, ReplayType
<1>8. ASSUME AdvanceFails PROVE TypeInv'
  <2>1. replay' \in ReplayType /\ replay'.at # "advance"
    BY <1>8, <1>w DEF AdvanceFails, ReplayType
  <2>2. failed' \subseteq FaultKinds /\ healthy' \in BOOLEAN
    BY <1>8, <1>w, <1>k, FaultType DEF AdvanceFails
  <2> QED
    BY <1>8, <1>w, <2>1, <2>2 DEF AdvanceFails, TypeInv, TypeOK, ReplayType
<1>9. ASSUME EndOfTail PROVE TypeInv'
  <2>1. replay' \in ReplayType /\ replay'.at # "advance"
    BY <1>9, <1>w DEF EndOfTail, ReplayType
  <2>2. lossy' \subseteq LossKinds
    BY <1>9, <1>w, <1>k, LossyType DEF EndOfTail
  <2> QED
    BY <1>9, <1>w, <2>1, <2>2 DEF EndOfTail, TypeInv, TypeOK, ReplayType
<1>10. ASSUME ProbeTail PROVE TypeInv'
  <2>1. replay' \in ReplayType /\ replay'.at # "advance"
    <3>1. \/ replay' = [replay EXCEPT !.at = "done"]
          \/ /\ replay.rescans > 0
             /\ replay' = [replay EXCEPT !.at = "apply", !.tail = Since(replay.expected),
                                         !.rescans = replay.rescans - 1]
      BY <1>10 DEF ProbeTail
    <3>2. Since(replay.expected) \in Seq(Events)
      BY <1>s
    <3>3. CASE replay' = [replay EXCEPT !.at = "done"]
      BY <1>w, <3>3 DEF ReplayType
    <3>4. ASSUME replay.rescans > 0
          PROVE  replay.rescans - 1 \in 0 .. MaxRescans
      BY <1>w, <3>4, Bounds DEF ReplayType
    <3>5. ASSUME NEW t \in Seq(Events), NEW n \in 0 .. MaxRescans
          PROVE  [replay EXCEPT !.at = "apply", !.tail = t, !.rescans = n] \in ReplayType
                 /\ [replay EXCEPT !.at = "apply", !.tail = t, !.rescans = n].at = "apply"
      BY <1>w DEF ReplayType
    <3> QED
      BY <3>1, <3>2, <3>3, <3>4, <3>5
  <2>2. lossy' \subseteq LossKinds
    BY <1>10, <1>w, <1>k, LossyType DEF ProbeTail
  <2> QED
    BY <1>10, <1>w, <2>1, <2>2 DEF ProbeTail, TypeInv, TypeOK, ReplayType
<1> QED
  BY <1>1, <1>2, <1>3, <1>4, <1>5, <1>6, <1>7, <1>8, <1>9, <1>10 DEF Reconcile

LEMMA ProcessTypes ==
  ASSUME TypeInv, Boot \/ Crash
  PROVE  TypeInv'
<1> USE DEF diskVars, historyVars
<1>w. TypeOK
  BY DEF TypeInv
<1>1. ASSUME Boot PROVE TypeInv'
  <2>1. replay' \in ReplayType /\ replay'.at # "advance"
    BY <1>1, UnbornType DEF Boot, ReplayType
  <2> QED
    BY <1>1, <1>w, <2>1 DEF Boot, TypeInv, TypeOK, ReplayType
<1>2. ASSUME Crash PROVE TypeInv'
  <2>1. replay' \in ReplayType /\ replay'.at # "advance"
    BY <1>2, UnbornType DEF Crash, Unborn
  <2>2. writer' \in [Files -> WriterType] /\ \A f \in Files : writer'[f].at = "idle"
    BY <1>2, IdleType DEF Crash, Idle
  <2>3. lossy' \subseteq LossKinds
    BY <1>2, <1>w, LossyType DEF Crash, LossKinds
  <2>4. crashes' \in 0 .. MaxCrashes
    BY <1>2, <1>w, Bounds DEF Crash, TypeOK
  <2> QED
    BY <1>2, <1>w, <2>1, <2>2, <2>3, <2>4 DEF Crash, TypeInv, TypeOK, ReplayType, WriterType
<1> QED
  BY <1>1, <1>2

\* The types hold in every run.
THEOREM JournalTypes == Spec => []TypeOK
<1>1. Init => TypeInv
  BY InitTypes DEF Init, TypeInv, Idle, Unborn
<1>2. TypeInv /\ [Next]_vars => TypeInv'
  <2> SUFFICES ASSUME TypeInv, [Next]_vars PROVE TypeInv'
    OBVIOUS
  <2>1. CASE Next
    BY <2>1, WriteTypes, ReconcileTypes, ProcessTypes DEF Next
  <2>2. CASE UNCHANGED vars
    BY <2>2 DEF vars, diskVars, historyVars, TypeInv, TypeOK
  <2> QED
    BY <2>1, <2>2
<1>3. TypeInv => TypeOK
  BY DEF TypeInv
<1> QED
  BY <1>1, <1>2, <1>3, PTL DEF Spec

-----------------------------------------------------------------------------
(***************************************************************************)
(* The startup order, while nothing fails.  No more than the latest event  *)
(* is missing from the views, and either the replay or the writers are at  *)
(* work.                                                                   *)
(***************************************************************************)
Smooth == ordered /\ failed = {}

\* Every event is in the journal, in the order of the numbers.
Numbered ==
  /\ written = Len(journal) /\ fragment = FALSE
  /\ \A i \in 1 .. Len(journal) : journal[i].id = i

Archived(e, n) == \E i \in 1 .. n : journal[i].entry = e /\ journal[i].kind = "archive"

Latest == journal[Len(journal)]

\* The marker is at the latest event or just before it; then only the entry of
\* that event may differ from the journal.
ViewLags ==
  /\ sentinel <= Len(journal) /\ Len(journal) <= sentinel + 1
  /\ sentinel = Len(journal) => ViewIsJournal
  /\ sentinel < Len(journal) =>
       /\ \A e \in Entries : e # Latest.entry => view[e] = Recorded(e)
       /\ view[Latest.entry] = Gone => Archived(Latest.entry, Len(journal))
       /\ view[Latest.entry] # Gone => ~Archived(Latest.entry, Len(journal) - 1)
  /\ \A e \in Entries : view[e] # Gone => view[e] <= Len(journal)

\* Until a replay is done, nobody writes, and it knows marker and tail.
ReplayAlone ==
  /\ ~replay.frozen /\ replay.at \in {"off", "sentinel", "read", "apply", "advance", "done"}
  /\ process = "up" <=> replay.at # "off"
  /\ replay.at # "done" => /\ \A f \in Files : writer[f].at = "idle"
                           /\ lock = IF replay.at = "advance" THEN "replay" ELSE "free"
  /\ replay.at \in {"read", "apply", "advance"} => replay.expected = sentinel
  /\ replay.at \in {"apply", "advance"} =>
       replay.tail = IF sentinel = Len(journal) THEN <<>> ELSE <<Latest>>
  /\ replay.at = "advance" => sentinel < Len(journal) /\ ViewIsJournal
  /\ replay.at = "done" => /\ lock \in Files \cup {"free"}
                           /\ lock = "free" => sentinel = Len(journal)

\* A writer has what the view has, until it saves its own event, the latest.
WritersInTurn ==
  \A f \in Files :
    /\ writer[f].at \in {"appended", "saved"} <=> lock = f
    /\ writer[f].at \in {"loaded", "appended"} =>
         /\ FileOf[writer[f].entry] = f /\ view[writer[f].entry] # Gone
         /\ \A e \in Entries : FileOf[e] = f => writer[f].snap[e] = view[e]
    /\ writer[f].at \in {"appended", "saved"} =>
         /\ sentinel < Len(journal) /\ writer[f].id = Len(journal)
         /\ Latest.kind = writer[f].kind /\ Latest.entry = writer[f].entry
    /\ writer[f].at = "saved" => ViewIsJournal

OrderFacts == Numbered /\ lossy = {} /\ ViewLags /\ ReplayAlone /\ WritersInTurn
OrderInv   == Smooth => OrderFacts

\* What the journal records of an entry.
LEMMA RecordedFacts ==
  ASSUME TypeInv, Numbered, NEW e \in Entries
  PROVE  /\ Recorded(e) = Gone <=> Archived(e, Len(journal))
         /\ Recorded(e) # Gone => Recorded(e) \in 0 .. Len(journal)
         /\ Len(journal) > 0 /\ ~Archived(e, Len(journal)) /\ Latest.entry = e =>
              Recorded(e) = Len(journal)
<1> DEFINE about == {i \in DOMAIN journal : journal[i].entry = e}
<1>1. journal \in Seq(Events) /\ Len(journal) \in Nat /\ DOMAIN journal = 1 .. Len(journal)
  BY DEF TypeInv, TypeOK
<1>2. (\E i \in about : journal[i].kind = "archive") <=> Archived(e, Len(journal))
  BY <1>1 DEF Archived
<1>3. Recorded(e) = IF Archived(e, Len(journal)) THEN Gone
                    ELSE IF about = {} THEN 0 ELSE journal[Max(about)].id
  BY <1>2 DEF Recorded
<1>4. ASSUME about # {}
      PROVE  /\ Max(about) \in 1 .. Len(journal) /\ journal[Max(about)].id = Max(about)
             /\ \A i \in about : Max(about) >= i
  <2>1. about \in SUBSET (1 .. Len(journal))
    BY <1>1
  <2>2. Max(about) \in about /\ \A i \in about : Max(about) >= i
    <3> HIDE DEF about
    <3> QED
      BY <1>1, <1>4, <2>1, MaxIsGreatest
  <2> QED
    BY <2>1, <2>2 DEF Numbered
<1>5. Gone \notin Nat
  BY JournalConstants
<1>6. Len(journal) > 0 /\ Latest.entry = e => Len(journal) \in about
  BY <1>1 DEF Latest
<1> HIDE DEF about
<1>7. CASE Archived(e, Len(journal))
  BY <1>3, <1>7
<1>8. CASE ~Archived(e, Len(journal)) /\ about = {}
  BY <1>1, <1>3, <1>5, <1>6, <1>8
<1>9. CASE ~Archived(e, Len(journal)) /\ about # {}
  <2>1. Recorded(e) = Max(about)
    BY <1>3, <1>4, <1>9
  <2>2. Max(about) \in 1 .. Len(journal)
    BY <1>4, <1>9
  <2>3. Len(journal) > 0 /\ Latest.entry = e => Max(about) = Len(journal)
    BY <1>1, <1>4, <1>6, <1>9, <2>2
  <2> QED
    BY <1>1, <1>5, <1>9, <2>1, <2>2, <2>3
<1> QED
  BY <1>7, <1>8, <1>9

\* Until it ends, a replay has the lock to itself, and no writer holds it.
LEMMA WritersAfterReplay ==
  ASSUME TypeInv, ReplayAlone, NEW f \in Files, lock = f \/ writer[f].at # "idle"
  PROVE  replay.at = "done"
  BY JournalConstants DEF ReplayAlone

\* Nothing that only moves a replay or a file's lock disturbs these parts.
LEMMA JournalUntouched ==
  ASSUME UNCHANGED <<journal, fragment, written>>
  PROVE  /\ Numbered => Numbered'
         /\ Latest' = Latest
         /\ \A e \in Entries : Recorded(e)' = Recorded(e)
         /\ \A e \in Entries, n \in Nat : Archived(e, n)' <=> Archived(e, n)
  BY DEF Numbered, Latest, Recorded, Archived

LEMMA ViewUntouched ==
  ASSUME UNCHANGED <<journal, fragment, written, view>>
  PROVE  /\ ViewIsJournal' <=> ViewIsJournal
         /\ sentinel' = sentinel /\ ViewLags => ViewLags'
<1>1. ViewIsJournal' <=> ViewIsJournal
  BY JournalUntouched DEF ViewIsJournal
<1>2. \A e \in Entries : /\ Archived(e, Len(journal))' <=> Archived(e, Len(journal))
                         /\ Archived(e, Len(journal) - 1)' <=> Archived(e, Len(journal) - 1)
  BY DEF Archived
<1>3. Archived(Latest.entry, Len(journal))' <=> Archived(Latest.entry, Len(journal))
  BY DEF Archived, Latest
<1>4. Archived(Latest.entry, Len(journal) - 1)' <=> Archived(Latest.entry, Len(journal) - 1)
  BY DEF Archived, Latest
<1>5. \A e \in Entries : Recorded(e)' = Recorded(e)
  BY JournalUntouched
<1> QED
  BY <1>1, <1>3, <1>4, <1>5, JournalUntouched DEF ViewLags

\* Views that come to show what the journal records lag behind it by nothing.
LEMMA ViewsCaughtUp ==
  ASSUME TypeInv, Numbered, UNCHANGED <<journal, fragment, written>>,
         \A e \in Entries : view'[e] = Recorded(e),
         sentinel' \in Nat, sentinel' <= Len(journal), Len(journal) <= sentinel' + 1
  PROVE  ViewIsJournal' /\ ViewLags'
<1>1. Len(journal) \in Nat /\ journal \in Seq(Events)
  BY DEF TypeInv, TypeOK
<1>2. \A e \in Entries : view'[e] # Gone => view'[e] <= Len(journal)
  BY <1>1, RecordedFacts
<1>3. ASSUME sentinel' < Len(journal)
      PROVE  /\ Latest.entry \in Entries
             /\ view'[Latest.entry] = Gone => Archived(Latest.entry, Len(journal))
             /\ view'[Latest.entry] # Gone => ~Archived(Latest.entry, Len(journal) - 1)
  <2>1. Latest.entry \in Entries
    <3>1. journal[Len(journal)] \in Events
      BY <1>1, <1>3
    <3> QED
      BY <3>1 DEF Latest, Events
  <2>2. view'[Latest.entry] = Gone <=> Archived(Latest.entry, Len(journal))
    BY <2>1, RecordedFacts
  <2>3. Archived(Latest.entry, Len(journal) - 1) => Archived(Latest.entry, Len(journal))
    BY <1>1 DEF Archived
  <2> QED
    BY <2>1, <2>2, <2>3
<1>4. \A e \in Entries : Recorded(e)' = Recorded(e)
  BY JournalUntouched
<1>5. ViewIsJournal'
  BY <1>4 DEF ViewIsJournal
<1>6. Archived(Latest.entry, Len(journal))' <=> Archived(Latest.entry, Len(journal))
  BY DEF Archived, Latest
<1>7. Archived(Latest.entry, Len(journal) - 1)' <=> Archived(Latest.entry, Len(journal) - 1)
  BY DEF Archived, Latest
<1> QED
  BY <1>2, <1>3, <1>4, <1>5, <1>6, <1>7, JournalUntouched DEF ViewLags

-----------------------------------------------------------------------------
LEMMA LoadOrder ==
  ASSUME TypeInv, OrderFacts, ordered, NEW f \in Files, NEW k \in Kinds, NEW e \in Entries,
         LoadView(f, k, e)
  PROVE  OrderFacts'
<1> USE DEF diskVars, historyVars
<1>1. replay.at = "done"
  BY DEF LoadView, MayWrite, OrderFacts, ReplayAlone
<1>2. Numbered' /\ lossy' = {} /\ ViewLags' /\ (ViewIsJournal' <=> ViewIsJournal) /\ Latest' = Latest
  BY JournalUntouched, ViewUntouched DEF LoadView, OrderFacts
<1>3. ReplayAlone'
  BY <1>1, <1>2 DEF LoadView, OrderFacts, ReplayAlone
<1>4. WritersInTurn'
  <2>1. writer \in [Files -> WriterType]
    BY DEF TypeInv, TypeOK, WriterType
  <2>2. \A g \in Files \ {f} : writer'[g] = writer[g]
    BY <2>1 DEF LoadView
  <2>3. /\ writer'[f].at = "loaded" /\ writer'[f].entry = e
        /\ \A x \in Entries : FileOf[x] = f => writer'[f].snap[x] = view[x]
    BY <2>1 DEF LoadView
  <2>4. lock # f
    BY DEF LoadView, OrderFacts, WritersInTurn
  <2> QED
    BY <1>2, <2>2, <2>3, <2>4 DEF LoadView, OrderFacts, WritersInTurn
<1> QED
  BY <1>2, <1>3, <1>4 DEF OrderFacts

\* What a new event leaves as it is in the journal.
LEMMA Appended ==
  ASSUME TypeInv, NEW ev \in Events, journal' = Append(journal, ev)
  PROVE  /\ Len(journal') = Len(journal) + 1 /\ Latest' = ev
         /\ \A i \in 1 .. Len(journal) : journal'[i] = journal[i]
         /\ \A e \in Entries \ {ev.entry} : Recorded(e)' = Recorded(e)
<1>1. journal \in Seq(Events) /\ Len(journal) \in Nat
  BY DEF TypeInv, TypeOK
<1>2. /\ Len(journal') = Len(journal) + 1 /\ journal'[Len(journal) + 1] = ev
      /\ DOMAIN journal = 1 .. Len(journal) /\ DOMAIN journal' = 1 .. Len(journal) + 1
      /\ \A i \in 1 .. Len(journal) : journal'[i] = journal[i]
  BY <1>1
<1>3. ASSUME NEW e \in Entries \ {ev.entry}
      PROVE  Recorded(e)' = Recorded(e)
  <2>1. {i \in DOMAIN journal' : journal'[i].entry = e} = {i \in DOMAIN journal : journal[i].entry = e}
    BY <1>1, <1>2
  <2>2. \A i \in {i \in DOMAIN journal : journal[i].entry = e} : journal'[i] = journal[i]
    BY <1>2
  <2>3. CASE {i \in DOMAIN journal : journal[i].entry = e} = {}
    BY <2>1, <2>3 DEF Recorded
  <2>4. CASE {i \in DOMAIN journal : journal[i].entry = e} # {}
    <3>1. Max({i \in DOMAIN journal : journal[i].entry = e}) \in {i \in DOMAIN journal : journal[i].entry = e}
      <4>1. {i \in DOMAIN journal : journal[i].entry = e} \in SUBSET (1 .. Len(journal))
        BY <1>2
      <4> QED
        BY <1>1, <2>4, <4>1, MaxIsGreatest
    <3> QED
      BY <2>1, <2>2, <3>1 DEF Recorded
  <2> QED
    BY <2>3, <2>4
<1> QED
  BY <1>1, <1>2, <1>3 DEF Latest

LEMMA AppendOrder ==
  ASSUME TypeInv, OrderFacts, ordered, NEW f \in Files, AppendEvent(f)
  PROVE  OrderFacts'
<1> USE DEF diskVars, historyVars
<1> DEFINE ev == [id |-> written + 1, kind |-> writer[f].kind, entry |-> writer[f].entry]
<1>1. /\ journal \in Seq(Events) /\ Len(journal) \in Nat /\ written \in Nat /\ sentinel \in Nat
      /\ writer \in [Files -> WriterType] /\ writer[f].entry \in Entries
  BY Bounds DEF TypeInv, TypeOK, WriterType, AppendEvent
<1>2. replay.at = "done" /\ lock = "free" /\ sentinel = Len(journal) /\ ViewIsJournal
  BY WritersAfterReplay DEF AppendEvent, OrderFacts, ReplayAlone, ViewLags
<1>3. ev \in Events
  <2>1. written + 1 \in 1 .. MaxEvents
    BY <1>1, Bounds DEF AppendEvent
  <2>2. writer[f].kind \in Kinds
    BY <1>1 DEF WriterType
  <2> QED
    BY <1>1, <2>1, <2>2 DEF Events
<1>4. journal' = Append(journal, ev) /\ fragment' = FALSE /\ written' = Len(journal) + 1 /\ lossy' = {}
  BY DEF AppendEvent, OrderFacts, Numbered, Lossy
<1>5. /\ Len(journal') = Len(journal) + 1 /\ Latest' = ev
      /\ \A i \in 1 .. Len(journal) : journal'[i] = journal[i]
      /\ \A e \in Entries \ {ev.entry} : Recorded(e)' = Recorded(e)
  <2> HIDE DEF ev
  <2> QED
    BY <1>3, <1>4, Appended
<1>6. ev.id = Len(journal) + 1 /\ ev.entry = writer[f].entry /\ ev.kind = writer[f].kind
  BY DEF OrderFacts, Numbered
<1> HIDE DEF ev
<1>7. Numbered'
  <2>1. journal'[Len(journal) + 1] = ev
    BY <1>5 DEF Latest
  <2> QED
    BY <1>1, <1>4, <1>5, <1>6, <2>1 DEF OrderFacts, Numbered
<1>8. view' = view /\ sentinel' = sentinel /\ replay' = replay /\ lock' = f /\ process' = process
  BY DEF AppendEvent
<1>9. view[ev.entry] # Gone /\ ~Archived(ev.entry, Len(journal))
  <2>1. view[ev.entry] # Gone
    BY <1>6 DEF AppendEvent, OrderFacts, WritersInTurn
  <2> QED
    BY <1>1, <1>2, <1>6, <2>1, RecordedFacts DEF ViewIsJournal, OrderFacts
<1>10. ViewLags'
  <2>1. ~Archived(Latest.entry, Len(journal) - 1)'
    BY <1>1, <1>5, <1>9 DEF Archived
  <2>2. \A e \in Entries : view[e] # Gone => view[e] <= Len(journal)
    BY DEF OrderFacts, ViewLags
  <2>3. view \in [Entries -> Values]
    BY DEF TypeInv, TypeOK
  <2>4. \A e \in Entries : view[e] # Gone => view[e] <= Len(journal) + 1
    BY <1>1, <2>2, <2>3, Bounds DEF Values
  <2> QED
    BY <1>1, <1>2, <1>5, <1>8, <1>9, <2>1, <2>4 DEF ViewLags, ViewIsJournal
<1>11. ReplayAlone'
  BY <1>2, <1>8, JournalConstants DEF OrderFacts, ReplayAlone
<1>12. WritersInTurn'
  <2>1. \A g \in Files \ {f} : writer'[g] = writer[g]
    BY <1>1 DEF AppendEvent
  <2>2. /\ writer'[f].at = "appended" /\ writer'[f].id = Len(journal) + 1
        /\ writer'[f].entry = writer[f].entry /\ writer'[f].kind = writer[f].kind
        /\ writer'[f].snap = writer[f].snap
    BY <1>1, <1>4 DEF AppendEvent, WriterType
  <2>3. \A g \in Files : writer[g].at \notin {"appended", "saved"}
    BY <1>2, JournalConstants DEF OrderFacts, WritersInTurn
  <2>4. writer[f].at = "loaded"
    BY DEF AppendEvent
  <2> QED
    BY <1>1, <1>2, <1>5, <1>6, <1>8, <2>1, <2>2, <2>3, <2>4 DEF OrderFacts, WritersInTurn
<1> QED
  BY <1>4, <1>7, <1>10, <1>11, <1>12 DEF OrderFacts

LEMMA SaveOrder ==
  ASSUME TypeInv, OrderFacts, ordered, NEW f \in Files, SaveView(f)
  PROVE  OrderFacts'
<1> USE DEF diskVars, historyVars
<1>1. /\ journal \in Seq(Events) /\ Len(journal) \in Nat /\ sentinel \in Nat
      /\ writer \in [Files -> WriterType] /\ writer[f].entry \in Entries
      /\ view \in [Entries -> Values] /\ FileOf \in [Entries -> Files]
  BY Bounds, JournalConstants DEF TypeInv, TypeOK, WriterType, SaveView
<1>2. replay.at = "done" /\ lock = f
  BY WritersAfterReplay DEF SaveView, OrderFacts, WritersInTurn
<1>3. /\ FileOf[writer[f].entry] = f /\ view[writer[f].entry] # Gone
      /\ \A e \in Entries : FileOf[e] = f => writer[f].snap[e] = view[e]
      /\ sentinel < Len(journal) /\ writer[f].id = Len(journal)
      /\ Latest.kind = writer[f].kind /\ Latest.entry = writer[f].entry
  BY DEF SaveView, OrderFacts, WritersInTurn
<1>4. \A e \in Entries : e # Latest.entry => view'[e] = view[e]
  BY <1>3 DEF SaveView
<1>5. view'[Latest.entry] = IF Latest.kind = "archive" THEN Gone ELSE Len(journal)
  BY <1>1, <1>3 DEF SaveView
<1>6. Recorded(Latest.entry) = IF Latest.kind = "archive" THEN Gone ELSE Len(journal)
  <2>1. ~Archived(Latest.entry, Len(journal) - 1)
    BY <1>1, <1>3 DEF OrderFacts, ViewLags
  <2>2. Archived(Latest.entry, Len(journal)) <=> Latest.kind = "archive"
    BY <1>1, <1>3, <2>1 DEF Archived, Latest
  <2> QED
    BY <1>1, <1>3, <2>2, RecordedFacts DEF OrderFacts
<1>7. \A e \in Entries : view'[e] = Recorded(e)
  BY <1>3, <1>4, <1>5, <1>6 DEF OrderFacts, ViewLags
<1>8. /\ UNCHANGED <<journal, fragment, written>> /\ sentinel' = sentinel /\ lossy' = lossy
      /\ replay' = replay /\ lock' = lock /\ process' = process
  BY DEF SaveView
<1>9. ViewIsJournal' /\ ViewLags'
  BY <1>1, <1>3, <1>7, <1>8, ViewsCaughtUp DEF OrderFacts, ViewLags
<1>10. Numbered' /\ Latest' = Latest
  BY <1>8, JournalUntouched DEF OrderFacts
<1>11. ReplayAlone'
  BY <1>2, <1>8 DEF OrderFacts, ReplayAlone
<1>12. WritersInTurn'
  <2>1. \A g \in Files \ {f} : writer'[g] = writer[g] /\ writer[g].at \notin {"appended", "saved"}
    BY <1>1, <1>2 DEF SaveView, OrderFacts, WritersInTurn
  <2>2. /\ writer'[f].at = "saved" /\ writer'[f].id = writer[f].id
        /\ writer'[f].entry = writer[f].entry /\ writer'[f].kind = writer[f].kind
    BY <1>1 DEF SaveView, WriterType
  <2>3. \A g \in Files \ {f} : writer[g].at = "loaded" => writer[g].entry \in Entries
    BY DEF TypeInv
  <2>4. \A e \in Entries : FileOf[e] # f => view'[e] = view[e]
    BY <1>1 DEF SaveView
  <2> QED
    BY <1>2, <1>3, <1>8, <1>9, <1>10, <2>1, <2>2, <2>3, <2>4 DEF OrderFacts, WritersInTurn
<1> QED
  BY <1>8, <1>9, <1>10, <1>11, <1>12 DEF OrderFacts

LEMMA MarkOrder ==
  ASSUME TypeInv, OrderFacts, ordered, NEW f \in Files, MarkApplied(f)
  PROVE  OrderFacts'
<1> USE DEF diskVars, historyVars
<1>1. /\ journal \in Seq(Events) /\ Len(journal) \in Nat /\ sentinel \in Nat
      /\ writer \in [Files -> WriterType]
  BY Bounds DEF TypeInv, TypeOK, WriterType
<1>2. replay.at = "done" /\ lock = f
  BY WritersAfterReplay DEF MarkApplied, OrderFacts, WritersInTurn
<1>3. ViewIsJournal /\ sentinel' = Len(journal)
  BY DEF MarkApplied, OrderFacts, WritersInTurn
<1>4. /\ UNCHANGED <<journal, fragment, written, view>> /\ replay' = replay
      /\ lock' = "free" /\ process' = process
  BY DEF MarkApplied
<1>5. lossy' = {}
  BY <1>3 DEF MarkApplied, Lossy, OrderFacts
<1>6. ViewIsJournal' /\ ViewLags'
  BY <1>1, <1>3, <1>4, ViewsCaughtUp DEF OrderFacts, ViewIsJournal
<1>7. Numbered' /\ Latest' = Latest
  BY <1>4, JournalUntouched DEF OrderFacts
<1>8. ReplayAlone'
  BY <1>2, <1>3, <1>4 DEF OrderFacts, ReplayAlone
<1>9. WritersInTurn'
  <2>1. \A g \in Files \ {f} : writer'[g] = writer[g] /\ writer[g].at \notin {"appended", "saved"}
    BY <1>1, <1>2 DEF MarkApplied, OrderFacts, WritersInTurn
  <2>2. writer'[f].at \in {"idle", "archiving"}
    BY <1>1 DEF MarkApplied, WriterType, Idle
  <2> QED
    BY <1>4, <2>1, <2>2, JournalConstants DEF OrderFacts, WritersInTurn
<1> QED
  BY <1>5, <1>6, <1>7, <1>8, <1>9 DEF OrderFacts

LEMMA ShardOrder ==
  ASSUME TypeInv, OrderFacts, ordered, NEW f \in Files, AppendShard(f)
  PROVE  OrderFacts'
<1> USE DEF diskVars, historyVars
<1>1. writer \in [Files -> WriterType]
  BY DEF TypeInv, TypeOK, WriterType
<1>2. replay.at = "done"
  BY WritersAfterReplay DEF AppendShard, OrderFacts
<1>3. /\ UNCHANGED <<journal, fragment, written, view>> /\ replay' = replay /\ sentinel' = sentinel
      /\ lock' = lock /\ process' = process /\ lossy' = lossy
  BY DEF AppendShard
<1>4. Numbered' /\ lossy' = {} /\ ViewLags' /\ (ViewIsJournal' <=> ViewIsJournal) /\ Latest' = Latest
  BY <1>3, JournalUntouched, ViewUntouched DEF OrderFacts
<1>5. ReplayAlone'
  BY <1>2, <1>3 DEF OrderFacts, ReplayAlone
<1>6. WritersInTurn'
  <2>1. \A g \in Files \ {f} : writer'[g] = writer[g]
    BY <1>1 DEF AppendShard
  <2>2. writer'[f].at = "idle" /\ lock # f
    BY <1>1 DEF AppendShard, Idle, OrderFacts, WritersInTurn
  <2> QED
    BY <1>3, <1>4, <2>1, <2>2 DEF OrderFacts, WritersInTurn
<1> QED
  BY <1>4, <1>5, <1>6 DEF OrderFacts

\* While nothing fails, a live writer keeps the order.
LEMMA WriteOrder ==
  ASSUME TypeInv, OrderInv, NEW f \in Files, Write(f)
  PROVE  OrderInv'
<1> USE DEF diskVars, historyVars
<1>1. ASSUME NEW k \in FaultKinds, Fault(k) PROVE OrderInv'
  BY <1>1 DEF Fault, OrderInv, Smooth
<1>2. FaultKinds = {"append", "fragment", "save", "mark", "shard", "apply", "corrupt", "advance"}
  BY DEF FaultKinds
<1>3. ASSUME Smooth' /\ failed' = failed /\ ordered' = ordered PROVE Smooth /\ OrderFacts
  BY <1>3 DEF Smooth, OrderInv
<1>4. ASSUME NEW k \in Kinds, NEW e \in Entries, LoadView(f, k, e) PROVE OrderInv'
  <2>1. failed' = failed /\ ordered' = ordered
    BY <1>4 DEF LoadView
  <2> QED
    BY <1>3, <1>4, <2>1, LoadOrder DEF OrderInv, Smooth
<1>5. ASSUME AppendEvent(f) PROVE OrderInv'
  <2>1. failed' = failed /\ ordered' = ordered
    BY <1>5 DEF AppendEvent
  <2> QED
    BY <1>3, <1>5, <2>1, AppendOrder DEF OrderInv, Smooth
<1>6. ASSUME SaveView(f) PROVE OrderInv'
  <2>1. failed' = failed /\ ordered' = ordered
    BY <1>6 DEF SaveView
  <2> QED
    BY <1>3, <1>6, <2>1, SaveOrder DEF OrderInv, Smooth
<1>7. ASSUME MarkApplied(f) PROVE OrderInv'
  <2>1. failed' = failed /\ ordered' = ordered
    BY <1>7 DEF MarkApplied
  <2> QED
    BY <1>3, <1>7, <2>1, MarkOrder DEF OrderInv, Smooth
<1>8. ASSUME AppendShard(f) PROVE OrderInv'
  <2>1. failed' = failed /\ ordered' = ordered
    BY <1>8 DEF AppendShard
  <2> QED
    BY <1>3, <1>8, <2>1, ShardOrder DEF OrderInv, Smooth
<1>9. ASSUME AppendFails(f) \/ SaveFails(f) \/ MarkFails(f) \/ AppendShardFails(f) PROVE OrderInv'
  BY <1>1, <1>2, <1>9 DEF AppendFails, SaveFails, MarkFails, AppendShardFails
<1> QED
  BY <1>4, <1>5, <1>6, <1>7, <1>8, <1>9 DEF Write

-----------------------------------------------------------------------------
\* The tail a replay reads: the latest event, if the marker is behind it.
LEMMA TailOfOne ==
  ASSUME TypeInv, Numbered, sentinel <= Len(journal), Len(journal) <= sentinel + 1
  PROVE  Since(sentinel) = IF sentinel = Len(journal) THEN <<>> ELSE <<Latest>>
<1>1. journal \in Seq(Events) /\ Len(journal) \in Nat /\ sentinel \in Nat
  BY Bounds DEF TypeInv, TypeOK
<1>2. Position(sentinel) = sentinel
  <2> DEFINE found == {i \in DOMAIN journal : journal[i].id = sentinel}
  <2>1. found = IF sentinel = 0 THEN {} ELSE {sentinel}
    BY <1>1 DEF Numbered
  <2>2. CASE sentinel = 0
    BY <2>1, <2>2 DEF Position
  <2>3. CASE sentinel # 0
    <3>1. found \in SUBSET (1 .. Len(journal)) /\ found # {}
      BY <1>1, <2>1, <2>3
    <3>2. Max(found) \in found
      <4> HIDE DEF found
      <4> QED
        BY <1>1, <3>1, MaxIsGreatest
    <3> QED
      BY <2>1, <2>3, <3>1, <3>2 DEF Position
  <2> QED
    BY <2>2, <2>3
<1>3. Since(sentinel) = SubSeq(journal, sentinel + 1, Len(journal))
  BY <1>2 DEF Since
<1>4. CASE sentinel = Len(journal)
  BY <1>1, <1>3, <1>4
<1>5. CASE sentinel + 1 = Len(journal)
  BY <1>1, <1>3, <1>5 DEF Latest
<1> QED
  BY <1>1, <1>4, <1>5

LEMMA ReadSentinelOrder ==
  ASSUME TypeInv, OrderFacts, ReadSentinel
  PROVE  OrderFacts'
<1> USE DEF diskVars, historyVars
<1>1. /\ UNCHANGED <<journal, fragment, written, view>> /\ writer' = writer /\ sentinel' = sentinel
      /\ lock' = lock /\ process' = process /\ lossy' = lossy
  BY DEF ReadSentinel
<1>2. replay' = [replay EXCEPT !.at = "read", !.expected = sentinel] /\ replay \in ReplayType
  BY DEF ReadSentinel, TypeInv, TypeOK, ReplayType
<1>3. replay'.at = "read" /\ replay'.expected = sentinel /\ replay'.frozen = replay.frozen
  BY <1>2 DEF ReplayType
<1>4. Numbered' /\ lossy' = {} /\ ViewLags' /\ (ViewIsJournal' <=> ViewIsJournal) /\ Latest' = Latest
  BY <1>1, JournalUntouched, ViewUntouched DEF OrderFacts
<1>5. ReplayAlone'
  BY <1>1, <1>3 DEF ReadSentinel, OrderFacts, ReplayAlone
<1>6. WritersInTurn'
  BY <1>1, <1>4 DEF OrderFacts, WritersInTurn
<1> QED
  BY <1>4, <1>5, <1>6 DEF OrderFacts

LEMMA ReadTailOrder ==
  ASSUME TypeInv, OrderFacts, ReadTail
  PROVE  OrderFacts'
<1> USE DEF diskVars, historyVars
<1>1. /\ UNCHANGED <<journal, fragment, written, view>> /\ writer' = writer /\ sentinel' = sentinel
      /\ lock' = lock /\ process' = process /\ lossy' = lossy
  BY DEF ReadTail
<1>2. /\ replay' = [replay EXCEPT !.at = "apply", !.tail = Since(replay.expected)]
      /\ replay \in ReplayType
  BY DEF ReadTail, TypeInv, TypeOK, ReplayType
<1>3. /\ replay'.at = "apply" /\ replay'.expected = replay.expected /\ replay'.frozen = replay.frozen
      /\ replay'.tail = Since(replay.expected)
  BY <1>2 DEF ReplayType
<1>4. Numbered' /\ lossy' = {} /\ ViewLags' /\ (ViewIsJournal' <=> ViewIsJournal) /\ Latest' = Latest
  BY <1>1, JournalUntouched, ViewUntouched DEF OrderFacts
<1>5. replay.expected = sentinel
  BY DEF ReadTail, OrderFacts, ReplayAlone
<1>6. replay'.tail = IF sentinel = Len(journal) THEN <<>> ELSE <<Latest>>
  BY <1>3, <1>5, TailOfOne DEF OrderFacts, ViewLags
<1>7. ReplayAlone'
  BY <1>1, <1>3, <1>4, <1>5, <1>6 DEF ReadTail, OrderFacts, ReplayAlone
<1>8. WritersInTurn'
  BY <1>1, <1>4 DEF OrderFacts, WritersInTurn
<1> QED
  BY <1>4, <1>7, <1>8 DEF OrderFacts

LEMMA ApplyOrder ==
  ASSUME TypeInv, OrderFacts, ApplyEvent
  PROVE  OrderFacts'
<1> USE DEF diskVars, historyVars
<1>1. /\ journal \in Seq(Events) /\ Len(journal) \in Nat /\ sentinel \in Nat
      /\ view \in [Entries -> Values] /\ replay \in ReplayType
  BY Bounds DEF TypeInv, TypeOK, ReplayType
<1>2. /\ replay.at = "apply" /\ ~replay.frozen /\ replay.expected = sentinel
      /\ replay.tail = <<Latest>> /\ sentinel < Len(journal)
      /\ \A f \in Files : writer[f].at = "idle"
  BY <1>1 DEF ApplyEvent, OrderFacts, ReplayAlone, ViewLags
<1>3. Head(replay.tail) = Latest
  BY <1>2
<1>4. Latest \in Events /\ Latest.entry \in Entries
  <2>1. Latest \in Events
    BY <1>1, <1>2 DEF Latest
  <2> QED
    BY <2>1 DEF Events
<1>5. /\ view' = IF Latest.kind = "archive" THEN [view EXCEPT ![Latest.entry] = Gone]
                 ELSE IF view[Latest.entry] = Gone THEN view
                 ELSE [view EXCEPT ![Latest.entry] = Latest.id]
      /\ replay' = [replay EXCEPT !.at = "advance"] /\ lock' = "replay"
      /\ UNCHANGED <<journal, fragment, written>> /\ writer' = writer /\ sentinel' = sentinel
      /\ process' = process
  BY <1>2, <1>3 DEF ApplyEvent, HandlerReturned
<1>6. lossy' = {}
  <2>1. writer[FileOf[Latest.entry]].at = "idle"
    BY <1>2, <1>4, JournalConstants
  <2> QED
    BY <1>3, <2>1 DEF ApplyEvent, Lossy, OrderFacts
<1>7. Latest.id = Len(journal)
  BY <1>1, <1>2 DEF OrderFacts, Numbered, Latest
<1>8. \A e \in Entries : view'[e] = Recorded(e)
  <2>1. \A e \in Entries : e # Latest.entry => view'[e] = view[e] /\ view[e] = Recorded(e)
    BY <1>1, <1>2, <1>4, <1>5 DEF OrderFacts, ViewLags
  <2>2. /\ view[Latest.entry] = Gone => Archived(Latest.entry, Len(journal))
        /\ view[Latest.entry] # Gone => ~Archived(Latest.entry, Len(journal) - 1)
    BY <1>2 DEF OrderFacts, ViewLags
  <2>3. Archived(Latest.entry, Len(journal)) <=>
          Archived(Latest.entry, Len(journal) - 1) \/ Latest.kind = "archive"
    BY <1>1, <1>2 DEF Archived, Latest
  <2>4. /\ Recorded(Latest.entry) = Gone <=> Archived(Latest.entry, Len(journal))
        /\ ~Archived(Latest.entry, Len(journal)) => Recorded(Latest.entry) = Len(journal)
    BY <1>1, <1>2, <1>4, RecordedFacts DEF OrderFacts
  <2>5. view'[Latest.entry] = Recorded(Latest.entry)
    BY <1>1, <1>4, <1>5, <1>7, <2>2, <2>3, <2>4
  <2> QED
    BY <2>1, <2>5
<1>9. ViewIsJournal' /\ ViewLags'
  BY <1>1, <1>5, <1>8, ViewsCaughtUp DEF OrderFacts, ViewLags
<1>10. Numbered' /\ Latest' = Latest
  BY <1>5, JournalUntouched DEF OrderFacts
<1>11. /\ replay'.at = "advance" /\ replay'.frozen = replay.frozen
       /\ replay'.expected = replay.expected /\ replay'.tail = replay.tail
  BY <1>1, <1>5 DEF ReplayType
<1>12. ReplayAlone'
  BY <1>1, <1>2, <1>5, <1>9, <1>10, <1>11 DEF OrderFacts, ReplayAlone
<1>13. WritersInTurn'
  BY <1>2, <1>5, JournalConstants DEF OrderFacts, WritersInTurn
<1> QED
  BY <1>6, <1>9, <1>10, <1>12, <1>13 DEF OrderFacts

LEMMA AdvanceOrder ==
  ASSUME TypeInv, OrderFacts, AdvanceSentinel
  PROVE  OrderFacts'
<1> USE DEF diskVars, historyVars
<1>1. journal \in Seq(Events) /\ Len(journal) \in Nat /\ sentinel \in Nat /\ replay \in ReplayType
  BY Bounds DEF TypeInv, TypeOK, ReplayType
<1>2. /\ replay.at = "advance" /\ ~replay.frozen /\ replay.tail = <<Latest>>
      /\ sentinel < Len(journal) /\ ViewIsJournal /\ \A f \in Files : writer[f].at = "idle"
  BY <1>1 DEF AdvanceSentinel, OrderFacts, ReplayAlone
<1>3. Head(replay.tail) = Latest /\ Tail(replay.tail) = <<>> /\ Latest.id = Len(journal)
  BY <1>1, <1>2 DEF OrderFacts, Numbered, Latest
<1>4. /\ UNCHANGED <<journal, fragment, written, view>> /\ writer' = writer
      /\ sentinel' = Len(journal) /\ lock' = "free" /\ process' = process /\ lossy' = lossy
  BY <1>3 DEF AdvanceSentinel
<1>5. /\ replay'.at = "apply" /\ replay'.frozen = replay.frozen
      /\ replay'.expected = Len(journal) /\ replay'.tail = <<>>
  BY <1>1, <1>3 DEF AdvanceSentinel, ReplayType
<1>6. ViewIsJournal' /\ ViewLags'
  BY <1>1, <1>2, <1>4, ViewsCaughtUp DEF OrderFacts, ViewIsJournal
<1>7. Numbered' /\ Latest' = Latest
  BY <1>4, JournalUntouched DEF OrderFacts
<1>8. ReplayAlone'
  BY <1>2, <1>4, <1>5 DEF OrderFacts, ReplayAlone
<1>9. WritersInTurn'
  BY <1>2, <1>4, JournalConstants DEF OrderFacts, WritersInTurn
<1> QED
  BY <1>4, <1>6, <1>7, <1>8, <1>9 DEF OrderFacts

LEMMA EndOrder ==
  ASSUME TypeInv, OrderFacts, EndOfTail
  PROVE  OrderFacts'
<1> USE DEF diskVars, historyVars
<1>1. replay \in ReplayType
  BY DEF TypeInv, TypeOK, ReplayType
<1>2. /\ ~replay.frozen /\ replay.expected = sentinel /\ sentinel = Len(journal)
      /\ lock = "free" /\ process = "up"
  BY DEF EndOfTail, OrderFacts, ReplayAlone
<1>3. replay'.at = "done" /\ replay'.frozen = replay.frozen
  BY <1>1, <1>2 DEF EndOfTail, ReplayType
<1>4. /\ UNCHANGED <<journal, fragment, written, view>> /\ writer' = writer /\ sentinel' = sentinel
      /\ lock' = lock /\ process' = process /\ lossy' = lossy
  BY <1>2 DEF EndOfTail, Lossy, Conflict
<1>5. Numbered' /\ lossy' = {} /\ ViewLags' /\ (ViewIsJournal' <=> ViewIsJournal) /\ Latest' = Latest
  BY <1>4, JournalUntouched, ViewUntouched DEF OrderFacts
<1>6. ReplayAlone'
  BY <1>2, <1>3, <1>4 DEF OrderFacts, ReplayAlone
<1>7. WritersInTurn'
  BY <1>4, <1>5 DEF OrderFacts, WritersInTurn
<1> QED
  BY <1>5, <1>6, <1>7 DEF OrderFacts

\* While nothing fails, the replay keeps the order, and meets no conflict.
LEMMA ReconcileOrder ==
  ASSUME TypeInv, OrderInv, Reconcile
  PROVE  OrderInv'
<1> USE DEF diskVars, historyVars
<1>1. ASSUME NEW k \in FaultKinds, Fault(k) PROVE OrderInv'
  BY <1>1 DEF Fault, OrderInv, Smooth
<1>2. FaultKinds = {"append", "fragment", "save", "mark", "shard", "apply", "corrupt", "advance"}
  BY DEF FaultKinds
<1>3. ASSUME Smooth' /\ failed' = failed /\ ordered' = ordered PROVE Smooth /\ OrderFacts
  BY <1>3 DEF Smooth, OrderInv
<1>4. ASSUME ReadSentinel PROVE OrderInv'
  <2>1. failed' = failed /\ ordered' = ordered
    BY <1>4 DEF ReadSentinel
  <2> QED
    BY <1>3, <1>4, <2>1, ReadSentinelOrder DEF OrderInv
<1>5. ASSUME ReadTail PROVE OrderInv'
  <2>1. failed' = failed /\ ordered' = ordered
    BY <1>5 DEF ReadTail
  <2> QED
    BY <1>3, <1>5, <2>1, ReadTailOrder DEF OrderInv
<1>6. ASSUME MeetConflict PROVE OrderInv'
  <2>1. failed' = failed /\ ordered' = ordered
    BY <1>6 DEF MeetConflict
  <2>2. ~OrderFacts
    BY <1>6 DEF MeetConflict, Conflict, OrderFacts, ReplayAlone
  <2> QED
    BY <1>3, <2>1, <2>2 DEF OrderInv
<1>7. ASSUME ApplyEvent PROVE OrderInv'
  <2>1. failed' = failed /\ ordered' = ordered
    BY <1>7 DEF ApplyEvent
  <2> QED
    BY <1>3, <1>7, <2>1, ApplyOrder DEF OrderInv
<1>8. ASSUME AdvanceSentinel PROVE OrderInv'
  <2>1. failed' = failed /\ ordered' = ordered
    BY <1>8 DEF AdvanceSentinel
  <2> QED
    BY <1>3, <1>8, <2>1, AdvanceOrder DEF OrderInv
<1>9. ASSUME EndOfTail PROVE OrderInv'
  <2>1. failed' = failed /\ ordered' = ordered
    BY <1>9 DEF EndOfTail
  <2> QED
    BY <1>3, <1>9, <2>1, EndOrder DEF OrderInv
<1>10. ASSUME ProbeTail PROVE OrderInv'
  <2>1. failed' = failed /\ ordered' = ordered
    BY <1>10 DEF ProbeTail
  <2>2. ~OrderFacts
    BY <1>10 DEF ProbeTail, OrderFacts, ReplayAlone
  <2> QED
    BY <1>3, <2>1, <2>2 DEF OrderInv
<1>11. ASSUME ApplyFails \/ ShardUnreadable \/ AdvanceFails PROVE OrderInv'
  BY <1>1, <1>2, <1>11 DEF ApplyFails, ShardUnreadable, AdvanceFails
<1> QED
  BY <1>4, <1>5, <1>6, <1>7, <1>8, <1>9, <1>10, <1>11 DEF Reconcile

LEMMA ProcessOrder ==
  ASSUME TypeInv, OrderInv, Boot \/ Crash
  PROVE  OrderInv'
<1> USE DEF diskVars, historyVars
<1>1. UNCHANGED <<journal, fragment, written, view>> /\ sentinel' = sentinel
  BY DEF Boot, Crash
<1>2. failed' = failed /\ ordered' = ordered
  BY DEF Boot, Crash
<1> SUFFICES ASSUME Smooth', OrderFacts
             PROVE  OrderFacts'
  BY <1>2 DEF OrderInv, Smooth
<1>3. Numbered' /\ ViewLags' /\ (ViewIsJournal' <=> ViewIsJournal) /\ Latest' = Latest
  BY <1>1, JournalUntouched, ViewUntouched DEF OrderFacts
<1>4. CASE Boot
  <2>1. replay'.at = "sentinel" /\ ~replay'.frozen
    BY <1>4 DEF Boot, Unborn
  <2>2. replay.at = "off"
    BY <1>4 DEF Boot, OrderFacts, ReplayAlone
  <2>3. ReplayAlone'
    BY <1>4, <2>1, <2>2 DEF Boot, OrderFacts, ReplayAlone
  <2>4. WritersInTurn'
    BY <1>1, <1>3, <1>4 DEF Boot, OrderFacts, WritersInTurn
  <2> QED
    BY <1>3, <1>4, <2>3, <2>4 DEF Boot, OrderFacts
<1>5. CASE Crash
  <2>1. replay'.at = "off" /\ ~replay'.frozen /\ lock' = "free" /\ process' = "down"
    BY <1>5 DEF Crash, Unborn
  <2>2. \A f \in Files : writer'[f].at = "idle"
    BY <1>5 DEF Crash, Idle
  <2>3. lossy' = {}
    BY <1>5 DEF Crash, Lossy, InFlight, OrderFacts, ReplayAlone
  <2>4. ReplayAlone'
    BY <2>1, <2>2 DEF ReplayAlone
  <2>5. WritersInTurn'
    BY <2>1, <2>2, JournalConstants DEF WritersInTurn
  <2> QED
    BY <1>3, <2>3, <2>4, <2>5 DEF OrderFacts
<1> QED
  BY <1>4, <1>5

LEMMA InitOrder == Init => TypeInv /\ OrderInv
<1> SUFFICES ASSUME Init
             PROVE  TypeInv /\ OrderFacts
  BY DEF OrderInv
<1>1. TypeInv
  BY InitTypes DEF Init, TypeInv, Idle, Unborn
<1>2. Len(journal) = 0 /\ DOMAIN journal = {}
  BY DEF Init
<1>3. Numbered
  BY <1>2 DEF Init, Numbered
<1>4. ViewIsJournal
  BY <1>2 DEF Init, ViewIsJournal, Recorded
<1>5. ViewLags
  BY <1>2, <1>4 DEF Init, ViewLags
<1>6. ReplayAlone /\ WritersInTurn
  BY JournalConstants DEF Init, ReplayAlone, WritersInTurn, Unborn, Idle
<1> QED
  BY <1>1, <1>3, <1>5, <1>6 DEF Init, OrderFacts

LEMMA TypesKept ==
  ASSUME TypeInv, [Next]_vars
  PROVE  TypeInv'
<1>1. CASE Next
  BY <1>1, WriteTypes, ReconcileTypes, ProcessTypes DEF Next
<1>2. CASE UNCHANGED vars
  BY <1>2 DEF vars, diskVars, historyVars, TypeInv, TypeOK
<1> QED
  BY <1>1, <1>2

LEMMA OrderKept ==
  ASSUME TypeInv, OrderInv, [Next]_vars
  PROVE  OrderInv'
<1>1. CASE Next
  BY <1>1, WriteOrder, ReconcileOrder, ProcessOrder DEF Next
<1>2. CASE UNCHANGED vars
  <2>1. UNCHANGED <<journal, fragment, written, view>> /\ sentinel' = sentinel
    BY <1>2 DEF vars, diskVars
  <2>2. /\ Numbered => Numbered'
        /\ ViewLags => ViewLags'
        /\ ViewIsJournal' <=> ViewIsJournal
        /\ Latest' = Latest
    BY <2>1, JournalUntouched, ViewUntouched
  <2>3. ReplayAlone => ReplayAlone'
    BY <1>2, <2>2 DEF vars, diskVars, historyVars, ReplayAlone
  <2>4. WritersInTurn => WritersInTurn'
    BY <1>2, <2>2 DEF vars, diskVars, historyVars, WritersInTurn
  <2> QED
    BY <1>2, <2>2, <2>3, <2>4 DEF vars, diskVars, historyVars, OrderInv, Smooth, OrderFacts
<1> QED
  BY <1>1, <1>2

\* runtime.py awaits every reconciliation before live writers resume.  As long
\* as nothing fails, no event is lost, wherever the process dies.
THEOREM StartupOrder == Spec => []StartupOrderSuffices
<1>1. OrderInv => StartupOrderSuffices
  BY DEF OrderInv, Smooth, OrderFacts, StartupOrderSuffices
<1> QED
  BY <1>1, InitOrder, TypesKept, OrderKept, PTL DEF Spec

\* Then the views show what the journal records whenever the replay is done and
\* no writer has the journal's lock.
THEOREM ViewsShown == Spec => [](ordered /\ failed = {} /\ Quiet => ViewIsJournal)
<1>1. OrderInv => (ordered /\ failed = {} /\ Quiet => ViewIsJournal)
  BY DEF OrderInv, Smooth, OrderFacts, ReplayAlone, ViewLags, Quiet
<1> QED
  BY <1>1, InitOrder, TypesKept, OrderKept, PTL DEF Spec

\* And neither a replay nor a writer puts an older value over a newer one.
THEOREM NoRegress == Spec => ReplayNeverRegresses
<1>1. TypeInv /\ OrderInv /\ [Next]_vars => [ordered /\ failed = {} => ~Regresses]_vars
  <2> SUFFICES ASSUME TypeInv, OrderFacts, Next, NEW e \in Entries,
                      view[e] # Gone, view'[e] # Gone
               PROVE  ~(view'[e] < view[e])
    BY DEF OrderInv, Smooth, Regresses
  <2> USE DEF diskVars, historyVars
  <2>1. /\ view \in [Entries -> Values] /\ view[e] \in Nat /\ view[e] <= Len(journal)
        /\ Len(journal) \in Nat /\ journal \in Seq(Events) /\ sentinel \in Nat
    BY Bounds DEF TypeInv, TypeOK, Values, OrderFacts, ViewLags
  <2>2. CASE view' = view
    BY <2>1, <2>2
  <2>3. ASSUME NEW f \in Files, SaveView(f) PROVE ~(view'[e] < view[e])
    <3>1. /\ writer[f].id = Len(journal)
          /\ \A x \in Entries : FileOf[x] = f => writer[f].snap[x] = view[x]
      BY <2>3 DEF SaveView, OrderFacts, WritersInTurn
    <3>2. view'[e] \in {view[e], Gone, Len(journal)}
      BY <2>3, <3>1 DEF SaveView
    <3> QED
      BY <2>1, <3>2
  <2>4. CASE ApplyEvent
    <3>1. replay.tail = <<Latest>> /\ sentinel < Len(journal)
      BY <2>1, <2>4 DEF ApplyEvent, OrderFacts, ReplayAlone, ViewLags
    <3>2. Head(replay.tail).id = Len(journal)
      BY <2>1, <3>1 DEF OrderFacts, Numbered, Latest
    <3>3. view'[e] \in {view[e], Gone, Len(journal)}
      BY <2>1, <2>4, <3>2 DEF ApplyEvent
    <3> QED
      BY <2>1, <3>3
  <2>5. view' = view \/ ApplyEvent \/ \E f \in Files : SaveView(f)
    BY DEF Next, Boot, Crash, Reconcile, Write, LoadView, AppendEvent, AppendFails, SaveFails,
           MarkApplied, MarkFails, AppendShard, AppendShardFails, ReadSentinel, ReadTail,
           MeetConflict, ApplyFails, ShardUnreadable, AdvanceSentinel, AdvanceFails, EndOfTail,
           ProbeTail
  <2> QED
    BY <2>2, <2>3, <2>4, <2>5
<1> QED
  BY <1>1, InitOrder, TypesKept, OrderKept, PTL DEF Spec, ReplayNeverRegresses

-----------------------------------------------------------------------------
(***************************************************************************)
(* The marker, whatever fails.  Events stand in the journal in the order   *)
(* of their numbers, the tail a replay holds lies behind the event it has  *)
(* reached, and whoever has the lock moves the marker to the last event or *)
(* to the next one of the tail.                                            *)
(***************************************************************************)
\* Position, of an event number in a sequence of events.
PlaceIn(events, id) ==
  LET found == {i \in DOMAIN events : events[i].id = id}
  IN  IF found = {} THEN 0 ELSE Max(found)

Rises(events) ==
  \A i, j \in DOMAIN events : i < j => events[i].id < events[j].id

Rising == Rises(journal) /\ \A i \in DOMAIN journal : journal[i].id <= written

MarksKnown ==
  /\ sentinel <= written /\ replay.expected <= written
  /\ \A f \in Files : writer[f].id <= written

LockHeld ==
  /\ lock = "replay" <=> replay.at = "advance"
  /\ \A f \in Files : lock = f <=> writer[f].at \in {"appended", "saved"}

\* The writer that has the lock has written the last line.
LastIsWriters ==
  \A f \in Files : writer[f].at \in {"appended", "saved"} /\ "torn" \notin lossy =>
    Len(journal) > 0 /\ journal[Len(journal)].id = writer[f].id

\* tail stands in the sequence of events behind place i, which is not before
\* the event expected.
TailLies(events, tail, expected, i) ==
  /\ PlaceIn(events, expected) <= i /\ i + Len(tail) <= Len(events)
  /\ \A k \in 1 .. Len(tail) : tail[k] = events[i + k]

TailFollows ==
  /\ replay.at \in {"apply", "advance"} =>
       \E i \in Nat : TailLies(journal, replay.tail, replay.expected, i)
  /\ replay.at = "advance" => replay.expected = sentinel

Stopped == process = "down" => replay.at = "off"

MarkerInv == Rising /\ MarksKnown /\ LockHeld /\ LastIsWriters /\ TailFollows /\ Stopped

LEMMA PlaceBound ==
  ASSUME NEW events \in Seq(Events), NEW id
  PROVE  /\ PlaceIn(events, id) \in 0 .. Len(events)
         /\ PlaceIn(events, id) # 0 => events[PlaceIn(events, id)].id = id
         /\ \A i \in DOMAIN events : events[i].id = id => i <= PlaceIn(events, id)
<1> DEFINE found == {i \in DOMAIN events : events[i].id = id}
<1>1. found \in SUBSET (1 .. Len(events)) /\ Len(events) \in Nat
  OBVIOUS
<1>2. CASE found = {}
  BY <1>1, <1>2 DEF PlaceIn
<1>3. CASE found # {}
  <2>1. Max(found) \in found /\ \A i \in found : Max(found) >= i
    <3> HIDE DEF found
    <3> QED
      BY <1>1, <1>3, MaxIsGreatest
  <2>2. PlaceIn(events, id) = Max(found)
    BY <1>3 DEF PlaceIn
  <2> QED
    BY <1>1, <2>1, <2>2
<1> QED
  BY <1>2, <1>3

\* In a rising sequence, an event stands at one place.
LEMMA PlaceOf ==
  ASSUME NEW events \in Seq(Events), Rises(events), NEW i \in 1 .. Len(events)
  PROVE  PlaceIn(events, events[i].id) = i
<1> DEFINE p == PlaceIn(events, events[i].id)
<1>1. p \in 0 .. Len(events) /\ (p # 0 => events[p].id = events[i].id) /\ i <= p
  BY PlaceBound
<1>2. events[i].id \in Nat /\ Len(events) \in Nat /\ DOMAIN events = 1 .. Len(events)
  <2>1. events[i] \in Events
    OBVIOUS
  <2> QED
    BY <2>1, Bounds DEF Events
<1> HIDE DEF p
<1>3. p = i
  BY <1>1, <1>2 DEF Rises
<1> QED
  BY <1>3 DEF p

\* A new event moves no other one.
LEMMA PlaceAppended ==
  ASSUME NEW events \in Seq(Events), NEW ev \in Events, NEW id, id # ev.id
  PROVE  PlaceIn(Append(events, ev), id) = PlaceIn(events, id)
<1> DEFINE longer == Append(events, ev)
<1>1. /\ DOMAIN events = 1 .. Len(events) /\ DOMAIN longer = 1 .. Len(events) + 1
      /\ longer[Len(events) + 1] = ev /\ \A i \in 1 .. Len(events) : longer[i] = events[i]
      /\ Len(events) \in Nat
  OBVIOUS
<1> HIDE DEF longer
<1>2. {i \in DOMAIN longer : longer[i].id = id} = {i \in DOMAIN events : events[i].id = id}
  BY <1>1
<1>3. PlaceIn(longer, id) = PlaceIn(events, id)
  BY <1>2 DEF PlaceIn
<1> QED
  BY <1>3 DEF longer

\* The journal gets the next event, or nothing, also when a number is used up.
NextEvent(ev) == ev.id = written + 1 /\ journal' = Append(journal, ev) /\ written' = ev.id
JournalStep   == (journal' = journal /\ written' >= written) \/ \E ev \in Events : NextEvent(ev)

LEMMA EventIds ==
  ASSUME NEW events \in Seq(Events)
  PROVE  \A i \in 1 .. Len(events) : events[i].id \in Nat
<1>1. \A i \in 1 .. Len(events) : events[i] \in Events
  OBVIOUS
<1> QED
  BY <1>1, Bounds DEF Events

\* What a step of the journal keeps.
LEMMA JournalGrows ==
  ASSUME TypeInv, TypeInv', Rising, JournalStep
  PROVE  /\ Rising' /\ written <= written'
         /\ \A id \in 0 .. written : PlaceIn(journal', id) = PlaceIn(journal, id)
         /\ \A tail \in Seq(Events), id \in 0 .. written, i \in Nat :
              TailLies(journal, tail, id, i) => TailLies(journal', tail, id, i)
<1>1. written \in Nat /\ written' \in Nat /\ journal \in Seq(Events) /\ Len(journal) \in Nat
  BY Bounds DEF TypeInv, TypeOK
<1>2. CASE journal' = journal /\ written' >= written
  <2>1. \A i \in 1 .. Len(journal) : journal[i].id \in Nat /\ journal[i].id <= written
    BY <1>1, EventIds DEF Rising
  <2>2. Rising'
    BY <1>1, <1>2, <2>1 DEF Rising
  <2> QED
    BY <1>1, <1>2, <2>2
<1>3. ASSUME NEW ev \in Events, NextEvent(ev)
      PROVE  /\ Rising' /\ written <= written'
             /\ \A id \in 0 .. written : PlaceIn(journal', id) = PlaceIn(journal, id)
             /\ \A tail \in Seq(Events), id \in 0 .. written, i \in Nat :
                  TailLies(journal, tail, id, i) => TailLies(journal', tail, id, i)
  <2>1. journal' = Append(journal, ev) /\ ev.id = written + 1 /\ written' = written + 1
    BY <1>3 DEF NextEvent
  <2>2. /\ Len(journal') = Len(journal) + 1 /\ DOMAIN journal' = 1 .. (Len(journal) + 1)
        /\ journal'[Len(journal) + 1] = ev
        /\ \A i \in 1 .. Len(journal) : journal'[i] = journal[i]
    BY <1>1, <2>1
  <2>3. \A i \in 1 .. Len(journal) : journal[i].id \in Nat /\ journal[i].id <= written
    BY <1>1, EventIds DEF Rising
  <2>4. Rising'
    BY <1>1, <2>1, <2>2, <2>3 DEF Rising, Rises
  <2>5. \A id \in 0 .. written : PlaceIn(journal', id) = PlaceIn(journal, id)
    BY <1>1, <2>1, PlaceAppended
  <2>6. ASSUME NEW tail \in Seq(Events), NEW id \in 0 .. written, NEW i \in Nat,
               TailLies(journal, tail, id, i)
        PROVE  TailLies(journal', tail, id, i)
    <3>1. PlaceIn(journal, id) <= i /\ i + Len(tail) <= Len(journal) /\ Len(tail) \in Nat
      BY <2>6 DEF TailLies
    <3>2. \A k \in 1 .. Len(tail) : i + k \in 1 .. Len(journal)
      BY <1>1, <3>1
    <3>3. \A k \in 1 .. Len(tail) : tail[k] = journal'[i + k]
      BY <2>2, <2>6, <3>2 DEF TailLies
    <3> QED
      BY <1>1, <2>2, <2>5, <3>1, <3>3 DEF TailLies
  <2> QED
    BY <1>1, <2>1, <2>4, <2>5, <2>6
<1> QED
  BY <1>2, <1>3 DEF JournalStep

-----------------------------------------------------------------------------
Holding == {"appended", "saved"}

\* What a writer does outside the lock, taking it, holding it and releasing it.
Outside(f) ==
  /\ writer[f].at \notin Holding /\ writer'[f].at \notin Holding
  /\ lock' = lock /\ sentinel' = sentinel /\ (journal' = journal \/ lock = "free")
  /\ writer'[f].id \in {0, writer[f].id}

TakesLock(f) ==
  /\ lock = "free" /\ lock' = f /\ writer'[f].at \in Holding /\ sentinel' = sentinel
  /\ writer'[f].id = written'
  /\ "torn" \notin lossy' => Len(journal') > 0 /\ journal'[Len(journal')].id = written'

HoldsLock(f) ==
  /\ writer[f].at \in Holding /\ writer'[f].at \in Holding
  /\ lock' = lock /\ sentinel' = sentinel /\ journal' = journal
  /\ writer'[f].id = writer[f].id

Releases(f) ==
  /\ writer[f].at \in Holding /\ writer'[f].at \notin Holding
  /\ lock' = "free" /\ sentinel' \in {sentinel, writer[f].id} /\ journal' = journal
  /\ writer'[f].id \in {0, writer[f].id}

WriterStep(f) ==
  /\ process' = process /\ replay' = replay /\ lossy \subseteq lossy' /\ JournalStep
  /\ \A g \in Files \ {f} : writer'[g] = writer[g]
  /\ Outside(f) \/ TakesLock(f) \/ HoldsLock(f) \/ Releases(f)

LEMMA WriterSteps ==
  ASSUME TypeInv, NEW f \in Files, Write(f)
  PROVE  WriterStep(f)
<1> USE DEF diskVars, historyVars
<1>1. /\ journal \in Seq(Events) /\ Len(journal) \in Nat /\ written \in Nat
      /\ writer \in [Files -> WriterType] /\ TypeOK
      /\ writer[f].at # "idle" => writer[f].entry \in Entries
  BY Bounds DEF TypeInv, TypeOK, WriterType
<1>2. Idle.at = "idle" /\ Idle.id = 0
  BY DEF Idle
<1>3. ASSUME journal' = journal, written' = written PROVE JournalStep
  BY <1>1, <1>3 DEF JournalStep
<1>4. ASSUME NEW c, NEW k, Lossy(k, c) PROVE lossy \subseteq lossy'
  BY <1>4 DEF Lossy
<1>5. ASSUME NEW k \in Kinds, NEW e \in Entries, LoadView(f, k, e) PROVE WriterStep(f)
  <2>1. /\ writer'[f].at = "loaded" /\ writer'[f].id = 0 /\ writer[f].at = "idle"
        /\ \A g \in Files \ {f} : writer'[g] = writer[g]
    BY <1>1, <1>5 DEF LoadView
  <2>2. JournalStep
    BY <1>3, <1>5 DEF LoadView
  <2> QED
    BY <1>5, <2>1, <2>2 DEF LoadView, WriterStep, Outside, Holding
<1>6. ASSUME writer[f].at = "loaded", written < MaxEvents, written' = written + 1,
             journal' = IF fragment THEN journal
                        ELSE Append(journal, [id |-> written', kind |-> writer[f].kind,
                                              entry |-> writer[f].entry])
      PROVE  JournalStep /\ (~fragment => Len(journal') > 0 /\ journal'[Len(journal')].id = written')
  <2> DEFINE ev == [id |-> written + 1, kind |-> writer[f].kind, entry |-> writer[f].entry]
  <2>1. ev \in Events
    <3>1. written + 1 \in 1 .. MaxEvents
      BY <1>1, <1>6, Bounds
    <3>2. writer[f].kind \in Kinds /\ writer[f].entry \in Entries
      BY <1>1, <1>6 DEF WriterType
    <3> QED
      BY <3>1, <3>2 DEF Events
  <2>2. ev.id = written + 1
    OBVIOUS
  <2>3. journal' = IF fragment THEN journal ELSE Append(journal, ev)
    BY <1>6
  <2> HIDE DEF ev
  <2>4. CASE fragment
    BY <1>1, <1>6, <2>3, <2>4 DEF JournalStep
  <2>5. CASE ~fragment
    <3>1. NextEvent(ev)
      BY <1>6, <2>2, <2>3, <2>5 DEF NextEvent
    <3>2. Len(journal') = Len(journal) + 1 /\ journal'[Len(journal')] = ev
      BY <1>1, <2>1, <2>3, <2>5
    <3> QED
      BY <1>1, <1>6, <2>1, <2>2, <3>1, <3>2 DEF JournalStep
  <2> QED
    BY <2>4, <2>5
<1>7. CASE AppendEvent(f)
  <2>1. JournalStep /\ (~fragment => Len(journal') > 0 /\ journal'[Len(journal')].id = written')
    BY <1>6, <1>7 DEF AppendEvent
  <2>2. /\ writer'[f].at = "appended" /\ writer'[f].id = written'
        /\ \A g \in Files \ {f} : writer'[g] = writer[g]
    BY <1>1, <1>7 DEF AppendEvent, WriterType
  <2>3. lossy \subseteq lossy' /\ ("torn" \notin lossy' => ~fragment)
    BY <1>7 DEF AppendEvent, Lossy
  <2> QED
    BY <1>7, <2>1, <2>2, <2>3 DEF AppendEvent, WriterStep, TakesLock, Holding
<1>8. CASE AppendFails(f)
  <2>1. JournalStep
    BY <1>3, <1>6, <1>8 DEF AppendFails
  <2>2. /\ writer'[f].at = "idle" /\ writer'[f].id = 0
        /\ \A g \in Files \ {f} : writer'[g] = writer[g]
    BY <1>1, <1>2, <1>8 DEF AppendFails
  <2> QED
    BY <1>4, <1>8, <2>1, <2>2 DEF AppendFails, WriterStep, Outside, Holding
<1>9. CASE SaveView(f)
  <2>1. /\ writer'[f].at = "saved" /\ writer'[f].id = writer[f].id
        /\ \A g \in Files \ {f} : writer'[g] = writer[g]
    BY <1>1, <1>9 DEF SaveView, WriterType
  <2>2. JournalStep
    BY <1>3, <1>9 DEF SaveView
  <2> QED
    BY <1>9, <2>1, <2>2 DEF SaveView, WriterStep, HoldsLock, Holding
<1>10. CASE MarkApplied(f)
  <2>1. /\ writer'[f].at \in {"idle", "archiving"} /\ writer'[f].id \in {0, writer[f].id}
        /\ \A g \in Files \ {f} : writer'[g] = writer[g]
    BY <1>1, <1>2, <1>10 DEF MarkApplied, WriterType
  <2>2. JournalStep
    BY <1>3, <1>10 DEF MarkApplied
  <2> QED
    BY <1>4, <1>10, <2>1, <2>2 DEF MarkApplied, WriterStep, Releases, Holding
<1>11. CASE SaveFails(f) \/ MarkFails(f)
  <2>1. /\ writer'[f].at = "idle" /\ writer'[f].id = 0
        /\ \A g \in Files \ {f} : writer'[g] = writer[g]
    BY <1>1, <1>2, <1>11 DEF SaveFails, MarkFails
  <2>2. JournalStep
    BY <1>3, <1>11 DEF SaveFails, MarkFails
  <2> QED
    BY <1>11, <2>1, <2>2 DEF SaveFails, MarkFails, WriterStep, Releases, Holding
<1>12. CASE AppendShard(f) \/ AppendShardFails(f)
  <2>1. /\ writer'[f].at = "idle" /\ writer'[f].id = 0
        /\ \A g \in Files \ {f} : writer'[g] = writer[g]
    BY <1>1, <1>2, <1>12 DEF AppendShard, AppendShardFails
  <2>2. JournalStep
    BY <1>3, <1>12 DEF AppendShard, AppendShardFails
  <2> QED
    BY <1>12, <2>1, <2>2 DEF AppendShard, AppendShardFails, WriterStep, Outside, Holding
<1> QED
  BY <1>5, <1>7, <1>8, <1>9, <1>10, <1>11, <1>12 DEF Write

LEMMA WriterKeepsMarker ==
  ASSUME TypeInv, TypeInv', MarkerInv, NEW f \in Files, WriterStep(f)
  PROVE  MarkerInv'
<1>1. /\ replay \in ReplayType /\ sentinel \in Nat /\ written \in Nat /\ written' \in Nat
      /\ writer \in [Files -> WriterType] /\ \A g \in Files : writer[g].id \in Nat
      /\ replay.expected \in Nat /\ replay.tail \in Seq(Events)
  <2>1. writer \in [Files -> WriterType]
    BY DEF TypeInv, TypeOK, WriterType
  <2>2. \A g \in Files : writer[g].id \in Nat
    BY <2>1, Bounds DEF WriterType
  <2>3. replay \in ReplayType
    BY DEF TypeInv, TypeOK, ReplayType
  <2> QED
    BY <2>1, <2>2, <2>3, Bounds DEF TypeInv, TypeOK, ReplayType
<1>2. /\ Rising' /\ written <= written'
      /\ \A tail \in Seq(Events), id \in 0 .. written, i \in Nat :
           TailLies(journal, tail, id, i) => TailLies(journal', tail, id, i)
  BY JournalGrows DEF WriterStep, MarkerInv
<1>3. MarksKnown'
  <2>1. sentinel' <= written'
    BY <1>1, <1>2 DEF WriterStep, Outside, TakesLock, HoldsLock, Releases, MarkerInv, MarksKnown
  <2>2. replay'.expected <= written'
    BY <1>1, <1>2 DEF WriterStep, MarkerInv, MarksKnown
  <2>3. writer'[f].id <= written'
    BY <1>1, <1>2 DEF WriterStep, Outside, TakesLock, HoldsLock, Releases, MarkerInv, MarksKnown
  <2>4. \A g \in Files \ {f} : writer'[g].id <= written'
    BY <1>1, <1>2 DEF WriterStep, MarkerInv, MarksKnown
  <2> QED
    BY <2>1, <2>2, <2>3, <2>4 DEF MarksKnown
<1>4. LockHeld'
  BY JournalConstants DEF WriterStep, Outside, TakesLock, HoldsLock, Releases, Holding,
                          MarkerInv, LockHeld
<1>5. LastIsWriters'
  <2> SUFFICES ASSUME NEW g \in Files, writer'[g].at \in Holding, "torn" \notin lossy'
               PROVE  Len(journal') > 0 /\ journal'[Len(journal')].id = writer'[g].id
    BY DEF LastIsWriters, Holding
  <2>1. "torn" \notin lossy
    BY DEF WriterStep
  <2>2. lock' = g
    BY <1>4 DEF LockHeld, Holding
  <2>3. CASE TakesLock(f)
    BY <2>2, <2>3 DEF TakesLock
  <2>4. CASE Outside(f) \/ HoldsLock(f) \/ Releases(f)
    <3>1. lock = g /\ journal' = journal /\ writer'[g].id = writer[g].id
      BY <2>2, <2>4, JournalConstants DEF WriterStep, Outside, HoldsLock, Releases, Holding,
                                          MarkerInv, LockHeld
    <3> QED
      BY <2>1, <3>1 DEF MarkerInv, LastIsWriters, LockHeld
  <2> QED
    BY <2>3, <2>4 DEF WriterStep
<1>6. TailFollows'
  <2>1. replay' = replay
    BY DEF WriterStep
  <2>2. ASSUME replay.at \in {"apply", "advance"}
        PROVE  \E i \in Nat : TailLies(journal', replay.tail, replay.expected, i)
    BY <1>1, <1>2, <2>2 DEF MarkerInv, TailFollows, MarksKnown
  <2>3. ASSUME replay.at = "advance" PROVE sentinel' = sentinel
    BY <2>3, JournalConstants DEF WriterStep, Outside, TakesLock, HoldsLock, Releases, Holding,
                                  MarkerInv, LockHeld
  <2> QED
    BY <2>1, <2>2, <2>3 DEF MarkerInv, TailFollows
<1> QED
  BY <1>2, <1>3, <1>4, <1>5, <1>6 DEF WriterStep, MarkerInv, Stopped

-----------------------------------------------------------------------------
LEMMA SinceLies ==
  ASSUME journal \in Seq(Events), NEW id
  PROVE  /\ PlaceIn(journal, id) \in Nat
         /\ PlaceIn(journal, id) + Len(Since(id)) = Len(journal)
         /\ TailLies(journal, Since(id), id, PlaceIn(journal, id))
<1> DEFINE i == PlaceIn(journal, id)
<1>1. i \in 0 .. Len(journal) /\ Len(journal) \in Nat
  BY PlaceBound
<1>2. Since(id) = SubSeq(journal, i + 1, Len(journal))
  BY DEF Since, Position, PlaceIn
<1> HIDE DEF i
<1>3. Len(Since(id)) = Len(journal) - i
  BY <1>1, <1>2
<1>4. \A k \in 1 .. Len(journal) - i : Since(id)[k] = journal[i + k]
  BY <1>1, <1>2
<1>5. i <= i /\ i + Len(Since(id)) = Len(journal) /\ i \in Nat
  BY <1>1, <1>3
<1> QED
  BY <1>3, <1>4, <1>5 DEF TailLies, i

\* The first event of a tail stands behind the one the replay has reached.
LEMMA TailMoves ==
  ASSUME NEW events \in Seq(Events), Rises(events), NEW tail \in Seq(Events), tail # <<>>,
         NEW id, NEW i \in Nat, TailLies(events, tail, id, i)
  PROVE  /\ PlaceIn(events, Head(tail).id) > PlaceIn(events, id)
         /\ TailLies(events, Tail(tail), Head(tail).id, i + 1)
         /\ \E n \in DOMAIN events : Head(tail).id = events[n].id
<1>1. Len(tail) \in Nat /\ Len(tail) > 0 /\ Len(events) \in Nat
  OBVIOUS
<1>2. PlaceIn(events, id) <= i /\ i + Len(tail) <= Len(events)
  BY DEF TailLies
<1>3. PlaceIn(events, id) \in Nat
  BY PlaceBound
<1>4. i + 1 \in 1 .. Len(events) /\ Head(tail) = events[i + 1]
  BY <1>1, <1>2 DEF TailLies
<1>5. PlaceIn(events, Head(tail).id) = i + 1
  BY <1>4, PlaceOf
<1>6. Len(Tail(tail)) = Len(tail) - 1 /\ \A k \in 1 .. Len(tail) - 1 : Tail(tail)[k] = tail[k + 1]
  BY <1>1
<1>7. \A k \in 1 .. Len(tail) - 1 : tail[k + 1] = events[(i + 1) + k]
  BY <1>1 DEF TailLies
<1>8. TailLies(events, Tail(tail), Head(tail).id, i + 1)
  BY <1>1, <1>2, <1>5, <1>6, <1>7 DEF TailLies
<1> QED
  BY <1>2, <1>3, <1>4, <1>5, <1>8

\* A handler returns, and a replay moves on: it keeps what it knows of its tail.
LEMMA ReplayKeepsMarker ==
  ASSUME TypeInv, TypeInv', MarkerInv, Reconcile
  PROVE  MarkerInv'
<1> USE DEF diskVars, historyVars
<1>1. /\ journal \in Seq(Events) /\ Rises(journal) /\ replay \in ReplayType
      /\ replay.tail \in Seq(Events) /\ replay.expected \in Nat /\ sentinel \in Nat /\ written \in Nat
      /\ \A n \in DOMAIN journal : journal[n].id <= written
  BY Bounds DEF TypeInv, TypeOK, ReplayType, MarkerInv, Rising
<1>2. journal' = journal /\ written' = written /\ writer' = writer
  BY DEF Reconcile, ReadSentinel, ReadTail, MeetConflict, ApplyEvent, ApplyFails, ShardUnreadable,
         AdvanceSentinel, AdvanceFails, EndOfTail, ProbeTail
<1>3. lossy \subseteq lossy'
  BY DEF Reconcile, ReadSentinel, ReadTail, MeetConflict, ApplyEvent, ApplyFails, ShardUnreadable,
         AdvanceSentinel, AdvanceFails, EndOfTail, ProbeTail, Lossy
<1>s. Stopped'
  <2>1. process' = process /\ replay.at # "off"
    BY DEF Reconcile, ReadSentinel, ReadTail, MeetConflict, ApplyEvent, ApplyFails, ShardUnreadable,
           AdvanceSentinel, AdvanceFails, EndOfTail, ProbeTail
  <2> QED
    BY <2>1 DEF MarkerInv, Stopped
<1>4. SUFFICES /\ sentinel' <= written /\ replay'.expected <= written
               /\ LockHeld' /\ TailFollows'
  BY <1>2, <1>3, <1>s DEF MarkerInv, Rising, MarksKnown, LastIsWriters
<1>5. ASSUME NEW place \in {"read", "probe", "done", "paused"}, NEW mark \in Nat, mark <= written,
             replay'.at = place, replay'.expected = mark, sentinel' = sentinel,
             lock' = IF replay.at = "advance" THEN "free" ELSE lock
      PROVE  /\ sentinel' <= written /\ replay'.expected <= written
             /\ LockHeld' /\ TailFollows'
  BY <1>2, <1>5, JournalConstants DEF MarkerInv, MarksKnown, LockHeld, TailFollows
<1>6. CASE ReadSentinel
  <2>1. replay'.at = "read" /\ replay'.expected = sentinel
    BY <1>1, <1>6 DEF ReadSentinel, ReplayType
  <2> QED
    BY <1>1, <1>5, <1>6, <2>1 DEF ReadSentinel, MarkerInv, MarksKnown
<1>7. CASE MeetConflict
  <2>1. replay'.at = "read" /\ replay'.expected = replay.expected
    BY <1>1, <1>7 DEF MeetConflict, ReplayType
  <2> QED
    BY <1>1, <1>5, <1>7, <2>1 DEF MeetConflict, MarkerInv, MarksKnown
<1>8. CASE ApplyFails \/ AdvanceFails
  <2>1. replay'.at = "paused" /\ replay'.expected = replay.expected
    BY <1>1, <1>8 DEF ApplyFails, AdvanceFails, ReplayType
  <2> QED
    BY <1>1, <1>5, <1>8, <2>1 DEF ApplyFails, AdvanceFails, MarkerInv, MarksKnown
<1>9. CASE EndOfTail
  <2>1. replay'.at \in {"probe", "done"} /\ replay'.expected = replay.expected
    BY <1>1, <1>9 DEF EndOfTail, ReplayType
  <2> QED
    BY <1>1, <1>5, <1>9, <2>1 DEF EndOfTail, MarkerInv, MarksKnown
<1>10. ASSUME replay'.at = "apply", replay'.expected = replay.expected, sentinel' = sentinel,
              lock' = lock, lock = "free", replay'.tail = Since(replay.expected)
       PROVE  /\ sentinel' <= written /\ replay'.expected <= written
              /\ LockHeld' /\ TailFollows'
  <2>1. \E i \in Nat : TailLies(journal', replay'.tail, replay'.expected, i)
    BY <1>1, <1>2, <1>10, SinceLies
  <2>2. LockHeld'
    BY <1>2, <1>10 DEF MarkerInv, LockHeld
  <2> QED
    BY <1>10, <2>1, <2>2 DEF MarkerInv, MarksKnown, TailFollows
<1>11. CASE ReadTail
  <2>1. /\ replay'.at = "apply" /\ replay'.expected = replay.expected
        /\ replay'.tail = Since(replay.expected)
    BY <1>1, <1>11 DEF ReadTail, ReplayType
  <2> QED
    BY <1>10, <1>11, <2>1 DEF ReadTail
<1>12. CASE ProbeTail
  <2>1. \/ replay' = [replay EXCEPT !.at = "done"]
        \/ replay' = [replay EXCEPT !.at = "apply", !.tail = Since(replay.expected), !.rescans = @ - 1]
    BY <1>12 DEF ProbeTail
  <2>2. \/ replay'.at = "done" /\ replay'.expected = replay.expected
        \/ /\ replay'.at = "apply" /\ replay'.expected = replay.expected
           /\ replay'.tail = Since(replay.expected)
    BY <1>1, <2>1 DEF ReplayType
  <2>3. sentinel' = sentinel /\ lock' = lock /\ lock = "free" /\ replay.at = "probe"
    BY <1>12 DEF ProbeTail
  <2> QED
    BY <1>1, <1>5, <1>10, <2>2, <2>3 DEF MarkerInv, MarksKnown
<1>13. ASSUME replay.at \in {"apply", "advance"}, replay.tail # <<>>
       PROVE  /\ Head(replay.tail).id <= written
              /\ \E i \in Nat : TailLies(journal, Tail(replay.tail), Head(replay.tail).id, i)
  <2>1. PICK i \in Nat : TailLies(journal, replay.tail, replay.expected, i)
    BY <1>13 DEF MarkerInv, TailFollows
  <2>2. /\ TailLies(journal, Tail(replay.tail), Head(replay.tail).id, i + 1)
        /\ \E n \in DOMAIN journal : Head(replay.tail).id = journal[n].id
    BY <1>1, <1>13, <2>1, TailMoves
  <2> QED
    BY <1>1, <2>2
<1>14. CASE ApplyEvent \/ ShardUnreadable
  <2>1. /\ replay.at = "apply" /\ replay.tail # <<>> /\ lock = "free" /\ ~Conflict
        /\ sentinel' = sentinel /\ HandlerReturned(Head(replay.tail))
    BY <1>14 DEF ApplyEvent, ShardUnreadable
  <2>2. CASE replay.frozen
    <3>1. /\ replay'.at = "apply" /\ replay'.expected = Head(replay.tail).id
          /\ replay'.tail = Tail(replay.tail) /\ lock' = lock
      BY <1>1, <2>1, <2>2 DEF HandlerReturned, ReplayType
    <3>2. LockHeld'
      BY <1>2, <2>1, <3>1 DEF MarkerInv, LockHeld
    <3> QED
      BY <1>2, <1>13, <2>1, <3>1, <3>2 DEF MarkerInv, MarksKnown, TailFollows
  <2>3. CASE ~replay.frozen
    <3>1. /\ replay'.at = "advance" /\ replay'.expected = replay.expected
          /\ replay'.tail = replay.tail /\ lock' = "replay"
      BY <1>1, <2>1, <2>3 DEF HandlerReturned, ReplayType
    <3>2. LockHeld'
      BY <1>2, <2>1, <3>1, JournalConstants DEF MarkerInv, LockHeld
    <3>3. replay.expected = sentinel
      BY <2>1, <2>3 DEF Conflict
    <3> QED
      BY <1>2, <2>1, <3>1, <3>2, <3>3 DEF MarkerInv, MarksKnown, TailFollows
  <2> QED
    BY <2>2, <2>3
<1>15. CASE AdvanceSentinel
  <2>1. replay.at = "advance" /\ replay.tail # <<>> /\ sentinel' = Head(replay.tail).id /\ lock' = "free"
    BY <1>15 DEF AdvanceSentinel, TypeInv
  <2>2. replay'.at = "apply" /\ replay'.expected = sentinel' /\ replay'.tail = Tail(replay.tail)
    BY <1>1, <1>15 DEF AdvanceSentinel, ReplayType
  <2>3. LockHeld'
    BY <1>2, <2>1, <2>2, JournalConstants DEF MarkerInv, LockHeld
  <2> QED
    BY <1>2, <1>13, <2>1, <2>2, <2>3 DEF MarkerInv, TailFollows
<1> QED
  BY <1>6, <1>7, <1>8, <1>9, <1>11, <1>12, <1>14, <1>15 DEF Reconcile

LEMMA ProcessKeepsMarker ==
  ASSUME TypeInv, MarkerInv, Boot \/ Crash
  PROVE  MarkerInv'
<1> USE DEF diskVars, historyVars
<1>1. journal' = journal /\ written' = written /\ sentinel' = sentinel /\ written \in Nat
  BY Bounds DEF Boot, Crash, TypeInv, TypeOK
<1>2. replay'.at \in {"off", "sentinel"} /\ replay'.expected = 0
  BY DEF Boot, Crash, Unborn
<1>3. CASE Boot
  <2>1. process = "down" /\ writer' = writer /\ lock' = lock /\ lossy' = lossy
    BY <1>3 DEF Boot
  <2>2. replay.at # "advance" /\ process' = "up"
    BY <1>3, <2>1 DEF Boot, MarkerInv, Stopped
  <2> QED
    BY <1>1, <1>2, <2>1, <2>2
       DEF MarkerInv, Rising, MarksKnown, LockHeld, LastIsWriters, TailFollows, Stopped
<1>4. CASE Crash
  <2>1. /\ lock' = "free" /\ replay'.at = "off"
        /\ \A f \in Files : writer'[f].at = "idle" /\ writer'[f].id = 0
    BY <1>4 DEF Crash, Idle, Unborn
  <2> QED
    BY <1>1, <1>2, <2>1, JournalConstants
       DEF MarkerInv, Rising, MarksKnown, LockHeld, LastIsWriters, TailFollows, Stopped
<1> QED
  BY <1>3, <1>4

LEMMA MarkerKept ==
  ASSUME TypeInv, MarkerInv, [Next]_vars
  PROVE  MarkerInv'
<1>1. TypeInv'
  BY TypesKept
<1>2. CASE Next
  BY <1>1, <1>2, WriterSteps, WriterKeepsMarker, ReplayKeepsMarker, ProcessKeepsMarker DEF Next
<1>3. CASE UNCHANGED vars
  BY <1>3 DEF vars, diskVars, historyVars, MarkerInv, Rising, MarksKnown, LockHeld, LastIsWriters,
              TailFollows, Stopped
<1> QED
  BY <1>2, <1>3

LEMMA InitMarker == Init => MarkerInv
<1> SUFFICES ASSUME Init PROVE MarkerInv
  OBVIOUS
<1>1. DOMAIN journal = {} /\ replay.at = "off" /\ replay.expected = 0
  BY DEF Init, Unborn
<1>2. \A f \in Files : writer[f].at = "idle" /\ writer[f].id = 0
  BY DEF Init, Idle
<1> QED
  BY <1>1, <1>2, JournalConstants DEF Init, MarkerInv, Rising, Rises, MarksKnown, LockHeld,
                                      LastIsWriters, TailFollows, Stopped

\* Whatever fails, the replay and the live writers move the marker forward in
\* the journal, except past a line written behind half a line.
THEOREM MarkerMovesForward == Spec => SentinelMovesForward
<1>1. Init => MarkerInv
  BY InitMarker
<1>2. TypeInv /\ TypeInv' /\ MarkerInv /\ [Next]_vars =>
        [lossy' \cap {"torn"} = {} => Position(sentinel)' >= Position(sentinel)]_vars
  <2> SUFFICES ASSUME TypeInv, TypeInv', MarkerInv, Next, "torn" \notin lossy'
               PROVE  Position(sentinel)' >= Position(sentinel)
    BY DEF vars
  <2> USE DEF diskVars
  <2>1. /\ journal \in Seq(Events) /\ Len(journal) \in Nat /\ sentinel \in 0 .. written
        /\ Rises(journal) /\ replay.tail \in Seq(Events)
    BY Bounds DEF TypeInv, TypeOK, MarkerInv, MarksKnown, Rising
  <2>2. Position(sentinel) = PlaceIn(journal, sentinel) /\ Position(sentinel)' = PlaceIn(journal', sentinel')
    BY DEF Position, PlaceIn
  <2>3. PlaceIn(journal, sentinel) \in 0 .. Len(journal)
    BY <2>1, PlaceBound
  <2>4. ASSUME journal' = journal, sentinel' = sentinel PROVE Position(sentinel)' >= Position(sentinel)
    BY <2>1, <2>2, <2>3, <2>4
  <2>5. ASSUME NEW f \in Files, WriterStep(f) PROVE Position(sentinel)' >= Position(sentinel)
    <3>1. CASE sentinel' = sentinel
      <4>1. PlaceIn(journal', sentinel) = PlaceIn(journal, sentinel)
        BY <2>1, <2>5, JournalGrows DEF WriterStep, MarkerInv
      <4> QED
        BY <2>1, <2>2, <2>3, <3>1, <4>1
    <3>2. CASE sentinel' # sentinel
      <4>1. writer[f].at \in Holding /\ sentinel' = writer[f].id /\ journal' = journal
        BY <2>5, <3>2 DEF WriterStep, Outside, TakesLock, HoldsLock, Releases
      <4>2. Len(journal) > 0 /\ journal[Len(journal)].id = sentinel'
        BY <2>5, <4>1 DEF WriterStep, Holding, MarkerInv, LastIsWriters
      <4>3. PlaceIn(journal', sentinel') = Len(journal)
        BY <2>1, <4>1, <4>2, PlaceOf
      <4> QED
        BY <2>1, <2>2, <2>3, <4>3
    <3> QED
      BY <3>1, <3>2
  <2>6. CASE AdvanceSentinel
    <3>1. replay.at = "advance" /\ replay.tail # <<>>
      BY <2>6 DEF AdvanceSentinel, TypeInv
    <3>2. replay.expected = sentinel /\ sentinel' = Head(replay.tail).id /\ journal' = journal
      BY <2>6, <3>1 DEF AdvanceSentinel, MarkerInv, TailFollows
    <3>3. PICK i \in Nat : TailLies(journal, replay.tail, sentinel, i)
      BY <3>1, <3>2 DEF MarkerInv, TailFollows
    <3>4. PlaceIn(journal', sentinel') > PlaceIn(journal, sentinel)
      BY <2>1, <3>1, <3>2, <3>3, TailMoves
    <3>5. PlaceIn(journal', sentinel') \in Nat
      BY <2>1, <3>2, PlaceBound
    <3> QED
      BY <2>2, <2>3, <3>4, <3>5
  <2>7. CASE Reconcile /\ ~AdvanceSentinel
    <3>1. journal' = journal /\ sentinel' = sentinel
      BY <2>7 DEF Reconcile, ReadSentinel, ReadTail, MeetConflict, ApplyEvent, ApplyFails,
                  ShardUnreadable, AdvanceFails, EndOfTail, ProbeTail
    <3> QED
      BY <2>4, <3>1
  <2>8. CASE Boot \/ Crash
    <3>1. journal' = journal /\ sentinel' = sentinel
      BY <2>8 DEF Boot, Crash
    <3> QED
      BY <2>4, <3>1
  <2> QED
    BY <2>5, <2>6, <2>7, <2>8, WriterSteps DEF Next
<1> QED
  BY <1>1, <1>2, InitOrder, TypesKept, MarkerKept, PTL DEF Spec, SentinelMovesForward

-----------------------------------------------------------------------------
(***************************************************************************)
(* The views, whatever fails, as long as nothing in LossKinds has happened.*)
(* There is a place in the journal behind which every difference between   *)
(* the views and the journal lies: the marker's while no replay runs, the  *)
(* one a running replay has reached.                                       *)
(***************************************************************************)
\* Recorded, of a sequence of events.
RecordedIn(events, e) ==
  LET about == {i \in DOMAIN events : events[i].entry = e}
  IN  IF \E i \in about : events[i].kind = "archive" THEN Gone
      ELSE IF about = {} THEN 0 ELSE events[Max(about)].id

IsArchived(events, e) == \E i \in DOMAIN events : events[i].entry = e /\ events[i].kind = "archive"

\* Applying the events behind place p brings the views, as in v, to what the
\* events record.
Heals(v, events, p) ==
  \A e \in Entries :
    /\ v[e] = Gone => RecordedIn(events, e) = Gone
    /\ v[e] # RecordedIn(events, e) =>
         \E i \in p + 1 .. Len(events) :
           events[i].entry = e /\ (RecordedIn(events, e) = Gone => events[i].kind = "archive")

\* A writer has what the view has until it saves its own event, the latest.
LiveWriters ==
  \A f \in Files :
    /\ writer[f].at \in {"loaded", "appended"} =>
         /\ FileOf[writer[f].entry] = f /\ view[writer[f].entry] # Gone
         /\ \A e \in Entries : FileOf[e] = f => writer[f].snap[e] = view[e]
    /\ writer[f].at \in Holding =>
         Latest.kind = writer[f].kind /\ Latest.entry = writer[f].entry
    /\ replay.at \in {"off", "sentinel"} => writer[f].at = "idle"

\* What a replay has read reaches to the end of the journal, except for what
\* was appended since; unless something fails, that is the event of the writer
\* that has the lock, as long as the marker has not moved.
TailReaches(end) ==
  /\ lock \in Files => end < Len(journal)
  /\ healthy /\ ~replay.frozen /\ sentinel = replay.expected /\ lock \notin Files =>
       end = Len(journal)

ReplayHeals ==
  /\ replay.at \in {"off", "sentinel", "done", "paused"} => Heals(view, journal, PlaceIn(journal, sentinel))
  /\ replay.at \in {"read", "probe"} => Heals(view, journal, PlaceIn(journal, replay.expected))
  /\ replay.at \in {"apply", "advance"} =>
       \E i \in Nat : /\ TailLies(journal, replay.tail, replay.expected, i)
                      /\ Heals(view, journal, IF replay.at = "advance" THEN i + 1 ELSE i)
                      /\ TailReaches(i + Len(replay.tail))
  /\ replay.at = "done" /\ healthy /\ lock \notin Files => Heals(view, journal, Len(journal))
  /\ replay.at = "paused" => ~healthy

LossInv == lossy = {} => LiveWriters /\ ReplayHeals

LEMMA RecordedIs ==
  ASSUME NEW events \in Seq(Events), NEW e
  PROVE  /\ RecordedIn(events, e) = Gone <=> IsArchived(events, e)
         /\ ~IsArchived(events, e) /\ (\E i \in DOMAIN events : events[i].entry = e) =>
              \E m \in DOMAIN events :
                /\ events[m].entry = e /\ RecordedIn(events, e) = events[m].id
                /\ \A i \in DOMAIN events : events[i].entry = e => i <= m
<1> DEFINE about == {i \in DOMAIN events : events[i].entry = e}
<1>1. Len(events) \in Nat /\ DOMAIN events = 1 .. Len(events) /\ about \in SUBSET (1 .. Len(events))
  OBVIOUS
<1>2. (\E i \in about : events[i].kind = "archive") <=> IsArchived(events, e)
  BY DEF IsArchived
<1>3. RecordedIn(events, e) = IF IsArchived(events, e) THEN Gone
                              ELSE IF about = {} THEN 0 ELSE events[Max(about)].id
  BY <1>2 DEF RecordedIn
<1>4. about # {} => Max(about) \in about /\ \A i \in about : Max(about) >= i
  <2> HIDE DEF about
  <2> QED
    BY <1>1, MaxIsGreatest
<1>5. \A i \in DOMAIN events : events[i].id \in Nat
  BY <1>1, EventIds
<1>6. Gone \notin Nat
  BY JournalConstants
<1>7. about # {} => /\ Max(about) \in DOMAIN events /\ events[Max(about)].entry = e
                    /\ \A i \in DOMAIN events : events[i].entry = e => i <= Max(about)
  BY <1>1, <1>4
<1>8. (\E i \in DOMAIN events : events[i].entry = e) => about # {}
  OBVIOUS
<1> HIDE DEF about
<1>9. RecordedIn(events, e) = Gone <=> IsArchived(events, e)
  BY <1>3, <1>5, <1>6, <1>7
<1> QED
  BY <1>3, <1>7, <1>8, <1>9

\* Behind an earlier place lies more, and views like the journal need nothing.
LEMMA HealsLess ==
  ASSUME NEW p \in Nat, NEW q \in Nat, p <= q, Heals(view, journal, q)
  PROVE  Heals(view, journal, p)
  BY DEF Heals

LEMMA HealsAll ==
  ASSUME journal \in Seq(Events)
  PROVE  /\ Heals(view, journal, Len(journal)) => ViewIsJournal
         /\ ViewIsJournal => \A p \in Nat : Heals(view, journal, p)
<1>1. Len(journal) \in Nat
  OBVIOUS
<1>2. \A e \in Entries : Recorded(e) = RecordedIn(journal, e)
  BY DEF Recorded, RecordedIn
<1> QED
  BY <1>1, <1>2 DEF Heals, ViewIsJournal

LEMMA HealsKept ==
  ASSUME UNCHANGED <<journal, view>>
  PROVE  \A p \in Nat : Heals(view', journal', p) <=> Heals(view, journal, p)
  OBVIOUS

LEMMA HealsAppended ==
  ASSUME TypeInv, NEW ev \in Events, journal' = Append(journal, ev), view' = view,
         view[ev.entry] # Gone, NEW p \in Nat, p <= Len(journal), Heals(view, journal, p)
  PROVE  Heals(view', journal', p)
<1>1. /\ Len(journal) \in Nat /\ DOMAIN journal = 1 .. Len(journal)
      /\ journal' \in Seq(Events) /\ Len(journal') = Len(journal) + 1
      /\ DOMAIN journal' = 1 .. (Len(journal) + 1) /\ journal'[Len(journal) + 1] = ev
      /\ \A i \in 1 .. Len(journal) : journal'[i] = journal[i]
      /\ journal \in Seq(Events)
  <2>1. journal \in Seq(Events)
    BY DEF TypeInv, TypeOK
  <2> QED
    BY <2>1
<1>2. \A e \in Entries : Recorded(e) = RecordedIn(journal, e) /\ Recorded(e)' = RecordedIn(journal', e)
  BY DEF Recorded, RecordedIn
<1> SUFFICES ASSUME NEW e \in Entries
             PROVE  /\ view[e] = Gone => RecordedIn(journal', e) = Gone
                    /\ view[e] # RecordedIn(journal', e) =>
                         \E i \in p + 1 .. Len(journal') :
                           journal'[i].entry = e /\ (RecordedIn(journal', e) = Gone => journal'[i].kind = "archive")
  BY DEF Heals
<1>3. /\ view[e] = Gone => RecordedIn(journal, e) = Gone
      /\ view[e] # RecordedIn(journal, e) =>
           \E i \in p + 1 .. Len(journal) :
             journal[i].entry = e /\ (RecordedIn(journal, e) = Gone => journal[i].kind = "archive")
  BY DEF Heals
<1>4. \A i \in p + 1 .. Len(journal) : i \in p + 1 .. Len(journal') /\ journal'[i] = journal[i]
  BY <1>1
<1>5. Len(journal) + 1 \in p + 1 .. Len(journal')
  BY <1>1
<1>6. CASE e # ev.entry
  <2>1. RecordedIn(journal', e) = RecordedIn(journal, e)
    BY <1>2, <1>6, Appended
  <2> QED
    BY <1>3, <1>4, <2>1
<1>7. CASE e = ev.entry
  <2>1. CASE RecordedIn(journal', e) # Gone
    BY <1>1, <1>5, <1>7, <2>1
  <2>2. CASE RecordedIn(journal', e) = Gone
    <3>1. PICK i \in DOMAIN journal' : journal'[i].entry = e /\ journal'[i].kind = "archive"
      <4>1. RecordedIn(journal', e) = Gone /\ journal' \in Seq(Events)
        BY <1>1, <1>2, <2>2
      <4>2. IsArchived(journal', e)
        BY <4>1, RecordedIs
      <4> QED
        BY <4>2 DEF IsArchived
    <3>2. CASE i = Len(journal) + 1
      BY <1>5, <1>7, <2>2, <3>1, <3>2
    <3>3. CASE i # Len(journal) + 1
      <4>1. IsArchived(journal, e)
        BY <1>1, <3>1, <3>3 DEF IsArchived
      <4>2. RecordedIn(journal, e) = Gone
        BY <1>1, <1>2, <4>1, RecordedIs
      <4> QED
        BY <1>3, <1>4, <1>7, <2>2, <4>2
    <3> QED
      BY <3>2, <3>3
  <2> QED
    BY <2>1, <2>2
<1> QED
  BY <1>6, <1>7

\* A writer saves the latest event.
LEMMA HealsSaved ==
  ASSUME TypeInv, LiveWriters, LastIsWriters, "torn" \notin lossy, NEW f \in Files, SaveView(f),
         NEW p \in Nat, Heals(view, journal, p)
  PROVE  Heals(view', journal', p)
<1> USE DEF diskVars
<1>1. /\ journal \in Seq(Events) /\ Len(journal) \in Nat /\ DOMAIN journal = 1 .. Len(journal)
  BY DEF TypeInv, TypeOK
<1>2. /\ Len(journal) > 0 /\ Latest.id = writer[f].id /\ Latest.kind = writer[f].kind
      /\ Latest.entry = writer[f].entry /\ FileOf[writer[f].entry] = f /\ view[writer[f].entry] # Gone
      /\ \A e \in Entries : FileOf[e] = f => writer[f].snap[e] = view[e]
  BY DEF SaveView, LiveWriters, LastIsWriters, Holding, Latest
<1>3. journal' = journal
  BY DEF SaveView
<1> SUFFICES ASSUME NEW e \in Entries
             PROVE  /\ view'[e] = Gone => RecordedIn(journal, e) = Gone
                    /\ view'[e] # RecordedIn(journal, e) =>
                         \E i \in p + 1 .. Len(journal) :
                           journal[i].entry = e /\ (RecordedIn(journal, e) = Gone => journal[i].kind = "archive")
  BY <1>1, <1>3 DEF Heals
<1>4. CASE e # Latest.entry
  <2>1. view'[e] = view[e]
    BY <1>2, <1>4 DEF SaveView
  <2> QED
    BY <2>1 DEF Heals
<1>5. CASE e = Latest.entry
  <2>1. view'[e] = IF Latest.kind = "archive" THEN Gone ELSE Latest.id
    BY <1>2, <1>5 DEF SaveView
  <2>2. Latest.id \in Nat /\ Len(journal) \in DOMAIN journal
    BY <1>1, <1>2, EventIds DEF Latest
  <2>3. CASE Latest.kind = "archive"
    <3>1. IsArchived(journal, e)
      BY <1>5, <2>2, <2>3 DEF IsArchived, Latest
    <3> QED
      BY <1>1, <1>3, <2>1, <2>3, <3>1, RecordedIs
  <2>4. CASE Latest.kind # "archive" /\ RecordedIn(journal, e) = Gone
    BY <1>2, <1>5, <2>1, <2>2, <2>4, JournalConstants DEF Heals
  <2>5. CASE Latest.kind # "archive" /\ RecordedIn(journal, e) # Gone
    <3>1. PICK m \in DOMAIN journal : /\ RecordedIn(journal, e) = journal[m].id
                                      /\ \A i \in DOMAIN journal : journal[i].entry = e => i <= m
      BY <1>1, <1>3, <1>5, <2>2, <2>5, RecordedIs DEF Latest
    <3>2. Len(journal) <= m
      BY <1>5, <2>2, <3>1 DEF Latest
    <3>3. m = Len(journal)
      BY <1>1, <3>2
    <3> QED
      BY <2>1, <2>2, <2>5, <3>1, <3>3, JournalConstants DEF Latest
  <2> QED
    BY <2>3, <2>4, <2>5
<1> QED
  BY <1>4, <1>5

\* A replay applies the event behind place i.
Applies(ev) ==
  view' = IF ev.kind = "archive" THEN [view EXCEPT ![ev.entry] = Gone]
          ELSE IF view[ev.entry] = Gone THEN view
          ELSE [view EXCEPT ![ev.entry] = ev.id]

LEMMA HealsApplied ==
  ASSUME TypeInv, journal' = journal, NEW i \in Nat, i + 1 <= Len(journal), Heals(view, journal, i),
         Applies(journal[i + 1])
  PROVE  Heals(view', journal', i + 1)
<1> DEFINE ev == journal[i + 1]
<1>1. /\ journal \in Seq(Events) /\ Len(journal) \in Nat /\ DOMAIN journal = 1 .. Len(journal)
      /\ view \in [Entries -> Values] /\ i + 1 \in DOMAIN journal
  BY DEF TypeInv, TypeOK
<1>2. ev \in Events /\ ev.id \in Nat /\ ev.entry \in Entries
  <2>1. ev \in Events
    BY <1>1
  <2> QED
    BY <1>1, <2>1, EventIds DEF Events
<1>3. journal' = journal
  OBVIOUS
<1>4. view' = IF ev.kind = "archive" THEN [view EXCEPT ![ev.entry] = Gone]
              ELSE IF view[ev.entry] = Gone THEN view
              ELSE [view EXCEPT ![ev.entry] = ev.id]
  BY DEF Applies
<1>5. ev = journal[i + 1]
  OBVIOUS
<1> HIDE DEF ev
<1> SUFFICES ASSUME NEW e \in Entries
             PROVE  /\ view'[e] = Gone => RecordedIn(journal, e) = Gone
                    /\ view'[e] # RecordedIn(journal, e) =>
                         \E n \in i + 1 + 1 .. Len(journal) :
                           journal[n].entry = e /\ (RecordedIn(journal, e) = Gone => journal[n].kind = "archive")
  BY <1>3 DEF Heals
<1>6. /\ view[e] = Gone => RecordedIn(journal, e) = Gone
      /\ view[e] # RecordedIn(journal, e) =>
           \E n \in i + 1 .. Len(journal) :
             journal[n].entry = e /\ (RecordedIn(journal, e) = Gone => journal[n].kind = "archive")
  BY DEF Heals
<1>7. \A n \in i + 1 .. Len(journal) : n = i + 1 \/ n \in i + 1 + 1 .. Len(journal)
  BY <1>1
<1>8. CASE e # ev.entry
  <2>1. view'[e] = view[e]
    BY <1>1, <1>2, <1>4, <1>8
  <2> QED
    BY <1>5, <1>6, <1>7, <1>8, <2>1
<1>9. CASE e = ev.entry /\ ev.kind = "archive"
  <2>1. view'[e] = Gone
    BY <1>1, <1>2, <1>4, <1>9
  <2>2. IsArchived(journal, e)
    BY <1>1, <1>5, <1>9 DEF IsArchived
  <2> QED
    BY <1>1, <1>3, <2>1, <2>2, RecordedIs
<1>10. CASE e = ev.entry /\ ev.kind # "archive" /\ view[e] = Gone
  <2>1. view'[e] = Gone
    BY <1>4, <1>10
  <2> QED
    BY <1>6, <1>10, <2>1
<1>11. CASE e = ev.entry /\ ev.kind # "archive" /\ view[e] # Gone
  <2>1. view'[e] = ev.id
    BY <1>1, <1>2, <1>4, <1>11
  <2>2. CASE RecordedIn(journal, e) = Gone
    BY <1>2, <1>5, <1>6, <1>7, <1>11, <2>1, <2>2, JournalConstants
  <2>3. CASE RecordedIn(journal, e) # Gone
    <3>1. PICK m \in DOMAIN journal :
            /\ journal[m].entry = e /\ RecordedIn(journal, e) = journal[m].id
            /\ \A n \in DOMAIN journal : journal[n].entry = e => n <= m
      BY <1>1, <1>3, <1>5, <1>11, <2>3, RecordedIs
    <3>2. i + 1 <= m
      BY <1>1, <1>5, <1>11, <3>1
    <3>3. CASE m = i + 1
      BY <1>2, <1>5, <2>1, <2>3, <3>1, <3>3, JournalConstants
    <3>4. CASE m # i + 1
      <4>1. m \in i + 1 + 1 .. Len(journal)
        BY <1>1, <3>1, <3>2, <3>4
      <4> QED
        BY <1>2, <2>1, <2>3, <3>1, <4>1, JournalConstants
    <3> QED
      BY <3>3, <3>4
  <2> QED
    BY <2>2, <2>3
<1> QED
  BY <1>8, <1>9, <1>10, <1>11

\* A writer at work has a replay that has read the marker, and writes no line
\* that is lost.
LEMMA WriterAtWork ==
  ASSUME TypeInv, LiveWriters, NEW f \in Files, Write(f)
  PROVE  replay.at \notin {"off", "sentinel"}
<1>1. \/ MayWrite \/ writer[f].at # "idle"
  BY DEF Write, LoadView, AppendEvent, AppendFails, SaveView, SaveFails, MarkApplied, MarkFails,
         AppendShard, AppendShardFails
<1> QED
  BY <1>1 DEF MayWrite, LiveWriters

LEMMA WriterHeals ==
  ASSUME TypeInv, LiveWriters, LastIsWriters, NEW f \in Files, Write(f), lossy' = {},
         NEW p \in Nat, p <= Len(journal), Heals(view, journal, p)
  PROVE  Heals(view', journal', p)
<1> USE DEF diskVars, historyVars
<1>1. /\ journal \in Seq(Events) /\ Len(journal) \in Nat /\ written \in Nat
      /\ writer \in [Files -> WriterType]
      /\ writer[f].at # "idle" => writer[f].entry \in Entries
  BY Bounds DEF TypeInv, TypeOK, WriterType
<1>2. ASSUME journal' = journal, view' = view PROVE Heals(view', journal', p)
  BY <1>2, HealsKept
<1>3. ASSUME writer[f].at = "loaded", written < MaxEvents, written' = written + 1, view' = view,
             journal' = IF fragment THEN journal
                        ELSE Append(journal, [id |-> written', kind |-> writer[f].kind,
                                              entry |-> writer[f].entry])
      PROVE  Heals(view', journal', p)
  <2> DEFINE ev == [id |-> written + 1, kind |-> writer[f].kind, entry |-> writer[f].entry]
  <2>1. ev \in Events
    <3>1. written + 1 \in 1 .. MaxEvents
      BY <1>1, <1>3, Bounds
    <3>2. writer[f].kind \in Kinds /\ writer[f].entry \in Entries
      BY <1>1, <1>3 DEF WriterType
    <3> QED
      BY <3>1, <3>2 DEF Events
  <2>2. ev.entry = writer[f].entry
    OBVIOUS
  <2>3. journal' = IF fragment THEN journal ELSE Append(journal, ev)
    BY <1>3
  <2> HIDE DEF ev
  <2>4. view[ev.entry] # Gone
    BY <1>3, <2>2 DEF LiveWriters
  <2> QED
    BY <1>2, <1>3, <2>1, <2>3, <2>4, HealsAppended
<1>4. CASE AppendEvent(f)
  BY <1>3, <1>4 DEF AppendEvent
<1>5. CASE AppendFails(f)
  BY <1>2, <1>3, <1>5 DEF AppendFails
<1>6. CASE SaveView(f)
  <2>1. "torn" \notin lossy
    BY <1>6 DEF SaveView
  <2> QED
    BY <1>6, <2>1, HealsSaved
<1>7. ASSUME ~AppendEvent(f), ~AppendFails(f), ~SaveView(f) PROVE journal' = journal /\ view' = view
  BY <1>7 DEF Write, LoadView, SaveFails, MarkApplied, MarkFails, AppendShard, AppendShardFails
<1> QED
  BY <1>2, <1>4, <1>5, <1>6, <1>7

LEMMA WriterKeepsWriters ==
  ASSUME TypeInv, MarkerInv, LiveWriters, NEW f \in Files, Write(f), lossy' = {}
  PROVE  LiveWriters'
<1> USE DEF diskVars, historyVars
<1>1. /\ journal \in Seq(Events) /\ Len(journal) \in Nat /\ writer \in [Files -> WriterType]
      /\ \A g \in Files : writer[g].at # "idle" => writer[g].entry \in Entries
      /\ view \in [Entries -> Values]
  BY Bounds DEF TypeInv, TypeOK, WriterType
<1>2. replay' = replay /\ replay.at \notin {"off", "sentinel"}
  BY WriterAtWork, WriterSteps DEF WriterStep
<1>3. \A g \in Files \ {f} : writer'[g] = writer[g]
  BY WriterSteps DEF WriterStep
<1>4. Idle.at = "idle"
  BY DEF Idle
<1>5. ASSUME NEW k \in Kinds, NEW e \in Entries, LoadView(f, k, e) PROVE LiveWriters'
  <2>1. /\ writer'[f].at = "loaded" /\ writer'[f].entry = e
        /\ \A x \in Entries : FileOf[x] = f => writer'[f].snap[x] = view[x]
    BY <1>1, <1>5 DEF LoadView
  <2>2. journal' = journal /\ view' = view /\ FileOf[e] = f /\ view[e] # Gone
    BY <1>5 DEF LoadView
  <2> QED
    BY <1>2, <1>3, <2>1, <2>2 DEF LiveWriters, Holding, Latest
<1>6. CASE AppendEvent(f) \/ AppendFails(f)
  <2>1. lock = "free" /\ view' = view /\ writer[f].at = "loaded"
    BY <1>6 DEF AppendEvent, AppendFails
  <2>2. \A g \in Files : writer[g].at \notin Holding
    BY <2>1, JournalConstants DEF MarkerInv, LockHeld, Holding
  <2>3. CASE AppendFails(f)
    <3>1. writer'[f].at = "idle"
      BY <1>1, <1>4, <2>3 DEF AppendFails
    <3> QED
      BY <1>2, <1>3, <2>1, <2>2, <3>1 DEF LiveWriters, Holding
  <2>4. CASE AppendEvent(f)
    <3> DEFINE ev == [id |-> written', kind |-> writer[f].kind, entry |-> writer[f].entry]
    <3>1. journal' = IF fragment THEN journal ELSE Append(journal, ev)
      BY <2>4 DEF AppendEvent
    <3>2. ev.kind = writer[f].kind /\ ev.entry = writer[f].entry
      OBVIOUS
    <3> HIDE DEF ev
    <3>3. ~fragment
      BY <2>4 DEF AppendEvent, Lossy
    <3>4. Latest' = ev
      <4>1. journal' = Append(journal, ev)
        BY <3>1, <3>3
      <4>2. Len(journal') = Len(journal) + 1 /\ journal'[Len(journal) + 1] = ev
        BY <1>1, <4>1
      <4> QED
        BY <4>2 DEF Latest
    <3>5. /\ writer'[f].at = "appended" /\ writer'[f].entry = writer[f].entry
          /\ writer'[f].kind = writer[f].kind /\ writer'[f].snap = writer[f].snap
      BY <1>1, <2>4 DEF AppendEvent, WriterType
    <3> QED
      BY <1>2, <1>3, <2>1, <2>2, <3>2, <3>4, <3>5 DEF LiveWriters, Holding
  <2> QED
    BY <1>6, <2>3, <2>4
<1>7. CASE SaveView(f)
  <2>1. /\ writer'[f].at = "saved" /\ writer'[f].entry = writer[f].entry
        /\ writer'[f].kind = writer[f].kind
    BY <1>1, <1>7 DEF SaveView, WriterType
  <2>2. \A g \in Files \ {f} : writer[g].at \notin Holding
    BY <1>7 DEF SaveView, MarkerInv, LockHeld, Holding
  <2>3. \A e \in Entries : FileOf[e] # f => view'[e] = view[e]
    BY <1>7 DEF SaveView
  <2>4. journal' = journal /\ writer[f].at = "appended"
    BY <1>7 DEF SaveView
  <2> QED
    BY <1>1, <1>2, <1>3, <2>1, <2>2, <2>3, <2>4 DEF LiveWriters, Holding, Latest
<1>8. CASE SaveFails(f) \/ MarkApplied(f) \/ MarkFails(f) \/ AppendShard(f) \/ AppendShardFails(f)
  <2>1. writer'[f].at \in {"idle", "archiving"}
    BY <1>1, <1>4, <1>8 DEF SaveFails, MarkApplied, MarkFails, AppendShard, AppendShardFails, WriterType
  <2>2. journal' = journal /\ view' = view
    BY <1>8 DEF SaveFails, MarkApplied, MarkFails, AppendShard, AppendShardFails
  <2> QED
    BY <1>2, <1>3, <2>1, <2>2 DEF LiveWriters, Holding, Latest
<1> QED
  BY <1>5, <1>6, <1>7, <1>8 DEF Write

LEMMA WriterKeepsViews ==
  ASSUME TypeInv, TypeInv', MarkerInv, MarkerInv', LossInv, NEW f \in Files, Write(f)
  PROVE  LossInv'
<1> USE DEF diskVars, historyVars
<1> SUFFICES ASSUME lossy' = {}
             PROVE  LiveWriters' /\ ReplayHeals'
  BY DEF LossInv
<1>1. WriterStep(f)
  BY WriterSteps
<1>2. LiveWriters /\ ReplayHeals /\ lossy = {}
  BY <1>1 DEF LossInv, WriterStep
<1>3. LiveWriters'
  BY <1>2, WriterKeepsWriters
<1>4. /\ journal \in Seq(Events) /\ Len(journal) \in Nat /\ written \in Nat
      /\ sentinel \in 0 .. written /\ replay.expected \in 0 .. written
      /\ replay.tail \in Seq(Events) /\ Len(replay.tail) \in Nat
      /\ journal' \in Seq(Events) /\ Len(journal') \in Nat
  <2>1. replay \in ReplayType
    BY DEF TypeInv, TypeOK, ReplayType
  <2>2. replay.tail \in Seq(Events) /\ replay.expected \in Nat
    BY <2>1, Bounds DEF ReplayType
  <2>3. /\ journal \in Seq(Events) /\ journal' \in Seq(Events)
        /\ written \in Nat /\ sentinel \in Nat
    BY Bounds DEF TypeInv, TypeOK
  <2>4. sentinel <= written /\ replay.expected <= written
    BY DEF MarkerInv, MarksKnown
  <2> QED
    BY <2>2, <2>3, <2>4
<1>5. /\ \A id \in 0 .. written : PlaceIn(journal', id) = PlaceIn(journal, id)
      /\ \A id \in 0 .. written : PlaceIn(journal, id) \in 0 .. Len(journal)
      /\ \A tail \in Seq(Events), id \in 0 .. written, i \in Nat :
           TailLies(journal, tail, id, i) => TailLies(journal', tail, id, i)
  BY <1>1, <1>4, JournalGrows, PlaceBound DEF WriterStep, MarkerInv
<1>6. \A p \in Nat : p <= Len(journal) /\ Heals(view, journal, p) => Heals(view', journal', p)
  BY <1>2, WriterHeals DEF MarkerInv
<1>7. replay' = replay /\ replay.at \notin {"off", "sentinel"}
  BY <1>1, <1>2, WriterAtWork DEF WriterStep
<1>8. ASSUME sentinel' # sentinel
      PROVE  /\ MarkApplied(f) /\ writer[f].at \in Holding /\ journal' = journal
             /\ sentinel' = writer[f].id /\ PlaceIn(journal, sentinel') = Len(journal)
             /\ ~InFlight => ViewIsJournal'
             /\ lock = f
  <2>1. MarkApplied(f)
    BY <1>8 DEF Write, LoadView, AppendEvent, AppendFails, SaveView, SaveFails, MarkApplied,
                MarkFails, AppendShard, AppendShardFails
  <2>2. writer[f].at \in Holding /\ journal' = journal /\ sentinel' = writer[f].id /\ view' = view
    BY <2>1 DEF MarkApplied, Holding
  <2>3. PlaceIn(journal, sentinel') = Len(journal)
    <3>1. Len(journal) > 0 /\ journal[Len(journal)].id = sentinel'
      BY <1>2, <2>2 DEF MarkerInv, LastIsWriters, Holding
    <3> QED
      BY <1>4, <3>1, PlaceOf DEF MarkerInv, Rising
  <2>4. ~InFlight => ViewIsJournal
    BY <2>1 DEF MarkApplied, Lossy
  <2>5. ViewIsJournal => ViewIsJournal'
    BY <2>2 DEF ViewIsJournal, Recorded
  <2>6. lock = f
    BY <2>2 DEF MarkerInv, LockHeld, Holding
  <2> QED
    BY <2>1, <2>2, <2>3, <2>4, <2>5, <2>6
<1>9. ViewIsJournal' => \A p \in Nat : Heals(view', journal', p)
  <2>1. Len(journal') \in Nat
    BY <1>4
  <2>2. \A e \in Entries : Recorded(e)' = RecordedIn(journal', e)
    BY DEF Recorded, RecordedIn
  <2> QED
    BY <2>1, <2>2 DEF Heals, ViewIsJournal
<1>10. ASSUME replay.at \in {"done", "paused"} PROVE Heals(view', journal', PlaceIn(journal', sentinel'))
  <2>1. CASE sentinel' = sentinel
    <3>1. PlaceIn(journal', sentinel') = PlaceIn(journal, sentinel)
      BY <1>4, <1>5, <2>1
    <3>2. Heals(view, journal, PlaceIn(journal, sentinel))
      BY <1>2, <1>10 DEF ReplayHeals
    <3> QED
      BY <1>4, <1>5, <1>6, <3>1, <3>2
  <2>2. CASE sentinel' # sentinel
    BY <1>4, <1>7, <1>8, <1>9, <1>10, <2>2 DEF InFlight
  <2> QED
    BY <2>1, <2>2
<1>11. ASSUME replay.at \in {"read", "probe"}
       PROVE  Heals(view', journal', PlaceIn(journal', replay'.expected))
  <2>1. Heals(view, journal, PlaceIn(journal, replay.expected))
    BY <1>2, <1>11 DEF ReplayHeals
  <2>2. PlaceIn(journal', replay'.expected) = PlaceIn(journal, replay.expected)
    BY <1>4, <1>5, <1>7
  <2> QED
    BY <1>4, <1>5, <1>6, <2>1, <2>2
<1>12. healthy' => /\ healthy /\ ~AppendFails(f)
                   /\ lock \in Files /\ lock' \notin Files => MarkApplied(f)
  BY JournalConstants DEF Write, LoadView, AppendEvent, AppendFails, SaveView, SaveFails, MarkApplied,
                          MarkFails, AppendShard, AppendShardFails, Fault, MarkerInv, LockHeld
<1>13. journal' # journal => (AppendEvent(f) \/ AppendFails(f)) /\ lock = "free"
  BY DEF Write, LoadView, AppendEvent, AppendFails, SaveView, SaveFails, MarkApplied,
         MarkFails, AppendShard, AppendShardFails
<1>14. AppendEvent(f) => Len(journal) < Len(journal') /\ lock' = f
  <2> SUFFICES ASSUME AppendEvent(f) PROVE Len(journal) < Len(journal') /\ lock' = f
    OBVIOUS
  <2>1. ~fragment
    BY DEF AppendEvent, Lossy
  <2>2. \E ev : journal' = Append(journal, ev)
    BY <2>1 DEF AppendEvent
  <2>3. Len(journal') = Len(journal) + 1
    BY <1>4, <2>2
  <2> QED
    BY <1>4, <2>3 DEF AppendEvent
<1>15. lock' \in Files => lock' = lock \/ AppendEvent(f)
  BY JournalConstants DEF Write, LoadView, AppendEvent, AppendFails, SaveView, SaveFails, MarkApplied,
                          MarkFails, AppendShard, AppendShardFails
<1>16. ASSUME NEW end \in Nat, end <= Len(journal), TailReaches(end),
              PlaceIn(journal, replay.expected) <= end
       PROVE  TailReaches(end)'
  <2>1. ASSUME lock' \in Files PROVE end < Len(journal')
    <3>1. CASE AppendEvent(f)
      BY <1>4, <1>14, <1>16, <3>1
    <3>2. CASE ~AppendEvent(f)
      <4>1. lock' = lock /\ lock \in Files
        BY <1>15, <2>1, <3>2
      <4>2. journal' = journal
        BY <1>13, <4>1, JournalConstants
      <4> QED
        BY <1>16, <4>1, <4>2 DEF TailReaches
    <3> QED
      BY <3>1, <3>2
  <2>2. ASSUME healthy', ~replay.frozen, sentinel' = replay.expected, lock' \notin Files
        PROVE  end = Len(journal')
    <3>1. ~AppendEvent(f) /\ ~AppendFails(f) /\ journal' = journal
      BY <1>12, <1>13, <1>14, <2>2
    <3>2. CASE sentinel' = sentinel /\ lock \notin Files
      BY <1>12, <1>16, <2>2, <3>1, <3>2 DEF TailReaches
    <3>3. CASE sentinel' # sentinel
      <4>1. lock = f /\ PlaceIn(journal, replay.expected) = Len(journal)
        BY <1>8, <2>2, <3>3
      <4>2. end < Len(journal)
        BY <1>16, <4>1 DEF TailReaches
      <4> QED
        BY <1>4, <1>16, <4>1, <4>2
    <3>4. CASE sentinel' = sentinel /\ lock \in Files
      <4>1. MarkApplied(f)
        BY <1>12, <2>2, <3>4
      <4>2. writer[f].at \in Holding /\ sentinel' = writer[f].id /\ lock = f
        BY <4>1 DEF MarkApplied, Holding, MarkerInv, LockHeld
      <4>3. Len(journal) > 0 /\ journal[Len(journal)].id = sentinel'
        BY <1>2, <4>2 DEF MarkerInv, LastIsWriters, Holding
      <4>4. PlaceIn(journal, replay.expected) = Len(journal)
        BY <1>4, <2>2, <4>3, PlaceOf DEF MarkerInv, Rising
      <4>5. end < Len(journal)
        BY <1>16, <3>4 DEF TailReaches
      <4> QED
        BY <1>4, <1>16, <4>4, <4>5
    <3> QED
      BY <3>2, <3>3, <3>4
  <2> QED
    BY <1>7, <2>1, <2>2 DEF TailReaches
<1>17. ASSUME replay.at \in {"apply", "advance"}
       PROVE  \E i \in Nat : /\ TailLies(journal', replay.tail, replay.expected, i)
                             /\ Heals(view', journal', IF replay.at = "advance" THEN i + 1 ELSE i)
                             /\ TailReaches(i + Len(replay.tail))'
  <2>1. PICK i \in Nat : /\ TailLies(journal, replay.tail, replay.expected, i)
                         /\ Heals(view, journal, IF replay.at = "advance" THEN i + 1 ELSE i)
                         /\ TailReaches(i + Len(replay.tail))
    BY <1>2, <1>17 DEF ReplayHeals
  <2>2. /\ PlaceIn(journal, replay.expected) <= i /\ i + Len(replay.tail) <= Len(journal)
        /\ PlaceIn(journal, replay.expected) \in Nat
    BY <1>4, <1>5, <2>1 DEF TailLies
  <2>3. replay.at = "advance" => Len(replay.tail) > 0
    BY <1>4 DEF TypeInv
  <2>4. Heals(view', journal', IF replay.at = "advance" THEN i + 1 ELSE i)
    BY <1>4, <1>6, <2>1, <2>2, <2>3
  <2>5. TailReaches(i + Len(replay.tail))'
    BY <1>4, <1>7, <1>16, <2>1, <2>2
  <2> QED
    BY <1>4, <1>5, <2>1, <2>4, <2>5
<1>18. ASSUME replay.at = "done", healthy', lock' \notin Files
       PROVE  Heals(view', journal', Len(journal'))
  <2>1. CASE MarkApplied(f)
    <3>1. ViewIsJournal'
      BY <1>18, <2>1 DEF MarkApplied, Lossy, InFlight, ViewIsJournal, Recorded
    <3> QED
      BY <1>4, <1>9, <3>1
  <2>2. CASE ~MarkApplied(f)
    <3>1. lock \notin Files /\ healthy /\ ~AppendEvent(f) /\ ~AppendFails(f)
      BY <1>12, <1>14, <1>18, <2>2
    <3>2. journal' = journal
      BY <1>13, <3>1
    <3> QED
      BY <1>2, <1>4, <1>6, <1>18, <3>1, <3>2 DEF ReplayHeals
  <2> QED
    BY <2>1, <2>2
<1>19. replay.at = "paused" => ~healthy'
  BY <1>2, <1>12 DEF ReplayHeals
<1>20. ReplayHeals'
  <2>2. ASSUME replay'.at \in {"apply", "advance"}
        PROVE  \E i \in Nat : /\ TailLies(journal', replay'.tail, replay'.expected, i)
                              /\ Heals(view', journal', IF replay'.at = "advance" THEN i + 1 ELSE i)
                              /\ TailReaches(i + Len(replay.tail))'
    BY <1>7, <1>17, <2>2
  <2> QED
    BY <1>7, <1>10, <1>11, <1>18, <1>19, <2>2 DEF ReplayHeals
<1> QED
  BY <1>3, <1>20

\* A replay changes no file whose writer has a snapshot of it.
LEMMA ReplayKeepsWriters ==
  ASSUME TypeInv, MarkerInv, LiveWriters, Reconcile, lossy' = {}
  PROVE  LiveWriters'
<1> USE DEF diskVars, historyVars
<1>1. journal' = journal /\ writer' = writer
  BY DEF Reconcile, ReadSentinel, ReadTail, MeetConflict, ApplyEvent, ApplyFails, ShardUnreadable,
         AdvanceSentinel, AdvanceFails, EndOfTail, ProbeTail
<1>2. replay'.at \notin {"off", "sentinel"}
  <2>1. replay \in ReplayType
    BY DEF TypeInv, TypeOK, ReplayType
  <2> QED
    BY <2>1 DEF Reconcile, ReadSentinel, ReadTail, MeetConflict, ApplyEvent, ApplyFails,
       ShardUnreadable, HandlerReturned, AdvanceSentinel, AdvanceFails, EndOfTail, ProbeTail,
       ReplayType
<1>3. CASE view' = view
  BY <1>1, <1>2, <1>3 DEF LiveWriters, Latest
<1>4. CASE view' # view
  <2>1. ApplyEvent
    BY <1>4 DEF Reconcile, ReadSentinel, ReadTail, MeetConflict, ApplyFails, ShardUnreadable,
                AdvanceSentinel, AdvanceFails, EndOfTail, ProbeTail
  <2>2. Head(replay.tail) \in Events /\ view \in [Entries -> Values]
    <3>1. replay \in ReplayType /\ view \in [Entries -> Values]
      BY DEF TypeInv, TypeOK, ReplayType
    <3>2. replay.tail \in Seq(Events) /\ replay.tail # <<>>
      BY <2>1, <3>1 DEF ApplyEvent, ReplayType
    <3> QED
      BY <3>1, <3>2
  <2>3. Head(replay.tail).entry \in Entries
    BY <2>2 DEF Events
  <2>4. \A f \in Files : writer[f].at \notin Holding
    BY <2>1, JournalConstants DEF ApplyEvent, MarkerInv, LockHeld, Holding
  <2>5. writer[FileOf[Head(replay.tail).entry]].at # "loaded"
    BY <1>4, <2>1 DEF ApplyEvent, Lossy
  <2>6. \A e \in Entries : e # Head(replay.tail).entry => view'[e] = view[e]
    BY <2>1, <2>2, <2>3 DEF ApplyEvent
  <2>7. \A f \in Files : writer[f].at # "idle" => writer[f].entry \in Entries
    BY DEF TypeInv
  <2> QED
    BY <1>1, <1>2, <2>3, <2>4, <2>5, <2>6, <2>7 DEF LiveWriters, Latest, Holding
<1> QED
  BY <1>3, <1>4

LEMMA ReplayKeepsViews ==
  ASSUME TypeInv, TypeInv', MarkerInv, LossInv, Reconcile
  PROVE  LossInv'
<1> USE DEF diskVars, historyVars
<1> SUFFICES ASSUME lossy' = {}
             PROVE  LiveWriters' /\ ReplayHeals'
  BY DEF LossInv
<1>1. /\ journal \in Seq(Events) /\ Rises(journal) /\ Len(journal) \in Nat /\ replay \in ReplayType
      /\ replay.tail \in Seq(Events) /\ Len(replay.tail) \in Nat
      /\ PlaceIn(journal, sentinel) \in 0 .. Len(journal)
      /\ PlaceIn(journal, replay.expected) \in 0 .. Len(journal)
  <2>1. journal \in Seq(Events) /\ Rises(journal) /\ replay \in ReplayType
    BY DEF TypeInv, TypeOK, ReplayType, MarkerInv, Rising
  <2> QED
    BY <2>1, PlaceBound DEF ReplayType
<1>2. journal' = journal /\ writer' = writer
  BY DEF Reconcile, ReadSentinel, ReadTail, MeetConflict, ApplyEvent, ApplyFails, ShardUnreadable,
         AdvanceSentinel, AdvanceFails, EndOfTail, ProbeTail
<1>3. lossy = {}
  BY DEF Reconcile, ReadSentinel, ReadTail, MeetConflict, ApplyEvent, ApplyFails, ShardUnreadable,
         AdvanceSentinel, AdvanceFails, EndOfTail, ProbeTail, Lossy
<1>4. LiveWriters /\ ReplayHeals
  BY <1>3 DEF LossInv
<1>5. LiveWriters'
  BY <1>4, ReplayKeepsWriters
<1>6. SUFFICES ReplayHeals'
  BY <1>5
<1>7. ASSUME replay.at \in {"apply", "advance"}
      PROVE  Heals(view, journal, PlaceIn(journal, replay.expected))
  <2>1. PICK i \in Nat : /\ TailLies(journal, replay.tail, replay.expected, i)
                         /\ Heals(view, journal, IF replay.at = "advance" THEN i + 1 ELSE i)
    BY <1>4, <1>7 DEF ReplayHeals
  <2>2. PlaceIn(journal, replay.expected) <= i /\ PlaceIn(journal, replay.expected) \in Nat
    BY <1>1, <2>1 DEF TailLies
  <2> QED
    BY <2>1, <2>2, HealsLess
<1>8. CASE ReadSentinel
  <2>1. replay'.at = "read" /\ replay'.expected = sentinel /\ view' = view
    BY <1>1, <1>8 DEF ReadSentinel, ReplayType
  <2>2. replay.at = "sentinel"
    BY <1>8 DEF ReadSentinel
  <2> QED
    BY <1>2, <1>4, <2>1, <2>2 DEF ReplayHeals
<1>9. CASE MeetConflict
  <2>1. replay'.at = "read" /\ replay'.expected = replay.expected /\ view' = view
    BY <1>1, <1>9 DEF MeetConflict, ReplayType
  <2>2. replay.at = "apply"
    BY <1>9 DEF MeetConflict
  <2> QED
    BY <1>2, <1>7, <2>1, <2>2 DEF ReplayHeals
<1>10. ASSUME replay'.at = "apply", replay'.expected = replay.expected, view' = view, lock' = lock,
              lock = "free", replay'.tail = Since(replay.expected), replay.at \in {"read", "probe"}
       PROVE  ReplayHeals'
  <2>1. PICK i \in Nat : /\ i = PlaceIn(journal, replay.expected)
                         /\ i + Len(Since(replay.expected)) = Len(journal)
                         /\ TailLies(journal, Since(replay.expected), replay.expected, i)
    BY <1>1, SinceLies
  <2>2. Heals(view, journal, i)
    BY <1>4, <1>10, <2>1 DEF ReplayHeals
  <2>3. TailReaches(i + Len(replay.tail))'
    BY <1>2, <1>10, <2>1, JournalConstants DEF TailReaches
  <2> QED
    BY <1>2, <1>10, <2>1, <2>2, <2>3 DEF ReplayHeals
<1>11. ASSUME replay'.at = "done", view' = view, ViewIsJournal
       PROVE  ReplayHeals'
  <2>1. \A p \in Nat : Heals(view, journal, p)
    BY <1>1, <1>11, HealsAll
  <2>2. PlaceIn(journal, sentinel') \in Nat
    BY <1>1, PlaceBound
  <2> QED
    BY <1>1, <1>2, <1>11, <2>1, <2>2 DEF ReplayHeals
<1>12. CASE ReadTail
  <2>1. /\ replay'.at = "apply" /\ replay'.expected = replay.expected
        /\ replay'.tail = Since(replay.expected)
    BY <1>1, <1>12 DEF ReadTail, ReplayType
  <2> QED
    BY <1>10, <1>12, <2>1 DEF ReadTail
<1>13. CASE ProbeTail
  <2>1. replay.at = "probe" /\ lock = "free" /\ lock' = lock /\ view' = view
    BY <1>13 DEF ProbeTail
  <2>2. \/ /\ replay' = [replay EXCEPT !.at = "done"] /\ Since(replay.expected) = <<>>
        \/ replay' = [replay EXCEPT !.at = "apply", !.tail = Since(replay.expected), !.rescans = @ - 1]
    BY <1>13 DEF ProbeTail, Lossy
  <2>3. CASE Since(replay.expected) = <<>> /\ replay' = [replay EXCEPT !.at = "done"]
    <3>1. PlaceIn(journal, replay.expected) = Len(journal)
      BY <1>1, <2>3, SinceLies
    <3>2. Heals(view, journal, Len(journal))
      BY <1>4, <2>1, <3>1 DEF ReplayHeals
    <3>3. ViewIsJournal
      BY <1>1, <3>2, HealsAll
    <3>4. replay'.at = "done"
      BY <1>1, <2>3 DEF ReplayType
    <3> QED
      BY <1>11, <2>1, <3>3, <3>4
  <2>4. CASE replay' = [replay EXCEPT !.at = "apply", !.tail = Since(replay.expected), !.rescans = @ - 1]
    <3>1. /\ replay'.at = "apply" /\ replay'.expected = replay.expected
          /\ replay'.tail = Since(replay.expected)
      BY <1>1, <2>4 DEF ReplayType
    <3> QED
      BY <1>10, <2>1, <3>1
  <2> QED
    BY <2>2, <2>3, <2>4
<1>14. CASE EndOfTail
  <2>1. /\ replay.at = "apply" /\ replay.tail = <<>> /\ view' = view /\ lock' = lock
        /\ sentinel' = sentinel /\ healthy' = healthy
        /\ ~(Conflict /\ ~ViewIsJournal)
    BY <1>14 DEF EndOfTail, Lossy
  <2>2. /\ replay'.at = IF replay.frozen THEN "probe" ELSE "done"
        /\ replay'.expected = replay.expected
    BY <1>1, <1>14 DEF EndOfTail, ReplayType
  <2>3. CASE replay.frozen
    BY <1>2, <1>7, <2>1, <2>2, <2>3 DEF ReplayHeals
  <2>4. CASE ~replay.frozen /\ Conflict
    BY <1>11, <2>1, <2>2, <2>4
  <2>5. CASE ~replay.frozen /\ ~Conflict
    <3>1. sentinel = replay.expected
      BY <2>5 DEF Conflict
    <3>2. healthy /\ lock \notin Files => Heals(view, journal, Len(journal))
      <4>1. PICK i \in Nat : /\ Heals(view, journal, IF replay.at = "advance" THEN i + 1 ELSE i)
                             /\ TailReaches(i + Len(replay.tail))
        BY <1>4, <2>1 DEF ReplayHeals
      <4>2. Heals(view, journal, i) /\ i + Len(replay.tail) = i
        BY <2>1, <4>1
      <4> QED
        BY <2>5, <3>1, <4>1, <4>2 DEF TailReaches
    <3>3. Heals(view, journal, PlaceIn(journal, sentinel))
      BY <1>7, <2>1, <3>1
    <3> QED
      BY <1>2, <2>1, <2>2, <2>5, <3>2, <3>3 DEF ReplayHeals
  <2> QED
    BY <2>3, <2>4, <2>5
<1>15. CASE ApplyFails \/ AdvanceFails
  <2>1. replay.at \in {"apply", "advance"} /\ view' = view /\ sentinel' = sentinel /\ ~healthy'
    BY <1>15 DEF ApplyFails, AdvanceFails, Fault
  <2>2. replay'.at = "paused"
    BY <1>1, <1>15 DEF ApplyFails, AdvanceFails, ReplayType
  <2>3. sentinel = replay.expected
    BY <1>15 DEF ApplyFails, AdvanceFails, Lossy, Conflict, MarkerInv, TailFollows
  <2> QED
    BY <1>2, <1>7, <2>1, <2>2, <2>3 DEF ReplayHeals
<1>16. CASE AdvanceSentinel
  <2>1. /\ replay.at = "advance" /\ view' = view /\ sentinel' = Head(replay.tail).id
        /\ lock' = "free" /\ healthy' = healthy
    BY <1>16 DEF AdvanceSentinel
  <2>2. replay.tail # <<>> /\ sentinel = replay.expected /\ lock = "replay"
    BY <2>1 DEF TypeInv, MarkerInv, TailFollows, LockHeld
  <2>3. /\ replay'.at = "apply" /\ replay'.expected = sentinel' /\ replay'.tail = Tail(replay.tail)
        /\ replay'.frozen = replay.frozen
    BY <1>1, <1>16 DEF AdvanceSentinel, ReplayType
  <2>4. PICK i \in Nat : /\ TailLies(journal, replay.tail, replay.expected, i)
                         /\ Heals(view, journal, i + 1)
                         /\ TailReaches(i + Len(replay.tail))
    BY <1>4, <2>1 DEF ReplayHeals
  <2>5. TailLies(journal, Tail(replay.tail), Head(replay.tail).id, i + 1)
    BY <1>1, <2>2, <2>4, TailMoves
  <2>6. i + 1 + Len(Tail(replay.tail)) = i + Len(replay.tail) /\ i + 1 \in Nat
    <3> DEFINE n == Len(replay.tail)
               m == Len(Tail(replay.tail))
    <3>1. n \in Nat /\ m = n - 1
      BY <1>1, <2>2
    <3> HIDE DEF n, m
    <3>2. i + 1 + m = i + n /\ i + 1 \in Nat
      BY <3>1
    <3> QED
      BY <3>2 DEF n, m
  <2>7. TailReaches(i + 1 + Len(replay.tail))'
    BY <1>2, <2>1, <2>2, <2>3, <2>4, <2>6, JournalConstants DEF TailReaches
  <2> QED
    BY <1>2, <2>1, <2>3, <2>4, <2>5, <2>6, <2>7 DEF ReplayHeals
<1>17. CASE ApplyEvent \/ ShardUnreadable
  <2>1. /\ replay.at = "apply" /\ replay.tail # <<>> /\ lock = "free" /\ ~Conflict
        /\ sentinel' = sentinel /\ HandlerReturned(Head(replay.tail)) /\ (healthy' => healthy)
    BY <1>17 DEF ApplyEvent, ShardUnreadable, Fault
  <2>2. PICK i \in Nat : /\ TailLies(journal, replay.tail, replay.expected, i)
                         /\ Heals(view, journal, i)
                         /\ TailReaches(i + Len(replay.tail))
    BY <1>4, <2>1 DEF ReplayHeals
  <2>3. /\ i + 1 <= Len(journal) /\ Head(replay.tail) = journal[i + 1]
        /\ Len(Tail(replay.tail)) = Len(replay.tail) - 1
    BY <1>1, <2>1, <2>2 DEF TailLies
  <2>4. Applies(Head(replay.tail))
    <3>1. CASE ApplyEvent
      BY <3>1 DEF ApplyEvent, Applies
    <3>2. CASE ShardUnreadable
      <4>1. /\ Head(replay.tail).kind = "archive" /\ view' = view
            /\ view[Head(replay.tail).entry] = Gone
        BY <3>2 DEF ShardUnreadable, Lossy
      <4>2. view \in [Entries -> Values]
        BY DEF TypeInv, TypeOK
      <4>3. [view EXCEPT ![Head(replay.tail).entry] = Gone] = view
        BY <4>1, <4>2
      <4> QED
        BY <4>1, <4>3 DEF Applies
    <3> QED
      BY <1>17, <3>1, <3>2
  <2>5. Heals(view', journal', i + 1)
    BY <1>2, <2>2, <2>3, <2>4, HealsApplied
  <2>6. CASE replay.frozen
    <3>1. /\ replay'.at = "apply" /\ replay'.expected = Head(replay.tail).id
          /\ replay'.tail = Tail(replay.tail) /\ replay'.frozen = replay.frozen /\ lock' = lock
      BY <1>1, <2>1, <2>6 DEF HandlerReturned, ReplayType
    <3>2. TailLies(journal, Tail(replay.tail), Head(replay.tail).id, i + 1)
      BY <1>1, <2>1, <2>2, TailMoves
    <3>3. TailReaches(i + 1 + Len(replay.tail))'
      BY <2>1, <2>6, <3>1, JournalConstants DEF TailReaches
    <3>4. i + 1 \in Nat
      OBVIOUS
    <3> QED
      BY <1>2, <2>5, <3>1, <3>2, <3>3, <3>4 DEF ReplayHeals
  <2>7. CASE ~replay.frozen
    <3>1. /\ replay'.at = "advance" /\ replay'.expected = replay.expected
          /\ replay'.tail = replay.tail /\ replay'.frozen = replay.frozen /\ lock' = "replay"
      BY <1>1, <2>1, <2>7 DEF HandlerReturned, ReplayType
    <3>2. TailReaches(i + Len(replay.tail))'
      BY <1>2, <2>1, <2>2, <3>1, JournalConstants DEF TailReaches
    <3> QED
      BY <1>2, <2>2, <2>5, <3>1, <3>2 DEF ReplayHeals
  <2> QED
    BY <2>6, <2>7
<1> QED
  BY <1>8, <1>9, <1>12, <1>13, <1>14, <1>15, <1>16, <1>17 DEF Reconcile

LEMMA ProcessKeepsViews ==
  ASSUME TypeInv, MarkerInv, LossInv, Boot \/ Crash
  PROVE  LossInv'
<1> USE DEF diskVars, historyVars
<1> SUFFICES ASSUME lossy' = {}
             PROVE  LiveWriters' /\ ReplayHeals'
  BY DEF LossInv
<1>1. journal' = journal /\ view' = view /\ sentinel' = sentinel
  BY DEF Boot, Crash
<1>2. LiveWriters /\ ReplayHeals
  BY DEF Boot, Crash, Lossy, LossInv
<1>3. CASE Boot
  <2>1. replay'.at = "sentinel" /\ writer' = writer
    BY <1>3 DEF Boot, Unborn
  <2>2. replay.at = "off"
    BY <1>3 DEF Boot, MarkerInv, Stopped
  <2>3. LiveWriters'
    BY <1>1, <1>2, <2>1, <2>2 DEF LiveWriters, Latest
  <2>4. ReplayHeals'
    BY <1>1, <1>2, <2>1, <2>2 DEF ReplayHeals
  <2> QED
    BY <2>3, <2>4
<1>4. CASE Crash
  <2>1. replay'.at = "off"
    BY <1>4 DEF Crash, Unborn
  <2>2. \A f \in Files : writer'[f].at = "idle"
    BY <1>4 DEF Crash, Idle
  <2>3. LiveWriters'
    BY <2>2 DEF LiveWriters, Holding
  <2>4. InFlight => sentinel = replay.expected
    BY <1>4 DEF Crash, Lossy
  <2>5. Heals(view, journal, PlaceIn(journal, sentinel))
    <3>1. CASE replay.at \in {"off", "sentinel", "done", "paused"}
      BY <1>2, <3>1 DEF ReplayHeals
    <3>2. CASE replay.at \in {"read", "probe"}
      BY <1>2, <2>4, <3>2 DEF ReplayHeals, InFlight
    <3>3. CASE replay.at \in {"apply", "advance"}
      <4>1. PICK i \in Nat : /\ TailLies(journal, replay.tail, replay.expected, i)
                             /\ Heals(view, journal, IF replay.at = "advance" THEN i + 1 ELSE i)
        BY <1>2, <3>3 DEF ReplayHeals
      <4>2. PlaceIn(journal, replay.expected) <= i /\ PlaceIn(journal, replay.expected) \in Nat
        BY <4>1, PlaceBound DEF TailLies, TypeInv, TypeOK
      <4>3. Heals(view, journal, PlaceIn(journal, replay.expected))
        BY <4>1, <4>2, HealsLess
      <4> QED
        BY <2>4, <3>3, <4>3 DEF InFlight
    <3>4. replay.at \in {"off", "sentinel", "read", "apply", "advance", "probe", "done", "paused"}
      BY DEF TypeInv, TypeOK
    <3> QED
      BY <3>1, <3>2, <3>3, <3>4
  <2>6. ReplayHeals'
    BY <1>1, <2>1, <2>5 DEF ReplayHeals
  <2> QED
    BY <2>3, <2>6
<1> QED
  BY <1>3, <1>4

LEMMA ViewsKept ==
  ASSUME TypeInv, MarkerInv, LossInv, [Next]_vars
  PROVE  LossInv'
<1>1. TypeInv' /\ MarkerInv'
  BY TypesKept, MarkerKept
<1>2. CASE Next
  BY <1>1, <1>2, WriterKeepsViews, ReplayKeepsViews, ProcessKeepsViews DEF Next
<1>3. CASE UNCHANGED vars
  BY <1>3 DEF vars, diskVars, historyVars, LossInv, LiveWriters, Latest, ReplayHeals, TailReaches
<1> QED
  BY <1>2, <1>3

\* Whatever fails and whenever the process dies: once a replay has ended without
\* a failure since the process started, the views show what the journal records,
\* unless the marker was moved past an event, a snapshot older than the replay
\* was saved, a line was written behind half a line or a shard could not be read.
THEOREM ViewsFollow == Spec => []ViewFollowsJournal
<1>1. Init => MarkerInv
  BY InitMarker
<1>2. Init => LossInv
  <2> SUFFICES ASSUME Init PROVE LiveWriters /\ ReplayHeals
    BY DEF LossInv
  <2>1. replay.at = "off" /\ \A f \in Files : writer[f].at = "idle"
    BY DEF Init, Unborn, Idle
  <2>2. Len(journal) = 0 /\ DOMAIN journal = {} /\ \A e \in Entries : view[e] = 0
    BY DEF Init
  <2>3. \A e \in Entries : RecordedIn(journal, e) = 0
    BY <2>2 DEF RecordedIn
  <2>4. Heals(view, journal, PlaceIn(journal, sentinel))
    BY <2>2, <2>3, JournalConstants DEF Heals
  <2> QED
    BY <2>1, <2>4 DEF LiveWriters, ReplayHeals, Holding
<1>3. TypeInv /\ LossInv => ViewFollowsJournal
  <2> SUFFICES ASSUME TypeInv, LiveWriters, ReplayHeals, Quiet, healthy PROVE ViewIsJournal
    BY DEF LossInv, ViewFollowsJournal
  <2>1. Heals(view, journal, Len(journal))
    BY JournalConstants DEF ReplayHeals, Quiet
  <2> QED
    BY <2>1, HealsAll DEF TypeInv, TypeOK
<1> QED
  BY <1>1, <1>2, <1>3, InitOrder, TypesKept, MarkerKept, ViewsKept, PTL DEF Spec

=============================================================================
