-------------------------- MODULE RoomHandover_proofs --------------------------
(***************************************************************************)
(* How a replay hands over to live fan-out in RoomReplay: no event twice,  *)
(* none left out, pages without holes, and what RoomTimeline promises; for *)
(* any number of pages, connections and events, and any queue and window.  *)
(***************************************************************************)
EXTENDS RoomReplay_proofs

-----------------------------------------------------------------------------
(***************************************************************************)
(* What a page has still to receive from a connection.                     *)
(***************************************************************************)
\* What is queued on a connection and what its handler is about to queue.
Stream(k) == queue[k] \o outbox[k]

\* Frames that set lastSeq, and frames that show what came before them.
Moves(f) == f.type \in {"reset", "snapshot", "event"}
Brings(f) == f.type \in {"snapshot", "event"}

\* A page at p never meets a frame behind it, nor an event twice.
Ahead(p, S) ==
  \A i \in DOMAIN S : Moves(S[i]) => p <= S[i].seq /\ (S[i].type = "event" => p < S[i].seq)

\* The greeting, a reset, a snapshot, then events: positions rise.
Rising(S) ==
  /\ \A i \in DOMAIN S : i > 1 => S[i].type # "ready"
  /\ \A i, j \in DOMAIN S : i < j /\ Moves(S[i]) /\ Moves(S[j]) =>
       /\ S[i].seq <= S[j].seq
       /\ S[j].type = "event" => S[i].seq < S[j].seq
       /\ S[i].type = "event" => S[j].type = "event"

\* The page has applied s, or one of the first n frames brings it.
Reached(p, S, n, s) == s <= p \/ \E j \in DOMAIN S : j <= n /\ Brings(S[j]) /\ s <= S[j].seq

Seen(s) == s \in published /\ oldest <= s

\* No event is in the stream before one that the page needs first, and the
\* stream brings everything.
Covered(p, S) ==
  \A i \in DOMAIN S : S[i].type = "event" =>
    \A s \in Nat : Seen(s) /\ s < S[i].seq => Reached(p, S, i - 1, s)
Complete(p, S) == \A s \in Nat : Seen(s) => Reached(p, S, Len(S), s)

\* A page that shows events and has forgotten its position is about to be
\* given a snapshot.
Guided(cl, k) ==
  cl.lastSeq = 0 /\ cl.shown # {} =>
    \/ stage[k] \in {"waiting", "room", "history"}
    \/ \E i \in DOMAIN Stream(k) : Stream(k)[i].type = "snapshot"

\* The page c still receives what is queued on k.
Linked(c, k) == sock[c] = k /\ open[k] /\ hub[k] # "absent"

EventFree(S) == \A i \in DOMAIN S : S[i].type # "event"

\* What a handler that has read the history has promised the page.
Promised(p, k) ==
  /\ EventFree(Stream(k))
  /\ p <= after[k]
  /\ \A i \in DOMAIN Stream(k) : Moves(Stream(k)[i]) => Stream(k)[i].seq <= after[k]
  /\ Reached(p, Stream(k), Len(Stream(k)), after[k])
  /\ \A s \in published : s <= after[k] + Window

StreamInv(c, k) ==
  LET p == client[c].lastSeq IN
  /\ stage[k] \in {"waiting", "room"} => Stream(k) = << >> /\ after[k] = p
  /\ client[c].resyncing =>
       stage[k] \in {"waiting", "room"} \/ (Stream(k) # << >> /\ Stream(k)[1].type = "ready")
  /\ Ahead(p, Stream(k)) /\ Rising(Stream(k))
  /\ stage[k] = "history" => EventFree(Stream(k))
  /\ stage[k] = "events" => Promised(p, k)
  /\ stage[k] \in {"activate", "live"} => Covered(p, Stream(k)) /\ Complete(p, Stream(k))
  /\ Guided(client[c], k)

\* Frames on their way on the connection k.
InStream(k, f) == \E i \in DOMAIN Stream(k) : Stream(k)[i] = f

\* The page found a gap on k: it is back at 0, and all it is still sent are
\* notes and events behind the first, which it drops.
StuckInv(c, k) ==
  /\ client[c].resyncing /\ client[c].lastSeq = 0
  /\ stage[k] \in {"activate", "live"}
  /\ \A f \in Frame : InStream(k, f) => f.type = "note" \/ (f.type = "event" /\ f.seq > 1)
  /\ last > 0 /\ (pubStage = "publishing" => pubSeq > 1)

Linkage ==
  \A c \in Clients, k \in Conns : Linked(c, k) => StreamInv(c, k) \/ StuckInv(c, k)

\* Every page is fed by one connection of its own.
WiringInv ==
  /\ \A c, d \in Clients : sock[c] = sock[d] /\ c # d => sock[c] = NoConn
  /\ \A c \in Clients : client[c].stopped => sock[c] = NoConn
  /\ \A k \in Conns :
       /\ stage[k] \notin Replaying => outbox[k] = << >>
       /\ stage[k] = "free" => queue[k] = << >> /\ hub[k] = "absent"
       /\ stage[k] = "closing" => ~open[k]
       /\ stage[k] = "live" => hub[k] # "inactive"

\* No page is beyond n, nor will a frame take it there.
UpTo(n) ==
  /\ \A c \in Clients : client[c].lastSeq <= n
  /\ \A k \in Conns : \A f \in Frame : InStream(k, f) => f.seq <= n

\* Nobody is ahead of the log, nor has reached the event being published.
BoundInv ==
  /\ oldest <= aged + 1 /\ aged <= last
  /\ published \subseteq 1 .. last
  /\ \A c \in Clients : client[c].shown \subseteq 1 .. last
  /\ \A k \in Conns : after[k] <= last
  /\ UpTo(last)
  /\ pubStage = "publishing" => pubSeq \in 1 .. last /\ UpTo(pubSeq - 1)

\* Without snapshots beyond the window, a reset only clears what has expired.
ResetsExpired ==
  \A k \in Conns : \A f \in Frame : InStream(k, f) /\ f.type = "reset" => f.seq < oldest
ShowsRetained == \A c \in Clients : oldest .. client[c].lastSeq \subseteq client[c].shown
RetainedInv == ResetsExpired /\ ShowsRetained

HandoverInv ==
  /\ LockInv /\ WiringInv /\ BoundInv /\ NoHoles
  /\ Linkage

-----------------------------------------------------------------------------
(***************************************************************************)
(* Streams: taking the first frame, adding a last one.                     *)
(***************************************************************************)
LEMMA TailOf ==
  ASSUME NEW S \in Seq(Frame), S # << >>
  PROVE  /\ Tail(S) \in Seq(Frame) /\ Len(Tail(S)) = Len(S) - 1 /\ Len(S) \in Nat \ {0}
         /\ S[1] \in Frame /\ Head(S) = S[1]
         /\ \A i \in 1 .. Len(S) - 1 : Tail(S)[i] = S[i + 1]
         /\ DOMAIN S = 1 .. Len(S) /\ DOMAIN Tail(S) = 1 .. Len(S) - 1
  OBVIOUS

LEMMA AppendOf ==
  ASSUME NEW S \in Seq(Frame), NEW f \in Frame
  PROVE  /\ Append(S, f) \in Seq(Frame) /\ Len(Append(S, f)) = Len(S) + 1 /\ Len(S) \in Nat
         /\ \A i \in 1 .. Len(S) : Append(S, f)[i] = S[i]
         /\ Append(S, f)[Len(S) + 1] = f
         /\ DOMAIN S = 1 .. Len(S) /\ DOMAIN Append(S, f) = 1 .. Len(S) + 1
  OBVIOUS

LEMMA ConcatOf ==
  ASSUME NEW S \in Seq(Frame), NEW T \in Seq(Frame)
  PROVE  /\ S \o T \in Seq(Frame) /\ Len(S \o T) = Len(S) + Len(T)
         /\ Len(S) \in Nat /\ Len(T) \in Nat
         /\ \A i \in 1 .. Len(S) : (S \o T)[i] = S[i]
         /\ \A i \in 1 .. Len(T) : (S \o T)[Len(S) + i] = T[i]
         /\ DOMAIN S = 1 .. Len(S) /\ DOMAIN T = 1 .. Len(T)
         /\ DOMAIN (S \o T) = 1 .. Len(S) + Len(T)
  OBVIOUS

\* Sequences of frames are equal when they have the same length and frames.
LEMMA SameFrames ==
  ASSUME NEW S \in Seq(Frame), NEW T \in Seq(Frame), Len(S) = Len(T),
         \A i \in 1 .. Len(S) : S[i] = T[i]
  PROVE  S = T
  OBVIOUS

LEMMA TailConcat ==
  ASSUME NEW S \in Seq(Frame), NEW T \in Seq(Frame), S # << >>
  PROVE  Tail(S) \o T = Tail(S \o T) /\ S \o T # << >> /\ (S \o T)[1] = Head(S)
<1>1. Len(S) \in Nat \ {0} /\ Len(T) \in Nat /\ S \o T # << >>
  BY TailOf, ConcatOf
<1>2. Tail(S) \in Seq(Frame) /\ S \o T \in Seq(Frame)
  BY TailOf, ConcatOf
<1>3. Tail(S) \o T \in Seq(Frame) /\ Tail(S \o T) \in Seq(Frame)
  BY <1>1, <1>2, TailOf, ConcatOf
<1>4. Len(Tail(S) \o T) = Len(S) + Len(T) - 1 /\ Len(Tail(S \o T)) = Len(S) + Len(T) - 1
  BY <1>1, <1>2, TailOf, ConcatOf
<1>5. ASSUME NEW i \in 1 .. Len(S) + Len(T) - 1
      PROVE  (Tail(S) \o T)[i] = Tail(S \o T)[i]
  <2>1. Tail(S \o T)[i] = (S \o T)[i + 1]
    BY <1>1, <1>2, TailOf, ConcatOf
  <2>2. CASE i <= Len(S) - 1
    <3>1. (Tail(S) \o T)[i] = Tail(S)[i]
      BY <1>1, <1>2, <2>2, TailOf, ConcatOf
    <3>2. Tail(S)[i] = S[i + 1]
      BY <1>1, <2>2, TailOf
    <3>3. (S \o T)[i + 1] = S[i + 1]
      BY <1>1, <2>2, ConcatOf
    <3> QED BY <2>1, <3>1, <3>2, <3>3
  <2>3. CASE i > Len(S) - 1
    <3> DEFINE j == i - (Len(S) - 1)
    <3>1. j \in 1 .. Len(T) /\ i = Len(Tail(S)) + j /\ i + 1 = Len(S) + j
      BY <1>1, <2>3, TailOf
    <3>2. (Tail(S) \o T)[Len(Tail(S)) + j] = T[j]
      BY <1>2, <3>1, ConcatOf
    <3>3. (S \o T)[Len(S) + j] = T[j]
      BY <3>1, ConcatOf
    <3> QED BY <2>1, <3>1, <3>2, <3>3
  <2> QED BY <1>1, <2>2, <2>3
<1>6. (S \o T)[1] = S[1] /\ Head(S) = S[1]
  BY <1>1, ConcatOf, TailOf
<1> QED BY <1>1, <1>3, <1>4, <1>5, <1>6, SameFrames

\* Moving the first frame of the second part to the end of the first one.
LEMMA ShiftConcat ==
  ASSUME NEW S \in Seq(Frame), NEW T \in Seq(Frame), T # << >>
  PROVE  Append(S, Head(T)) \o Tail(T) = S \o T
<1>1. Len(T) \in Nat \ {0} /\ Len(S) \in Nat /\ Head(T) \in Frame /\ Head(T) = T[1]
  BY TailOf, ConcatOf
<1>2. Append(S, Head(T)) \in Seq(Frame) /\ Len(Append(S, Head(T))) = Len(S) + 1
  BY <1>1, AppendOf
<1>3. Tail(T) \in Seq(Frame) /\ Len(Tail(T)) = Len(T) - 1
  BY TailOf
<1>4. /\ Append(S, Head(T)) \o Tail(T) \in Seq(Frame) /\ S \o T \in Seq(Frame)
      /\ Len(Append(S, Head(T)) \o Tail(T)) = Len(S) + Len(T) /\ Len(S \o T) = Len(S) + Len(T)
  BY <1>1, <1>2, <1>3, ConcatOf
<1>5. ASSUME NEW i \in 1 .. Len(S) + Len(T)
      PROVE  (Append(S, Head(T)) \o Tail(T))[i] = (S \o T)[i]
  <2>1. CASE i <= Len(S)
    <3>1. (Append(S, Head(T)) \o Tail(T))[i] = Append(S, Head(T))[i]
      BY <1>1, <1>2, <1>3, <2>1, ConcatOf
    <3>2. Append(S, Head(T))[i] = S[i] /\ (S \o T)[i] = S[i]
      BY <1>1, <2>1, AppendOf, ConcatOf
    <3> QED BY <3>1, <3>2
  <2>2. CASE i = Len(S) + 1
    <3>1. (Append(S, Head(T)) \o Tail(T))[i] = Append(S, Head(T))[i]
      BY <1>1, <1>2, <1>3, <2>2, ConcatOf
    <3>2. Append(S, Head(T))[i] = T[1]
      BY <1>1, <2>2, AppendOf
    <3>3. (S \o T)[Len(S) + 1] = T[1]
      BY <1>1, ConcatOf
    <3> QED BY <2>2, <3>1, <3>2, <3>3
  <2>3. CASE i > Len(S) + 1
    <3> DEFINE j == i - (Len(S) + 1)
    <3>1. j \in 1 .. Len(T) - 1 /\ i = Len(Append(S, Head(T))) + j /\ i = Len(S) + (j + 1)
      BY <1>1, <1>2, <2>3
    <3>2. (Append(S, Head(T)) \o Tail(T))[Len(Append(S, Head(T))) + j] = Tail(T)[j]
      BY <1>2, <1>3, <3>1, ConcatOf
    <3>3. Tail(T)[j] = T[j + 1]
      BY <3>1, TailOf
    <3>4. (S \o T)[Len(S) + (j + 1)] = T[j + 1]
      BY <1>1, <3>1, ConcatOf
    <3> QED BY <3>1, <3>2, <3>3, <3>4
  <2> QED BY <1>1, <2>1, <2>2, <2>3
<1> QED BY <1>4, <1>5, SameFrames

LEMMA AppendConcat ==
  ASSUME NEW S \in Seq(Frame), NEW f \in Frame
  PROVE  S \o << >> = S /\ Append(S, f) \o << >> = Append(S, f)
  OBVIOUS

-----------------------------------------------------------------------------
(***************************************************************************)
(* Streams: what taking and adding a frame does to a page's prospects.     *)
(***************************************************************************)
\* Where a page stands after a frame that leaves no gap.
Position(p, f) == IF Moves(f) THEN f.seq ELSE p

LEMMA TailProspects ==
  ASSUME NEW S \in Seq(Frame), S # << >>, NEW p \in Nat, Ahead(p, S), Rising(S)
  PROVE  /\ Position(p, S[1]) \in Nat /\ p <= Position(p, S[1])
         /\ Ahead(Position(p, S[1]), Tail(S)) /\ Rising(Tail(S))
<1>1. Position(p, S[1]) \in Nat /\ S[1].seq \in Nat
  BY TailOf DEF Position, Frame
<1>2. p <= Position(p, S[1])
  BY TailOf DEF Position, Ahead
<1>3. Rising(Tail(S))
  <2>1. \A i \in 1 .. Len(S) - 1 : i + 1 \in 1 .. Len(S)
    BY TailOf
  <2> QED BY <2>1, TailOf DEF Rising
<1>4. Ahead(Position(p, S[1]), Tail(S))
  <2>1. SUFFICES ASSUME NEW i \in DOMAIN Tail(S), Moves(Tail(S)[i])
                 PROVE  /\ Position(p, S[1]) <= Tail(S)[i].seq
                        /\ Tail(S)[i].type = "event" => Position(p, S[1]) < Tail(S)[i].seq
    BY DEF Ahead
  <2>2. Tail(S)[i] = S[i + 1] /\ i + 1 \in 1 .. Len(S) /\ 1 < i + 1 /\ 1 \in 1 .. Len(S) /\ DOMAIN S = 1 .. Len(S)
    BY <2>1, TailOf
  <2>3. CASE Moves(S[1])
    BY <2>1, <2>2, <2>3 DEF Rising, Position
  <2>4. CASE ~Moves(S[1])
    BY <2>1, <2>2, <2>4 DEF Ahead, Position
  <2> QED BY <2>3, <2>4
<1> QED BY <1>1, <1>2, <1>3, <1>4

LEMMA TailReached ==
  ASSUME NEW S \in Seq(Frame), S # << >>, NEW p \in Nat, p <= Position(p, S[1]),
         NEW n \in 1 .. Len(S), NEW s \in Nat, Reached(p, S, n, s)
  PROVE  Reached(Position(p, S[1]), Tail(S), n - 1, s)
<1>1. Position(p, S[1]) \in Nat /\ S[1].seq \in Nat
  BY TailOf DEF Position, Frame
<1>2. CASE s <= p
  BY <1>1, <1>2 DEF Reached
<1>3. ASSUME NEW j \in DOMAIN S, j <= n, Brings(S[j]), s <= S[j].seq
      PROVE  Reached(Position(p, S[1]), Tail(S), n - 1, s)
  <2>1. CASE j = 1
    BY <1>3, <2>1 DEF Reached, Position, Brings, Moves
  <2>2. CASE j # 1
    <3>1. j - 1 \in DOMAIN Tail(S) /\ Tail(S)[j - 1] = S[j] /\ j - 1 <= n - 1
      BY <1>3, <2>2, TailOf
    <3> QED BY <1>3, <3>1 DEF Reached
  <2> QED BY <2>1, <2>2
<1> QED BY <1>2, <1>3 DEF Reached

LEMMA TailCovered ==
  ASSUME NEW S \in Seq(Frame), S # << >>, NEW p \in Nat, p <= Position(p, S[1])
  PROVE  /\ Covered(p, S) => Covered(Position(p, S[1]), Tail(S))
         /\ Complete(p, S) => Complete(Position(p, S[1]), Tail(S))
<1>1. ASSUME Covered(p, S), NEW i \in DOMAIN Tail(S), Tail(S)[i].type = "event",
             NEW s \in Nat, Seen(s), s < Tail(S)[i].seq
      PROVE  Reached(Position(p, S[1]), Tail(S), i - 1, s)
  <2>1. Tail(S)[i] = S[i + 1] /\ i + 1 \in DOMAIN S /\ i \in 1 .. Len(S) /\ i + 1 - 1 = i
    BY TailOf
  <2>2. Reached(p, S, i, s)
    BY <1>1, <2>1 DEF Covered
  <2> QED BY <2>1, <2>2, TailReached
<1>2. ASSUME Complete(p, S), NEW s \in Nat, Seen(s)
      PROVE  Reached(Position(p, S[1]), Tail(S), Len(Tail(S)), s)
  <2>1. Len(S) \in 1 .. Len(S) /\ Len(Tail(S)) = Len(S) - 1
    BY TailOf
  <2> QED BY <1>2, <2>1, TailReached DEF Complete
<1> QED BY <1>1, <1>2 DEF Covered, Complete

LEMMA AppendReached ==
  ASSUME NEW S \in Seq(Frame), NEW f \in Frame, NEW p \in Nat, NEW n \in Nat, NEW s \in Nat,
         n <= Len(S), Reached(p, S, n, s)
  PROVE  \A m \in Nat : n <= m => Reached(p, Append(S, f), m, s)
  BY AppendOf DEF Reached

\* A frame without a position changes nothing.
LEMMA NoteProspects ==
  ASSUME NEW S \in Seq(Frame), NEW f \in Frame, f.type = "note", NEW p \in Nat
  PROVE  /\ Ahead(p, S) => Ahead(p, Append(S, f))
         /\ Rising(S) => Rising(Append(S, f))
         /\ Covered(p, S) => Covered(p, Append(S, f))
         /\ Complete(p, S) => Complete(p, Append(S, f))
<1>0. ~Moves(f) /\ f.type # "ready"
  BY DEF Moves
<1>1. Ahead(p, S) => Ahead(p, Append(S, f))
  BY <1>0, AppendOf DEF Ahead
<1>2. Rising(S) => Rising(Append(S, f))
  BY <1>0, AppendOf DEF Rising
<1>3. ASSUME Covered(p, S), NEW i \in DOMAIN Append(S, f), Append(S, f)[i].type = "event",
             NEW s \in Nat, Seen(s), s < Append(S, f)[i].seq
      PROVE  Reached(p, Append(S, f), i - 1, s)
  <2>1. i \in 1 .. Len(S) /\ Append(S, f)[i] = S[i]
    BY <1>3, AppendOf
  <2>2. Reached(p, S, i - 1, s)
    BY <1>3, <2>1, AppendOf DEF Covered
  <2>3. i - 1 \in Nat /\ i - 1 <= Len(S)
    BY <2>1, AppendOf
  <2> QED BY <2>2, <2>3, AppendReached
<1>4. ASSUME Complete(p, S), NEW s \in Nat, Seen(s)
      PROVE  Reached(p, Append(S, f), Len(Append(S, f)), s)
  <2>1. Reached(p, S, Len(S), s) /\ Len(S) \in Nat /\ Len(Append(S, f)) = Len(S) + 1
    BY <1>4, AppendOf DEF Complete
  <2> QED BY <2>1, AppendReached
<1> QED BY <1>1, <1>2, <1>3, <1>4 DEF Covered, Complete

\* The next event, behind all the frames so far.
LEMMA EventProspects ==
  ASSUME NEW S \in Seq(Frame), NEW n \in Nat, NEW p \in Nat, p < n,
         \A i \in DOMAIN S : S[i].seq < n
  PROVE  /\ Ahead(p, S) => Ahead(p, Append(S, EventFrame(n)))
         /\ Rising(S) => Rising(Append(S, EventFrame(n)))
         /\ Covered(p, S) /\ Complete(p, S) => Covered(p, Append(S, EventFrame(n)))
         /\ Complete(p, S) =>
              \A s \in Nat : Seen(s) \/ s <= n =>
                Reached(p, Append(S, EventFrame(n)), Len(Append(S, EventFrame(n))), s)
<1> DEFINE f == EventFrame(n)
           T == Append(S, f)
<1>1. f \in Frame /\ f.type = "event" /\ f.seq = n /\ Brings(f)
  BY FrameTypesOK DEF EventFrame, Brings
<1>2. Ahead(p, S) => Ahead(p, T)
  BY <1>1, AppendOf DEF Ahead
<1>3. ASSUME Rising(S) PROVE Rising(T)
  <2>0. \A i \in DOMAIN T : i > 1 => T[i].type # "ready"
    BY <1>1, <1>3, AppendOf DEF Rising
  <2>1. SUFFICES ASSUME NEW i \in DOMAIN T, NEW j \in DOMAIN T, i < j, Moves(T[i]), Moves(T[j])
                 PROVE  /\ T[i].seq <= T[j].seq
                        /\ T[j].type = "event" => T[i].seq < T[j].seq
                        /\ T[i].type = "event" => T[j].type = "event"
    BY <2>0 DEF Rising
  <2>2. i \in 1 .. Len(S) /\ T[i] = S[i] /\ S[i] \in Frame
    BY <1>1, <2>1, AppendOf
  <2>3. CASE j \in 1 .. Len(S)
    <3>1. T[j] = S[j] /\ i \in DOMAIN S /\ j \in DOMAIN S
      BY <1>1, <2>2, <2>3, AppendOf
    <3> QED BY <1>3, <2>1, <2>2, <3>1 DEF Rising
  <2>4. CASE j = Len(S) + 1
    <3>1. T[j] = f /\ i \in DOMAIN S
      BY <1>1, <2>2, <2>4, AppendOf
    <3>2. S[i].seq < n /\ S[i].seq \in Nat
      BY <2>2, <3>1 DEF Frame
    <3> QED BY <1>1, <2>2, <3>1, <3>2
  <2> QED BY <1>1, <2>3, <2>4, AppendOf
<1>4. ASSUME Covered(p, S), Complete(p, S), NEW i \in DOMAIN T, T[i].type = "event",
             NEW s \in Nat, Seen(s), s < T[i].seq
      PROVE  Reached(p, T, i - 1, s)
  <2>1. CASE i \in 1 .. Len(S)
    <3>1. T[i] = S[i] /\ i - 1 \in Nat /\ i - 1 <= Len(S) /\ i \in DOMAIN S
      BY <1>1, <2>1, AppendOf
    <3>2. Reached(p, S, i - 1, s)
      BY <1>4, <3>1 DEF Covered
    <3> QED BY <1>1, <3>1, <3>2, AppendReached
  <2>2. CASE i = Len(S) + 1
    <3>1. Reached(p, S, Len(S), s) /\ Len(S) \in Nat /\ i - 1 = Len(S)
      BY <1>4, <2>2, AppendOf DEF Complete
    <3> QED BY <1>1, <3>1, AppendReached
  <2> QED BY <1>1, <2>1, <2>2, AppendOf
<1>5. ASSUME Complete(p, S), NEW s \in Nat, Seen(s) \/ s <= n
      PROVE  Reached(p, T, Len(T), s)
  <2>1. Len(S) \in Nat /\ Len(T) = Len(S) + 1 /\ Len(T) \in DOMAIN T /\ T[Len(T)] = f
    BY <1>1, AppendOf
  <2>2. CASE s <= n
    BY <1>1, <2>1, <2>2 DEF Reached
  <2>3. CASE Seen(s)
    <3>1. Reached(p, S, Len(S), s)
      BY <1>5, <2>3 DEF Complete
    <3> QED BY <1>1, <2>1, <3>1, AppendReached
  <2> QED BY <1>5, <2>2, <2>3
<1> QED BY <1>2, <1>3, <1>4, <1>5 DEF Covered

-----------------------------------------------------------------------------
(***************************************************************************)
(* What a page does with the next frame of its stream.                     *)
(***************************************************************************)
LEMMA StreamType ==
  ASSUME TypeOK, NEW k \in Conns
  PROVE  Stream(k) \in Seq(Frame)
  BY ConcatOf DEF Stream, TypeOK

LEMMA TakeStream ==
  ASSUME TypeOK, NEW k \in Conns, queue[k] # << >>
  PROVE  /\ Tail(queue[k]) \o outbox[k] = Tail(Stream(k))
         /\ Stream(k) # << >> /\ Stream(k)[1] = Head(queue[k]) /\ Stream(k)[1] \in Frame
<1>1. queue[k] \in Seq(Frame) /\ outbox[k] \in Seq(Frame)
  BY DEF TypeOK
<1>2. Tail(queue[k]) \o outbox[k] = Tail(Stream(k)) /\ Stream(k) # << >> /\ Stream(k)[1] = Head(queue[k])
  BY <1>1, TailConcat DEF Stream
<1> QED BY <1>1, <1>2, TailOf

\* An event at the head of a stream follows no snapshot, and the page that
\* takes it waits for none.
LEMMA EventAtHead ==
  ASSUME TypeOK, NEW c \in Clients, NEW k \in Conns, StreamInv(c, k), Stream(k) # << >>,
         Stream(k)[1].type = "event"
  PROVE  /\ ~client[c].resyncing /\ client[c].lastSeq < Stream(k)[1].seq
         /\ client[c].lastSeq = 0 => client[c].shown = {}
         /\ stage[k] \in {"activate", "live"} \cup {"free", "closing"}
<1> DEFINE S == Stream(k)
<1>1. S \in Seq(Frame) /\ 1 \in DOMAIN S /\ S[1] \in Frame /\ Moves(S[1])
  BY StreamType, TailOf DEF Moves
<1>2. ~client[c].resyncing /\ client[c].lastSeq < S[1].seq
  BY <1>1 DEF StreamInv, Ahead
<1>3. \A i \in DOMAIN S : S[i].type # "snapshot"
  <2> SUFFICES ASSUME NEW i \in DOMAIN S, S[i].type = "snapshot" PROVE FALSE
    OBVIOUS
  <2>1. i \in 1 .. Len(S) /\ i # 1 /\ Moves(S[i])
    BY <1>1 DEF Moves
  <2>2. 1 < i
    BY <1>1, <2>1, TailOf
  <2> QED BY <1>1, <2>1, <2>2 DEF StreamInv, Rising
<1>4. stage[k] \notin {"waiting", "room", "history", "events"}
  BY <1>1 DEF StreamInv, Promised, EventFree
<1>5. client[c].lastSeq = 0 => client[c].shown = {}
  BY <1>3, <1>4 DEF StreamInv, Guided
<1>6. stage[k] \in {"activate", "live"} \cup {"free", "closing"}
  BY <1>4 DEF TypeOK, Stages, Replaying
<1> QED BY <1>2, <1>5, <1>6

\* The page goes on by one event, is reset or given a snapshot, forgets its
\* position at a gap, or stays where it is.
Extends(cl, new, f) ==
  /\ f.type = "event" /\ f.seq = cl.lastSeq + 1 /\ (cl.lastSeq = 0 => cl.shown = {})
  /\ new.lastSeq = f.seq /\ new.shown = cl.shown \cup {f.seq}
Replaces(new, f) ==
  /\ new.lastSeq = f.seq
  /\ \/ f.type = "reset" /\ new.shown = {}
     \/ f.type = "snapshot" /\ new.shown = 1 .. f.seq
Forgets(cl, new) == new.lastSeq = 0 /\ new.shown = cl.shown
Stays(cl, new) == new.lastSeq = cl.lastSeq /\ new.shown = cl.shown

LEMMA PageTakes ==
  ASSUME TypeOK, NEW c \in Clients, NEW k \in Conns, StreamInv(c, k), ~client[c].stopped,
         queue[k] # << >>,
         NEW new, new = HandleFrame(client[c], Head(queue[k]))
  PROVE  /\ \/ Extends(client[c], new, Head(queue[k])) \/ Replaces(new, Head(queue[k]))
            \/ Forgets(client[c], new) /\ StartsResync(client[c], Head(queue[k]))
            \/ Stays(client[c], new) /\ ~Moves(Head(queue[k]))
         /\ ~StartsResync(client[c], Head(queue[k])) =>
              /\ new.lastSeq = Position(client[c].lastSeq, Head(queue[k]))
              /\ new.resyncing = (client[c].resyncing /\ Head(queue[k]).type # "ready")
         /\ StartsResync(client[c], Head(queue[k])) => new.lastSeq = 0 /\ new.resyncing
<1> DEFINE cl == client[c]
           f == Head(queue[k])
<1>1. cl \in ClientState /\ f \in Frame /\ f = Stream(k)[1] /\ Stream(k) # << >>
  BY TakeStream DEF TypeOK
<1>2. cl.lastSeq \in Nat /\ f.seq \in Nat /\ cl.resyncing \in BOOLEAN
  BY <1>1 DEF ClientState, Frame
<1>3. CASE f.type = "event"
  <2>1. ~cl.resyncing /\ cl.lastSeq < f.seq /\ (cl.lastSeq = 0 => cl.shown = {})
    BY <1>1, <1>3, EventAtHead
  <2>2. new = ApplyEvent(cl, f)
    BY <1>3 DEF HandleFrame
  <2>3. CASE f.seq = cl.lastSeq + 1
    <3>1. new = [cl EXCEPT !.lastSeq = f.seq, !.shown = @ \cup {f.seq}]
      BY <2>2, <2>3 DEF ApplyEvent
    <3>2. new.lastSeq = f.seq /\ new.shown = cl.shown \cup {f.seq} /\ new.resyncing = cl.resyncing
      BY <1>1, <3>1 DEF ClientState
    <3>3. Extends(cl, new, f)
      BY <1>3, <2>1, <2>3, <3>2 DEF Extends
    <3>4. new.lastSeq = Position(cl.lastSeq, f)
      BY <1>3, <3>2 DEF Position, Moves
    <3>5. new.resyncing = (cl.resyncing /\ f.type # "ready")
      BY <1>2, <2>1, <3>2
    <3>6. ~StartsResync(cl, f)
      BY <1>2, <2>3 DEF StartsResync, IsGap
    <3> QED BY <3>3, <3>4, <3>5, <3>6
  <2>4. CASE f.seq # cl.lastSeq + 1
    <3>1. StartsResync(cl, f)
      BY <1>2, <1>3, <2>1, <2>4 DEF StartsResync, IsGap
    <3>2. new = [cl EXCEPT !.lastSeq = 0, !.resyncing = TRUE]
      BY <2>2, <2>4, <3>1 DEF ApplyEvent
    <3>3. new.lastSeq = 0 /\ new.resyncing /\ new.shown = cl.shown
      BY <1>1, <3>2 DEF ClientState
    <3> QED BY <3>1, <3>3 DEF Forgets
  <2> QED BY <2>3, <2>4
<1>4. CASE f.type # "event"
  <2>1. ~StartsResync(cl, f) /\ cl.resyncing \in BOOLEAN
    BY <1>1, <1>4 DEF StartsResync, IsGap, ClientState
  <2>2. CASE f.type = "ready"
    <3>1. new = [cl EXCEPT !.resyncing = FALSE]
      BY <2>2 DEF HandleFrame
    <3>2. new.lastSeq = cl.lastSeq /\ new.shown = cl.shown /\ new.resyncing = FALSE
      BY <1>1, <3>1 DEF ClientState
    <3> QED BY <2>1, <2>2, <3>2 DEF Stays, Moves, Position
  <2>3. CASE f.type = "note"
    <3>1. new = cl
      BY <2>3 DEF HandleFrame
    <3> QED BY <1>2, <2>1, <2>3, <3>1 DEF Stays, Moves, Position
  <2>4. CASE f.type = "reset"
    <3>1. new = [cl EXCEPT !.lastSeq = f.seq, !.shown = {}]
      BY <2>4 DEF HandleFrame, ResetReplay
    <3>2. new.lastSeq = f.seq /\ new.shown = {} /\ new.resyncing = cl.resyncing
      BY <1>1, <3>1 DEF ClientState
    <3> QED BY <1>2, <2>1, <2>4, <3>2 DEF Replaces, Moves, Position
  <2>5. CASE f.type = "snapshot"
    <3>1. new = [cl EXCEPT !.lastSeq = f.seq, !.shown = 1 .. f.seq]
      BY <2>5 DEF HandleFrame, ResetReplay
    <3>2. new.lastSeq = f.seq /\ new.shown = 1 .. f.seq /\ new.resyncing = cl.resyncing
      BY <1>1, <3>1 DEF ClientState
    <3> QED BY <1>2, <2>1, <2>5, <3>2 DEF Replaces, Moves, Position
  <2>6. f.type \in FrameTypes
    BY <1>1 DEF Frame
  <2> QED BY <1>4, <2>2, <2>3, <2>4, <2>5, <2>6 DEF FrameTypes
<1> QED BY <1>3, <1>4

\* A page that found a gap drops what it is sent.
LEMMA StuckDrops ==
  ASSUME TypeOK, NEW c \in Clients, NEW k \in Conns, StuckInv(c, k), NEW f \in Frame, InStream(k, f)
  PROVE  HandleFrame(client[c], f) = client[c]
<1>1. f.type = "note" \/ (f.type = "event" /\ f.seq > 1 /\ f.seq \in Nat)
  BY DEF StuckInv, Frame
<1>2. client[c].lastSeq = 0 /\ client[c].resyncing
  BY DEF StuckInv
<1>3. CASE f.type = "note"
  BY <1>3 DEF HandleFrame
<1>4. CASE f.type = "event"
  <2>1. f.seq # client[c].lastSeq + 1 /\ ~StartsResync(client[c], f)
    BY <1>1, <1>2, <1>4 DEF StartsResync
  <2>2. HandleFrame(client[c], f) = ApplyEvent(client[c], f)
    BY <1>4 DEF HandleFrame
  <2> QED BY <2>1, <2>2 DEF ApplyEvent
<1> QED BY <1>1, <1>3, <1>4

-----------------------------------------------------------------------------
(***************************************************************************)
(* Streams: what each action does to them.                                 *)
(***************************************************************************)
LEMMA SameStream ==
  ASSUME NEW k \in Conns, queue'[k] = queue[k], outbox'[k] = outbox[k]
  PROVE  Stream(k)' = Stream(k)
  BY DEF Stream

LEMMA FanoutStream ==
  ASSUME TypeOK, WiringInv, ActiveAfterReplay, NEW f \in Frame, Enqueue(f), outbox' = outbox,
         NEW k \in Conns
  PROVE  Stream(k)' = IF k \in Broadcast \ Overfull THEN Append(Stream(k), f) ELSE Stream(k)
<1>1. queue'[k] = IF k \in Broadcast \ Overfull THEN Append(queue[k], f) ELSE queue[k]
  BY DEF Enqueue, TypeOK
<1>2. CASE k \in Broadcast \ Overfull
  <2>1. outbox[k] = << >> /\ queue[k] \in Seq(Frame)
    BY <1>2 DEF Broadcast, ActiveAfterReplay, WiringInv, Replaying, TypeOK
  <2> QED BY <1>1, <1>2, <2>1, AppendConcat DEF Stream
<1>3. CASE k \notin Broadcast \ Overfull
  BY <1>1, <1>3 DEF Stream
<1> QED BY <1>2, <1>3

LEMMA SendStream ==
  ASSUME TypeOK, NEW k \in Conns, SendFrame(k), NEW j \in Conns
  PROVE  Stream(j)' = Stream(j)
<1>1. queue'[j] = IF j = k THEN Append(queue[k], Head(outbox[k])) ELSE queue[j]
  BY DEF SendFrame, TypeOK
<1>2. outbox'[j] = IF j = k THEN Tail(outbox[k]) ELSE outbox[j]
  BY DEF SendFrame, TypeOK
<1>3. queue[k] \in Seq(Frame) /\ outbox[k] \in Seq(Frame) /\ outbox[k] # << >>
  BY DEF SendFrame, TypeOK
<1> QED BY <1>1, <1>2, <1>3, ShiftConcat DEF Stream

\* The frames of a stream are those of its parts.
LEMMA PartsOf ==
  ASSUME NEW S \in Seq(Frame), NEW T \in Seq(Frame), NEW i \in DOMAIN (S \o T)
  PROVE  \/ \E j \in DOMAIN S : (S \o T)[i] = S[j]
         \/ \E j \in DOMAIN T : (S \o T)[i] = T[j]
<1>1. CASE i \in 1 .. Len(S)
  BY <1>1, ConcatOf
<1>2. CASE i \notin 1 .. Len(S)
  <2>1. i - Len(S) \in 1 .. Len(T) /\ i = Len(S) + (i - Len(S))
    BY <1>2, ConcatOf
  <2>2. (S \o T)[i] = T[i - Len(S)]
    BY <2>1, ConcatOf
  <2> QED BY <2>1, <2>2, ConcatOf
<1> QED BY <1>1, <1>2

LEMMA FirstPart ==
  ASSUME NEW S \in Seq(Frame), NEW T \in Seq(Frame), NEW j \in DOMAIN S
  PROVE  j \in DOMAIN (S \o T) /\ (S \o T)[j] = S[j]
<1>1. j \in 1 .. Len(S)
  BY ConcatOf
<1> QED BY <1>1, ConcatOf

LEMMA QueuePart ==
  ASSUME TypeOK, NEW k \in Conns, NEW j \in DOMAIN queue[k]
  PROVE  InStream(k, queue[k][j])
<1>1. queue[k] \in Seq(Frame) /\ outbox[k] \in Seq(Frame)
  BY DEF TypeOK
<1> QED BY <1>1, FirstPart DEF InStream, Stream

\* The frames that an action may add to the stream of k.
NewFrame(k, f) ==
  \/ f.type = "note" /\ f.seq = 0
  \/ /\ lock = k /\ stage[k] = "room"
     /\ (f.type = "ready" /\ f.seq = 0) \/ (f.type = "reset" /\ f.seq \in ResetTarget(k))
  \/ /\ lock = k /\ stage[k] \in {"history", "events"}
     /\ f.type \in {"snapshot", "event"} /\ f.seq <= last
  \/ pubStage = "publishing" /\ f = EventFrame(pubSeq) /\ pubStage' = "idle"

\* A frame of the outbox, of the queue, or a new one.
LEMMA RefillFrames ==
  ASSUME TypeOK, NEW k \in Conns, NEW T \in Seq(Frame), queue'[k] = queue[k], outbox'[k] = T,
         NEW f \in Frame, InStream(k, f)'
  PROVE  InStream(k, f) \/ \E j \in DOMAIN T : T[j] = f
<1>1. queue[k] \in Seq(Frame)
  BY DEF TypeOK
<1>2. PICK i \in DOMAIN (queue[k] \o T) : (queue[k] \o T)[i] = f
  BY DEF InStream, Stream
<1>3. \/ \E j \in DOMAIN queue[k] : f = queue[k][j]
      \/ \E j \in DOMAIN T : f = T[j]
  BY <1>1, <1>2, PartsOf
<1> QED BY <1>3, QueuePart

LEMMA TakeFrames ==
  ASSUME TypeOK, NEW k \in Conns, queue[k] # << >>, queue' = [queue EXCEPT ![k] = Tail(@)],
         outbox' = outbox, NEW j \in Conns, NEW f, InStream(j, f)'
  PROVE  InStream(j, f)
<1>1. CASE j = k
  <2>1. queue'[k] = Tail(queue[k])
    BY DEF TypeOK
  <2>2. Stream(k)' = Tail(Stream(k)) /\ Stream(k) # << >> /\ Stream(k) \in Seq(Frame)
    BY <2>1, TakeStream, StreamType DEF Stream
  <2>3. PICK i \in DOMAIN Tail(Stream(k)) : Tail(Stream(k))[i] = f
    BY <1>1, <2>2 DEF InStream
  <2>4. i + 1 \in DOMAIN Stream(k) /\ Stream(k)[i + 1] = f
    BY <2>2, <2>3, TailOf
  <2> QED BY <1>1, <2>4 DEF InStream
<1>2. CASE j # k
  <2>1. queue'[j] = queue[j] /\ outbox'[j] = outbox[j]
    BY <1>2 DEF TypeOK
  <2> QED BY <2>1, SameStream DEF InStream
<1> QED BY <1>1, <1>2

LEMMA EventsAre ==
  ASSUME NEW n \in Nat, last \in Nat, oldest \in Nat, NEW i \in DOMAIN EventsAfter(n)
  PROVE  /\ EventsAfter(n)[i].type = "event" /\ i \in Nat \ {0}
         /\ EventsAfter(n)[i].seq = Larger(n + 1, oldest) + i - 1 /\ EventsAfter(n)[i].seq <= last
<1> DEFINE first == Larger(n + 1, oldest)
           final == Smaller(last, first + Window - 1)
<1>1. first \in Nat /\ final \in Int /\ final <= last
  BY ConstantsAssumption DEF Larger, Smaller
<1>2. CASE final < first
  BY <1>2 DEF EventsAfter
<1>3. CASE ~(final < first)
  <2>1. EventsAfter(n) = [j \in 1 .. final - first + 1 |-> EventFrame(first + j - 1)]
    BY <1>3 DEF EventsAfter
  <2>2. i \in 1 .. final - first + 1 /\ EventsAfter(n)[i] = EventFrame(first + i - 1)
    BY <2>1
  <2> QED BY <1>1, <2>2 DEF EventFrame
<1> QED BY <1>2, <1>3

-----------------------------------------------------------------------------
(***************************************************************************)
(* Connections and pages.                                                  *)
(***************************************************************************)
LEMMA WiringStep == LockInv /\ WiringInv /\ [Next]_vars => WiringInv'
<1> SUFFICES ASSUME LockInv, WiringInv, [Next]_vars PROVE WiringInv'
  OBVIOUS
<1> USE ConstantsAssumption
    DEF LockInv, TypeOK, EventLockExclusion, ActiveAfterReplay, WiringInv, Replaying,
        logVars, lockVars, pageVars, hubVars, bootVars
<1>1. CASE PublisherStep
  <2>1. CASE Publish BY <2>1 DEF Publish, Fanout, Enqueue, Broadcast, Overfull
  <2>2. CASE BroadcastNote BY <2>2 DEF BroadcastNote, Fanout, Enqueue, Broadcast, Overfull
  <2>3. CASE StartPublish \/ Commit \/ CommitFails \/ CancelPublish \/ OrphanCommits
    BY <2>3 DEF StartPublish, Commit, CommitFails, CancelPublish, OrphanCommits
  <2>4. CASE CancelFanout BY <2>4 DEF CancelFanout, Enqueue, Broadcast, Overfull
  <2> QED BY <1>1, <2>1, <2>2, <2>3, <2>4 DEF PublisherStep
<1>2. ASSUME NEW k \in Conns, HandlerStep(k) PROVE WiringInv'
  <2>1. CASE LockForReplay(k) BY <2>1 DEF LockForReplay
  <2>2. CASE ReadRoom(k)
    <3>1. stage' = [stage EXCEPT ![k] = IF NeedsSnapshot(k) THEN "history" ELSE "events"]
      BY <2>2 DEF ReadRoom
    <3>2. \A j \in Conns : j # k => outbox'[j] = outbox[j]
      BY <2>2 DEF ReadRoom
    <3>3. stage[k] = "room" /\ UNCHANGED <<lockVars, pageVars, hubVars>>
      BY <2>2 DEF ReadRoom
    <3> QED BY <3>1, <3>2, <3>3
  <2>3. CASE SendFrame(k) BY <2>3 DEF SendFrame
  <2>4. CASE SendTimeout(k) BY <2>4 DEF SendTimeout, AbortReplay
  <2>5. CASE ReadHistory(k) BY <2>5 DEF ReadHistory
  <2>6. CASE ReadEvents(k) BY <2>6 DEF ReadEvents
  <2>7. CASE Activate(k) BY <2>7 DEF Activate
  <2>8. CASE ActivateFails(k) BY <2>8 DEF ActivateFails, AbortReplay
  <2>9. CASE HandlerExit(k) BY <2>9 DEF HandlerExit
  <2>10. CASE WriterBreaks(k) BY <2>10 DEF WriterBreaks
  <2> QED
    BY <1>2, <2>1, <2>2, <2>3, <2>4, <2>5, <2>6, <2>7, <2>8, <2>9, <2>10 DEF HandlerStep
<1>3. ASSUME NEW c \in Clients, PageStep(c) PROVE WiringInv'
  <2>1. ASSUME NEW k \in Conns, Connect(c, k) PROVE WiringInv'
    BY <2>1 DEF Connect
  <2>2. CASE Deliver(c) \/ WriterTimeout(c)
    <3> DEFINE k == sock[c]
               f == Head(queue[k])
    <3>1. k \in Conns /\ open[k] /\ hub[k] # "absent" /\ queue[k] # << >>
      BY <2>2, IncomingQueue DEF Deliver, WriterTimeout
    <3>2. /\ Receive(c, k) \/ UNCHANGED client
          /\ queue' = [queue EXCEPT ![k] = Tail(@)]
          /\ hub' = hub \/ hub' = [hub EXCEPT ![k] = "absent"]
          /\ UNCHANGED <<sock, open, stage, outbox>>
      BY <2>2 DEF Deliver, WriterTimeout
    <3>3. \A d \in Clients : client'[d].stopped = client[d].stopped
      <4>1. f \in Frame /\ client[c] \in ClientState
        BY <3>1
      <4>2. HandleFrame(client[c], f).stopped = client[c].stopped
        BY <4>1 DEF HandleFrame, ApplyEvent, ResetReplay, ClientState, Frame, FrameTypes
      <4> QED BY <3>2, <4>2 DEF Receive
    <3>4. \A j \in Conns : open'[j] => open[j]
      BY <3>2
    <3>5. /\ \A d, e \in Clients : sock'[d] = sock'[e] /\ d # e => sock'[d] = NoConn
          /\ \A d \in Clients : client'[d].stopped => sock'[d] = NoConn
      BY <3>2, <3>3
    <3>6. ASSUME NEW j \in Conns
          PROVE  /\ stage'[j] \notin Replaying => outbox'[j] = << >>
                 /\ stage'[j] = "free" => queue'[j] = << >> /\ hub'[j] = "absent"
                 /\ stage'[j] = "closing" => ~open'[j]
                 /\ stage'[j] = "live" => hub'[j] # "inactive"
      <4>1. stage'[j] = stage[j] /\ outbox'[j] = outbox[j] /\ (hub'[j] = hub[j] \/ hub'[j] = "absent")
        BY <3>2
      <4>2. stage[k] # "free"
        BY <3>1
      <4>3. j # k => queue'[j] = queue[j]
        BY <3>2
      <4> QED BY <3>4, <4>1, <4>2, <4>3
    <3> QED BY <3>5, <3>6
  <2>3. CASE SocketClosed(c) BY <2>3 DEF SocketClosed
  <2>4. CASE PageHide(c) BY <2>4 DEF PageHide, ClientState
  <2>5. CASE PageShow(c) BY <2>5 DEF PageShow, ClientState
  <2> QED BY <1>3, <2>1, <2>2, <2>3, <2>4, <2>5 DEF PageStep
<1>4. CASE Age \/ CleanupExpired
  BY <1>4 DEF Age, CleanupExpired
<1>7. ASSUME NEW k \in Conns, NetworkDrop(k) PROVE WiringInv'
  BY <1>7 DEF NetworkDrop
<1>5. CASE Restart BY <1>5 DEF Restart
<1>6. CASE UNCHANGED vars BY <1>6 DEF vars
<1> QED
  BY <1>1, <1>2, <1>3, <1>4, <1>5, <1>6, <1>7 DEF Next

\* Every frame on its way was on its way before, or is one the action adds.
LEMMA FramesStep ==
  ASSUME LockInv, WiringInv, [Next]_vars, NEW j \in Conns, NEW f \in Frame, InStream(j, f)'
  PROVE  InStream(j, f) \/ NewFrame(j, f)
<1> USE DEF logVars, lockVars, pageVars, hubVars, bootVars
<1>t. TypeOK /\ EventLockExclusion /\ ActiveAfterReplay
  BY DEF LockInv
<1>s. ASSUME Stream(j)' = Stream(j) PROVE InStream(j, f)
  BY <1>s DEF InStream
<1>a. ASSUME NEW g \in Frame, Stream(j)' = Append(Stream(j), g) PROVE InStream(j, f) \/ f = g
  <2>1. Stream(j) \in Seq(Frame)
    BY <1>t, StreamType
  <2> QED BY <1>a, <2>1, AppendOf DEF InStream
<1>f. ASSUME NEW g \in Frame, Enqueue(g), outbox' = outbox PROVE InStream(j, f) \/ f = g
  <2>1. Stream(j)' = Append(Stream(j), g) \/ Stream(j)' = Stream(j)
    BY <1>f, <1>t, FanoutStream
  <2> QED BY <1>f, <1>a, <1>s, <2>1
<1>e. ASSUME queue'[j] = << >>, outbox'[j] = << >> PROVE FALSE
  BY <1>e DEF InStream, Stream
<1>r. ASSUME NEW T \in Seq(Frame), queue'[j] = queue[j], outbox'[j] = T
      PROVE  InStream(j, f) \/ \E i \in DOMAIN T : T[i] = f
  BY <1>r, <1>t, RefillFrames
<1>1. CASE PublisherStep
  <2>1. CASE Publish \/ CancelFanout
    <3>1. EventFrame(pubSeq) \in Frame /\ Enqueue(EventFrame(pubSeq)) /\ outbox' = outbox
      BY <2>1, <1>t, FrameTypesOK DEF Publish, CancelFanout, Fanout, TypeOK
    <3>2. pubStage = "publishing" /\ pubStage' = "idle"
      BY <2>1 DEF Publish, CancelFanout
    <3> QED BY <3>1, <3>2, <1>f DEF NewFrame
  <2>2. CASE BroadcastNote
    <3>1. NoteFrame \in Frame /\ Enqueue(NoteFrame) /\ outbox' = outbox
      BY <2>2, FrameTypesOK DEF BroadcastNote, Fanout
    <3> QED BY <3>1, <1>f DEF NewFrame, NoteFrame
  <2>3. CASE StartPublish \/ Commit \/ CommitFails \/ CancelPublish \/ OrphanCommits
    <3>1. UNCHANGED <<queue, outbox>>
      BY <2>3 DEF StartPublish, Commit, CommitFails, CancelPublish, OrphanCommits
    <3> QED BY <3>1, <1>s, SameStream
  <2> QED BY <1>1, <2>1, <2>2, <2>3 DEF PublisherStep
<1>2. ASSUME NEW k \in Conns, HandlerStep(k) PROVE InStream(j, f) \/ NewFrame(j, f)
  <2>0. ASSUME j # k, queue'[j] = queue[j], outbox'[j] = outbox[j] PROVE InStream(j, f)
    BY <2>0, <1>s, SameStream
  <2>1. CASE LockForReplay(k)
    BY <2>1, <1>s, SameStream DEF LockForReplay
  <2>2. CASE ReadRoom(k)
    <3>1. queue' = queue /\ stage[k] = "room" /\ lock = k
      BY <2>2, <1>t DEF ReadRoom, EventLockExclusion, Replaying
    <3>2. \/ outbox' = [outbox EXCEPT ![k] = <<ReadyFrame>>]
          \/ \E n \in ResetTarget(k) : outbox' = [outbox EXCEPT ![k] = <<ReadyFrame, ResetFrame(n)>>]
      BY <2>2 DEF ReadRoom
    <3>3. CASE j # k
      BY <3>1, <3>2, <3>3, <2>0, <1>t DEF TypeOK
    <3>4. CASE j = k /\ outbox' = [outbox EXCEPT ![k] = <<ReadyFrame>>]
      <4>1. outbox'[k] = <<ReadyFrame>> /\ <<ReadyFrame>> \in Seq(Frame)
        BY <3>4, <1>t, FrameTypesOK DEF TypeOK
      <4>2. InStream(j, f) \/ f = ReadyFrame
        <5>1. \A i \in DOMAIN <<ReadyFrame>> : <<ReadyFrame>>[i] = ReadyFrame
          OBVIOUS
        <5>2. InStream(j, f) \/ \E i \in DOMAIN <<ReadyFrame>> : <<ReadyFrame>>[i] = f
          BY <3>1, <3>4, <4>1, <1>r
        <5> QED BY <5>1, <5>2
      <4> QED BY <3>1, <3>4, <4>2 DEF NewFrame, ReadyFrame
    <3>5. ASSUME j = k, NEW n \in ResetTarget(k), outbox' = [outbox EXCEPT ![k] = <<ReadyFrame, ResetFrame(n)>>]
          PROVE  InStream(j, f) \/ NewFrame(j, f)
      <4>1. n \in Nat
        BY <1>t DEF ResetTarget, ReplayFrom, TypeOK
      <4>2. outbox'[k] = <<ReadyFrame, ResetFrame(n)>> /\ <<ReadyFrame, ResetFrame(n)>> \in Seq(Frame)
        BY <3>5, <1>t, <4>1, FrameTypesOK DEF TypeOK
      <4>3. InStream(j, f) \/ f = ReadyFrame \/ f = ResetFrame(n)
        <5>1. \A i \in DOMAIN <<ReadyFrame, ResetFrame(n)>> :
                <<ReadyFrame, ResetFrame(n)>>[i] \in {ReadyFrame, ResetFrame(n)}
          OBVIOUS
        <5> QED BY <3>1, <3>5, <4>2, <5>1, <1>r
      <4> QED BY <3>1, <3>5, <4>3 DEF NewFrame, ReadyFrame, ResetFrame
    <3> QED BY <3>2, <3>3, <3>4, <3>5
  <2>3. CASE SendFrame(k)
    BY <2>3, <1>t, <1>s, SendStream
  <2>4. CASE SendTimeout(k) \/ ActivateFails(k)
    <3>1. queue' = queue /\ outbox' = [outbox EXCEPT ![k] = << >>]
      BY <2>4 DEF SendTimeout, ActivateFails, AbortReplay
    <3>2. CASE j # k
      BY <3>1, <3>2, <2>0, <1>t DEF TypeOK
    <3>3. CASE j = k
      <4>1. outbox'[j] = << >> /\ << >> \in Seq(Frame) /\ queue'[j] = queue[j] /\ DOMAIN << >> = {}
        BY <3>1, <3>3, <1>t DEF TypeOK
      <4> QED BY <4>1, <1>r
    <3> QED BY <3>2, <3>3
  <2>5. CASE ReadHistory(k)
    <3>1. /\ queue' = queue /\ lock = k /\ stage[k] = "history"
          /\ outbox' = [outbox EXCEPT ![k] = <<SnapshotFrame(last)>>]
      BY <2>5, <1>t DEF ReadHistory, EventLockExclusion, Replaying
    <3>2. CASE j # k
      BY <3>1, <3>2, <2>0, <1>t DEF TypeOK
    <3>3. CASE j = k
      <4>1. outbox'[j] = <<SnapshotFrame(last)>> /\ <<SnapshotFrame(last)>> \in Seq(Frame)
        BY <3>1, <3>3, <1>t, FrameTypesOK DEF TypeOK
      <4>2. InStream(j, f) \/ f = SnapshotFrame(last)
        <5>1. \A i \in DOMAIN <<SnapshotFrame(last)>> : <<SnapshotFrame(last)>>[i] = SnapshotFrame(last)
          OBVIOUS
        <5>2. queue'[j] = queue[j]
          BY <3>1
        <5>3. InStream(j, f) \/ \E i \in DOMAIN <<SnapshotFrame(last)>> : <<SnapshotFrame(last)>>[i] = f
          BY <4>1, <5>2, <1>r
        <5> QED BY <5>1, <5>3
      <4> QED BY <3>1, <3>3, <4>2, <1>t DEF NewFrame, SnapshotFrame, TypeOK
    <3> QED BY <3>2, <3>3
  <2>6. CASE ReadEvents(k)
    <3>1. /\ queue' = queue /\ lock = k /\ stage[k] = "events"
          /\ outbox' = [outbox EXCEPT ![k] = EventsAfter(after[k])]
      BY <2>6, <1>t DEF ReadEvents, EventLockExclusion, Replaying
    <3>2. CASE j # k
      BY <3>1, <3>2, <2>0, <1>t DEF TypeOK
    <3>3. CASE j = k
      <4>1. after[k] \in Nat /\ last \in Nat /\ oldest \in Nat /\ Window \in Nat
        BY <1>t, ConstantsAssumption DEF TypeOK
      <4>2. outbox'[j] = EventsAfter(after[k]) /\ EventsAfter(after[k]) \in Seq(Frame)
        BY <3>1, <3>3, <4>1, <1>t, EventsAfterType DEF TypeOK
      <4>3. InStream(j, f) \/ \E i \in DOMAIN EventsAfter(after[k]) : EventsAfter(after[k])[i] = f
        BY <3>1, <4>2, <1>r
      <4> QED BY <3>1, <3>3, <4>1, <4>3, EventsAre DEF NewFrame
    <3> QED BY <3>2, <3>3
  <2>7. CASE Activate(k)
    <3>1. outbox' = outbox /\ outbox[k] = << >>
      BY <2>7 DEF Activate
    <3>2. queue' = queue \/ queue' = [queue EXCEPT ![k] = Append(@, NoteFrame)]
      BY <2>7 DEF Activate
    <3>3. CASE queue' = queue
      BY <3>1, <3>3, <1>s, SameStream
    <3>4. CASE j = k /\ queue' = [queue EXCEPT ![k] = Append(@, NoteFrame)]
      <4>1. Stream(j)' = Append(Stream(j), NoteFrame)
        BY <3>1, <3>4, <1>t, FrameTypesOK, AppendConcat DEF Stream, TypeOK
      <4> QED BY <4>1, <1>a, FrameTypesOK DEF NewFrame, NoteFrame
    <3>5. CASE j # k /\ queue' = [queue EXCEPT ![k] = Append(@, NoteFrame)]
      BY <3>1, <3>5, <2>0, <1>t DEF TypeOK
    <3> QED BY <3>2, <3>3, <3>4, <3>5
  <2>8. CASE HandlerExit(k)
    <3>1. CASE j = k
      <4>1. queue'[j] = << >> /\ outbox'[j] = << >>
        BY <2>8, <3>1, <1>t DEF HandlerExit, TypeOK, WiringInv, Replaying
      <4> QED BY <4>1, <1>e
    <3>2. CASE j # k
      BY <2>8, <3>2, <2>0, <1>t DEF HandlerExit, TypeOK
    <3> QED BY <3>1, <3>2
  <2>9. CASE WriterBreaks(k)
    BY <2>9, <1>t, TakeFrames DEF WriterBreaks
  <2> QED
    BY <1>2, <2>1, <2>2, <2>3, <2>4, <2>5, <2>6, <2>7, <2>8, <2>9 DEF HandlerStep
<1>3. ASSUME NEW c \in Clients, PageStep(c) PROVE InStream(j, f)
  <2>1. CASE Deliver(c) \/ WriterTimeout(c)
    <3>1. sock[c] \in Conns /\ queue[sock[c]] # << >>
      BY <2>1, <1>t, IncomingQueue DEF Deliver, WriterTimeout
    <3>2. queue' = [queue EXCEPT ![sock[c]] = Tail(@)] /\ outbox' = outbox
      BY <2>1 DEF Deliver, WriterTimeout
    <3> QED BY <3>1, <3>2, <1>t, TakeFrames
  <2>2. CASE (\E k \in Conns : Connect(c, k)) \/ SocketClosed(c) \/ PageHide(c) \/ PageShow(c)
    <3>1. UNCHANGED <<queue, outbox>>
      BY <2>2 DEF Connect, SocketClosed, PageHide, PageShow
    <3> QED BY <3>1, <1>s, SameStream
  <2> QED BY <1>3, <2>1, <2>2 DEF PageStep
<1>4. CASE Age \/ CleanupExpired \/ (\E k \in Conns : NetworkDrop(k)) \/ UNCHANGED vars
  <2>1. UNCHANGED <<queue, outbox>>
    BY <1>4 DEF Age, CleanupExpired, NetworkDrop, vars
  <2> QED BY <2>1, <1>s, SameStream
<1>5. CASE Restart
  BY <1>5, <1>e DEF Restart
<1> QED
  BY <1>1, <1>2, <1>3, <1>4, <1>5 DEF Next

-----------------------------------------------------------------------------
(***************************************************************************)
(* Pages.                                                                  *)
(***************************************************************************)
\* A page takes a frame of its stream.
Takes(cl, new, k) ==
  \E f \in Frame : InStream(k, f) /\ (Extends(cl, new, f) \/ Replaces(new, f))

LEMMA PageStepOf ==
  ASSUME LockInv, WiringInv, Linkage, [Next]_vars
  PROVE  \/ \A c \in Clients : Stays(client[c], client'[c])
         \/ /\ UNCHANGED last
            /\ \E c \in Clients :
                 /\ \A d \in Clients \ {c} : client'[d] = client[d]
                 /\ \/ Forgets(client[c], client'[c])
                    \/ sock[c] \in Conns /\ Takes(client[c], client'[c], sock[c])
<1> USE DEF logVars, lockVars, pageVars, hubVars, bootVars
<1>t. TypeOK
  BY DEF LockInv
<1>u. ASSUME UNCHANGED client PROVE \A c \in Clients : Stays(client[c], client'[c])
  BY <1>u DEF Stays
<1>1. CASE PublisherStep
  <2>1. UNCHANGED client
    BY <1>1 DEF PublisherStep, StartPublish, Commit, CommitFails, Publish, CancelPublish,
                CancelFanout, OrphanCommits, BroadcastNote
  <2> QED BY <2>1, <1>u
<1>2. ASSUME NEW k \in Conns, HandlerStep(k) \/ NetworkDrop(k) PROVE UNCHANGED client
  <2>1. CASE ReadRoom(k)
    BY <2>1 DEF ReadRoom
  <2> QED
    BY <1>2, <2>1 DEF HandlerStep, NetworkDrop, LockForReplay, SendFrame, SendTimeout, ReadHistory,
                      ReadEvents, Activate, ActivateFails, HandlerExit, WriterBreaks
<1>3. CASE Age \/ CleanupExpired \/ Restart \/ UNCHANGED vars
  <2>1. UNCHANGED client
    BY <1>3 DEF Age, CleanupExpired, Restart, vars
  <2> QED BY <2>1, <1>u
<1>4. ASSUME NEW c \in Clients, (\E k \in Conns : Connect(c, k)) \/ SocketClosed(c)
      PROVE  UNCHANGED client
  BY <1>4 DEF Connect, SocketClosed
<1>5. ASSUME NEW c \in Clients, PageHide(c) \/ PageShow(c)
      PROVE  \A d \in Clients : Stays(client[d], client'[d])
  <2>1. client \in [Clients -> ClientState]
    BY <1>t DEF TypeOK
  <2>2. PICK b \in BOOLEAN : client' = [client EXCEPT ![c].stopped = b]
    BY <1>5 DEF PageHide, PageShow
  <2>3. \A d \in Clients : client'[d] = IF d = c THEN [client[c] EXCEPT !.stopped = b] ELSE client[d]
    BY <2>1, <2>2
  <2> QED BY <2>1, <2>3 DEF Stays, ClientState
<1>6. ASSUME NEW c \in Clients, Deliver(c) \/ WriterTimeout(c)
      PROVE  \/ \A d \in Clients : Stays(client[d], client'[d])
             \/ /\ UNCHANGED last
                /\ \A d \in Clients \ {c} : client'[d] = client[d]
                /\ \/ Forgets(client[c], client'[c])
                   \/ sock[c] \in Conns /\ Takes(client[c], client'[c], sock[c])
  <2> DEFINE k == sock[c]
             f == Head(queue[k])
  <2>1. k \in Conns /\ open[k] /\ hub[k] # "absent" /\ queue[k] # << >>
    BY <1>6, <1>t, IncomingQueue DEF Deliver, WriterTimeout
  <2>2. CASE UNCHANGED client
    BY <2>2, <1>u
  <2>3. CASE client' = [client EXCEPT ![c] = HandleFrame(@, f)]
    <3>1. StreamInv(c, k) \/ StuckInv(c, k)
      BY <2>1 DEF Linkage, Linked
    <3>2. ~client[c].stopped
      BY <2>1, ConstantsAssumption DEF WiringInv
    <3>3. client'[c] = HandleFrame(client[c], f) /\ \A d \in Clients \ {c} : client'[d] = client[d]
      BY <2>3, <1>t DEF TypeOK
    <3>4. f \in Frame /\ InStream(k, f)
      <4>1. Stream(k) # << >> /\ Stream(k)[1] = f /\ Stream(k)[1] \in Frame /\ Stream(k) \in Seq(Frame)
        BY <2>1, <1>t, TakeStream, StreamType
      <4>2. 1 \in DOMAIN Stream(k)
        BY <4>1, TailOf
      <4> QED BY <4>1, <4>2 DEF InStream
    <3>5. \/ Extends(client[c], client'[c], f) \/ Replaces(client'[c], f)
          \/ Forgets(client[c], client'[c]) \/ Stays(client[c], client'[c])
      <4>1. CASE StreamInv(c, k)
        BY <2>1, <3>2, <3>3, <4>1, <1>t, PageTakes
      <4>2. CASE StuckInv(c, k)
        BY <2>1, <3>3, <3>4, <4>2, <1>t, StuckDrops DEF Stays
      <4> QED BY <3>1, <4>1, <4>2
    <3>6. UNCHANGED last
      BY <1>6 DEF Deliver, WriterTimeout
    <3> QED BY <2>1, <3>3, <3>4, <3>5, <3>6 DEF Takes, Stays
  <2> QED BY <1>6, <2>2, <2>3 DEF Deliver, WriterTimeout, Receive
<1> QED
  BY <1>1, <1>2, <1>3, <1>4, <1>5, <1>6, <1>u DEF Next, PageStep

\* No page goes beyond what it could reach.
LEMMA PagesUpTo ==
  ASSUME LockInv, WiringInv, Linkage, [Next]_vars, NEW n \in Nat, UpTo(n), NEW c \in Clients
  PROVE  /\ client'[c].lastSeq <= n
         /\ client'[c].shown \subseteq client[c].shown \cup 1 .. n
<1>1. client[c].lastSeq <= n /\ client[c] \in ClientState
  BY DEF UpTo, LockInv, TypeOK
<1>2. CASE Stays(client[c], client'[c])
  BY <1>1, <1>2 DEF Stays
<1>3. CASE Forgets(client[c], client'[c])
  BY <1>3 DEF Forgets
<1>4. CASE sock[c] \in Conns /\ Takes(client[c], client'[c], sock[c])
  <2>1. PICK f \in Frame : InStream(sock[c], f) /\ (Extends(client[c], client'[c], f) \/ Replaces(client'[c], f))
    BY <1>4 DEF Takes
  <2>2. f.seq <= n /\ f.seq \in Nat
    BY <1>4, <2>1 DEF UpTo, Frame
  <2>3. CASE Extends(client[c], client'[c], f)
    <3>1. f.seq \in 1 .. n
      BY <1>1, <2>2, <2>3 DEF Extends, ClientState
    <3> QED BY <2>2, <2>3, <3>1 DEF Extends
  <2>4. CASE Replaces(client'[c], f)
    BY <2>2, <2>4 DEF Replaces
  <2> QED BY <2>1, <2>3, <2>4
<1>5. \/ Stays(client[c], client'[c]) \/ Forgets(client[c], client'[c])
      \/ sock[c] \in Conns /\ Takes(client[c], client'[c], sock[c])
  BY PageStepOf DEF Stays
<1> QED BY <1>2, <1>3, <1>4, <1>5

-----------------------------------------------------------------------------
(***************************************************************************)
(* Bounds.                                                                 *)
(***************************************************************************)
LEMMA LogStep ==
  ASSUME TypeOK, BoundInv, [Next]_vars
  PROVE  /\ last' \in Nat /\ last <= last' /\ oldest <= oldest'
         /\ oldest' <= aged' + 1 /\ aged' <= last'
<1> USE DEF TypeOK, BoundInv, logVars
<1>1. CASE PublisherStep
  BY <1>1 DEF PublisherStep, StartPublish, Commit, CommitFails, Publish, CancelPublish,
              CancelFanout, OrphanCommits, BroadcastNote
<1>2. ASSUME NEW k \in Conns, HandlerStep(k) \/ NetworkDrop(k) PROVE UNCHANGED logVars
  <2>1. CASE ReadRoom(k)
    BY <2>1 DEF ReadRoom
  <2> QED
    BY <1>2, <2>1 DEF HandlerStep, NetworkDrop, LockForReplay, SendFrame, SendTimeout, ReadHistory,
                      ReadEvents, Activate, ActivateFails, HandlerExit, WriterBreaks
<1>3. ASSUME NEW c \in Clients, PageStep(c) PROVE UNCHANGED logVars
  BY <1>3 DEF PageStep, Connect, SocketClosed, PageHide, PageShow, Deliver, WriterTimeout
<1>4. CASE Age BY <1>4 DEF Age
<1>5. CASE CleanupExpired BY <1>5 DEF CleanupExpired
<1>6. CASE Restart \/ UNCHANGED vars BY <1>6 DEF Restart, vars
<1> QED BY <1>1, <1>2, <1>3, <1>4, <1>5, <1>6 DEF Next

LEMMA LastStep ==
  ASSUME [Next]_vars
  PROVE  last' = last \/ last' = last + 1
<1> USE DEF logVars
<1>1. CASE PublisherStep
  BY <1>1 DEF PublisherStep, StartPublish, Commit, CommitFails, Publish, CancelPublish,
              CancelFanout, OrphanCommits, BroadcastNote
<1>2. ASSUME NEW k \in Conns, HandlerStep(k) \/ NetworkDrop(k) PROVE UNCHANGED last
  <2>1. CASE ReadRoom(k)
    BY <2>1 DEF ReadRoom
  <2> QED
    BY <1>2, <2>1 DEF HandlerStep, NetworkDrop, LockForReplay, SendFrame, SendTimeout, ReadHistory,
                      ReadEvents, Activate, ActivateFails, HandlerExit, WriterBreaks
<1>3. ASSUME NEW c \in Clients, PageStep(c) PROVE UNCHANGED last
  BY <1>3 DEF PageStep, Connect, SocketClosed, PageHide, PageShow, Deliver, WriterTimeout
<1>4. CASE Age \/ CleanupExpired \/ Restart \/ UNCHANGED vars
  BY <1>4 DEF Age, CleanupExpired, Restart, vars
<1> QED BY <1>1, <1>2, <1>3, <1>4 DEF Next

\* What is published has been committed, by the step of the Publisher.
LEMMA PublishedStep ==
  ASSUME TypeOK, [Next]_vars
  PROVE  /\ published' = published \/ (pubStage = "publishing" /\ published' = published \cup {pubSeq})
         /\ pubStage' = "publishing" =>
              \/ (pubStage = "publishing" /\ pubSeq' = pubSeq)
              \/ (pubStage = "committing" /\ pubSeq' = last + 1 /\ last' = last + 1)
<1> USE DEF logVars, lockVars
<1>t. pubSeq \in Nat /\ last \in Nat
  BY DEF TypeOK
<1>0. ASSUME UNCHANGED <<published, pubStage, pubSeq>>
      PROVE  /\ published' = published
             /\ pubStage' = "publishing" => pubStage = "publishing" /\ pubSeq' = pubSeq
  BY <1>0
<1>1. CASE PublisherStep
  <2>1. CASE StartPublish BY <2>1 DEF StartPublish
  <2>2. CASE Commit BY <2>2 DEF Commit
  <2>3. CASE CommitFails BY <2>3 DEF CommitFails
  <2>4. CASE Publish BY <2>4 DEF Publish
  <2>5. CASE CancelPublish BY <2>5 DEF CancelPublish
  <2>6. CASE OrphanCommits BY <2>6, <1>0 DEF OrphanCommits
  <2>7. CASE BroadcastNote BY <2>7, <1>0 DEF BroadcastNote
  <2>8. CASE CancelFanout BY <2>8 DEF CancelFanout
  <2> QED BY <1>1, <2>1, <2>2, <2>3, <2>4, <2>5, <2>6, <2>7, <2>8 DEF PublisherStep
<1>2. ASSUME NEW k \in Conns, HandlerStep(k) \/ NetworkDrop(k) PROVE UNCHANGED <<published, pubStage, pubSeq>>
  <2>1. CASE ReadRoom(k)
    BY <2>1 DEF ReadRoom
  <2> QED
    BY <1>2, <2>1 DEF HandlerStep, NetworkDrop, LockForReplay, SendFrame, SendTimeout, ReadHistory,
                      ReadEvents, Activate, ActivateFails, HandlerExit, WriterBreaks
<1>3. ASSUME NEW c \in Clients, PageStep(c) PROVE UNCHANGED <<published, pubStage, pubSeq>>
  BY <1>3 DEF PageStep, Connect, SocketClosed, PageHide, PageShow, Deliver, WriterTimeout
<1>4. CASE Age \/ CleanupExpired \/ UNCHANGED vars
  <2>1. UNCHANGED <<published, pubStage, pubSeq>>
    BY <1>4 DEF Age, CleanupExpired, vars
  <2> QED BY <2>1, <1>0
<1>5. CASE Restart
  BY <1>5 DEF Restart
<1>6. (\E k \in Conns : HandlerStep(k) \/ NetworkDrop(k)) \/ (\E c \in Clients : PageStep(c))
        => UNCHANGED <<published, pubStage, pubSeq>>
  BY <1>2, <1>3
<1> QED BY <1>0, <1>1, <1>4, <1>5, <1>6 DEF Next

LEMMA AfterStep ==
  ASSUME TypeOK, BoundInv, [Next]_vars, NEW j \in Conns
  PROVE  after'[j] <= last
<1> USE DEF TypeOK, BoundInv, UpTo, bootVars
<1>1. CASE PublisherStep
  BY <1>1 DEF PublisherStep, StartPublish, Commit, CommitFails, Publish, CancelPublish,
              CancelFanout, OrphanCommits, BroadcastNote
<1>2. ASSUME NEW k \in Conns, HandlerStep(k) \/ NetworkDrop(k) PROVE after'[j] <= last
  <2>1. CASE ReadRoom(k)
    BY <2>1 DEF ReadRoom
  <2>2. CASE ReadHistory(k)
    BY <2>2 DEF ReadHistory
  <2>3. CASE HandlerExit(k)
    BY <2>3 DEF HandlerExit
  <2> QED
    BY <1>2, <2>1, <2>2, <2>3 DEF HandlerStep, NetworkDrop, LockForReplay, SendFrame, SendTimeout,
                      AbortReplay, ReadEvents, Activate, ActivateFails, WriterBreaks
<1>3. ASSUME NEW c \in Clients, PageStep(c) PROVE after'[j] <= last
  <2>1. ASSUME NEW k \in Conns, Connect(c, k) PROVE after'[j] <= last
    BY <2>1 DEF Connect
  <2> QED
    BY <1>3, <2>1 DEF PageStep, SocketClosed, PageHide, PageShow, Deliver, WriterTimeout
<1>4. CASE Age \/ CleanupExpired \/ UNCHANGED vars
  BY <1>4 DEF Age, CleanupExpired, vars
<1>5. CASE Restart
  BY <1>5 DEF Restart
<1> QED BY <1>1, <1>2, <1>3, <1>4, <1>5 DEF Next

LEMMA ResetTargetIs ==
  ASSUME TypeOK, BoundInv, NEW k \in Conns, NEW n \in ResetTarget(k)
  PROVE  n \in Nat /\ n <= last /\ after[k] <= n /\ (n < oldest \/ (n = last /\ last - after[k] > Window))
  BY DEF ResetTarget, ReplayFrom, TypeOK, BoundInv

LEMMA BoundStep ==
  ASSUME LockInv, WiringInv, BoundInv, Linkage, [Next]_vars
  PROVE  BoundInv'
<1>t. TypeOK /\ last \in Nat /\ pubSeq \in Nat /\ TypeOK'
  BY ReplayTypeStep DEF LockInv, TypeOK
<1>1. last' \in Nat /\ last <= last' /\ oldest' <= aged' + 1 /\ aged' <= last'
  BY <1>t, LogStep
<1>2. published' \subseteq 1 .. last'
  <2>1. published \subseteq 1 .. last /\ (pubStage = "publishing" => pubSeq \in 1 .. last)
    BY DEF BoundInv
  <2>2. published' = published \/ (pubStage = "publishing" /\ published' = published \cup {pubSeq})
    BY <1>t, PublishedStep
  <2>3. 1 .. last \subseteq 1 .. last'
    BY <1>t, <1>1
  <2> QED BY <2>1, <2>2, <2>3
<1>3. \A c \in Clients : client'[c].lastSeq <= last /\ client'[c].shown \subseteq 1 .. last
  BY <1>t, PagesUpTo DEF BoundInv
<1>4. \A k \in Conns : after'[k] <= last
  BY <1>t, AfterStep
<1>5. \A k \in Conns : after'[k] <= last'
  <2>1. \A k \in Conns : after'[k] \in Nat
    BY <1>t DEF TypeOK
  <2> QED BY <1>t, <1>1, <1>4, <2>1
<1>6. ASSUME NEW k \in Conns, NEW f \in Frame, InStream(k, f)' PROVE f.seq <= last
  <2>1. CASE InStream(k, f)
    BY <2>1 DEF BoundInv, UpTo
  <2>2. CASE NewFrame(k, f)
    BY <2>2, <1>t, ResetTargetIs DEF NewFrame, EventFrame, BoundInv
  <2> QED BY <1>6, <2>1, <2>2, FramesStep
<1>7. UpTo(last)' 
  <2>1. \A c \in Clients : client'[c].lastSeq <= last'
    <3>1. \A c \in Clients : client'[c].lastSeq \in Nat
      BY <1>t DEF TypeOK, ClientState
    <3> QED BY <1>t, <1>1, <1>3, <3>1
  <2>2. \A k \in Conns : \A f \in Frame : InStream(k, f)' => f.seq <= last'
    BY <1>t, <1>1, <1>6 DEF Frame
  <2> QED BY <2>1, <2>2 DEF UpTo
<1>8. ASSUME pubStage' = "publishing" PROVE pubSeq' \in 1 .. last' /\ UpTo(pubSeq - 1)'
  <2>1. CASE pubStage = "committing" /\ pubSeq' = last + 1 /\ last' = last + 1
    <3>1. pubSeq' - 1 = last
      BY <1>t, <2>1
    <3>2. UpTo(pubSeq - 1)'
      BY <1>3, <1>6, <3>1 DEF UpTo
    <3> QED BY <1>t, <2>1, <3>2
  <2>2. CASE pubStage = "publishing" /\ pubSeq' = pubSeq
    <3>1. pubSeq \in 1 .. last /\ UpTo(pubSeq - 1) /\ pubSeq - 1 \in Nat
      BY <2>2 DEF BoundInv
    <3>2. \A c \in Clients : client'[c].lastSeq <= pubSeq - 1
      BY <3>1, PagesUpTo
    <3>3. ASSUME NEW k \in Conns, NEW f \in Frame, InStream(k, f)' PROVE f.seq <= pubSeq - 1
      <4>1. CASE InStream(k, f)
        BY <3>1, <4>1 DEF UpTo
      <4>2. CASE NewFrame(k, f)
        <5>1. lock # k
          BY <2>2, ConstantsAssumption DEF LockInv, EventLockExclusion
        <5> QED BY <1>8, <2>2, <3>1, <4>2, <5>1 DEF NewFrame
      <4> QED BY <3>3, <4>1, <4>2, FramesStep
    <3>4. UpTo(pubSeq - 1)'
      BY <2>2, <3>2, <3>3 DEF UpTo
    <3> QED BY <1>t, <1>1, <2>2, <3>1, <3>4
  <2> QED BY <1>8, <1>t, <2>1, <2>2, PublishedStep
<1>9. \A c \in Clients : client'[c].shown \subseteq 1 .. last'
  BY <1>t, <1>1, <1>3
<1> QED BY <1>1, <1>2, <1>5, <1>7, <1>8, <1>9 DEF BoundInv

-----------------------------------------------------------------------------
(***************************************************************************)
(* Timelines.                                                              *)
(***************************************************************************)
LEMMA HolesStep ==
  ASSUME LockInv, WiringInv, Linkage, NoHoles, [Next]_vars
  PROVE  NoHoles'
<1> SUFFICES ASSUME NEW c \in Clients
             PROVE  \/ client'[c].lastSeq = 0
                    \/ \E n \in 0 .. client'[c].lastSeq : client'[c].shown = n + 1 .. client'[c].lastSeq
  BY DEF NoHoles
<1>1. /\ client[c].lastSeq \in Nat
      /\ \/ client[c].lastSeq = 0
         \/ \E n \in 0 .. client[c].lastSeq : client[c].shown = n + 1 .. client[c].lastSeq
  BY DEF NoHoles, LockInv, TypeOK, ClientState
<1>2. CASE Stays(client[c], client'[c])
  BY <1>1, <1>2 DEF Stays
<1>3. CASE Forgets(client[c], client'[c])
  BY <1>3 DEF Forgets
<1>4. CASE Takes(client[c], client'[c], sock[c])
  <2>1. PICK f \in Frame : Extends(client[c], client'[c], f) \/ Replaces(client'[c], f)
    BY <1>4 DEF Takes
  <2>2. f.seq \in Nat
    BY DEF Frame
  <2>3. CASE Extends(client[c], client'[c], f)
    <3> DEFINE p == client[c].lastSeq
    <3>1. f.seq = p + 1 /\ client'[c].lastSeq = p + 1 /\ client'[c].shown = client[c].shown \cup {p + 1}
      BY <2>3 DEF Extends
    <3>2. PICK n \in 0 .. p : client[c].shown = n + 1 .. p
      <4>1. CASE p = 0
        <5>1. client[c].shown = {} /\ 0 \in 0 .. p /\ 0 + 1 .. p = {}
          BY <2>3, <4>1 DEF Extends
        <5> QED BY <5>1
      <4> QED BY <1>1, <4>1
    <3>3. client'[c].shown = n + 1 .. p + 1 /\ n \in 0 .. p + 1
      BY <1>1, <3>1, <3>2
    <3> QED BY <3>1, <3>3
  <2>4. CASE Replaces(client'[c], f)
    <3>1. CASE client'[c].shown = {} /\ client'[c].lastSeq = f.seq
      <4>1. f.seq \in 0 .. f.seq /\ f.seq + 1 .. f.seq = {}
        BY <2>2
      <4> QED BY <3>1, <4>1
    <3>2. CASE client'[c].shown = 1 .. f.seq /\ client'[c].lastSeq = f.seq
      <4>1. 0 \in 0 .. f.seq /\ 0 + 1 = 1
        BY <2>2
      <4> QED BY <3>2, <4>1
    <3> QED BY <2>4, <3>1, <3>2 DEF Replaces
  <2> QED BY <2>1, <2>3, <2>4
<1> QED BY <1>2, <1>3, <1>4, PageStepOf DEF Stays

\* Every bootstrap that reads the room finds its page at most a window behind,
\* or before the oldest retained event, where the reset goes to that event.
NoWindowReset ==
  \A k \in Conns : stage[k] = "room" => after[k] < ReplayFrom \/ last - after[k] <= Window

LEMMA RetainedStep ==
  ASSUME LockInv, WiringInv, BoundInv, Linkage, RetainedInv, NoWindowReset, [Next]_vars
  PROVE  RetainedInv'
<1>t. TypeOK /\ last \in Nat /\ oldest \in Nat \ {0} /\ oldest' \in Nat \ {0} /\ Window \in Nat
  BY ReplayTypeStep, ConstantsAssumption DEF LockInv, TypeOK
<1>2. oldest <= oldest'
  BY <1>t, LogStep
<1>3. ASSUME NEW k \in Conns, NEW f \in Frame, InStream(k, f)', f.type = "reset"
      PROVE  f.seq < oldest'
  <2>1. CASE InStream(k, f)
    BY <1>t, <1>2, <1>3, <2>1 DEF RetainedInv, ResetsExpired, Frame
  <2>2. CASE NewFrame(k, f)
    <3>1. f.seq \in ResetTarget(k) /\ stage[k] = "room"
      BY <1>3, <2>2 DEF NewFrame, EventFrame
    <3>2. after[k] \in Nat /\ f.seq \in Nat
      BY <1>t DEF TypeOK, Frame
    <3>3. f.seq = ReplayFrom
      BY <1>t, <3>1, <3>2 DEF ResetTarget, NoWindowReset, ReplayFrom, BoundInv
    <3> QED BY <1>t, <1>2, <3>2, <3>3 DEF ReplayFrom
  <2> QED BY <1>3, <2>1, <2>2, FramesStep
<1>4. ASSUME NEW c \in Clients
      PROVE  oldest' .. client'[c].lastSeq \subseteq client'[c].shown
  <2>1. oldest .. client[c].lastSeq \subseteq client[c].shown /\ client[c].lastSeq \in Nat
    BY <1>t, <1>4 DEF RetainedInv, ShowsRetained, TypeOK, ClientState
  <2>2. CASE Stays(client[c], client'[c])
    BY <1>t, <1>2, <2>1, <2>2 DEF Stays
  <2>3. CASE Forgets(client[c], client'[c])
    BY <1>t, <2>3 DEF Forgets
  <2>4. CASE sock[c] \in Conns /\ Takes(client[c], client'[c], sock[c])
    <3>1. PICK f \in Frame : InStream(sock[c], f) /\ (Extends(client[c], client'[c], f) \/ Replaces(client'[c], f))
      BY <2>4 DEF Takes
    <3>2. f.seq \in Nat
      BY DEF Frame
    <3>3. CASE Extends(client[c], client'[c], f)
      BY <1>t, <1>2, <2>1, <3>2, <3>3 DEF Extends
    <3>4. CASE Replaces(client'[c], f) /\ f.type = "reset"
      <4>1. f.seq < oldest
        BY <1>4, <2>4, <3>1, <3>4 DEF RetainedInv, ResetsExpired
      <4> QED BY <1>t, <1>2, <3>2, <3>4, <4>1 DEF Replaces
    <3>5. CASE Replaces(client'[c], f) /\ f.type = "snapshot"
      BY <1>t, <3>2, <3>5 DEF Replaces
    <3> QED BY <3>1, <3>3, <3>4, <3>5 DEF Replaces
  <2> QED BY <2>2, <2>3, <2>4, PageStepOf DEF Stays
<1> QED BY <1>3, <1>4 DEF RetainedInv, ResetsExpired, ShowsRetained

-----------------------------------------------------------------------------
(***************************************************************************)
(* Linked pages and connections.                                           *)
(***************************************************************************)
\* Whatever does not touch a page, its connection and what was published
\* leaves their agreement as it was.
LEMMA KeepStream ==
  ASSUME TypeOK, NEW c \in Clients, NEW k \in Conns, StreamInv(c, k),
         client'[c] = client[c], stage'[k] = stage[k], after'[k] = after[k],
         Stream(k)' = Stream(k), published' = published, oldest <= oldest', oldest' \in Nat
  PROVE  StreamInv(c, k)'
<1> DEFINE p == client[c].lastSeq
           S == Stream(k)
<1>1. \A s \in Nat : Seen(s)' => Seen(s)
  BY DEF Seen, TypeOK
<1>2. Covered(p, S) => Covered(p, S)'
  BY <1>1 DEF Covered
<1>3. Complete(p, S) => Complete(p, S)'
  BY <1>1 DEF Complete
<1>4. Promised(p, k) => Promised(p, k)'
  BY DEF Promised
<1>5. Guided(client[c], k)'
  BY DEF StreamInv, Guided
<1> QED BY <1>2, <1>3, <1>4, <1>5 DEF StreamInv

LEMMA KeepPair ==
  ASSUME LockInv, BoundInv, [Next]_vars, NEW c \in Clients, NEW k \in Conns, StreamInv(c, k),
         client'[c] = client[c], stage'[k] = stage[k], after'[k] = after[k],
         queue'[k] = queue[k], outbox'[k] = outbox[k], published' = published
  PROVE  StreamInv(c, k)'
<1>1. TypeOK /\ oldest' \in Nat
  BY ReplayTypeStep DEF LockInv, TypeOK
<1>2. oldest <= oldest' /\ StreamInv(c, k)
  BY <1>1, LogStep
<1> QED BY <1>1, <1>2, SameStream, KeepStream

\* Nothing is on its way to a page whose handler has not read the room.
LEMMA EmptyStream ==
  ASSUME NEW c \in Clients, NEW k \in Conns, Stream(k) = << >>, stage[k] \in {"waiting", "room"},
         after[k] = client[c].lastSeq
  PROVE  StreamInv(c, k)
<1>1. DOMAIN Stream(k) = {}
  OBVIOUS
<1> QED BY <1>1 DEF StreamInv, Ahead, Rising, Guided

LEMMA ConnectKeeps ==
  ASSUME LockInv, WiringInv, BoundInv, [Next]_vars,
         NEW d \in Clients, NEW j \in Conns, Connect(d, j),
         NEW c \in Clients, NEW k \in Conns, Linked(c, k) => StreamInv(c, k), Linked(c, k)'
  PROVE  StreamInv(c, k)'
<1>t. TypeOK
  BY DEF LockInv
<1>1. /\ sock' = [sock EXCEPT ![d] = j] /\ stage' = [stage EXCEPT ![j] = "waiting"]
      /\ open' = [open EXCEPT ![j] = TRUE] /\ hub' = [hub EXCEPT ![j] = "inactive"]
      /\ after' = [after EXCEPT ![j] = client[d].lastSeq]
      /\ UNCHANGED <<published, client, queue, outbox>>
      /\ stage[j] = "free" /\ \A e \in Clients : sock[e] # j
  BY DEF Connect
<1>2. CASE k = j
  <2>1. c = d
    BY <1>1, <1>2, <1>t DEF Linked, TypeOK
  <2>2. queue[k] = << >> /\ outbox[k] = << >>
    BY <1>1, <1>2 DEF WiringInv, Replaying
  <2>3. Stream(k)' = << >> /\ stage'[k] = "waiting" /\ after'[k] = client'[c].lastSeq
    BY <1>1, <1>2, <1>t, <2>1, <2>2, AppendConcat DEF Stream, TypeOK
  <2>4. DOMAIN Stream(k)' = {}
    BY <2>3
  <2> QED BY <2>3, <2>4 DEF StreamInv, Ahead, Rising, Guided
<1>3. CASE k # j
  <2>1. Linked(c, k)
    BY <1>1, <1>3, <1>t DEF Linked, TypeOK
  <2> QED BY <1>1, <1>3, <1>t, <2>1, KeepPair DEF TypeOK
<1> QED BY <1>2, <1>3

LEMMA LockForReplayKeeps ==
  ASSUME LockInv, WiringInv, BoundInv, [Next]_vars, NEW j \in Conns, LockForReplay(j),
         NEW c \in Clients, NEW k \in Conns, Linked(c, k) => StreamInv(c, k), Linked(c, k)'
  PROVE  StreamInv(c, k)'
<1>t. TypeOK
  BY DEF LockInv
<1>1. /\ stage[j] = "waiting" /\ stage' = [stage EXCEPT ![j] = "room"]
      /\ UNCHANGED <<published, client, sock, open, hub, queue, after, outbox>>
  BY DEF LockForReplay, pageVars, hubVars
<1>2. Linked(c, k)
  BY <1>1 DEF Linked
<1>3. CASE k = j
  <2>1. Stream(k) = << >> /\ after[k] = client[c].lastSeq
    BY <1>1, <1>2, <1>3 DEF StreamInv
  <2>2. Stream(k)' = << >> /\ after'[k] = client'[c].lastSeq /\ stage'[k] = "room"
    BY <1>1, <1>3, <1>t, <2>1, SameStream DEF TypeOK
  <2>3. DOMAIN Stream(k)' = {}
    BY <2>2
  <2> QED BY <2>2, <2>3 DEF StreamInv, Ahead, Rising, Guided
<1>4. CASE k # j
  BY <1>1, <1>2, <1>4, <1>t, KeepPair DEF TypeOK
<1> QED BY <1>3, <1>4

\* Publishing an event, to the end or not.
LEMMA PublishKeeps ==
  ASSUME LockInv, WiringInv, BoundInv, [Next]_vars, Publish \/ CancelFanout,
         NEW c \in Clients, NEW k \in Conns, Linked(c, k) => StreamInv(c, k), Linked(c, k)'
  PROVE  StreamInv(c, k)'
<1>t. TypeOK /\ pubSeq \in Nat /\ client[c].lastSeq \in Nat
  BY DEF LockInv, TypeOK, ClientState
<1>1. /\ pubStage = "publishing" /\ Enqueue(EventFrame(pubSeq))
      /\ published' = published \/ published' = published \cup {pubSeq}
      /\ UNCHANGED <<client, sock, oldest, stage, after, outbox>>
  BY DEF Publish, CancelFanout, Fanout, logVars, pageVars, bootVars
<1>2. Linked(c, k) /\ (k \in Overfull => published' = published)
  BY <1>t DEF Linked, Publish, CancelFanout, Fanout, pageVars, TypeOK
<1>3. StreamInv(c, k)
  BY <1>2
<1>4. Stream(k)' = IF k \in Broadcast \ Overfull THEN Append(Stream(k), EventFrame(pubSeq)) ELSE Stream(k)
  BY <1>1, <1>t, FanoutStream, FrameTypesOK DEF LockInv
<1>7. CASE k \in Overfull
  <2>1. queue'[k] = queue[k]
    BY <1>1, <1>7 DEF Enqueue
  <2> QED BY <1>1, <1>2, <1>3, <1>7, <2>1, KeepPair
<1>5. CASE k \notin Broadcast
  <2>1. stage[k] \notin Replaying
    BY <1>1, ConstantsAssumption DEF LockInv, EventLockExclusion
  <2>2. stage[k] = "waiting"
    BY <1>2, <1>5, <1>t, <2>1 DEF Broadcast, WiringInv, Linked, TypeOK, Stages
  <2>3. Stream(k)' = << >> /\ after'[k] = client'[c].lastSeq /\ stage'[k] = "waiting"
    BY <1>1, <1>3, <1>4, <1>5, <2>2 DEF StreamInv
  <2>4. DOMAIN Stream(k)' = {}
    BY <2>3
  <2> QED BY <2>3, <2>4 DEF StreamInv, Ahead, Rising, Guided
<1>6. CASE k \in Broadcast \ Overfull
  <2> DEFINE p == client[c].lastSeq
             S == Stream(k)
             T == Append(S, EventFrame(pubSeq))
  <2>1. S \in Seq(Frame) /\ EventFrame(pubSeq) \in Frame /\ stage[k] = "live"
    BY <1>6, <1>t, StreamType, FrameTypesOK DEF Broadcast, LockInv, ActiveAfterReplay
  <2>2. p < pubSeq /\ \A i \in DOMAIN S : S[i].seq < pubSeq
    <3>1. pubSeq \in 1 .. last /\ UpTo(pubSeq - 1)
      BY <1>1 DEF BoundInv
    <3>2. p <= pubSeq - 1
      BY <3>1 DEF UpTo
    <3>3. ASSUME NEW i \in DOMAIN S PROVE S[i].seq < pubSeq
      <4>1. S[i] \in Frame /\ InStream(k, S[i])
        BY <2>1, AppendOf DEF InStream
      <4> QED BY <1>t, <3>1, <4>1 DEF UpTo, Frame
    <3> QED BY <1>t, <3>2, <3>3
  <2>3. Ahead(p, S) /\ Rising(S) /\ Covered(p, S) /\ Complete(p, S)
    BY <1>3, <2>1 DEF StreamInv
  <2>4. /\ Ahead(p, T) /\ Rising(T) /\ Covered(p, T)
        /\ \A s \in Nat : Seen(s) \/ s <= pubSeq => Reached(p, T, Len(T), s)
    BY <1>t, <2>1, <2>2, <2>3, EventProspects
  <2>5. \A s \in Nat : Seen(s)' => Seen(s) \/ s = pubSeq
    BY <1>1 DEF Seen
  <2>10. stage'[k] = "live" /\ client'[c] = client[c] /\ Stream(k)' = T
    BY <1>1, <1>4, <1>6, <2>1
  <2>6. \A s \in Nat : Seen(s)' => Reached(p, T, Len(T), s)
    BY <1>t, <2>4, <2>5
  <2>7. ASSUME NEW i \in DOMAIN T, T[i].type = "event", NEW s \in Nat, Seen(s)', s < T[i].seq
        PROVE  Reached(p, T, i - 1, s)
    <3>1. T[i].seq <= pubSeq /\ T[i].seq \in Nat
      <4>1. CASE i \in 1 .. Len(S)
        <5>1. T[i] = S[i] /\ i \in DOMAIN S /\ S[i] \in Frame
          BY <2>1, <4>1, AppendOf
        <5> QED BY <1>t, <2>2, <5>1 DEF Frame
      <4>2. CASE i = Len(S) + 1
        <5>1. T[i] = EventFrame(pubSeq)
          BY <2>1, <4>2, AppendOf
        <5> QED BY <1>t, <5>1 DEF EventFrame
      <4> QED BY <2>1, <2>7, <4>1, <4>2, AppendOf
    <3>2. Seen(s)
      BY <1>t, <2>5, <2>7, <3>1
    <3> QED BY <2>4, <2>7, <3>2 DEF Covered
  <2>11. Covered(client[c].lastSeq, Stream(k))'
    BY <2>7, <2>10 DEF Covered
  <2>12. Complete(client[c].lastSeq, Stream(k))'
    BY <2>6, <2>10 DEF Complete
  <2>8. Guided(client[c], k)'
    <3>1. \A i \in DOMAIN S : i \in DOMAIN T /\ T[i] = S[i]
      BY <2>1, AppendOf
    <3> QED BY <1>1, <1>3, <1>4, <1>6, <2>1, <3>1 DEF StreamInv, Guided
  <2>9. client'[c].resyncing => Stream(k)' # << >> /\ Stream(k)'[1].type = "ready"
    <3>1. S # << >> => T # << >> /\ T[1] = S[1]
      BY <2>1, AppendOf, TailOf
    <3> QED BY <1>1, <1>3, <1>4, <1>6, <2>1, <3>1 DEF StreamInv
  <2> QED BY <2>4, <2>8, <2>9, <2>10, <2>11, <2>12 DEF StreamInv
<1> QED BY <1>5, <1>6, <1>7

\* Presence and stream frames, and the activation itself.
LEMMA NoteKeeps ==
  ASSUME TypeOK, NEW c \in Clients, NEW k \in Conns, StreamInv(c, k),
         stage[k] \in {"activate", "live"}, stage'[k] = "live", client'[c] = client[c],
         UNCHANGED <<published, oldest>>,
         Stream(k)' = Stream(k) \/ Stream(k)' = Append(Stream(k), NoteFrame)
  PROVE  StreamInv(c, k)'
<1> DEFINE p == client[c].lastSeq
           S == Stream(k)
           T == Append(S, NoteFrame)
<1>1. S \in Seq(Frame) /\ NoteFrame \in Frame /\ NoteFrame.type = "note" /\ p \in Nat
  BY StreamType, FrameTypesOK DEF NoteFrame, Moves, TypeOK, ClientState
<1>2. Ahead(p, S) /\ Rising(S) /\ Covered(p, S) /\ Complete(p, S)
  BY DEF StreamInv
<1>3. Ahead(p, T) /\ Rising(T) /\ Covered(p, T) /\ Complete(p, T)
  BY <1>1, <1>2, NoteProspects
<1>4. \A s \in Nat : Seen(s)' <=> Seen(s)
  BY DEF Seen
<1>5. Covered(p, Stream(k)') /\ Complete(p, Stream(k)') /\ Ahead(p, Stream(k)') /\ Rising(Stream(k)')
  BY <1>2, <1>3
<1>6. Covered(client[c].lastSeq, Stream(k))'
  BY <1>4, <1>5 DEF Covered
<1>7. Complete(client[c].lastSeq, Stream(k))'
  BY <1>4, <1>5 DEF Complete
<1>8. /\ \A i \in DOMAIN S : i \in DOMAIN Stream(k)' /\ Stream(k)'[i] = S[i]
      /\ S # << >> => Stream(k)' # << >> /\ Stream(k)'[1] = S[1]
  <2>1. CASE Stream(k)' = S
    BY <2>1
  <2>2. CASE Stream(k)' = T
    <3>1. /\ \A i \in 1 .. Len(S) : T[i] = S[i]
          /\ DOMAIN S = 1 .. Len(S) /\ DOMAIN T = 1 .. Len(S) + 1 /\ Len(S) \in Nat
      BY <1>1, AppendOf
    <3>2. T # << >>
      <4>1. Len(T) = Len(S) + 1 /\ Len(S) \in Nat
        BY <1>1, AppendOf
      <4> HIDE DEF T, S
      <4> QED BY <4>1
    <3>3. S # << >> => 1 \in 1 .. Len(S)
      BY <1>1, TailOf
    <3> HIDE DEF S, T
    <3>4. \A i \in DOMAIN S : i \in DOMAIN T /\ T[i] = S[i]
      BY <3>1
    <3> QED BY <2>2, <3>1, <3>2, <3>3, <3>4
  <2> QED BY <2>1, <2>2
<1>9. Guided(client[c], k)'
  BY <1>8 DEF StreamInv, Guided
<1>10. client'[c].resyncing => Stream(k)' # << >> /\ Stream(k)'[1].type = "ready"
  BY <1>8 DEF StreamInv
<1> QED BY <1>5, <1>6, <1>7, <1>9, <1>10 DEF StreamInv

LEMMA BroadcastKeeps ==
  ASSUME LockInv, WiringInv, BoundInv, [Next]_vars, BroadcastNote,
         NEW c \in Clients, NEW k \in Conns, Linked(c, k) => StreamInv(c, k), Linked(c, k)'
  PROVE  StreamInv(c, k)'
<1>t. TypeOK
  BY DEF LockInv
<1>1. /\ Fanout(NoteFrame) /\ Enqueue(NoteFrame)
      /\ UNCHANGED <<client, sock, oldest, published, stage, after, outbox>>
  BY DEF BroadcastNote, Fanout, logVars, pageVars, bootVars
<1>2. Linked(c, k) /\ k \notin Overfull
  BY <1>1, <1>t DEF Linked, Fanout, TypeOK
<1>3. StreamInv(c, k) /\ oldest \in Nat
  BY <1>2, <1>t DEF TypeOK
<1>4. Stream(k)' = IF k \in Broadcast THEN Append(Stream(k), NoteFrame) ELSE Stream(k)
  BY <1>1, <1>2, <1>t, FanoutStream, FrameTypesOK DEF LockInv
<1>5. CASE k \notin Broadcast
  BY <1>1, <1>3, <1>4, <1>5, <1>t, KeepStream
<1>6. CASE k \in Broadcast
  <2>1. stage[k] = "live" /\ stage'[k] = "live"
    BY <1>1, <1>6 DEF Broadcast, LockInv, ActiveAfterReplay
  <2> QED BY <1>1, <1>3, <1>4, <1>6, <1>t, <2>1, NoteKeeps
<1> QED BY <1>5, <1>6

LEMMA ActivateKeeps ==
  ASSUME LockInv, WiringInv, BoundInv, [Next]_vars, NEW j \in Conns, Activate(j),
         NEW c \in Clients, NEW k \in Conns, Linked(c, k) => StreamInv(c, k), Linked(c, k)'
  PROVE  StreamInv(c, k)'
<1>t. TypeOK
  BY DEF LockInv
<1>1. /\ stage[j] = "activate" /\ outbox[j] = << >> /\ hub[j] # "absent"
      /\ queue' = queue \/ queue' = [queue EXCEPT ![j] = Append(@, NoteFrame)]
      /\ hub' = [hub EXCEPT ![j] = "active"] /\ stage' = [stage EXCEPT ![j] = "live"]
      /\ UNCHANGED <<oldest, published, client, sock, open, after, outbox>>
  BY DEF Activate, logVars, pageVars
<1>2. Linked(c, k)
  BY <1>1, <1>t DEF Linked, TypeOK
<1>3. CASE k = j
  <2>1. queue[k] \in Seq(Frame) /\ outbox[k] = << >> /\ outbox'[k] = << >>
    BY <1>1, <1>3, <1>t DEF TypeOK
  <2>2. queue'[k] = queue[k] \/ queue'[k] = Append(queue[k], NoteFrame)
    BY <1>1, <1>3, <1>t DEF TypeOK
  <2>3. Stream(k)' = Stream(k) \/ Stream(k)' = Append(Stream(k), NoteFrame)
    BY <2>1, <2>2, FrameTypesOK, AppendConcat DEF Stream
  <2>4. StreamInv(c, k) /\ stage'[k] = "live" /\ stage[k] = "activate"
    BY <1>1, <1>2, <1>3, <1>t DEF TypeOK
  <2> QED BY <1>1, <1>t, <2>3, <2>4, NoteKeeps
<1>4. CASE k # j
  BY <1>1, <1>2, <1>4, <1>t, KeepPair DEF TypeOK
<1> QED BY <1>3, <1>4

LEMMA ReadRoomKeeps ==
  ASSUME LockInv, WiringInv, BoundInv, [Next]_vars, NEW j \in Conns, ReadRoom(j),
         NEW c \in Clients, NEW k \in Conns, Linked(c, k) => StreamInv(c, k), Linked(c, k)'
  PROVE  StreamInv(c, k)'
<1>t. TypeOK
  BY DEF LockInv
<1>1. /\ stage[j] = "room" /\ stage' = [stage EXCEPT ![j] = IF NeedsSnapshot(j) THEN "history" ELSE "events"]
      /\ UNCHANGED <<last, oldest, published, client, sock, open, hub, queue, after>>
  BY DEF ReadRoom, logVars, pageVars, hubVars
<1>2. \/ ResetTarget(j) = {} /\ outbox' = [outbox EXCEPT ![j] = <<ReadyFrame>>]
      \/ \E n \in ResetTarget(j) : outbox' = [outbox EXCEPT ![j] = <<ReadyFrame, ResetFrame(n)>>]
  BY DEF ReadRoom
<1>3. Linked(c, k)
  BY <1>1 DEF Linked
<1>4. CASE k # j
  BY <1>1, <1>2, <1>3, <1>4, <1>t, KeepPair DEF TypeOK
<1>5. CASE k = j
  <2> DEFINE p == client[c].lastSeq
             T == outbox'[k]
  <2>1. Stream(k) = << >> /\ after[k] = p /\ p \in Nat /\ client'[c] = client[c] /\ after'[k] = p
    BY <1>1, <1>3, <1>5, <1>t DEF StreamInv, TypeOK, ClientState
  <2>2. queue[k] = << >>
    <3>1. queue[k] \in Seq(Frame) /\ outbox[k] \in Seq(Frame)
      BY <1>t DEF TypeOK
    <3> QED BY <2>1, <3>1, TailConcat DEF Stream
  <2>3. \/ ResetTarget(k) = {} /\ T = <<ReadyFrame>>
        \/ \E n \in ResetTarget(k) : T = <<ReadyFrame, ResetFrame(n)>>
    BY <1>2, <1>5, <1>t DEF TypeOK
  <2>4. ASSUME NEW n \in ResetTarget(k) PROVE n \in Nat /\ p <= n /\ n <= last
    BY <1>t, <2>1, <2>4, ResetTargetIs
  <2>5. Stream(k)' = T
    <3>1. T \in Seq(Frame)
      <4>1. <<ReadyFrame>> \in Seq(Frame)
        BY FrameTypesOK
      <4>2. \A n \in Nat : <<ReadyFrame, ResetFrame(n)>> \in Seq(Frame)
        BY FrameTypesOK
      <4> QED BY <2>3, <2>4, <4>1, <4>2
    <3>2. << >> \o T = T
      BY <3>1
    <3> QED BY <1>1, <2>2, <3>2 DEF Stream
  <2>6. /\ DOMAIN T \subseteq 1 .. 2 /\ 1 \in DOMAIN T /\ T # << >>
        /\ T[1].type = "ready"
        /\ 2 \in DOMAIN T => T[2].type = "reset" /\ p <= T[2].seq /\ ResetTarget(k) # {}
    <3>1. CASE T = <<ReadyFrame>>
      BY <3>1 DEF ReadyFrame
    <3>2. ASSUME NEW n \in ResetTarget(k), T = <<ReadyFrame, ResetFrame(n)>>
          PROVE  /\ DOMAIN T = 1 .. 2 /\ T # << >> /\ T[1].type = "ready"
                 /\ T[2].type = "reset" /\ p <= T[2].seq /\ ResetTarget(k) # {}
      <4>1. DOMAIN T = 1 .. 2 /\ T # << >> /\ T[1] = ReadyFrame /\ T[2] = ResetFrame(n)
        BY <3>2
      <4> QED BY <2>4, <4>1 DEF ReadyFrame, ResetFrame
    <3> QED BY <2>3, <3>1, <3>2
  <2>7. Ahead(p, T) /\ Rising(T) /\ EventFree(T)
    <3>1. \A i \in DOMAIN T : i = 1 \/ i = 2
      BY <2>6
    <3> QED BY <2>1, <2>6, <3>1 DEF Ahead, Rising, EventFree, Moves
  <2>8. stage'[k] = IF NeedsSnapshot(k) THEN "history" ELSE "events"
    BY <1>1, <1>5, <1>t DEF TypeOK
  <2>9. CASE NeedsSnapshot(k)
    <3>1. stage'[k] = "history"
      BY <2>8, <2>9
    <3> QED BY <2>1, <2>5, <2>6, <2>7, <3>1 DEF StreamInv, Guided
  <2>10. CASE ~NeedsSnapshot(k)
    <3>1. stage'[k] = "events" /\ ResetTarget(k) = {} /\ ~(p = 0 /\ last > 0)
      BY <2>1, <2>8, <2>10 DEF NeedsSnapshot
    <3>2. last \in Nat /\ last - p <= Window /\ Window \in Nat /\ p <= last
      <4>1. last \in Nat /\ Window \in Nat /\ after[k] <= last /\ oldest \in Nat
        BY <1>t, ConstantsAssumption DEF TypeOK, BoundInv
      <4>2. ~(last - after[k] > Window)
        BY <3>1 DEF ResetTarget
      <4> QED BY <2>1, <4>1, <4>2
    <3>3. published \subseteq 1 .. last /\ client[c].shown \subseteq 1 .. last
      BY DEF BoundInv
    <3>4. \A s \in published : s <= p + Window
      <4>1. ASSUME NEW s \in published PROVE s \in Nat /\ s <= last
        BY <3>2, <3>3, <4>1
      <4>2. p \in Nat
        BY <2>1
      <4> HIDE DEF p
      <4> QED BY <3>2, <4>1, <4>2
    <3>5. Reached(p, T, Len(T), p)
      BY <2>1 DEF Reached
    <3>6. \A i \in DOMAIN T : ~Moves(T[i])
      BY <2>6, <3>1 DEF Moves
    <3>7. Promised(p, k)'
      BY <1>1, <2>1, <2>5, <2>7, <3>4, <3>5, <3>6 DEF Promised
    <3>8. ~(p = 0 /\ client[c].shown # {})
      BY <2>1, <3>1, <3>2, <3>3
    <3>9. Promised(client[c].lastSeq, k)' /\ Guided(client[c], k)'
      BY <2>1, <3>7, <3>8 DEF Guided
    <3> QED BY <2>1, <2>5, <2>6, <2>7, <3>1, <3>9 DEF StreamInv
  <2> QED BY <2>9, <2>10
<1> QED BY <1>4, <1>5

LEMMA ReadHistoryKeeps ==
  ASSUME LockInv, WiringInv, BoundInv, [Next]_vars, NEW j \in Conns, ReadHistory(j),
         NEW c \in Clients, NEW k \in Conns, Linked(c, k) => StreamInv(c, k), Linked(c, k)'
  PROVE  StreamInv(c, k)'
<1>t. TypeOK
  BY DEF LockInv
<1>1. /\ stage[j] = "history" /\ outbox[j] = << >>
      /\ outbox' = [outbox EXCEPT ![j] = <<SnapshotFrame(last)>>]
      /\ after' = [after EXCEPT ![j] = last] /\ stage' = [stage EXCEPT ![j] = "events"]
      /\ UNCHANGED <<last, oldest, published, client, sock, open, hub, queue>>
  BY DEF ReadHistory, logVars, pageVars, hubVars
<1>2. Linked(c, k)
  BY <1>1 DEF Linked
<1>3. CASE k # j
  BY <1>1, <1>2, <1>3, <1>t, KeepPair DEF TypeOK
<1>4. CASE k = j
  <2> DEFINE p == client[c].lastSeq
             S == Stream(k)
             f == SnapshotFrame(last)
             T == Append(S, f)
  <2>1. /\ S \in Seq(Frame) /\ p \in Nat /\ last \in Nat /\ f \in Frame
        /\ f.type = "snapshot" /\ f.seq = last /\ Moves(f) /\ Brings(f)
    BY <1>t, StreamType, FrameTypesOK DEF TypeOK, ClientState, SnapshotFrame, Moves, Brings
  <2>2. Ahead(p, S) /\ Rising(S) /\ EventFree(S) /\ StreamInv(c, k)
    BY <1>1, <1>2, <1>4 DEF StreamInv
  <2>3. Stream(k)' = T /\ after'[k] = last /\ stage'[k] = "events" /\ client'[c] = client[c]
    <3>1. queue[k] \in Seq(Frame) /\ outbox[k] = << >> /\ outbox'[k] = <<f>> /\ queue'[k] = queue[k]
      BY <1>1, <1>4, <1>t DEF TypeOK
    <3>2. queue[k] \o <<f>> = Append(queue[k], f)
      BY <2>1, <3>1
    <3> QED BY <1>1, <1>4, <1>t, <3>1, <3>2, AppendConcat DEF Stream, TypeOK
  <2>4. p <= last /\ \A i \in DOMAIN S : S[i].seq <= last
    <3>1. UpTo(last)
      BY DEF BoundInv
    <3>2. ASSUME NEW i \in DOMAIN S PROVE S[i].seq <= last
      <4>1. S[i] \in Frame /\ InStream(k, S[i])
        BY <2>1, AppendOf DEF InStream
      <4> QED BY <3>1, <4>1 DEF UpTo
    <3> QED BY <3>1, <3>2 DEF UpTo
  <2>5. \A i \in DOMAIN T : (i \in DOMAIN S /\ i <= Len(S) /\ T[i] = S[i]) \/ (i = Len(S) + 1 /\ T[i] = f)
    BY <2>1, AppendOf
  <2>6. EventFree(T) /\ \A i \in DOMAIN T : T[i].seq <= last
    BY <2>1, <2>2, <2>4, <2>5 DEF EventFree
  <2>7. Ahead(p, T)
    BY <2>1, <2>2, <2>4, <2>5 DEF Ahead
  <2>8. Rising(T)
    <3>1. \A i \in DOMAIN T : i > 1 => T[i].type # "ready"
      BY <2>1, <2>2, <2>5 DEF Rising
    <3> SUFFICES ASSUME NEW i \in DOMAIN T, NEW m \in DOMAIN T, i < m, Moves(T[i]), Moves(T[m])
                 PROVE  T[i].seq <= T[m].seq
      BY <2>6, <3>1 DEF Rising, EventFree
    <3>2. i \in DOMAIN S /\ T[i] = S[i]
      BY <2>1, <2>5, AppendOf
    <3>3. CASE m \in DOMAIN S /\ T[m] = S[m]
      BY <2>2, <3>2, <3>3 DEF Rising
    <3>4. CASE T[m] = f
      BY <2>1, <2>4, <3>2, <3>4
    <3> QED BY <2>5, <3>3, <3>4
  <2>9. Len(T) \in DOMAIN T /\ T[Len(T)] = f /\ Len(T) \in Nat
    BY <2>1, AppendOf
  <2>10. Reached(p, T, Len(T), last)
    BY <2>1, <2>9 DEF Reached
  <2>11. \A s \in published : s <= last + Window
    <3>1. published \subseteq 1 .. last /\ Window \in Nat
      BY ConstantsAssumption DEF BoundInv
    <3> QED BY <2>1, <3>1
  <2>12. Promised(client[c].lastSeq, k)'
    BY <1>1, <2>3, <2>4, <2>6, <2>10, <2>11 DEF Promised
  <2>13. Guided(client[c], k)'
    BY <2>1, <2>3, <2>9 DEF Guided
  <2>14. client[c].resyncing => T # << >> /\ T[1].type = "ready"
    <3>1. S # << >> => T # << >> /\ T[1] = S[1]
      BY <2>1, AppendOf, TailOf
    <3>2. stage[k] = "history"
      BY <1>1, <1>4
    <3> QED BY <2>2, <3>1, <3>2 DEF StreamInv
  <2> QED BY <2>3, <2>7, <2>8, <2>12, <2>13, <2>14 DEF StreamInv
<1> QED BY <1>3, <1>4

\* A replay reads every retained event behind a position, up to the window.
LEMMA EventsReach ==
  ASSUME NEW n \in Nat, last \in Nat, oldest \in Nat,
         NEW s \in Nat, n < s, oldest <= s, s <= last, s <= n + Window
  PROVE  s - Larger(n + 1, oldest) + 1 \in DOMAIN EventsAfter(n)
<1> DEFINE first == Larger(n + 1, oldest)
           final == Smaller(last, first + Window - 1)
<1>1. first \in Nat /\ first <= s /\ n + 1 <= first /\ Window \in Nat
  BY ConstantsAssumption DEF Larger
<1>2. final \in Int /\ s <= final
  BY <1>1 DEF Smaller
<1>3. EventsAfter(n) = [j \in 1 .. final - first + 1 |-> EventFrame(first + j - 1)]
  BY <1>1, <1>2 DEF EventsAfter
<1>4. s - first + 1 \in 1 .. final - first + 1
  BY <1>1, <1>2
<1> QED BY <1>3, <1>4

LEMMA ReadEventsKeeps ==
  ASSUME LockInv, WiringInv, BoundInv, [Next]_vars, NEW j \in Conns, ReadEvents(j),
         NEW c \in Clients, NEW k \in Conns, Linked(c, k) => StreamInv(c, k), Linked(c, k)'
  PROVE  StreamInv(c, k)'
<1>t. TypeOK
  BY DEF LockInv
<1>1. /\ stage[j] = "events" /\ outbox[j] = << >>
      /\ outbox' = [outbox EXCEPT ![j] = EventsAfter(after[j])]
      /\ stage' = [stage EXCEPT ![j] = "activate"]
      /\ UNCHANGED <<last, oldest, published, client, sock, open, hub, queue, after>>
  BY DEF ReadEvents, logVars, pageVars, hubVars
<1>2. Linked(c, k)
  BY <1>1 DEF Linked
<1>3. CASE k # j
  BY <1>1, <1>2, <1>3, <1>t, KeepPair DEF TypeOK
<1>4. CASE k = j
  <2> DEFINE p == client[c].lastSeq
             a == after[k]
             S == Stream(k)
             U == EventsAfter(a)
             T == S \o U
             first == Larger(a + 1, oldest)
  <2>1. /\ S \in Seq(Frame) /\ p \in Nat /\ last \in Nat /\ oldest \in Nat /\ a \in Nat
        /\ U \in Seq(Frame) /\ Window \in Nat
    BY <1>t, StreamType, EventsAfterType, ConstantsAssumption DEF TypeOK, ClientState
  <2>2. first \in Nat /\ a < first
    BY <2>1 DEF Larger
  <2>3. Ahead(p, S) /\ Rising(S) /\ Promised(p, k) /\ StreamInv(c, k)
    BY <1>1, <1>2, <1>4 DEF StreamInv
  <2>4. Stream(k)' = T /\ stage'[k] = "activate" /\ client'[c] = client[c]
    <3>1. queue[k] \in Seq(Frame) /\ outbox[k] = << >> /\ outbox'[k] = U /\ queue'[k] = queue[k]
      BY <1>1, <1>4, <1>t DEF TypeOK
    <3>2. Stream(k) = queue[k]
      BY <3>1, AppendConcat DEF Stream
    <3> QED BY <1>1, <1>4, <1>t, <3>1, <3>2 DEF Stream, TypeOK
  <2>5. /\ Len(S) \in Nat /\ Len(U) \in Nat /\ Len(T) = Len(S) + Len(U)
        /\ DOMAIN S = 1 .. Len(S) /\ DOMAIN U = 1 .. Len(U) /\ DOMAIN T = 1 .. Len(S) + Len(U)
        /\ \A i \in 1 .. Len(S) : T[i] = S[i]
        /\ \A i \in 1 .. Len(U) : T[Len(S) + i] = U[i]
    BY <2>1, ConcatOf
  <2>6. \A i \in DOMAIN U : U[i].type = "event" /\ U[i].seq = first + i - 1 /\ i \in Nat \ {0}
    BY <2>1, EventsAre
  <2>0. S \in Seq(Frame) /\ \A i \in DOMAIN T : T[i] \in Frame /\ T[i].seq \in Nat /\ i \in Nat
    <3>1. T \in Seq(Frame)
      BY <2>1, ConcatOf
    <3>2. \A i \in DOMAIN T : T[i] \in Frame
      BY <3>1
    <3>3. \A f \in Frame : f.seq \in Nat
      BY DEF Frame
    <3>4. \A i \in DOMAIN T : i \in Nat
      BY <2>5
    <3> QED BY <2>1, <3>2, <3>3, <3>4
  <2> HIDE DEF T, first
  \* A frame of the new stream is an old one or the event of its place.
  <2>7. ASSUME NEW i \in DOMAIN T
        PROVE  \/ i \in DOMAIN S /\ T[i] = S[i] /\ T[i].type # "event" /\ (Moves(T[i]) => T[i].seq <= a)
               \/ i > Len(S) /\ T[i].type = "event" /\ T[i].seq = first + (i - Len(S)) - 1
    <3>1. CASE i \in DOMAIN S
      BY <2>3, <2>5, <3>1 DEF Promised, EventFree
    <3>2. CASE i \notin DOMAIN S
      <4>1. i - Len(S) \in 1 .. Len(U) /\ i = Len(S) + (i - Len(S)) /\ i > Len(S)
        BY <2>5, <2>7, <3>2
      <4>2. T[i] = U[i - Len(S)]
        BY <2>5, <4>1
      <4> QED BY <2>5, <2>6, <4>1, <4>2
    <3> QED BY <3>1, <3>2
  <2>8. p <= a
    BY <2>3 DEF Promised
  <2>9. Ahead(p, T)
    <3> SUFFICES ASSUME NEW i \in DOMAIN T, Moves(T[i])
                 PROVE  p <= T[i].seq /\ (T[i].type = "event" => p < T[i].seq)
      BY DEF Ahead
    <3>1. CASE i \in DOMAIN S /\ T[i] = S[i]
      BY <2>3, <3>1 DEF Ahead
    <3>2. CASE i > Len(S) /\ T[i].seq = first + (i - Len(S)) - 1
      BY <2>0, <2>1, <2>2, <2>5, <2>8, <3>2
    <3> QED BY <2>7, <3>1, <3>2
  <2>10. Rising(T)
    <3>0. \A i \in DOMAIN T : i > 1 => T[i].type # "ready"
      BY <2>3, <2>7 DEF Rising
    <3> SUFFICES ASSUME NEW i \in DOMAIN T, NEW m \in DOMAIN T, i < m, Moves(T[i]), Moves(T[m])
                 PROVE  /\ T[i].seq <= T[m].seq
                        /\ T[m].type = "event" => T[i].seq < T[m].seq
                        /\ T[i].type = "event" => T[m].type = "event"
      BY <3>0 DEF Rising
    <3>1. CASE i \in DOMAIN S /\ m \in DOMAIN S
      <4>1. T[i] = S[i] /\ T[m] = S[m]
        BY <2>5, <3>1
      <4> QED BY <2>3, <3>1, <4>1 DEF Rising
    <3>2. CASE i \in DOMAIN S /\ m \notin DOMAIN S
      <4>1. T[i].seq <= a /\ T[i].type # "event"
        BY <2>5, <2>7, <3>2
      <4>2. T[m].type = "event" /\ T[m].seq = first + (m - Len(S)) - 1 /\ m > Len(S)
        BY <2>7, <3>2
      <4> QED BY <2>0, <2>1, <2>2, <2>5, <4>1, <4>2
    <3>3. CASE i \notin DOMAIN S
      <4>1. T[i].type = "event" /\ T[i].seq = first + (i - Len(S)) - 1 /\ i > Len(S)
        BY <2>7, <3>3
      <4>2. m \notin DOMAIN S
        BY <2>5, <4>1
      <4>3. T[m].type = "event" /\ T[m].seq = first + (m - Len(S)) - 1
        BY <2>7, <4>2
      <4> QED BY <2>0, <2>1, <2>2, <2>5, <4>1, <4>3
    <3> QED BY <3>1, <3>2, <3>3
  \* Up to a, what the page has or the old stream brings is enough; behind a,
  \* the event itself is in the new part.
  <2>11. ASSUME NEW s \in Nat, s <= a, NEW n \in Nat, Len(S) <= n
         PROVE  Reached(p, T, n, s)
    <3>1. Reached(p, S, Len(S), a)
      BY <2>3 DEF Promised
    <3>2. CASE a <= p
      BY <2>1, <2>11, <3>2 DEF Reached
    <3>3. ASSUME NEW m \in DOMAIN S, m <= Len(S), Brings(S[m]), a <= S[m].seq
          PROVE  Reached(p, T, n, s)
      <4>1. m \in DOMAIN T /\ T[m] = S[m] /\ m <= n
        BY <2>5, <2>11, <3>3
      <4>2. s <= T[m].seq
        BY <2>0, <2>1, <2>11, <3>3, <4>1
      <4> QED BY <3>3, <4>1, <4>2 DEF Reached
    <3> QED BY <3>1, <3>2, <3>3 DEF Reached
  <2>12. ASSUME NEW s \in Nat, a < s, Seen(s)
         PROVE  s >= first /\ Len(S) + (s - first + 1) \in DOMAIN T
    <3>1. oldest <= s /\ s <= last /\ s <= a + Window
      <4>1. s \in published /\ published \subseteq 1 .. last /\ oldest <= s
        BY <2>12 DEF Seen, BoundInv
      <4> QED BY <2>1, <2>3, <4>1 DEF Promised
    <3>2. s - first + 1 \in DOMAIN U
      BY <2>1, <2>12, <3>1, EventsReach DEF first
    <3>3. s >= first
      BY <2>1, <2>12, <3>1 DEF Larger, first
    <3> QED BY <2>2, <2>5, <3>2, <3>3
  <2>13. ASSUME NEW s \in Nat, a < s, Seen(s), NEW n \in Nat, Len(S) + (s - first + 1) <= n
         PROVE  Reached(p, T, n, s)
    <3> DEFINE m == Len(S) + (s - first + 1)
    <3>1. m \in DOMAIN T /\ s >= first
      BY <2>12, <2>13
    <3>2. T[m].type = "event" /\ T[m].seq = first + (m - Len(S)) - 1
      <4>1. m \notin DOMAIN S
        BY <2>2, <2>5, <2>13, <3>1
      <4> QED BY <2>7, <3>1, <4>1
    <3>3. s <= T[m].seq /\ m <= n
      BY <2>2, <2>5, <2>13, <3>2
    <3> QED BY <3>1, <3>2, <3>3 DEF Reached, Brings
  <2>14. Complete(p, T)
    <3> SUFFICES ASSUME NEW s \in Nat, Seen(s) PROVE Reached(p, T, Len(T), s)
      BY DEF Complete
    <3>1. CASE s <= a
      BY <2>5, <2>11, <3>1
    <3>2. CASE s > a
      <4>1. Len(S) + (s - first + 1) \in DOMAIN T
        BY <2>1, <2>12, <3>2
      <4> QED BY <2>1, <2>5, <2>13, <3>2, <4>1
    <3> QED BY <2>1, <3>1, <3>2
  <2>15. Covered(p, T)
    <3> SUFFICES ASSUME NEW i \in DOMAIN T, T[i].type = "event", NEW s \in Nat, Seen(s), s < T[i].seq
                 PROVE  Reached(p, T, i - 1, s)
      BY DEF Covered
    <3>1. i > Len(S) /\ T[i].seq = first + (i - Len(S)) - 1 /\ i - 1 \in Nat /\ Len(S) <= i - 1
      BY <2>5, <2>7
    <3>2. CASE s <= a
      BY <2>11, <3>1, <3>2
    <3>3. CASE s > a
      <4>1. Len(S) + (s - first + 1) <= i - 1
        BY <2>2, <2>5, <3>1
      <4> QED BY <2>1, <2>13, <3>1, <3>3, <4>1
    <3> QED BY <2>1, <3>2, <3>3
  <2>16. \A s \in Nat : Seen(s)' <=> Seen(s)
    BY <1>1 DEF Seen
  <2>17. Covered(client[c].lastSeq, Stream(k))' /\ Complete(client[c].lastSeq, Stream(k))'
    BY <2>4, <2>14, <2>15, <2>16 DEF Covered, Complete
  <2>18. Guided(client[c], k)'
    <3>1. \A i \in DOMAIN S : i \in DOMAIN T /\ T[i] = S[i]
      BY <2>5
    <3>2. stage[k] = "events"
      BY <1>1, <1>4
    <3> QED BY <2>3, <2>4, <3>1, <3>2 DEF StreamInv, Guided
  <2>19. client[c].resyncing => T # << >> /\ T[1].type = "ready"
    <3>1. stage[k] = "events"
      BY <1>1, <1>4
    <3>2. S # << >> => 1 \in DOMAIN S /\ T[1] = S[1] /\ T # << >>
      BY <2>1, <2>5, TailOf
    <3> QED BY <2>3, <3>1, <3>2 DEF StreamInv
  <2> QED BY <2>4, <2>9, <2>10, <2>17, <2>18, <2>19 DEF StreamInv
<1> QED BY <1>3, <1>4

LEMMA DeliverKeeps ==
  ASSUME LockInv, WiringInv, BoundInv, [Next]_vars,
         NEW d \in Clients, Deliver(d) \/ WriterTimeout(d),
         NEW c \in Clients, NEW k \in Conns, Linked(c, k) => StreamInv(c, k), Linked(c, k)'
  PROVE  StreamInv(c, k)' \/ StuckInv(c, k)'
<1>t. TypeOK
  BY DEF LockInv
<1>1. /\ sock[d] \in Conns /\ queue[sock[d]] # << >> /\ queue' = [queue EXCEPT ![sock[d]] = Tail(@)]
      /\ UNCHANGED <<last, oldest, published, pubStage, pubSeq, sock, open, stage, after, outbox>>
      /\ Receive(d, sock[d]) \/ UNCHANGED client
      /\ hub' = hub \/ hub' = [hub EXCEPT ![sock[d]] = "absent"]
  BY <1>t, IncomingQueue DEF Deliver, WriterTimeout, logVars, lockVars, bootVars
<1>2. Linked(c, k)
  BY <1>1, <1>t DEF Linked, TypeOK
<1>3. CASE c # d
  <2>1. k # sock[d]
    BY <1>1, <1>2, <1>3, ConstantsAssumption DEF Linked, WiringInv
  <2>2. queue'[k] = queue[k] /\ client'[c] = client[c]
    BY <1>1, <1>3, <1>t, <2>1 DEF Receive, TypeOK
  <2> QED BY <1>1, <1>2, <2>2, KeepPair
<1>4. CASE c = d
  <2> DEFINE cl == client[c]
             p == client[c].lastSeq
             S == Stream(k)
             f == Head(queue[k])
             new == client'[c]
             q == Position(p, f)
  <2>1. sock[d] = k /\ Deliver(d)
    <3>1. sock[d] = k /\ hub'[k] # "absent"
      BY <1>2, <1>4, <1>1 DEF Linked
    <3>2. ~WriterTimeout(d)
      BY <1>t, <3>1 DEF WriterTimeout, TypeOK
    <3> QED BY <3>1, <3>2
  <2>2. StreamInv(c, k) /\ ~cl.stopped /\ queue[k] # << >>
    BY <1>1, <1>2, <2>1, ConstantsAssumption DEF Linked, WiringInv
  <2>3. new = HandleFrame(cl, f)
    BY <1>4, <1>t, <2>1 DEF Deliver, Receive, TypeOK
  <2>5. /\ S \in Seq(Frame) /\ S # << >> /\ S[1] = f /\ f \in Frame /\ p \in Nat /\ f.seq \in Nat
        /\ cl.resyncing \in BOOLEAN
    BY <1>t, <2>2, StreamType, TakeStream DEF TypeOK, ClientState, Frame
  <2>6. Stream(k)' = Tail(S)
    <3>1. queue'[k] = Tail(queue[k]) /\ outbox'[k] = outbox[k]
      BY <1>1, <1>t, <2>1 DEF TypeOK
    <3> QED BY <1>t, <2>2, <3>1, TakeStream DEF Stream
  <2>10. /\ Len(S) \in Nat \ {0} /\ DOMAIN Tail(S) = 1 .. Len(S) - 1 /\ DOMAIN S = 1 .. Len(S)
         /\ Len(Tail(S)) = Len(S) - 1
         /\ \A i \in DOMAIN Tail(S) : Tail(S)[i] = S[i + 1] /\ i + 1 \in DOMAIN S
    BY <2>5, TailOf
  <2>16. CASE StartsResync(cl, f)
    <3>1. f.type = "event" /\ f.seq > 1
      BY <2>5, <2>16 DEF StartsResync, IsGap
    <3>2. new.lastSeq = 0 /\ new.resyncing
      BY <1>t, <2>2, <2>3, <2>16, PageTakes
    <3>3. stage'[k] \in {"activate", "live"}
      <4>1. stage[k] # "free" /\ stage[k] # "closing"
        BY <1>2 DEF WiringInv, Linked
      <4> QED BY <1>1, <1>t, <2>2, <2>5, <3>1, <4>1, EventAtHead
    <3>4. ASSUME NEW g \in Frame, InStream(k, g)'
          PROVE  g.type = "note" \/ (g.type = "event" /\ g.seq > 1)
      <4>1. PICK i \in DOMAIN Tail(S) : Tail(S)[i] = g
        BY <2>6, <3>4 DEF InStream
      <4>2. g = S[i + 1] /\ i + 1 \in DOMAIN S /\ i + 1 > 1 /\ 1 \in DOMAIN S
        BY <2>10, <4>1
      <4>3. g.type # "ready"
        BY <2>2, <4>2 DEF StreamInv, Rising
      <4>4. CASE Moves(g)
        <5>1. g.type = "event" /\ f.seq < g.seq
          BY <2>2, <2>5, <3>1, <4>2, <4>4 DEF StreamInv, Rising, Moves
        <5> QED BY <2>5, <3>1, <5>1 DEF Frame
      <4>5. CASE ~Moves(g)
        BY <4>3, <4>5 DEF Moves, Frame, FrameTypes
      <4> QED BY <4>4, <4>5
    <3>5. InStream(k, f)
      BY <2>5, <2>10 DEF InStream
    <3>6. last' > 0 /\ (pubStage' = "publishing" => pubSeq' > 1)
      <4>1. last \in Nat /\ pubSeq \in Nat /\ UpTo(last) /\ (pubStage = "publishing" => UpTo(pubSeq - 1))
        BY <1>t DEF TypeOK, BoundInv
      <4>2. f.seq <= last /\ (pubStage = "publishing" => f.seq <= pubSeq - 1)
        BY <2>5, <3>5, <4>1 DEF UpTo
      <4> QED BY <1>1, <2>5, <3>1, <4>1, <4>2
    <3> QED BY <3>2, <3>3, <3>4, <3>6 DEF StuckInv
  <2> SUFFICES ASSUME ~StartsResync(cl, f) PROVE StreamInv(c, k)'
    BY <2>16
  <2>4. /\ Extends(cl, new, f) \/ Replaces(new, f) \/ (Stays(cl, new) /\ ~Moves(f))
        /\ new.lastSeq = q /\ new.resyncing = (cl.resyncing /\ f.type # "ready")
    BY <1>t, <2>2, <2>3, PageTakes
  <2>7. stage'[k] = stage[k] /\ after'[k] = after[k] /\ stage[k] \notin {"waiting", "room"}
    BY <1>1, <2>2, <2>5 DEF StreamInv
  <2>8. Ahead(p, S) /\ Rising(S)
    BY <2>2 DEF StreamInv
  <2>9. q \in Nat /\ p <= q /\ Ahead(q, Tail(S)) /\ Rising(Tail(S))
    BY <2>5, <2>8, TailProspects
  <2>11. ~new.resyncing
    BY <2>2, <2>4, <2>5, <2>7 DEF StreamInv
  <2>12. EventFree(S) => EventFree(Tail(S))
    BY <2>10 DEF EventFree
  <2>13. ASSUME stage[k] = "events" PROVE Promised(client[c].lastSeq, k)'
    <3>1. Promised(p, k)
      BY <2>2, <2>13 DEF StreamInv
    <3>2. q <= after[k]
      <4>1. 1 \in DOMAIN S
        BY <2>10
      <4> QED BY <2>5, <3>1, <4>1 DEF Promised, Position
    <3>3. \A i \in DOMAIN Tail(S) : Moves(Tail(S)[i]) => Tail(S)[i].seq <= after[k]
      BY <2>10, <3>1 DEF Promised
    <3>4. Reached(q, Tail(S), Len(Tail(S)), after[k])
      <4>1. after[k] \in Nat /\ Len(S) \in 1 .. Len(S)
        BY <1>t, <2>10 DEF TypeOK
      <4>2. Reached(p, S, Len(S), after[k])
        BY <3>1 DEF Promised
      <4> QED BY <2>5, <2>9, <2>10, <4>1, <4>2, TailReached
    <3>5. EventFree(Tail(S)) /\ \A s \in published : s <= after[k] + Window
      BY <2>12, <3>1 DEF Promised
    <3> QED BY <1>1, <2>4, <2>6, <2>7, <3>2, <3>3, <3>4, <3>5 DEF Promised
  <2>14. ASSUME stage[k] \in {"activate", "live"}
         PROVE  Covered(client[c].lastSeq, Stream(k))' /\ Complete(client[c].lastSeq, Stream(k))'
    <3>1. Covered(q, Tail(S)) /\ Complete(q, Tail(S))
      BY <2>2, <2>5, <2>9, <2>14, TailCovered DEF StreamInv
    <3>2. \A s \in Nat : Seen(s)' <=> Seen(s)
      BY <1>1 DEF Seen
    <3> QED BY <2>4, <2>6, <3>1, <3>2 DEF Covered, Complete
  <2>15. Guided(client[c], k)'
    <3>1. CASE Extends(cl, new, f)
      BY <2>5, <3>1 DEF Extends, Guided
    <3>2. CASE Replaces(new, f)
      <4>1. f.seq = 0 => 1 .. f.seq = {}
        BY <2>5
      <4> QED BY <3>2, <4>1 DEF Replaces, Guided
    <3>3. CASE Stays(cl, new) /\ ~Moves(f)
      <4> SUFFICES ASSUME new.lastSeq = 0, new.shown # {}, stage[k] # "history"
                   PROVE  \E i \in DOMAIN Tail(S) : Tail(S)[i].type = "snapshot"
        BY <2>6, <2>7 DEF Guided
      <4>1. PICK i \in DOMAIN S : S[i].type = "snapshot"
        BY <2>2, <2>7, <3>3 DEF StreamInv, Guided, Stays
      <4>2. i # 1
        BY <2>5, <3>3, <4>1 DEF Moves
      <4>3. i - 1 \in DOMAIN Tail(S) /\ Tail(S)[i - 1] = S[i]
        BY <2>10, <4>2
      <4> QED BY <4>1, <4>3
    <3> QED BY <2>4, <3>1, <3>2, <3>3
  <2> QED
    BY <2>2, <2>4, <2>6, <2>7, <2>9, <2>11, <2>12, <2>13, <2>14, <2>15 DEF StreamInv
<1> QED BY <1>3, <1>4

\* Actions that leave streams and pages alone, or cut connections.
LEMMA CutKeeps ==
  ASSUME LockInv, BoundInv, [Next]_vars,
         \A c \in Clients : sock'[c] = sock[c] \/ sock'[c] = NoConn,
         \A c \in Clients : sock'[c] # NoConn => client'[c] = client[c],
         \A k \in Conns : open'[k] /\ hub'[k] # "absent" =>
           /\ open[k] /\ hub[k] # "absent"
           /\ stage'[k] = stage[k] /\ after'[k] = after[k]
           /\ queue'[k] = queue[k] /\ outbox'[k] = outbox[k],
         published' = published,
         NEW c \in Clients, NEW k \in Conns, Linked(c, k) => StreamInv(c, k), Linked(c, k)'
  PROVE  StreamInv(c, k)'
<1>1. sock'[c] = k /\ k # NoConn /\ open'[k] /\ hub'[k] # "absent"
  BY ConstantsAssumption DEF Linked
<1>2. Linked(c, k) /\ client'[c] = client[c]
  BY <1>1 DEF Linked
<1> QED BY <1>1, <1>2, KeepPair

\* What a step may do to what a page has applied.
LEMMA ClientStep ==
  ASSUME TypeOK, [Next]_vars, NEW c \in Clients
  PROVE  \/ client'[c].lastSeq = client[c].lastSeq /\ client'[c].resyncing = client[c].resyncing
         \/ \E k \in Conns : Linked(c, k) /\ queue[k] # << >> /\ client'[c] = HandleFrame(client[c], Head(queue[k]))
<1> USE DEF logVars, lockVars, pageVars, hubVars, bootVars
<1>1. CASE PublisherStep
  BY <1>1 DEF PublisherStep, StartPublish, Commit, CommitFails, Publish, CancelPublish,
              CancelFanout, OrphanCommits, BroadcastNote
<1>2. ASSUME NEW k \in Conns, HandlerStep(k) \/ NetworkDrop(k) PROVE UNCHANGED client
  <2>1. CASE ReadRoom(k)
    BY <2>1 DEF ReadRoom
  <2> QED
    BY <1>2, <2>1 DEF HandlerStep, NetworkDrop, LockForReplay, SendFrame, SendTimeout, ReadHistory,
                      ReadEvents, Activate, ActivateFails, HandlerExit, WriterBreaks
<1>3. CASE Age \/ CleanupExpired \/ Restart \/ UNCHANGED vars
  BY <1>3 DEF Age, CleanupExpired, Restart, vars
<1>4. ASSUME NEW d \in Clients, (\E k \in Conns : Connect(d, k)) \/ SocketClosed(d)
      PROVE  UNCHANGED client
  BY <1>4 DEF Connect, SocketClosed
<1>5. ASSUME NEW d \in Clients, PageHide(d) \/ PageShow(d)
      PROVE  client'[c].lastSeq = client[c].lastSeq /\ client'[c].resyncing = client[c].resyncing
  <2>1. client \in [Clients -> ClientState]
    BY DEF TypeOK
  <2>2. PICK b \in BOOLEAN : client' = [client EXCEPT ![d].stopped = b]
    BY <1>5 DEF PageHide, PageShow
  <2>3. client'[c] = IF c = d THEN [client[d] EXCEPT !.stopped = b] ELSE client[c]
    BY <2>1, <2>2
  <2> QED BY <2>1, <2>3 DEF ClientState
<1>6. ASSUME NEW d \in Clients, Deliver(d) \/ WriterTimeout(d)
      PROVE  \/ client'[c] = client[c]
             \/ \E k \in Conns : Linked(c, k) /\ queue[k] # << >> /\ client'[c] = HandleFrame(client[c], Head(queue[k]))
  <2>1. Linked(d, sock[d]) /\ sock[d] \in Conns /\ queue[sock[d]] # << >>
    BY <1>6, IncomingQueue DEF Deliver, WriterTimeout, Linked
  <2>2. UNCHANGED client \/ Receive(d, sock[d])
    BY <1>6 DEF Deliver, WriterTimeout
  <2>3. Receive(d, sock[d]) => client'[c] = IF c = d THEN HandleFrame(client[d], Head(queue[sock[d]])) ELSE client[c]
    BY DEF Receive, TypeOK
  <2> QED BY <2>1, <2>2, <2>3
<1> QED
  BY <1>1, <1>2, <1>3, <1>4, <1>5, <1>6 DEF Next, PageStep

\* A handler that has read the events does so once.
LEMMA StageStays ==
  ASSUME TypeOK, [Next]_vars, NEW k \in Conns, open[k], stage[k] \in {"activate", "live"},
         open'[k], hub'[k] # "absent"
  PROVE  stage'[k] \in {"activate", "live"}
<1> USE DEF logVars, lockVars, pageVars, hubVars, bootVars
<1>1. CASE PublisherStep
  BY <1>1 DEF PublisherStep, StartPublish, Commit, CommitFails, Publish, CancelPublish,
              CancelFanout, OrphanCommits, BroadcastNote
<1>2. ASSUME NEW j \in Conns, HandlerStep(j) PROVE stage'[k] \in {"activate", "live"}
  <2>1. CASE ReadRoom(j)
    <3>1. stage[j] = "room" /\ stage' = [stage EXCEPT ![j] = IF NeedsSnapshot(j) THEN "history" ELSE "events"]
      BY <2>1 DEF ReadRoom
    <3>2. k # j
      BY <3>1
    <3> QED BY <3>1, <3>2 DEF TypeOK
  <2>2. CASE LockForReplay(j) BY <2>2 DEF LockForReplay, TypeOK
  <2>3. CASE SendFrame(j) BY <2>3 DEF SendFrame
  <2>4. CASE SendTimeout(j) BY <2>4 DEF SendTimeout, AbortReplay, TypeOK
  <2>5. CASE ReadHistory(j) BY <2>5 DEF ReadHistory, TypeOK
  <2>6. CASE ReadEvents(j) BY <2>6 DEF ReadEvents, TypeOK
  <2>7. CASE Activate(j) BY <2>7 DEF Activate, TypeOK
  <2>8. CASE ActivateFails(j) BY <2>8 DEF ActivateFails, AbortReplay, TypeOK
  <2>9. CASE HandlerExit(j) BY <2>9 DEF HandlerExit, TypeOK
  <2>10. CASE WriterBreaks(j) BY <2>10 DEF WriterBreaks
  <2> QED
    BY <1>2, <2>1, <2>2, <2>3, <2>4, <2>5, <2>6, <2>7, <2>8, <2>9, <2>10 DEF HandlerStep
<1>3. ASSUME NEW c \in Clients, PageStep(c) PROVE stage'[k] \in {"activate", "live"}
  <2>1. ASSUME NEW j \in Conns, Connect(c, j) PROVE stage'[k] \in {"activate", "live"}
    BY <2>1 DEF Connect, TypeOK
  <2> QED
    BY <1>3, <2>1 DEF PageStep, SocketClosed, PageHide, PageShow, Deliver, WriterTimeout
<1>4. CASE Age \/ CleanupExpired \/ (\E j \in Conns : NetworkDrop(j)) \/ UNCHANGED vars
  BY <1>4 DEF Age, CleanupExpired, NetworkDrop, vars
<1>5. CASE Restart
  BY <1>5 DEF Restart
<1> QED BY <1>1, <1>2, <1>3, <1>4, <1>5 DEF Next

\* A page that found a gap stays as it is for as long as it keeps the connection.
LEMMA StuckStep ==
  ASSUME LockInv, WiringInv, BoundInv, [Next]_vars,
         NEW c \in Clients, NEW k \in Conns, Linked(c, k), StuckInv(c, k), Linked(c, k)'
  PROVE  StuckInv(c, k)'
<1>t. TypeOK /\ last \in Nat /\ pubSeq \in Nat /\ last > 0
  BY DEF LockInv, TypeOK, StuckInv
<1>1. stage'[k] \in {"activate", "live"}
  BY <1>t, StageStays DEF StuckInv, Linked
<1>2. ASSUME NEW f \in Frame, InStream(k, f)'
      PROVE  f.type = "note" \/ (f.type = "event" /\ f.seq > 1)
  <2>1. CASE InStream(k, f)
    BY <2>1 DEF StuckInv
  <2>2. CASE NewFrame(k, f)
    BY <2>2 DEF NewFrame, StuckInv, EventFrame
  <2> QED BY <1>2, <2>1, <2>2, FramesStep
<1>3. client'[c].lastSeq = 0 /\ client'[c].resyncing
  <2>1. ASSUME NEW j \in Conns, Linked(c, j), queue[j] # << >>, client'[c] = HandleFrame(client[c], Head(queue[j]))
        PROVE  client'[c] = client[c]
    <3>1. j = k
      BY <2>1 DEF Linked
    <3>2. Head(queue[k]) \in Frame /\ InStream(k, Head(queue[k]))
      <4>1. Stream(k) # << >> /\ Stream(k)[1] = Head(queue[k]) /\ Stream(k)[1] \in Frame /\ Stream(k) \in Seq(Frame)
        BY <1>t, <2>1, <3>1, TakeStream, StreamType
      <4> QED BY <4>1, TailOf DEF InStream
    <3> QED BY <1>t, <2>1, <3>1, <3>2, StuckDrops
  <2> QED BY <1>t, <2>1, ClientStep DEF StuckInv
<1>4. last' > 0
  BY <1>t, LastStep
<1>5. ASSUME pubStage' = "publishing" PROVE pubSeq' > 1
  BY <1>t, <1>5, PublishedStep DEF StuckInv
<1> QED BY <1>1, <1>2, <1>3, <1>4, <1>5 DEF StuckInv

LEMMA LinkageStep ==
  ASSUME LockInv, WiringInv, BoundInv, Linkage, [Next]_vars
  PROVE  Linkage'
<1> SUFFICES ASSUME NEW c \in Clients, NEW k \in Conns, Linked(c, k)'
             PROVE  StreamInv(c, k)' \/ StuckInv(c, k)'
  BY DEF Linkage
<1>0. CASE Linked(c, k) /\ StuckInv(c, k)
  BY <1>0, StuckStep
<1> SUFFICES ASSUME Linked(c, k) => StreamInv(c, k)
             PROVE  StreamInv(c, k)' \/ StuckInv(c, k)'
  BY <1>0 DEF Linkage
<1> USE DEF logVars, lockVars, pageVars, hubVars, bootVars
<1>t. TypeOK
  BY DEF LockInv
<1>u. ASSUME UNCHANGED <<client, sock, open, hub, queue, stage, after, outbox, published>>
      PROVE  StreamInv(c, k)'
  BY <1>u, CutKeeps
<1>1. CASE PublisherStep
  <2>1. CASE StartPublish \/ Commit \/ CommitFails \/ CancelPublish \/ OrphanCommits
    <3>1. UNCHANGED <<client, sock, open, hub, queue, stage, after, outbox, published>>
      BY <2>1 DEF StartPublish, Commit, CommitFails, CancelPublish, OrphanCommits
    <3> QED BY <3>1, <1>u
  <2>2. CASE Publish \/ CancelFanout BY <2>2, PublishKeeps
  <2>3. CASE BroadcastNote BY <2>3, BroadcastKeeps
  <2> QED BY <1>1, <2>1, <2>2, <2>3 DEF PublisherStep
<1>2. ASSUME NEW j \in Conns, HandlerStep(j) PROVE StreamInv(c, k)'
  <2>1. CASE LockForReplay(j) BY <2>1, LockForReplayKeeps
  <2>2. CASE ReadRoom(j) BY <2>2, ReadRoomKeeps
  <2>3. CASE SendFrame(j)
    <3>1. UNCHANGED <<client, sock, open, hub, stage, after, published>>
      BY <2>3 DEF SendFrame
    <3>2. Linked(c, k) /\ Stream(k)' = Stream(k)
      BY <2>3, <1>t, <3>1, SendStream DEF Linked
    <3>3. oldest' = oldest /\ oldest \in Nat
      BY <2>3, <1>t DEF SendFrame, TypeOK
    <3> QED BY <1>t, <3>1, <3>2, <3>3, KeepStream
  <2>4. CASE SendTimeout(j) \/ ActivateFails(j)
    <3>1. /\ UNCHANGED <<client, sock, hub, queue, after, published>>
          /\ open' = [open EXCEPT ![j] = FALSE] /\ stage' = [stage EXCEPT ![j] = "closing"]
          /\ outbox' = [outbox EXCEPT ![j] = << >>]
      BY <2>4 DEF SendTimeout, ActivateFails, AbortReplay
    <3>2. \A i \in Conns : open'[i] => i # j /\ open[i]
      BY <3>1, <1>t DEF TypeOK
    <3>3. \A i \in Conns : i # j => stage'[i] = stage[i] /\ outbox'[i] = outbox[i]
      BY <3>1, <1>t DEF TypeOK
    <3> QED BY <3>1, <3>2, <3>3, CutKeeps
  <2>5. CASE ReadHistory(j) BY <2>5, ReadHistoryKeeps
  <2>6. CASE ReadEvents(j) BY <2>6, ReadEventsKeeps
  <2>7. CASE Activate(j) BY <2>7, ActivateKeeps
  <2>8. CASE HandlerExit(j) \/ WriterBreaks(j)
    <3>1. UNCHANGED <<client, sock, open, published, outbox>> /\ hub' = [hub EXCEPT ![j] = "absent"]
      BY <2>8 DEF HandlerExit, WriterBreaks
    <3>2. \A i \in Conns : hub'[i] # "absent" => i # j /\ hub[i] # "absent"
      BY <3>1, <1>t DEF TypeOK
    <3>3. \A i \in Conns : i # j => stage'[i] = stage[i] /\ after'[i] = after[i] /\ queue'[i] = queue[i]
      BY <2>8, <1>t DEF HandlerExit, WriterBreaks, TypeOK
    <3> QED BY <3>1, <3>2, <3>3, CutKeeps
  <2> QED
    BY <1>2, <2>1, <2>2, <2>3, <2>4, <2>5, <2>6, <2>7, <2>8 DEF HandlerStep
<1>3. ASSUME NEW d \in Clients, PageStep(d) PROVE StreamInv(c, k)' \/ StuckInv(c, k)'
  <2>1. ASSUME NEW j \in Conns, Connect(d, j) PROVE StreamInv(c, k)'
    BY <2>1, ConnectKeeps
  <2>2. CASE Deliver(d) \/ WriterTimeout(d) BY <2>2, DeliverKeeps
  <2>3. CASE SocketClosed(d)
    <3>1. UNCHANGED <<client, open, hub, queue, stage, after, outbox, published>>
      BY <2>3 DEF SocketClosed
    <3>2. \A e \in Clients : sock'[e] = sock[e] \/ sock'[e] = NoConn
      BY <2>3, <1>t DEF SocketClosed, TypeOK
    <3> QED BY <3>1, <3>2, CutKeeps
  <2>4. CASE PageHide(d)
    <3>1. UNCHANGED <<hub, queue, stage, after, outbox, published>>
      BY <2>4 DEF PageHide
    <3>2. \A e \in Clients : (e # d /\ sock'[e] = sock[e] /\ client'[e] = client[e]) \/ sock'[e] = NoConn
      BY <2>4, <1>t DEF PageHide, TypeOK
    <3>3. \A i \in Conns : open'[i] => open[i]
      BY <2>4 DEF PageHide
    <3> QED BY <3>1, <3>2, <3>3, CutKeeps
  <2>5. CASE PageShow(d)
    <3>1. UNCHANGED <<sock, open, hub, queue, stage, after, outbox, published>>
      BY <2>5 DEF PageShow
    <3>2. \A e \in Clients : sock'[e] # NoConn => client'[e] = client[e]
      BY <2>5, <1>t, <3>1 DEF PageShow, WiringInv, TypeOK
    <3> QED BY <3>1, <3>2, CutKeeps
  <2> QED BY <1>3, <2>1, <2>2, <2>3, <2>4, <2>5 DEF PageStep
<1>4. ASSUME NEW j \in Conns, NetworkDrop(j) PROVE StreamInv(c, k)'
  <2>1. UNCHANGED <<client, sock, hub, queue, stage, after, outbox, published>>
    BY <1>4 DEF NetworkDrop
  <2>2. \A i \in Conns : open'[i] => open[i]
    BY <1>4, <1>t DEF NetworkDrop, TypeOK
  <2> QED BY <2>1, <2>2, CutKeeps
<1>5. CASE Age \/ CleanupExpired \/ UNCHANGED vars
  <2>1. UNCHANGED <<client, sock, open, hub, queue, stage, after, outbox, published>>
    BY <1>5 DEF Age, CleanupExpired, vars
  <2> QED BY <2>1, <1>u
<1>6. CASE Restart
  BY <1>6 DEF Restart, Linked
<1> QED
  BY <1>1, <1>2, <1>3, <1>4, <1>5, <1>6 DEF Next

-----------------------------------------------------------------------------
(***************************************************************************)
(* Theorems.                                                               *)
(***************************************************************************)
LEMMA HandoverInit == Init => HandoverInv
<1> SUFFICES ASSUME Init PROVE HandoverInv
  OBVIOUS
<1> USE ConstantsAssumption DEF Init
<1>1. client \in [Clients -> ClientState]
  BY DEF NewPage, ClientState
<1>2. LockInv
  <2>1. TypeOK
    BY <1>1 DEF TypeOK, Stages
  <2> QED BY <2>1 DEF LockInv, EventLockExclusion, ActiveAfterReplay, Replaying
<1>3. \A k \in Conns : Stream(k) = << >>
  BY DEF Stream
<1>4. \A k \in Conns : \A f \in Frame : ~InStream(k, f)
  <2>1. DOMAIN << >> = {}
    OBVIOUS
  <2> QED BY <1>3, <2>1 DEF InStream
<1>5. \A c \in Clients : /\ client[c].lastSeq = 0 /\ client[c].shown = {}
                         /\ client[c].stopped = FALSE
  BY DEF NewPage
<1>6. WiringInv
  BY <1>5 DEF WiringInv
<1>7. BoundInv
  BY <1>4, <1>5 DEF BoundInv, UpTo
<1>8. NoHoles
  BY <1>5 DEF NoHoles
<1>10. \A c \in Clients, k \in Conns : ~Linked(c, k)
  BY DEF Linked
<1> QED BY <1>2, <1>6, <1>7, <1>8, <1>10 DEF HandoverInv, Linkage

\* The inductive invariant of the hand-over.
THEOREM HandoverInvariant == Spec => []HandoverInv
<1>1. HandoverInv /\ [Next]_vars => HandoverInv'
  <2> SUFFICES ASSUME HandoverInv, [Next]_vars PROVE HandoverInv'
    OBVIOUS
  <2>1. LockInv /\ WiringInv /\ BoundInv /\ Linkage /\ NoHoles
    BY DEF HandoverInv
  <2>2. LockInv' /\ WiringInv'
    BY <2>1, ReplayTypeStep, LockStep, WiringStep DEF LockInv
  <2>3. BoundInv' /\ NoHoles' /\ Linkage'
    BY <2>1, BoundStep, HolesStep, LinkageStep
  <2> QED BY <2>2, <2>3 DEF HandoverInv
<1> QED BY <1>1, HandoverInit, PTL DEF Spec

\* Replay and live fan-out hand over exactly once: on a connection the page
\* never receives an event it has already applied.
THEOREM NothingTwice == Spec => []NoDuplicateDelivery
<1>1. HandoverInv => NoDuplicateDelivery
  <2> SUFFICES ASSUME HandoverInv, NEW c \in Clients,
                      Incoming(c) # << >>, Head(Incoming(c)).type = "event"
               PROVE  Head(Incoming(c)).seq > client[c].lastSeq
    BY DEF NoDuplicateDelivery
  <2> DEFINE k == sock[c]
  <2>1. TypeOK
    BY DEF HandoverInv, LockInv
  <2>2. k \in Conns /\ Linked(c, k) /\ queue[k] # << >> /\ Incoming(c) = queue[k]
    BY <2>1, IncomingQueue DEF Linked
  <2>3. StreamInv(c, k) \/ StuckInv(c, k)
    BY <2>2 DEF HandoverInv, Linkage
  <2>4. /\ Stream(k) # << >> /\ Stream(k)[1] = Head(queue[k]) /\ Stream(k)[1] \in Frame
        /\ Stream(k) \in Seq(Frame)
    BY <2>1, <2>2, TakeStream, StreamType
  <2>5. client[c].lastSeq < Stream(k)[1].seq
    <3>1. CASE StreamInv(c, k)
      BY <2>1, <2>2, <2>4, <3>1, EventAtHead
    <3>2. CASE StuckInv(c, k)
      <4>1. InStream(k, Stream(k)[1])
        BY <2>4, TailOf DEF InStream
      <4> QED BY <2>2, <2>4, <3>2, <4>1 DEF StuckInv, Frame
    <3> QED BY <2>3, <3>1, <3>2
  <2>6. client[c].lastSeq \in Nat /\ Stream(k)[1].seq \in Nat
    BY <2>1, <2>4 DEF TypeOK, ClientState, Frame
  <2> QED BY <2>2, <2>4, <2>5, <2>6
<1> QED BY <1>1, HandoverInvariant, PTL

\* A gap that a page finds holds only events that were never broadcast or that
\* retention removed.
THEOREM GapsHaveReasons == Spec => []GapsAreExplained
<1>1. HandoverInv => GapsAreExplained
  <2> SUFFICES ASSUME HandoverInv, NEW c \in Clients,
                      Incoming(c) # << >>, StartsResync(client[c], Head(Incoming(c))),
                      NEW s \in client[c].lastSeq + 1 .. Head(Incoming(c)).seq - 1,
                      s \in published, ~(s < oldest)
               PROVE  FALSE
    BY DEF GapsAreExplained
  <2> DEFINE k == sock[c]
             S == Stream(k)
             p == client[c].lastSeq
  <2>1. TypeOK
    BY DEF HandoverInv, LockInv
  <2>2. k \in Conns /\ Linked(c, k) /\ queue[k] # << >> /\ Incoming(c) = queue[k]
    BY <2>1, IncomingQueue DEF Linked
  <2>3. StreamInv(c, k)
    BY <2>2 DEF HandoverInv, Linkage, StuckInv, StartsResync
  <2>4. S # << >> /\ S[1] = Head(queue[k]) /\ S[1] \in Frame /\ S \in Seq(Frame)
    BY <2>1, <2>2, TakeStream, StreamType
  <2>5. S[1].type = "event"
    BY <2>2, <2>4 DEF StartsResync, IsGap
  <2>6. stage[k] \in {"activate", "live"}
    <3>1. stage[k] # "free" /\ stage[k] # "closing"
      BY <2>2 DEF HandoverInv, WiringInv, Linked
    <3> QED BY <2>1, <2>2, <2>3, <2>4, <2>5, <3>1, EventAtHead
  <2>7. Covered(p, S)
    BY <2>3, <2>6 DEF StreamInv
  <2>8. p \in Nat /\ S[1].seq \in Nat /\ oldest \in Nat
    BY <2>1, <2>4 DEF TypeOK, ClientState, Frame
  <2>9. s \in Nat /\ Seen(s) /\ s < S[1].seq /\ ~(s <= p)
    BY <2>2, <2>4, <2>8 DEF Seen
  <2>10. Reached(p, S, 1 - 1, s)
    BY <2>4, <2>5, <2>7, <2>9, TailOf DEF Covered
  <2> QED BY <2>4, <2>9, <2>10, TailOf DEF Reached
<1> QED BY <1>1, HandoverInvariant, PTL

\* The timeline of a page is one stretch of the log that ends at its position.
THEOREM NoHolesShown == Spec => []NoHoles
<1>1. HandoverInv => NoHoles BY DEF HandoverInv
<1> QED BY <1>1, HandoverInvariant, PTL

\* A live connection has applied or queued every event broadcast and retained:
\* nobody stays connected who has missed one.
THEOREM ActiveIsCurrent == Spec => []ActiveHoldsLatest
<1>1. HandoverInv => ActiveHoldsLatest
  <2> SUFFICES ASSUME HandoverInv, NEW c \in Clients,
                      sock[c] # NoConn, hub[sock[c]] = "active", open[sock[c]], ~Stuck(c),
                      NEW s \in published, ~(s < oldest), ~(s <= client[c].lastSeq)
               PROVE  \E m \in Pending(sock[c]) : s <= m
    BY DEF ActiveHoldsLatest
  <2> DEFINE k == sock[c]
             S == Stream(k)
  <2>1. TypeOK /\ k \in Conns
    BY DEF HandoverInv, LockInv, TypeOK
  <2>2. stage[k] = "live" /\ outbox[k] = << >> /\ queue[k] \in Seq(Frame)
    BY <2>1 DEF HandoverInv, LockInv, ActiveAfterReplay, WiringInv, Replaying, TypeOK
  <2>3. S = queue[k]
    BY <2>2, AppendConcat DEF Stream
  <2>8. ~StuckInv(c, k)
    <3>1. \A i \in DOMAIN queue[k] : queue[k][i] \in Frame /\ InStream(k, queue[k][i])
      BY <2>1, <2>2, QueuePart
    <3> QED BY <2>1, <3>1 DEF StuckInv, Stuck
  <2>4. Complete(client[c].lastSeq, S)
    BY <2>1, <2>2, <2>8 DEF HandoverInv, Linkage, Linked, StreamInv
  <2>5. s \in Nat /\ Seen(s)
    BY <2>1 DEF Seen, TypeOK
  <2>6. PICK j \in DOMAIN S : Brings(S[j]) /\ s <= S[j].seq
    BY <2>4, <2>5 DEF Complete, Reached
  <2>7. S[j].seq \in Pending(k)
    BY <2>3, <2>6 DEF Pending, Brings
  <2> QED BY <2>6, <2>7
<1> QED BY <1>1, HandoverInvariant, PTL

\* Resets of a page that is more than a window behind are all that can go wrong
\* with retained events: while no bootstrap meets such a page, in a room of any
\* age, every page with nothing left to receive shows all that is retained.
THEOREM RetainedIsShown == Spec /\ []NoWindowReset => []CaughtUpShowsRetained
<1>1. Init => RetainedInv
  <2> SUFFICES ASSUME Init PROVE RetainedInv
    OBVIOUS
  <2>1. \A k \in Conns : Stream(k) = << >>
    BY DEF Init, Stream
  <2>2. \A k \in Conns : \A f \in Frame : ~InStream(k, f)
    <3>1. DOMAIN << >> = {}
      OBVIOUS
    <3> QED BY <2>1, <3>1 DEF InStream
  <2>3. \A c \in Clients : client[c].lastSeq = 0
    BY DEF Init, NewPage
  <2> QED BY <2>2, <2>3 DEF Init, RetainedInv, ResetsExpired, ShowsRetained
<1>2. HandoverInv /\ RetainedInv /\ NoWindowReset /\ [Next]_vars => RetainedInv'
  BY RetainedStep DEF HandoverInv
<1>3. RetainedInv => CaughtUpShowsRetained
  BY DEF RetainedInv, ShowsRetained, CaughtUpShowsRetained
<1> QED BY <1>1, <1>2, <1>3, HandoverInvariant, PTL DEF Spec

\* Whatever the interleaving of publications, replays, overflows, dropped
\* connections and restarts, the pages behave as RoomTimeline allows: each shows
\* a stretch of the log that grows by the next event, or a snapshot.
THEOREM PagesFollowTimeline == Spec => ImplementsTimeline
<1> DEFINE position == [c \in Clients |-> client[c].lastSeq]
           view == [c \in Clients |-> client[c].shown]
<1>1. Init => Timeline!Init
  BY DEF Init, Timeline!Init, NewPage
<1>2. HandoverInv /\ [Next]_vars => [Timeline!Next]_Timeline!vars
  <2> SUFFICES ASSUME HandoverInv, [Next]_vars PROVE [Timeline!Next]_Timeline!vars
    OBVIOUS
  <2>1. LockInv /\ WiringInv /\ BoundInv /\ Linkage /\ TypeOK
    BY DEF HandoverInv, LockInv
  <2>2. CASE \A c \in Clients : Stays(client[c], client'[c])
    <3>1. position' = position /\ view' = view
      BY <2>2 DEF Stays
    <3>2. last' = last \/ last' = last + 1
      BY <2>1, LastStep
    <3> QED BY <3>1, <3>2 DEF Timeline!Next, Timeline!vars, Timeline!CommitEvent
  <2>3. ASSUME UNCHANGED last, NEW c \in Clients,
               \A d \in Clients \ {c} : client'[d] = client[d],
               \/ Forgets(client[c], client'[c])
               \/ sock[c] \in Conns /\ Takes(client[c], client'[c], sock[c])
        PROVE  Timeline!Next
    <3>1. /\ position' = [position EXCEPT ![c] = client'[c].lastSeq]
          /\ view' = [view EXCEPT ![c] = client'[c].shown]
          /\ position[c] = client[c].lastSeq /\ view[c] = client[c].shown
      BY <2>3
    <3>2. CASE Forgets(client[c], client'[c])
      <4>1. client'[c].lastSeq = 0 /\ client'[c].shown = view[c]
        BY <3>1, <3>2 DEF Forgets
      <4>2. view' = view
        BY <3>1, <4>1
      <4>3. Timeline!ForgetPosition(c)
        BY <2>3, <3>1, <4>1, <4>2 DEF Timeline!ForgetPosition
      <4> QED BY <4>3 DEF Timeline!Next
    <3>3. ASSUME NEW f \in Frame, InStream(sock[c], f), sock[c] \in Conns,
                 Extends(client[c], client'[c], f)
          PROVE  Timeline!Next
      <4>1. f.seq <= last /\ last \in Nat /\ client[c].lastSeq \in Nat
        BY <2>1, <3>3 DEF BoundInv, UpTo, TypeOK, ClientState
      <4>2. Timeline!ShowNext(c)
        BY <2>3, <3>1, <3>3, <4>1 DEF Extends, Timeline!ShowNext
      <4> QED BY <4>2 DEF Timeline!Next
    <3>4. ASSUME NEW f \in Frame, InStream(sock[c], f), sock[c] \in Conns,
                 Replaces(client'[c], f)
          PROVE  Timeline!Next
      <4>1. f.seq \in 0 .. last
        BY <2>1, <3>4 DEF BoundInv, UpTo, TypeOK, Frame
      <4>2. CASE f.type = "reset" /\ client'[c].shown = {}
        <5>1. Timeline!Clear(c)
          BY <2>3, <3>1, <3>4, <4>1, <4>2 DEF Replaces, Timeline!Clear
        <5> QED BY <5>1 DEF Timeline!Next
      <4>3. CASE f.type = "snapshot" /\ client'[c].shown = 1 .. f.seq
        <5>1. Timeline!ShowSnapshot(c)
          BY <2>3, <3>1, <3>4, <4>1, <4>3 DEF Replaces, Timeline!ShowSnapshot
        <5> QED BY <5>1 DEF Timeline!Next
      <4> QED BY <3>4, <4>2, <4>3 DEF Replaces
    <3> QED BY <2>3, <3>2, <3>3, <3>4 DEF Takes
  <2> QED BY <2>1, <2>2, <2>3, PageStepOf
<1> QED
  BY <1>1, <1>2, HandoverInvariant, PTL DEF Spec, ImplementsTimeline, Timeline!Spec
=============================================================================
