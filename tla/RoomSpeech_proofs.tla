--------------------------- MODULE RoomSpeech_proofs ---------------------------
(***************************************************************************)
(* Whose audio the room's recordings contain, and what costs a thread of   *)
(* the executor, for any replies, segments, chunks and attempts, tagged or *)
(* not.                                                                    *)
(***************************************************************************)
EXTENDS RoomSpeech, TLAPS

Has(S, x) == \E i \in DOMAIN S : S[i] = x

Empty == requests = <<>> /\ responses = <<>> /\ session = NoSession

\* How far the task of a reply is.
TaskInv ==
  /\ \A r \in Replies :
       /\ task[r] # "idle" => attempt[r] > 0
       /\ task[r] = "idle" => attempt[r] = 0 /\ parts[r] = NoParts
       /\ task[r] \in {"start", "reading", "stopping"} => parts[r].done < Segments
       /\ task[r] = "published" => parts[r].done = Segments /\ published[r] = parts[r].audio
       /\ task[r] = "start" => Empty /\ ~dirty
       /\ lock # Nobody /\ task[lock] = "start" => chunks = <<>>
  /\ lock = Nobody => chunks = <<>>

\* A speech that was asked for before the present one of its reply.
Old(t) ==
  \/ t.attempt < attempt[t.reply]
  \/ /\ t.attempt = attempt[t.reply]
     /\ t.segment <= parts[t.reply].done \/ task[t.reply] = "failed"

Present(t) == t = SpeechOf(t.reply) /\ task[t.reply] \in {"reading", "stopping"}

\* The speeches in the queues, at the worker and among those ended early.
Known(t) ==
  \/ Has(requests, t) \/ session.of = t \/ t \in short
  \/ \E i \in DOMAIN responses : responses[i].of = t

AskedInv == \A t \in Speeches : Known(t) => Old(t) \/ Present(t)

\* A speech is asked for once, answered with rising chunks, then ended.
Distinct == \A i, j \in DOMAIN requests : requests[i] = requests[j] => i = j
Untouched ==
  \A i \in DOMAIN requests :
    /\ session.of # requests[i] /\ requests[i] \notin short
    /\ \A j \in DOMAIN responses : responses[j].of # requests[i]
Answered ==
  \A i \in DOMAIN responses : responses[i].of = session.of =>
    responses[i].is # "done" /\ responses[i].number <= session.sent
Rising ==
  \A i, j \in DOMAIN responses : i < j /\ responses[i].of = responses[j].of =>
    /\ responses[i].is # "done"
    /\ responses[i].is = "audio" /\ responses[j].is = "audio" =>
         responses[i].number < responses[j].number
OrderInv == Distinct /\ Untouched /\ Answered /\ Rising

\* Before any error the queues hold only what the present speech asked for.
CleanInv ==
  ~dirty =>
    /\ lock = Nobody => Empty
    /\ \A r \in Replies : task[r] = "reading" =>
         /\ \A i \in DOMAIN requests : requests[i] = SpeechOf(r)
         /\ session = NoSession \/ session.of = SpeechOf(r)
         /\ \A i \in DOMAIN responses : responses[i].of = SpeechOf(r)

\* What the task has collected of the present speech, and what is still to come.
Collected(t) ==
  /\ \A i \in DOMAIN chunks : chunks[i].is = "audio" /\ chunks[i].of = t
  /\ \A i, j \in DOMAIN chunks : i < j => chunks[i].number < chunks[j].number
  /\ \A i \in DOMAIN chunks :
       /\ ~Has(requests, t)
       /\ session.of = t => chunks[i].number <= session.sent
       /\ \A j \in DOMAIN responses : responses[j].is = "audio" /\ responses[j].of = t =>
            chunks[i].number < responses[j].number
Coming(t, k) == Has(chunks, Audio(t, k)) \/ Has(responses, Audio(t, k))
NothingMissing(t) ==
  /\ session.of = t => \A k \in 1 .. session.sent : Coming(t, k)
  /\ (\E i \in DOMAIN responses : responses[i].is = "done" /\ responses[i].of = t) =>
       t \in short \/ \A k \in 1 .. Chunks : Coming(t, k)

ReadingInv ==
  \A r \in Replies : task[r] = "reading" /\ r \notin spoilt =>
    Collected(SpeechOf(r)) /\ NothingMissing(SpeechOf(r))

\* The segments that are done.
Speech(r, n) == [reply |-> r, segment |-> n, attempt |-> attempt[r]]
PartsInv ==
  \A r \in Replies \ spoilt :
    /\ \A i \in DOMAIN parts[r].audio :
         LET a == parts[r].audio[i]
         IN  /\ a.is = "audio" /\ a.of.reply = r /\ a.of.attempt = attempt[r]
             /\ a.of.segment <= parts[r].done
    /\ \A i, j \in DOMAIN parts[r].audio :
         i < j => Precedes(parts[r].audio[i], parts[r].audio[j])
    /\ \A n \in 1 .. parts[r].done :
         Speech(r, n) \in short \/ \A k \in 1 .. Chunks : Has(parts[r].audio, Audio(Speech(r, n), k))

SpeechInv ==
  /\ TypeOK /\ TaskInv /\ AskedInv /\ OrderInv /\ CleanInv /\ ReadingInv /\ PartsInv

-----------------------------------------------------------------------------
(***************************************************************************)
(* Sequences, and the types of what the queues hold.                       *)
(***************************************************************************)
LEMMA TailOf ==
  ASSUME NEW T, NEW S \in Seq(T), S # << >>
  PROVE  /\ Tail(S) \in Seq(T) /\ Len(Tail(S)) = Len(S) - 1 /\ Len(S) \in Nat \ {0}
         /\ S[1] \in T /\ Head(S) = S[1]
         /\ \A i \in 1 .. Len(S) - 1 : Tail(S)[i] = S[i + 1]
         /\ DOMAIN S = 1 .. Len(S) /\ DOMAIN Tail(S) = 1 .. Len(S) - 1
  OBVIOUS

LEMMA AppendOf ==
  ASSUME NEW T, NEW S \in Seq(T), NEW x \in T
  PROVE  /\ Append(S, x) \in Seq(T) /\ Len(Append(S, x)) = Len(S) + 1 /\ Len(S) \in Nat
         /\ \A i \in 1 .. Len(S) : Append(S, x)[i] = S[i]
         /\ Append(S, x)[Len(S) + 1] = x
         /\ DOMAIN S = 1 .. Len(S) /\ DOMAIN Append(S, x) = 1 .. Len(S) + 1
  OBVIOUS

LEMMA JoinOf ==
  ASSUME NEW T, NEW S \in Seq(T), NEW U \in Seq(T)
  PROVE  /\ S \o U \in Seq(T) /\ Len(S \o U) = Len(S) + Len(U)
         /\ Len(S) \in Nat /\ Len(U) \in Nat
         /\ \A i \in 1 .. Len(S) : (S \o U)[i] = S[i]
         /\ \A i \in 1 .. Len(U) : (S \o U)[Len(S) + i] = U[i]
         /\ DOMAIN S = 1 .. Len(S) /\ DOMAIN U = 1 .. Len(U)
         /\ DOMAIN (S \o U) = 1 .. Len(S) + Len(U)
  OBVIOUS

LEMMA Fields ==
  /\ \A t \in Speeches : /\ t.reply \in Replies /\ t.segment \in Nat /\ t.attempt \in Nat
                         /\ t.segment \in 1 .. Segments /\ t.attempt \in 1 .. Attempts
  /\ \A x \in Responses : /\ x.is \in {"audio", "done", "error"} /\ x.of \in Speeches
                          /\ x.number \in Nat /\ x.number <= Chunks
  /\ NoSpeech \notin Speeches /\ NoSession.of = NoSpeech /\ NoSession.sent = 0
  /\ Segments \in Nat \ {0} /\ Chunks \in Nat \ {0} /\ Attempts \in Nat \ {0}
<1>1. Segments \in Nat \ {0} /\ Chunks \in Nat \ {0} /\ Attempts \in Nat \ {0} /\ Nobody \notin Replies
  BY SpeechConstants
<1>2. NoSpeech \notin Speeches
  BY <1>1 DEF NoSpeech, Speeches
<1> QED BY <1>1, <1>2 DEF Speeches, Responses, NoSession

LEMMA QueueTypes ==
  ASSUME TypeOK
  PROVE  /\ requests \in Seq(Speeches) /\ responses \in Seq(Responses) /\ chunks \in Seq(Responses)
         /\ DOMAIN requests = 1 .. Len(requests) /\ Len(requests) \in Nat
         /\ DOMAIN responses = 1 .. Len(responses) /\ Len(responses) \in Nat
         /\ DOMAIN chunks = 1 .. Len(chunks) /\ Len(chunks) \in Nat
         /\ \A i \in DOMAIN requests : requests[i] \in Speeches
         /\ \A i \in DOMAIN responses : responses[i] \in Responses
         /\ \A i \in DOMAIN chunks : chunks[i] \in Responses
         /\ session # NoSession => session \in [of : Speeches, sent : 0 .. Chunks]
         /\ session # NoSession => session.of \in Speeches
         /\ session.sent \in Nat /\ session.sent <= Chunks
         /\ session.of \in Speeches => session # NoSession
<1>1. /\ requests \in Seq(Speeches) /\ responses \in Seq(Responses) /\ chunks \in Seq(Responses)
      /\ session \in [of : Speeches, sent : 0 .. Chunks] \cup {NoSession}
  BY DEF TypeOK
<1>2. /\ session # NoSession => session.of \in Speeches
      /\ session.sent \in Nat /\ session.sent <= Chunks
      /\ session.of \in Speeches => session # NoSession
  BY <1>1, Fields
<1> QED BY <1>1, <1>2

LEMMA SpeechTypes ==
  ASSUME TypeOK, TaskInv, NEW r \in Replies, task[r] # "idle", parts[r].done < Segments
  PROVE  /\ SpeechOf(r) \in Speeches /\ SpeechOf(r).reply = r
         /\ SpeechOf(r).segment = parts[r].done + 1 /\ SpeechOf(r).attempt = attempt[r]
<1>1. parts[r].done \in 0 .. Segments /\ attempt[r] \in 0 .. Attempts /\ attempt[r] > 0
  BY DEF TypeOK, TaskInv
<1> QED BY <1>1, Fields DEF SpeechOf, Speeches

LEMMA PartsTypes ==
  ASSUME TypeOK, NEW r \in Replies
  PROVE  /\ parts[r].done \in 0 .. Segments /\ parts[r].audio \in Seq(Responses)
         /\ attempt[r] \in 0 .. Attempts
         /\ NoParts \in [done : 0 .. Segments, audio : Seq(Responses)]
         /\ NoParts.done = 0 /\ NoParts.audio = <<>>
         /\ parts[r] = [done |-> parts[r].done, audio |-> parts[r].audio]
  BY Fields DEF TypeOK, NoParts

-----------------------------------------------------------------------------
(***************************************************************************)
(* What a step does to the queues.                                         *)
(***************************************************************************)
queues == <<requests, responses, session, short>>

Clears   == requests' = <<>> /\ responses' = <<>> /\ session' = NoSession /\ short' = short
Asks(r)  == /\ requests' = Append(requests, SpeechOf(r))
            /\ UNCHANGED <<responses, session, short>>
Consumes == responses # <<>> /\ responses' = Tail(responses) /\ UNCHANGED <<requests, session, short>>
TakesUp  == /\ session = NoSession /\ requests # <<>> /\ requests' = Tail(requests)
            /\ session' = [of |-> Head(requests), sent |-> 0] /\ UNCHANGED <<responses, short>>
Skips    == requests # <<>> /\ requests' = Tail(requests) /\ UNCHANGED <<responses, session, short>>
Responds(is, number) ==
  /\ responses' = Append(responses, [is |-> is, of |-> session.of, number |-> number])
  /\ session # NoSession /\ UNCHANGED requests
MakesChunk ==
  /\ Responds("audio", session.sent + 1) /\ session.sent < Chunks
  /\ session' = [of |-> session.of, sent |-> session.sent + 1] /\ short' = short
EndsIt ==
  /\ Responds("done", 0) /\ session' = NoSession
  /\ \/ session.sent = Chunks /\ short' = short
     \/ short' = short \cup {session.of}
Fails == Responds("error", 0) /\ session' \in {session, NoSession} /\ short' = short

\* The task that may ask: it holds or takes the lock, and has not asked yet.
MayAsk(r) == task[r] \in {"ready", "start"} /\ parts[r].done < Segments /\ lock \in {r, Nobody}

LEMMA WorkerSteps ==
  ASSUME TypeOK,
         TakeRequest \/ SkipRequest \/ MakeChunk \/ EndSession \/ ProviderError \/ WorkerEnds
  PROVE  /\ TakesUp \/ Skips \/ MakesChunk \/ EndsIt \/ Fails
         /\ UNCHANGED <<tasks, published, dirty, spoilt, tagged, stuck>>
         /\ worker' \in {worker, "ended"} /\ faults' \in 0 .. MaxFaults
<1>1. session # NoSession => session = [of |-> session.of, sent |-> session.sent]
  BY QueueTypes
<1>2. /\ faults \in 0 .. MaxFaults
      /\ Fault => faults' \in 0 .. MaxFaults
      /\ worker \in {"none", "starting", "alive", "ended"}
  BY SpeechConstants DEF TypeOK, Fault
<1>3. CASE TakeRequest
  BY <1>2, <1>3 DEF TakeRequest, TakesUp, tasks, history, NoSession
<1>4. CASE SkipRequest
  BY <1>2, <1>4 DEF SkipRequest, Skips, tasks, history
<1>5. CASE MakeChunk
  <2>1. MakesChunk
    BY <1>1, <1>5 DEF MakeChunk, MakesChunk, Respond, Responds, history
  <2> QED BY <1>2, <1>5, <2>1 DEF MakeChunk, tasks, history
<1>6. CASE EndSession
  <2>1. EndsIt
    BY <1>6 DEF EndSession, EndsIt, Respond, Responds
  <2>2. UNCHANGED faults \/ Fault
    BY <1>6 DEF EndSession
  <2> QED BY <1>2, <1>6, <2>1, <2>2 DEF EndSession, tasks
<1>7. CASE ProviderError \/ WorkerEnds
  <2>1. Fails
    BY <1>7 DEF ProviderError, WorkerEnds, Fails, Respond, Responds, history
  <2> QED BY <1>2, <1>7, <2>1 DEF ProviderError, WorkerEnds, tasks, history
<1> QED BY <1>3, <1>4, <1>5, <1>6, <1>7

LEMMA QueueSteps ==
  ASSUME TypeOK, TaskInv, [Next]_vars
  PROVE  \/ UNCHANGED queues
         \/ Clears
         \/ \E r \in Replies : Asks(r) /\ MayAsk(r) /\ task' = [task EXCEPT ![r] = "reading"]
                               /\ UNCHANGED <<attempt, parts>>
         \/ Consumes /\ \E r \in Replies : task[r] = "reading"
         \/ TakesUp \/ Skips \/ MakesChunk \/ EndsIt \/ Fails
<1>1. CASE TakeRequest \/ SkipRequest \/ MakeChunk \/ EndSession \/ ProviderError \/ WorkerEnds
  BY <1>1, WorkerSteps
<1>2. CASE Reconfigure
  BY <1>2 DEF Reconfigure, Forget, Clears
<1>3. ASSUME NEW r \in Replies, Synthesize(r) \/ WorkerReady(r)
      PROVE  \/ Clears
             \/ Asks(r) /\ MayAsk(r) /\ task' = [task EXCEPT ![r] = "reading"] /\ UNCHANGED <<attempt, parts>>
  BY <1>3 DEF Synthesize, WorkerReady, Ask, Asks, Forget, Clears, MayAsk, TypeOK, TaskInv, history
<1>4. ASSUME NEW r \in Replies, ReadAudio(r) \/ ReadDone(r) \/ ReadError(r)
      PROVE  Consumes /\ task[r] = "reading"
  BY <1>4 DEF ReadAudio, ReadDone, ReadError, Consumes
<1>5. ASSUME NEW r \in Replies, WorkerNotReady(r) \/ Stop(r)
      PROVE  Clears
  BY <1>5 DEF WorkerNotReady, Stop, Forget, Clears
<1>6. ASSUME NEW r \in Replies,
             Begin(r) \/ StartWorker(r) \/ StartTimesOut(r) \/ ReadTimesOut(r) \/ Publish(r)
      PROVE  UNCHANGED queues
  BY <1>6 DEF Begin, StartWorker, StartTimesOut, ReadTimesOut, GiveUpWaiting, Publish, queues,
              workerVars, history
<1>7. CASE UNCHANGED vars
  BY <1>7 DEF vars, workerVars, history, queues
<1> QED BY <1>1, <1>2, <1>3, <1>4, <1>5, <1>6, <1>7 DEF Next, Speak

-----------------------------------------------------------------------------
(***************************************************************************)
(* Types, and the task of a reply.                                         *)
(***************************************************************************)
LEMMA LeaveTypes ==
  ASSUME TypeOK, NEW r \in Replies, lock = r, Leave(r)
  PROVE  /\ task' \in [Replies -> {"idle", "ready", "start", "reading", "stopping", "published", "failed"}]
         /\ attempt' \in [Replies -> 0 .. Attempts]
         /\ parts' \in [Replies -> [done : 0 .. Segments, audio : Seq(Responses)]]
         /\ lock' \in Replies \cup {Nobody} /\ chunks' \in Seq(Responses)
         /\ \A q \in Replies : lock' = q <=> task'[q] \in {"start", "reading", "stopping"}
         /\ spoilt' \subseteq Replies
<1>1. task'[r] \in {"ready", "failed"} /\ \A q \in Replies \ {r} : task'[q] = task[q]
  BY DEF Leave, TypeOK
<1>2. /\ task' \in [Replies -> {"idle", "ready", "start", "reading", "stopping", "published", "failed"}]
      /\ attempt' \in [Replies -> 0 .. Attempts]
  <2>1. attempt[r] \in 0 .. Attempts /\ Attempts \in Nat
    BY Fields DEF TypeOK
  <2>2. attempt[r] < Attempts => attempt[r] + 1 \in 0 .. Attempts
    BY <2>1
  <2> QED BY <2>2 DEF Leave, TypeOK
<1>3. parts' \in [Replies -> [done : 0 .. Segments, audio : Seq(Responses)]]
  BY PartsTypes DEF Leave, TypeOK
<1>4. \A q \in Replies : lock' = q <=> task'[q] \in {"start", "reading", "stopping"}
  BY <1>1, SpeechConstants DEF Leave, TypeOK
<1> QED BY <1>2, <1>3, <1>4 DEF Leave, TypeOK

LEMMA TypeStep ==
  ASSUME TypeOK, TaskInv, [Next]_vars
  PROVE  TypeOK'
<1>0. /\ Segments \in Nat /\ Chunks \in Nat /\ Attempts \in Nat /\ Pool \in Nat /\ MaxFaults \in Nat
      /\ Attempts > 0 /\ Nobody \notin Replies
  BY SpeechConstants
<1> DEFINE Words == {"idle", "ready", "start", "reading", "stopping", "published", "failed"}
<1>F. ASSUME Forget
      PROVE  /\ worker' \in {"none", "starting", "alive", "ended"} /\ dirty' \in BOOLEAN
             /\ requests' \in Seq(Speeches) /\ responses' \in Seq(Responses)
             /\ session' \in [of : Speeches, sent : 0 .. Chunks] \cup {NoSession}
  <2>1. << >> \in Seq(Speeches) /\ << >> \in Seq(Responses)
    OBVIOUS
  <2> QED BY <1>F, <2>1 DEF Forget
<1>1. CASE TakeRequest \/ SkipRequest \/ MakeChunk \/ EndSession \/ ProviderError \/ WorkerEnds
  <2>1. /\ UNCHANGED <<tasks, published, dirty, spoilt, tagged, stuck>>
        /\ worker' \in {worker, "ended"} /\ faults' \in 0 .. MaxFaults
        /\ TakesUp \/ Skips \/ MakesChunk \/ EndsIt \/ Fails
    BY <1>1, WorkerSteps
  <2>2. ASSUME NEW is \in {"audio", "done", "error"}, NEW n \in 0 .. Chunks, Responds(is, n)
        PROVE  /\ requests' \in Seq(Speeches) /\ responses' \in Seq(Responses)
               /\ session.of \in Speeches /\ session # NoSession
    <3>1. [is |-> is, of |-> session.of, number |-> n] \in Responses
      BY <2>2, QueueTypes DEF Responds, Responses
    <3> QED BY <2>2, <3>1, AppendOf, QueueTypes DEF Responds
  <2>3. /\ requests' \in Seq(Speeches) /\ responses' \in Seq(Responses)
        /\ session' \in [of : Speeches, sent : 0 .. Chunks] \cup {NoSession}
        /\ short' \subseteq Speeches
    <3>1. CASE TakesUp
      <4>1. Head(requests) \in Speeches /\ requests' \in Seq(Speeches)
        BY <3>1, TailOf DEF TakesUp, TypeOK
      <4>2. [of |-> Head(requests), sent |-> 0] \in [of : Speeches, sent : 0 .. Chunks]
        BY <4>1, <1>0
      <4> QED BY <3>1, <4>1, <4>2 DEF TakesUp, TypeOK
    <3>2. CASE Skips
      BY <3>2, TailOf DEF Skips, TypeOK
    <3>3. CASE MakesChunk
      <4>1. session.sent + 1 \in 0 .. Chunks /\ 1 \in 0 .. Chunks
        BY <3>3, QueueTypes, <1>0 DEF MakesChunk
      <4> QED BY <2>2, <3>3, <4>1 DEF MakesChunk, TypeOK
    <3>4. CASE EndsIt
      BY <2>2, <3>4, <1>0 DEF EndsIt, TypeOK
    <3>5. CASE Fails
      BY <2>2, <3>5, <1>0 DEF Fails, TypeOK
    <3> QED BY <2>1, <3>1, <3>2, <3>3, <3>4, <3>5
  <2> QED BY <2>1, <2>3 DEF TypeOK, tasks
<1>2. CASE Reconfigure
  BY <1>2, <1>0, <1>F DEF Reconfigure, Fault, TypeOK, tasks
<1>3. ASSUME NEW r \in Replies, Synthesize(r) \/ WorkerReady(r)
      PROVE  TypeOK'
  <2>1. SpeechOf(r) \in Speeches
    BY <1>3, SpeechTypes DEF Synthesize, WorkerReady, TaskInv
  <2>2. task' \in [Replies -> Words] /\ task'[r] \in {"start", "reading"}
        /\ lock' = r /\ \A q \in Replies \ {r} : task'[q] = task[q]
    BY <1>3 DEF Synthesize, WorkerReady, Ask, TypeOK
  <2>3. \A q \in Replies : lock' = q <=> task'[q] \in {"start", "reading", "stopping"}
    BY <1>3, <2>2, <1>0 DEF Synthesize, WorkerReady, TypeOK
  <2>4. /\ requests' \in Seq(Speeches) /\ responses' \in Seq(Responses)
        /\ session' \in [of : Speeches, sent : 0 .. Chunks] \cup {NoSession}
        /\ worker' \in {"none", "starting", "alive", "ended"} /\ dirty' \in BOOLEAN
    <3>1. Append(requests, SpeechOf(r)) \in Seq(Speeches)
      BY <2>1, AppendOf DEF TypeOK
    <3>2. CASE Forget
      BY <3>2, <1>F
    <3>3. CASE Ask(r) /\ UNCHANGED <<responses, session, dirty>> /\ worker' \in {worker, "alive"}
      BY <3>1, <3>3 DEF Ask, TypeOK
    <3> QED BY <1>3, <3>2, <3>3 DEF Synthesize, WorkerReady, history
  <2> QED BY <1>3, <2>2, <2>3, <2>4 DEF Synthesize, WorkerReady, TypeOK, history
<1>4. ASSUME NEW r \in Replies, ReadAudio(r)
      PROVE  TypeOK'
  <2>1. Head(responses) \in Responses /\ responses' \in Seq(Responses)
    BY <1>4, TailOf DEF ReadAudio, TypeOK
  <2>2. chunks' \in Seq(Responses)
    BY <1>4, <2>1, AppendOf DEF ReadAudio, TypeOK
  <2> QED BY <1>4, <2>1, <2>2 DEF ReadAudio, TypeOK
<1>5. ASSUME NEW r \in Replies, ReadDone(r) \/ ReadError(r)
      PROVE  TypeOK'
  <2>0. task[r] = "reading" /\ responses # <<>> /\ responses' = Tail(responses)
    BY <1>5 DEF ReadDone, ReadError
  <2>1. lock = r /\ responses' \in Seq(Responses)
    BY <2>0, TailOf DEF TypeOK
  <2>2. CASE Leave(r)
    BY <1>5, <2>1, <2>2, LeaveTypes DEF ReadDone, ReadError, TypeOK
  <2>3. CASE ~Leave(r)
    <3>1. /\ parts' = [parts EXCEPT ![r] = [done |-> @.done + 1, audio |-> @.audio \o chunks]]
          /\ task' = [task EXCEPT ![r] = "ready"] /\ lock' = Nobody /\ chunks' = <<>>
          /\ UNCHANGED <<attempt, spoilt>>
      BY <1>5, <2>3 DEF ReadDone, ReadError
    <3>2. [done |-> parts[r].done + 1, audio |-> parts[r].audio \o chunks]
            \in [done : 0 .. Segments, audio : Seq(Responses)]
      <4>1. parts[r].done + 1 \in 0 .. Segments
        <5>1. parts[r].done \in 0 .. Segments /\ parts[r].done < Segments
          BY <2>0, PartsTypes DEF TaskInv
        <5> QED BY <1>0, <5>1
      <4>2. parts[r].audio \o chunks \in Seq(Responses)
        BY PartsTypes, JoinOf DEF TypeOK
      <4> QED BY <4>1, <4>2
    <3>3. parts' \in [Replies -> [done : 0 .. Segments, audio : Seq(Responses)]]
      BY <3>1, <3>2 DEF TypeOK
    <3>4. \A q \in Replies : lock' = q <=> task'[q] \in {"start", "reading", "stopping"}
      BY <2>1, <3>1, <1>0 DEF TypeOK
    <3>5. /\ UNCHANGED <<worker, tagged, requests, session, stuck, published, faults, short>>
          /\ dirty' \in BOOLEAN
      BY <1>5 DEF ReadDone, ReadError, TypeOK
    <3>6. << >> \in Seq(Responses) /\ task' \in [Replies -> Words]
      BY <3>1 DEF TypeOK
    <3> QED BY <2>1, <3>1, <3>3, <3>4, <3>5, <3>6 DEF TypeOK
  <2> QED BY <2>2, <2>3
<1>6. ASSUME NEW r \in Replies, WorkerNotReady(r) \/ Stop(r)
      PROVE  TypeOK'
  <2>1. lock = r
    BY <1>6 DEF WorkerNotReady, Stop, TypeOK
  <2> QED BY <1>6, <1>F, <2>1, LeaveTypes DEF WorkerNotReady, Stop, TypeOK
<1>7. ASSUME NEW r \in Replies,
             Begin(r) \/ StartWorker(r) \/ StartTimesOut(r) \/ ReadTimesOut(r) \/ Publish(r)
      PROVE  TypeOK'
  <2>1. /\ task' \in [Replies -> Words] /\ attempt' \in [Replies -> 0 .. Attempts]
        /\ \A q \in Replies : lock' = q <=> task'[q] \in {"start", "reading", "stopping"}
        /\ lock' = lock
    <3>1. CASE Begin(r)
      BY <3>1, <1>0 DEF Begin, TypeOK
    <3>2. CASE StartWorker(r)
      BY <3>2 DEF StartWorker, TypeOK, tasks
    <3>3. CASE StartTimesOut(r) \/ ReadTimesOut(r)
      BY <3>3, <1>0 DEF StartTimesOut, ReadTimesOut, GiveUpWaiting, TypeOK
    <3>4. CASE Publish(r)
      BY <3>4, <1>0 DEF Publish, TypeOK
    <3> QED BY <1>7, <3>1, <3>2, <3>3, <3>4
  <2>2. stuck' \in 0 .. Pool /\ published' \in [Replies -> Seq(Responses)]
    <3>1. CASE Begin(r) \/ StartWorker(r) \/ StartTimesOut(r)
      BY <3>1 DEF Begin, StartWorker, StartTimesOut, GiveUpWaiting, TypeOK
    <3>2. CASE ReadTimesOut(r)
      BY <3>2, <1>0 DEF ReadTimesOut, GiveUpWaiting, FreeThread, TypeOK
    <3>3. CASE Publish(r)
      BY <3>3, PartsTypes DEF Publish, TypeOK
    <3> QED BY <1>7, <3>1, <3>2, <3>3
  <2> QED BY <1>7, <2>1, <2>2 DEF Begin, StartWorker, StartTimesOut, ReadTimesOut, GiveUpWaiting,
                                  Publish, TypeOK, tasks, workerVars, history
<1>8. CASE UNCHANGED vars
  BY <1>8 DEF vars, tasks, workerVars, history, TypeOK
<1> QED BY <1>1, <1>2, <1>3, <1>4, <1>5, <1>6, <1>7, <1>8 DEF Next, Speak

LEMMA TaskStep ==
  ASSUME TypeOK, TaskInv, [Next]_vars
  PROVE  TaskInv'
<1>0. /\ Segments \in Nat /\ Attempts \in Nat \ {0} /\ Nobody \notin Replies
  BY SpeechConstants
<1>L. ASSUME NEW r \in Replies, lock = r, Leave(r), UNCHANGED published
      PROVE  TaskInv'
  <2>1. /\ task'[r] \in {"ready", "failed"} /\ \A q \in Replies \ {r} : task'[q] = task[q]
        /\ attempt'[r] \in {attempt[r], attempt[r] + 1}
        /\ \A q \in Replies \ {r} : attempt'[q] = attempt[q] /\ parts'[q] = parts[q]
        /\ lock' = Nobody /\ chunks' = <<>>
    BY <1>L DEF Leave, TypeOK
  <2>2. attempt[r] > 0 /\ attempt[r] \in Nat
    <3>1. attempt[r] \in 0 .. Attempts /\ task[r] # "idle"
      BY <1>L DEF TypeOK
    <3> QED BY <3>1, <1>0 DEF TaskInv
  <2>3. \A q \in Replies \ {r} : task[q] \notin {"start", "reading", "stopping"}
    BY <1>L DEF TypeOK
  <2> QED BY <1>0, <1>L, <2>1, <2>2, <2>3 DEF TaskInv
<1>1. CASE TakeRequest \/ SkipRequest \/ MakeChunk \/ EndSession \/ ProviderError \/ WorkerEnds
  <2>1. UNCHANGED <<tasks, published, dirty>>
    BY <1>1, WorkerSteps
  <2>2. ~Empty
    BY <1>1 DEF TakeRequest, SkipRequest, MakeChunk, EndSession, ProviderError, WorkerEnds, Empty
  <2> QED BY <2>1, <2>2 DEF TaskInv, tasks
<1>2. CASE Reconfigure
  BY <1>2, <1>0 DEF Reconfigure, Forget, TaskInv, Empty, tasks, TypeOK
<1>3. ASSUME NEW r \in Replies, Synthesize(r) \/ WorkerReady(r)
      PROVE  TaskInv'
  <2>1. /\ task'[r] \in {"start", "reading"} /\ \A q \in Replies \ {r} : task'[q] = task[q]
        /\ lock' = r /\ parts[r].done < Segments /\ attempt[r] > 0 /\ chunks = <<>>
        /\ UNCHANGED <<attempt, parts, published, chunks>>
    BY <1>3 DEF Synthesize, WorkerReady, Ask, TypeOK, TaskInv
  <2>2. \A q \in Replies \ {r} : task[q] \notin {"start", "reading", "stopping"}
    BY <1>0, <1>3 DEF Synthesize, WorkerReady, TypeOK
  <2>3. task'[r] = "start" => Empty' /\ ~dirty'
    BY <1>3 DEF Synthesize, WorkerReady, Ask, Forget, Empty, TypeOK
  <2> QED BY <1>0, <2>1, <2>2, <2>3 DEF TaskInv
<1>4. ASSUME NEW r \in Replies, ReadAudio(r)
      PROVE  TaskInv'
  <2>1. lock = r
    BY <1>4 DEF ReadAudio, TypeOK
  <2> QED BY <1>4, <1>0, <2>1 DEF ReadAudio, TaskInv, TypeOK
<1>5. ASSUME NEW r \in Replies, ReadDone(r) \/ ReadError(r)
      PROVE  TaskInv'
  <2>1. lock = r /\ UNCHANGED published
    BY <1>5 DEF ReadDone, ReadError, TypeOK
  <2>2. CASE Leave(r)
    BY <2>1, <2>2, <1>L
  <2>3. CASE ~Leave(r)
    <3>1. /\ parts' = [parts EXCEPT ![r] = [done |-> @.done + 1, audio |-> @.audio \o chunks]]
          /\ task' = [task EXCEPT ![r] = "ready"] /\ lock' = Nobody /\ chunks' = <<>>
          /\ UNCHANGED <<attempt, dirty>>
      BY <1>5, <2>3 DEF ReadDone, ReadError
    <3>2. \A q \in Replies \ {r} : task'[q] = task[q] /\ parts'[q] = parts[q]
      BY <3>1 DEF TypeOK
    <3>3. task'[r] = "ready" /\ task[r] = "reading"
      BY <3>1, <1>5 DEF TypeOK, ReadDone, ReadError
    <3>4. \A q \in Replies \ {r} : task[q] \notin {"start", "reading", "stopping"}
      BY <2>1 DEF TypeOK
    <3> QED BY <1>0, <2>1, <3>1, <3>2, <3>3, <3>4 DEF TaskInv
  <2> QED BY <2>2, <2>3
<1>6. ASSUME NEW r \in Replies, WorkerNotReady(r) \/ Stop(r)
      PROVE  TaskInv'
  BY <1>6, <1>L DEF WorkerNotReady, Stop, TypeOK
<1>7. ASSUME NEW r \in Replies, Begin(r)
      PROVE  TaskInv'
  <2>1. task'[r] = "ready" /\ attempt'[r] = 1 /\ \A q \in Replies \ {r} : task'[q] = task[q] /\ attempt'[q] = attempt[q]
    BY <1>7 DEF Begin, TypeOK
  <2>2. UNCHANGED <<parts, lock, chunks, requests, responses, session, dirty, published>>
    BY <1>7 DEF Begin, workerVars, history
  <2>3. lock # Nobody => lock # r
    BY <1>7 DEF Begin, TypeOK
  <2>4. task[r] = "idle" /\ lock \in Replies \cup {Nobody}
    BY <1>7 DEF Begin, TypeOK
  <2> QED BY <1>0, <2>1, <2>2, <2>3, <2>4 DEF TaskInv, Empty
<1>8. ASSUME NEW r \in Replies, StartWorker(r) \/ StartTimesOut(r) \/ ReadTimesOut(r)
      PROVE  TaskInv'
  <2>1. /\ \A q \in Replies \ {r} : task'[q] = task[q]
        /\ task'[r] \in {"start", "stopping"} /\ task[r] \in {"start", "reading"}
        /\ task'[r] = "start" => task[r] = "start" /\ lock = r
        /\ UNCHANGED <<attempt, parts, lock, chunks, requests, responses, session, dirty, published>>
    BY <1>8 DEF StartWorker, StartTimesOut, ReadTimesOut, GiveUpWaiting, TypeOK, tasks, workerVars, history
  <2> QED BY <1>0, <2>1 DEF TaskInv, TypeOK, Empty
<1>9. ASSUME NEW r \in Replies, Publish(r)
      PROVE  TaskInv'
  <2>1. /\ \A q \in Replies \ {r} : task'[q] = task[q] /\ published'[q] = published[q]
        /\ task'[r] = "published" /\ task[r] = "ready" /\ parts[r].done = Segments
        /\ published'[r] = parts[r].audio
        /\ UNCHANGED <<attempt, parts, lock, chunks, requests, responses, session, dirty>>
    BY <1>9 DEF Publish, TypeOK, workerVars, history
  <2> QED BY <1>0, <2>1 DEF TaskInv, TypeOK, Empty
<1>10. CASE UNCHANGED vars
  BY <1>10 DEF vars, tasks, workerVars, history, TaskInv, Empty
<1> QED BY <1>1, <1>2, <1>3, <1>4, <1>5, <1>6, <1>7, <1>8, <1>9, <1>10 DEF Next, Speak

-----------------------------------------------------------------------------
(***************************************************************************)
(* What a step does to the tasks, and which speeches are old.              *)
(***************************************************************************)
Moves == {<<"ready", "start">>, <<"ready", "reading">>, <<"start", "reading">>,
          <<"start", "stopping">>, <<"reading", "stopping">>, <<"ready", "published">>}

Stays(r)  == attempt'[r] = attempt[r] /\ parts'[r] = parts[r] /\ task'[r] = task[r]
Moved(r)  == attempt'[r] = attempt[r] /\ parts'[r] = parts[r] /\ <<task[r], task'[r]>> \in Moves
Began(r)  == task[r] = "idle" /\ task'[r] = "ready" /\ attempt'[r] = 1 /\ parts'[r] = parts[r]
Left(r)   == /\ task[r] \in {"start", "reading", "stopping"} /\ parts'[r] = NoParts
             /\ \/ task'[r] = "ready" /\ attempt'[r] = attempt[r] + 1
                \/ task'[r] = "failed" /\ attempt'[r] = attempt[r]
Heard(r)  == /\ task[r] = "reading" /\ task'[r] = "ready" /\ attempt'[r] = attempt[r]
             /\ parts'[r] = [done |-> parts[r].done + 1, audio |-> parts[r].audio \o chunks]

LEMMA TaskSteps ==
  ASSUME TypeOK, [Next]_vars, NEW r \in Replies
  PROVE  Stays(r) \/ Moved(r) \/ Began(r) \/ Left(r) \/ Heard(r)
<1>L. ASSUME NEW q \in Replies, Leave(q), task[q] \in {"start", "reading", "stopping"}
      PROVE  Stays(r) \/ Left(r)
  BY <1>L DEF Leave, Stays, Left, TypeOK
<1>1. CASE TakeRequest \/ SkipRequest \/ MakeChunk \/ EndSession \/ ProviderError \/ WorkerEnds
  BY <1>1, WorkerSteps DEF tasks, Stays
<1>2. CASE Reconfigure \/ UNCHANGED vars
  BY <1>2 DEF Reconfigure, vars, tasks, Stays
<1>3. ASSUME NEW q \in Replies, Begin(q)
      PROVE  Stays(r) \/ Began(r)
  BY <1>3 DEF Begin, Stays, Began, TypeOK
<1>4. ASSUME NEW q \in Replies,
             Synthesize(q) \/ WorkerReady(q) \/ StartTimesOut(q) \/ ReadTimesOut(q) \/ Publish(q)
      PROVE  Stays(r) \/ Moved(r)
  <2>1. /\ UNCHANGED <<attempt, parts>> /\ <<task[q], task'[q]>> \in Moves
        /\ q # r => task'[r] = task[r]
    BY <1>4 DEF Synthesize, WorkerReady, Ask, StartTimesOut, ReadTimesOut, GiveUpWaiting, Publish,
                Moves, TypeOK
  <2> QED BY <2>1 DEF Stays, Moved
<1>5. ASSUME NEW q \in Replies, StartWorker(q) \/ ReadAudio(q)
      PROVE  Stays(r)
  BY <1>5 DEF StartWorker, ReadAudio, tasks, Stays
<1>6. ASSUME NEW q \in Replies, WorkerNotReady(q) \/ Stop(q) \/ ReadError(q)
      PROVE  Stays(r) \/ Left(r)
  BY <1>6, <1>L DEF WorkerNotReady, Stop, ReadError
<1>7. ASSUME NEW q \in Replies, ReadDone(q)
      PROVE  Stays(r) \/ Left(r) \/ Heard(r)
  <2>1. task[q] = "reading"
    BY <1>7 DEF ReadDone
  <2>2. CASE Leave(q)
    BY <2>1, <2>2, <1>L
  <2>3. CASE ~Leave(q)
    <3>1. /\ parts' = [parts EXCEPT ![q] = [done |-> @.done + 1, audio |-> @.audio \o chunks]]
          /\ task' = [task EXCEPT ![q] = "ready"] /\ UNCHANGED attempt
      BY <1>7, <2>3 DEF ReadDone
    <3>2. q # r => Stays(r)
      BY <3>1 DEF Stays, TypeOK
    <3>3. q = r => Heard(r)
      BY <2>1, <3>1 DEF Heard, TypeOK
    <3> QED BY <3>2, <3>3
  <2> QED BY <2>2, <2>3
<1> QED BY <1>1, <1>2, <1>3, <1>4, <1>5, <1>6, <1>7 DEF Next, Speak

LEMMA OldStays ==
  ASSUME TypeOK, TaskInv, [Next]_vars, NEW t \in Speeches, Old(t) \/ Present(t)
  PROVE  Old(t)' \/ Present(t)'
<1> DEFINE r == t.reply
<1>1. /\ r \in Replies /\ t.segment \in Nat \ {0} /\ t.attempt \in Nat \ {0}
      /\ attempt[r] \in Nat /\ parts[r].done \in Nat
  <2>1. r \in Replies /\ t.segment \in 1 .. Segments /\ t.attempt \in 1 .. Attempts
    BY Fields
  <2>2. attempt[r] \in 0 .. Attempts /\ parts[r].done \in 0 .. Segments
    BY <2>1, PartsTypes
  <2> QED BY <2>1, <2>2, Fields
<1>2. Stays(r) \/ Moved(r) \/ Began(r) \/ Left(r) \/ Heard(r)
  BY <1>1, TaskSteps
<1>3. Present(t) => t.segment = parts[r].done + 1 /\ t.attempt = attempt[r]
  BY DEF Present, SpeechOf
<1>4. Old(t) => \/ t.attempt < attempt[r]
                \/ t.attempt = attempt[r] /\ (t.segment <= parts[r].done \/ task[r] = "failed")
  BY DEF Old
<1>5. Present(t) => task[r] \in {"reading", "stopping"}
  BY DEF Present
<1>6. Present(t) /\ UNCHANGED <<attempt, parts>> => t = SpeechOf(r)'
  BY DEF Present, SpeechOf
<1>7. CASE Stays(r) \/ Moved(r)
  <2>1. Old(t) => Old(t)'
    BY <1>4, <1>7 DEF Stays, Moved, Moves, Old
  <2>2. Present(t) => Present(t)'
    BY <1>5, <1>7 DEF Present, SpeechOf, Stays, Moved, Moves
  <2> QED BY <2>1, <2>2
<1>8. CASE Began(r)
  <2>1. attempt[r] = 0 /\ task[r] = "idle"
    BY <1>1, <1>8 DEF Began, TaskInv
  <2> QED BY <1>1, <1>3, <1>4, <2>1
<1>9. CASE Left(r)
  <2>1. task[r] # "failed" /\ t.attempt <= attempt[r]
    BY <1>1, <1>3, <1>4, <1>9 DEF Left
  <2> QED BY <1>1, <1>9, <2>1 DEF Left, Old
<1>10. CASE Heard(r)
  <2>1. parts'[r].done = parts[r].done + 1 /\ attempt'[r] = attempt[r] /\ task[r] = "reading"
    BY <1>10 DEF Heard
  <2> QED BY <1>1, <1>3, <1>4, <2>1 DEF Old
<1> QED BY <1>2, <1>7, <1>8, <1>9, <1>10

LEMMA NotAskedYet ==
  ASSUME TypeOK, TaskInv, AskedInv, NEW r \in Replies, MayAsk(r)
  PROVE  SpeechOf(r) \in Speeches /\ ~Known(SpeechOf(r))
<1>1. /\ SpeechOf(r) \in Speeches /\ SpeechOf(r).reply = r
      /\ SpeechOf(r).segment = parts[r].done + 1 /\ SpeechOf(r).attempt = attempt[r]
      /\ attempt[r] \in Nat /\ parts[r].done \in Nat
  <2>1. parts[r].done \in 0 .. Segments /\ attempt[r] \in 0 .. Attempts
    BY PartsTypes
  <2>2. task[r] # "idle" /\ parts[r].done < Segments
    BY DEF MayAsk
  <2> QED BY <2>1, <2>2, SpeechTypes, Fields
<1>2. ~Old(SpeechOf(r)) /\ ~Present(SpeechOf(r))
  BY <1>1 DEF Old, Present, MayAsk
<1> QED BY <1>1, <1>2 DEF AskedInv

LEMMA KnownStep ==
  ASSUME TypeOK, TaskInv, [Next]_vars, NEW t \in Speeches, Known(t)'
  PROVE  Known(t) \/ Present(t)'
<1>0. t # NoSpeech
  BY Fields
<1>1. CASE UNCHANGED queues
  BY <1>1 DEF queues, Known, Has
<1>2. CASE Clears
  BY <1>0, <1>2, Fields DEF Clears, Known, Has
<1>3. ASSUME NEW r \in Replies, Asks(r), MayAsk(r), task' = [task EXCEPT ![r] = "reading"],
             UNCHANGED <<attempt, parts>>
      PROVE  Known(t) \/ Present(t)'
  <2>1. /\ SpeechOf(r) \in Speeches /\ SpeechOf(r).reply = r
    BY <1>3, SpeechTypes DEF MayAsk
  <2>2. Has(requests, t)' => Has(requests, t) \/ t = SpeechOf(r)
    BY <1>3, <2>1, AppendOf, QueueTypes DEF Asks, Has
  <2>3. t = SpeechOf(r) => Present(t)'
    BY <1>3, <2>1 DEF Present, SpeechOf, TypeOK
  <2> QED BY <1>3, <2>2, <2>3 DEF Asks, Known
<1>4. CASE Consumes
  <2>1. \A i \in DOMAIN responses' : \E j \in DOMAIN responses : responses'[i] = responses[j]
    BY <1>4, TailOf, QueueTypes DEF Consumes
  <2> QED BY <1>4, <2>1 DEF Consumes, Known, Has
<1>5. CASE TakesUp \/ Skips
  <2>1. /\ requests # << >> /\ requests' = Tail(requests) /\ UNCHANGED <<responses, short>>
        /\ session'.of \in {session.of, Head(requests)}
    BY <1>5 DEF TakesUp, Skips
  <2>2. Has(requests, t)' => Has(requests, t)
    BY <2>1, TailOf, QueueTypes DEF Has
  <2>3. Has(requests, Head(requests))
    BY <2>1, TailOf, QueueTypes DEF Has
  <2> QED BY <2>1, <2>2, <2>3 DEF Known
<1>6. CASE MakesChunk \/ EndsIt \/ Fails
  <2>1. PICK is \in {"audio", "done", "error"}, n \in 0 .. Chunks : Responds(is, n)
    <3>1. MakesChunk => session.sent + 1 \in 0 .. Chunks
      BY QueueTypes, Fields DEF MakesChunk
    <3>2. 0 \in 0 .. Chunks
      BY Fields
    <3> QED BY <1>6, <3>1, <3>2 DEF MakesChunk, EndsIt, Fails
  <2>2. [is |-> is, of |-> session.of, number |-> n] \in Responses
    BY <2>1, QueueTypes DEF Responds, Responses
  <2>3. \A i \in DOMAIN responses' :
           responses'[i].of = session.of \/ \E j \in DOMAIN responses : responses'[i] = responses[j]
    BY <2>1, <2>2, AppendOf, QueueTypes DEF Responds
  <2>4. requests' = requests /\ session'.of \in {session.of, NoSpeech} /\ short' \subseteq short \cup {session.of}
    BY <1>6, Fields DEF MakesChunk, EndsIt, Fails, Responds
  <2> QED BY <1>0, <2>3, <2>4 DEF Known, Has
<1> QED BY <1>1, <1>2, <1>3, <1>4, <1>5, <1>6, QueueSteps

LEMMA AskedStep ==
  ASSUME TypeOK, TaskInv, AskedInv, [Next]_vars
  PROVE  AskedInv'
<1> SUFFICES ASSUME NEW t \in Speeches, Known(t)'
             PROVE  Old(t)' \/ Present(t)'
  BY DEF AskedInv
<1>1. Known(t) \/ Present(t)'
  BY KnownStep
<1> QED BY <1>1, OldStays DEF AskedInv

-----------------------------------------------------------------------------
(***************************************************************************)
(* The order of what the queues hold.                                      *)
(***************************************************************************)
LEMMA RespondedIs ==
  ASSUME TypeOK, NEW is \in {"audio", "done", "error"}, NEW n \in 0 .. Chunks, Responds(is, n)
  PROVE  /\ responses' \in Seq(Responses) /\ Len(responses') = Len(responses) + 1
         /\ DOMAIN responses' = 1 .. Len(responses) + 1
         /\ \A i \in 1 .. Len(responses) : responses'[i] = responses[i]
         /\ responses'[Len(responses) + 1] = [is |-> is, of |-> session.of, number |-> n]
         /\ session.of \in Speeches
<1>1. [is |-> is, of |-> session.of, number |-> n] \in Responses /\ session.of \in Speeches
  BY QueueTypes DEF Responds, Responses
<1> QED BY <1>1, AppendOf, QueueTypes DEF Responds

LEMMA OrderStep ==
  ASSUME TypeOK, TaskInv, AskedInv, OrderInv, [Next]_vars
  PROVE  OrderInv'
<1>T. /\ DOMAIN requests = 1 .. Len(requests) /\ Len(requests) \in Nat
      /\ DOMAIN responses = 1 .. Len(responses) /\ Len(responses) \in Nat
      /\ \A i \in DOMAIN requests : requests[i] \in Speeches
      /\ \A i \in DOMAIN responses : responses[i] \in Responses /\ responses[i].of \in Speeches
                                     /\ responses[i].number \in Nat
      /\ session.sent \in Nat /\ session.sent <= Chunks /\ Chunks \in Nat
      /\ NoSpeech \notin Speeches /\ NoSession.of = NoSpeech
  BY QueueTypes, Fields
<1>1. CASE UNCHANGED queues
  BY <1>1 DEF queues, OrderInv, Distinct, Untouched, Answered, Rising
<1>2. CASE Clears
  BY <1>2 DEF Clears, OrderInv, Distinct, Untouched, Answered, Rising
<1>3. ASSUME NEW r \in Replies, Asks(r), MayAsk(r)
      PROVE  OrderInv'
  <2>1. SpeechOf(r) \in Speeches /\ ~Known(SpeechOf(r))
    BY <1>3, NotAskedYet
  <2>2. /\ DOMAIN requests' = 1 .. Len(requests) + 1
        /\ \A i \in 1 .. Len(requests) : requests'[i] = requests[i]
        /\ requests'[Len(requests) + 1] = SpeechOf(r)
        /\ UNCHANGED <<responses, session, short>>
    BY <1>3, <2>1, AppendOf, QueueTypes DEF Asks
  <2>3. /\ \A i \in DOMAIN requests : requests[i] # SpeechOf(r)
        /\ session.of # SpeechOf(r) /\ SpeechOf(r) \notin short
        /\ \A i \in DOMAIN responses : responses[i].of # SpeechOf(r)
    BY <2>1 DEF Known, Has
  <2>4. Distinct'
    BY <1>T, <2>2, <2>3 DEF OrderInv, Distinct
  <2>5. Untouched'
    BY <1>T, <2>2, <2>3 DEF OrderInv, Untouched
  <2> QED BY <2>2, <2>4, <2>5 DEF OrderInv, Answered, Rising
<1>4. CASE Consumes
  <2>1. /\ DOMAIN responses' = 1 .. Len(responses) - 1
        /\ \A i \in DOMAIN responses' : responses'[i] = responses[i + 1] /\ i + 1 \in DOMAIN responses
        /\ UNCHANGED <<requests, session, short>>
    <3>1. /\ responses # << >> /\ responses' = Tail(responses) /\ UNCHANGED <<requests, session, short>>
      BY <1>4 DEF Consumes
    <3>2. /\ DOMAIN responses' = 1 .. Len(responses) - 1
          /\ \A i \in 1 .. Len(responses) - 1 : responses'[i] = responses[i + 1]
      BY <3>1, TailOf, QueueTypes
    <3> QED BY <3>1, <3>2, <1>T
  <2>2. Distinct' /\ Untouched'
    BY <2>1 DEF OrderInv, Distinct, Untouched
  <2>3. Answered'
    BY <2>1 DEF OrderInv, Answered
  <2>4. Rising'
    <3> SUFFICES ASSUME NEW i \in DOMAIN responses', NEW j \in DOMAIN responses', i < j,
                        responses'[i].of = responses'[j].of
                 PROVE  /\ responses'[i].is # "done"
                        /\ responses'[i].is = "audio" /\ responses'[j].is = "audio" =>
                             responses'[i].number < responses'[j].number
      BY DEF Rising
    <3>1. i + 1 \in DOMAIN responses /\ j + 1 \in DOMAIN responses /\ i + 1 < j + 1
      BY <2>1, <1>T
    <3> QED BY <2>1, <3>1 DEF OrderInv, Rising
  <2> QED BY <2>2, <2>3, <2>4 DEF OrderInv
<1>5. CASE TakesUp \/ Skips
  <2>0. requests # << >> /\ requests' = Tail(requests) /\ UNCHANGED <<responses, short>>
    BY <1>5 DEF TakesUp, Skips
  <2>1. /\ DOMAIN requests' = 1 .. Len(requests) - 1 /\ Len(requests) > 0
        /\ \A i \in 1 .. Len(requests) - 1 : requests'[i] = requests[i + 1]
        /\ Head(requests) = requests[1]
    BY <2>0, TailOf, QueueTypes
  <2>2. \A i \in DOMAIN requests' : /\ requests'[i] = requests[i + 1] /\ i + 1 \in DOMAIN requests
                                     /\ i + 1 # 1 /\ i \in Nat
    BY <1>T, <2>1
  <2>3. 1 \in DOMAIN requests
    BY <1>T, <2>1
  <2>4. Distinct'
    <3> SUFFICES ASSUME NEW i \in DOMAIN requests', NEW j \in DOMAIN requests',
                        requests'[i] = requests'[j]
                 PROVE  i = j
      BY DEF Distinct
    <3>1. i + 1 = j + 1
      BY <2>2 DEF OrderInv, Distinct
    <3> QED BY <2>2, <3>1
  <2>5. Untouched'
    <3>1. \A i \in DOMAIN requests' :
            /\ requests'[i] # requests[1] /\ requests'[i] # session.of /\ requests'[i] \notin short
            /\ \A j \in DOMAIN responses : responses[j].of # requests'[i]
      BY <2>2, <2>3 DEF OrderInv, Distinct, Untouched
    <3>2. session'.of \in {session.of, requests[1]}
      BY <1>5, <2>1 DEF TakesUp, Skips
    <3> QED BY <2>0, <3>1, <3>2 DEF Untouched
  <2>6. Answered'
    <3>1. CASE session' = session
      BY <2>0, <3>1 DEF OrderInv, Answered
    <3>2. CASE session' = [of |-> Head(requests), sent |-> 0]
      <4>1. \A j \in DOMAIN responses : responses[j].of # requests[1]
        BY <2>3 DEF OrderInv, Untouched
      <4> QED BY <2>0, <2>1, <3>2, <4>1 DEF Answered
    <3> QED BY <1>5, <3>1, <3>2 DEF TakesUp, Skips
  <2> QED BY <2>0, <2>4, <2>5, <2>6 DEF OrderInv, Rising
<1>6. ASSUME NEW is \in {"audio", "done", "error"}, NEW n \in 0 .. Chunks, Responds(is, n),
             is = "audio" => n > session.sent,
             \/ session' = NoSession
             \/ session' = session /\ is = "error" /\ n = 0
             \/ session'.of = session.of /\ session'.sent = n /\ is = "audio",
             short' \subseteq short \cup {session.of}
      PROVE  OrderInv'
  <2>1. /\ DOMAIN responses' = 1 .. Len(responses) + 1
        /\ \A i \in 1 .. Len(responses) : responses'[i] = responses[i]
        /\ responses'[Len(responses) + 1] = [is |-> is, of |-> session.of, number |-> n]
        /\ session.of \in Speeches
    BY <1>6, RespondedIs
  <2>2. requests' = requests /\ n \in Nat
    BY <1>6, <1>T DEF Responds
  <2>3. Distinct'
    BY <2>2 DEF OrderInv, Distinct
  <2>4. Untouched'
    <3>1. \A i \in DOMAIN requests : session'.of # requests[i] /\ requests[i] \notin short'
      BY <1>6, <1>T DEF OrderInv, Untouched
    <3>2. \A i \in DOMAIN requests : \A j \in DOMAIN responses' : responses'[j].of # requests[i]
      BY <1>T, <2>1 DEF OrderInv, Untouched
    <3> QED BY <2>2, <3>1, <3>2 DEF Untouched
  <2>5. Answered'
    <3>1. CASE session' = NoSession
      <4>1. \A i \in DOMAIN responses' : responses'[i].of # NoSpeech
        BY <1>T, <2>1
      <4> QED BY <1>T, <3>1, <4>1 DEF Answered
    <3>2. CASE session' = session /\ is = "error" /\ n = 0
      BY <1>T, <2>1, <3>2 DEF OrderInv, Answered
    <3>3. CASE session'.of = session.of /\ session'.sent = n /\ is = "audio"
      BY <1>6, <1>T, <2>1, <2>2, <3>3 DEF OrderInv, Answered
    <3> QED BY <1>6, <3>1, <3>2, <3>3
  <2>6. Rising'
    <3> SUFFICES ASSUME NEW i \in DOMAIN responses', NEW j \in DOMAIN responses', i < j,
                        responses'[i].of = responses'[j].of
                 PROVE  /\ responses'[i].is # "done"
                        /\ responses'[i].is = "audio" /\ responses'[j].is = "audio" =>
                             responses'[i].number < responses'[j].number
      BY DEF Rising
    <3>1. i \in DOMAIN responses /\ responses'[i] = responses[i]
      BY <1>T, <2>1
    <3>2. CASE j \in DOMAIN responses
      BY <1>T, <2>1, <3>1, <3>2 DEF OrderInv, Rising
    <3>3. CASE j \notin DOMAIN responses
      <4>1. responses'[j] = [is |-> is, of |-> session.of, number |-> n]
        BY <1>T, <2>1, <3>3
      <4>2. responses[i].is # "done" /\ responses[i].number <= session.sent
        BY <3>1, <4>1 DEF OrderInv, Answered
      <4> QED BY <1>6, <1>T, <2>2, <3>1, <4>1, <4>2
    <3> QED BY <3>2, <3>3
  <2> QED BY <2>3, <2>4, <2>5, <2>6 DEF OrderInv
<1>7. CASE MakesChunk
  <2>1. session.sent + 1 \in 0 .. Chunks /\ session.sent + 1 > session.sent
    BY <1>T, <1>7 DEF MakesChunk
  <2> QED BY <1>6, <1>7, <2>1 DEF MakesChunk
<1>8. CASE EndsIt \/ Fails
  <2>1. 0 \in 0 .. Chunks
    BY <1>T
  <2> QED BY <1>6, <1>8, <2>1 DEF EndsIt, Fails
<1> QED BY <1>1, <1>2, <1>3, <1>4, <1>5, <1>7, <1>8, QueueSteps

(***************************************************************************)
(* Without an error, nothing is left over for another speech.              *)
(***************************************************************************)
LEMMA EndedIsEmpty ==
  ASSUME TypeOK, OrderInv, CleanInv, ~dirty, NEW r \in Replies, ReadDone(r)
  PROVE  Empty'
<1>T. /\ DOMAIN requests = 1 .. Len(requests) /\ Len(requests) \in Nat
      /\ DOMAIN responses = 1 .. Len(responses) /\ Len(responses) \in Nat
      /\ requests \in Seq(Speeches)
  BY QueueTypes
<1>1. /\ responses # << >> /\ responses[1].is = "done" /\ responses[1].of = SpeechOf(r)
      /\ responses' = Tail(responses) /\ UNCHANGED <<requests, session>> /\ task[r] = "reading"
      /\ Len(responses) > 0
  BY TailOf, QueueTypes DEF ReadDone
<1>2. /\ \A i \in DOMAIN requests : requests[i] = SpeechOf(r)
      /\ session = NoSession \/ session.of = SpeechOf(r)
      /\ \A i \in DOMAIN responses : responses[i].of = SpeechOf(r)
  BY <1>1 DEF CleanInv
<1>3. session = NoSession
  BY <1>1, <1>2, <1>T DEF OrderInv, Answered
<1>4. requests = << >>
  <2>1. Len(requests) = 0
    BY <1>1, <1>2, <1>T DEF OrderInv, Untouched
  <2> QED BY <2>1, <1>T
<1>5. Len(responses) = 1
  BY <1>1, <1>2, <1>T DEF OrderInv, Rising
<1>6. Tail(responses) = << >>
  BY <1>5, <1>1, TailOf, QueueTypes
<1> QED BY <1>1, <1>3, <1>4, <1>6 DEF Empty

LEMMA CleanStep ==
  ASSUME TypeOK, TypeOK', TaskInv, TaskInv', OrderInv, CleanInv, [Next]_vars
  PROVE  CleanInv'
<1> SUFFICES ASSUME ~dirty'
             PROVE  /\ lock' = Nobody => Empty'
                    /\ \A r \in Replies : task'[r] = "reading" =>
                         /\ \A i \in DOMAIN requests' : requests'[i] = SpeechOf(r)'
                         /\ session' = NoSession \/ session'.of = SpeechOf(r)'
                         /\ \A i \in DOMAIN responses' : responses'[i].of = SpeechOf(r)'
  BY DEF CleanInv
<1>0. Nobody \notin Replies
  BY SpeechConstants
<1>E. CASE Empty'
  BY <1>E DEF Empty
<1>1. ASSUME NEW t, \A i \in DOMAIN requests : requests[i] = t,
             session = NoSession \/ session.of = t, \A i \in DOMAIN responses : responses[i].of = t,
             TakesUp \/ Skips \/ MakesChunk \/ EndsIt \/ Fails \/ Consumes
      PROVE  /\ \A i \in DOMAIN requests' : requests'[i] = t
             /\ session' = NoSession \/ session'.of = t
             /\ \A i \in DOMAIN responses' : responses'[i].of = t
  <2>1. CASE Consumes
    BY <1>1, <2>1, TailOf, QueueTypes DEF Consumes
  <2>2. CASE TakesUp \/ Skips
    <3>0. requests # << >> /\ requests' = Tail(requests)
      BY <2>2 DEF TakesUp, Skips
    <3>1. \A i \in DOMAIN requests' : requests'[i] = t
      BY <1>1, <3>0, TailOf, QueueTypes
    <3>2. Head(requests) = t
      BY <1>1, <3>0, TailOf, QueueTypes
    <3> QED BY <1>1, <2>2, <3>1, <3>2 DEF TakesUp, Skips
  <2>3. CASE MakesChunk \/ EndsIt \/ Fails
    <3>1. session.of = t /\ requests' = requests /\ (session' = NoSession \/ session'.of = t)
      BY <1>1, <2>3 DEF MakesChunk, EndsIt, Fails, Responds
    <3>2. PICK is \in {"audio", "done", "error"}, n \in 0 .. Chunks : Responds(is, n)
      <4>1. MakesChunk => session.sent + 1 \in 0 .. Chunks
        BY QueueTypes, Fields DEF MakesChunk
      <4>2. 0 \in 0 .. Chunks
        BY Fields
      <4> QED BY <2>3, <4>1, <4>2 DEF MakesChunk, EndsIt, Fails
    <3>3. \A i \in DOMAIN responses' : responses'[i].of = t
      <4>1. /\ DOMAIN responses' = 1 .. Len(responses) + 1
            /\ \A i \in 1 .. Len(responses) : responses'[i] = responses[i]
            /\ responses'[Len(responses) + 1] = [is |-> is, of |-> session.of, number |-> n]
        BY <3>2, RespondedIs
      <4>2. DOMAIN responses = 1 .. Len(responses) /\ Len(responses) \in Nat
        BY QueueTypes
      <4> QED BY <1>1, <3>1, <4>1, <4>2
    <3> QED BY <1>1, <3>1, <3>3
  <2> QED BY <1>1, <2>1, <2>2, <2>3
<1>2. CASE TakeRequest \/ SkipRequest \/ MakeChunk \/ EndSession \/ ProviderError \/ WorkerEnds
  <2>1. UNCHANGED <<tasks, dirty>> /\ (TakesUp \/ Skips \/ MakesChunk \/ EndsIt \/ Fails)
    BY <1>2, WorkerSteps
  <2>2. ~Empty
    BY <2>1 DEF TakesUp, Skips, MakesChunk, EndsIt, Fails, Responds, Empty
  <2>3. lock' # Nobody
    BY <2>1, <2>2 DEF CleanInv, tasks
  <2>4. ASSUME NEW r \in Replies, task'[r] = "reading"
        PROVE  /\ \A i \in DOMAIN requests' : requests'[i] = SpeechOf(r)'
               /\ session' = NoSession \/ session'.of = SpeechOf(r)'
               /\ \A i \in DOMAIN responses' : responses'[i].of = SpeechOf(r)'
    <3>1. SpeechOf(r)' = SpeechOf(r) /\ task[r] = "reading" /\ ~dirty
      BY <2>1, <2>4 DEF tasks, SpeechOf
    <3>2. /\ \A i \in DOMAIN requests : requests[i] = SpeechOf(r)
          /\ session = NoSession \/ session.of = SpeechOf(r)
          /\ \A i \in DOMAIN responses : responses[i].of = SpeechOf(r)
      BY <3>1 DEF CleanInv
    <3> QED BY <1>1, <2>1, <3>1, <3>2
  <2> QED BY <2>3, <2>4
<1>3. ASSUME NEW q \in Replies, Forget
      PROVE  Empty'
  BY <1>3 DEF Forget, Empty
<1>4. ASSUME NEW q \in Replies, Synthesize(q) \/ WorkerReady(q), ~Forget
      PROVE  /\ lock' = Nobody => Empty'
             /\ \A r \in Replies : task'[r] = "reading" =>
                  /\ \A i \in DOMAIN requests' : requests'[i] = SpeechOf(r)'
                  /\ session' = NoSession \/ session'.of = SpeechOf(r)'
                  /\ \A i \in DOMAIN responses' : responses'[i].of = SpeechOf(r)'
  <2>1. /\ requests' = Append(requests, SpeechOf(q)) /\ UNCHANGED <<responses, session, dirty, attempt, parts>>
        /\ lock' = q
    BY <1>4 DEF Synthesize, WorkerReady, Ask, history, TypeOK
  <2>2. Empty
    BY <1>4, <2>1 DEF Synthesize, WorkerReady, CleanInv, TaskInv
  <2>3. SpeechOf(q)' = SpeechOf(q)
    BY <2>1 DEF SpeechOf
  <2>4. /\ \A i \in DOMAIN requests' : requests'[i] = SpeechOf(q)
        /\ responses' = << >> /\ session' = NoSession
    BY <2>1, <2>2 DEF Empty
  <2>5. \A r \in Replies : task'[r] = "reading" => r = q
    BY <2>1 DEF TypeOK
  <2> QED BY <1>0, <2>1, <2>3, <2>4, <2>5
<1>5. ASSUME NEW q \in Replies, ReadAudio(q)
      PROVE  /\ lock' = Nobody => Empty'
             /\ \A r \in Replies : task'[r] = "reading" =>
                  /\ \A i \in DOMAIN requests' : requests'[i] = SpeechOf(r)'
                  /\ session' = NoSession \/ session'.of = SpeechOf(r)'
                  /\ \A i \in DOMAIN responses' : responses'[i].of = SpeechOf(r)'
  <2>1. /\ Consumes /\ UNCHANGED <<task, lock, attempt, parts, dirty>> /\ task[q] = "reading"
    BY <1>5 DEF ReadAudio, Consumes
  <2>2. lock' # Nobody
    BY <1>0, <2>1 DEF TypeOK
  <2>3. \A r \in Replies : SpeechOf(r)' = SpeechOf(r)
    BY <2>1 DEF SpeechOf
  <2> QED BY <1>1, <2>1, <2>2, <2>3 DEF CleanInv
<1>6. ASSUME NEW q \in Replies, ReadDone(q) \/ ReadError(q)
      PROVE  Empty'
  <2>1. ReadDone(q) /\ ~dirty
    BY <1>6 DEF ReadDone, ReadError
  <2> QED BY <2>1, EndedIsEmpty
<1>7. CASE UNCHANGED <<tasks, requests, responses, session, dirty>>
  <2>1. \A r \in Replies : SpeechOf(r)' = SpeechOf(r)
    BY <1>7 DEF SpeechOf, tasks
  <2> QED BY <1>7, <2>1 DEF CleanInv, tasks, Empty
<1>8. ASSUME NEW q \in Replies,
             Begin(q) \/ StartTimesOut(q) \/ ReadTimesOut(q) \/ Publish(q)
      PROVE  /\ lock' = Nobody => Empty'
             /\ \A r \in Replies : task'[r] = "reading" =>
                  /\ \A i \in DOMAIN requests' : requests'[i] = SpeechOf(r)'
                  /\ session' = NoSession \/ session'.of = SpeechOf(r)'
                  /\ \A i \in DOMAIN responses' : responses'[i].of = SpeechOf(r)'
  <2>1. /\ UNCHANGED <<parts, lock, requests, responses, session, dirty>>
        /\ task'[q] # "reading"
        /\ \A r \in Replies \ {q} : task'[r] = task[r] /\ attempt'[r] = attempt[r]
    BY <1>8 DEF Begin, StartTimesOut, ReadTimesOut, GiveUpWaiting, Publish, workerVars, history, TypeOK
  <2>2. \A r \in Replies \ {q} : SpeechOf(r)' = SpeechOf(r)
    BY <2>1 DEF SpeechOf
  <2> QED BY <2>1, <2>2 DEF CleanInv, Empty
<1>9. ASSUME NEW q \in Replies, StartWorker(q)
      PROVE  UNCHANGED <<tasks, requests, responses, session, dirty>>
  BY <1>9 DEF StartWorker, history
<1>10. ASSUME NEW q \in Replies, WorkerNotReady(q) \/ Stop(q)
       PROVE  Empty'
  BY <1>3, <1>10 DEF WorkerNotReady, Stop
<1>11. CASE Reconfigure
  BY <1>11 DEF Reconfigure, Forget, Empty
<1>12. CASE UNCHANGED vars
  BY <1>7, <1>12 DEF vars, workerVars, history
<1> QED BY <1>E, <1>2, <1>3, <1>4, <1>5, <1>6, <1>7, <1>8, <1>9, <1>10, <1>11, <1>12 DEF Next, Speak

-----------------------------------------------------------------------------
(***************************************************************************)
(* What is collected of a speech, and what is still to come.               *)
(***************************************************************************)
LEMMA NothingYet ==
  ASSUME chunks = <<>>, NEW t, session.of = t => session.sent = 0,
         \A i \in DOMAIN responses : responses[i].of # t
  PROVE  Collected(t) /\ NothingMissing(t)
  BY Fields DEF Collected, NothingMissing, Coming, Has

LEMMA Answers ==
  ASSUME TypeOK, TypeOK', OrderInv, NEW t \in Speeches, UNCHANGED chunks,
         Collected(t), NothingMissing(t),
         NEW is \in {"audio", "done", "error"}, NEW n \in 0 .. Chunks, Responds(is, n),
         is = "audio" => n = session.sent + 1,
         is = "done" => session.sent = Chunks \/ session.of \in short',
         \/ session' = NoSession
         \/ session' = session /\ is = "error"
         \/ session'.of = session.of /\ session'.sent = n /\ is = "audio",
         short \subseteq short'
  PROVE  Collected(t)' /\ NothingMissing(t)'
<1>1. /\ DOMAIN responses' = 1 .. Len(responses) + 1
      /\ \A i \in 1 .. Len(responses) : responses'[i] = responses[i]
      /\ responses'[Len(responses) + 1] = [is |-> is, of |-> session.of, number |-> n]
      /\ session.of \in Speeches
  BY RespondedIs
<1>2. /\ DOMAIN responses = 1 .. Len(responses) /\ Len(responses) \in Nat
      /\ session.sent \in Nat /\ n \in Nat /\ NoSession.of = NoSpeech /\ t # NoSpeech
      /\ \A i \in DOMAIN chunks : chunks[i].number \in Nat
      /\ Chunks \in Nat
  BY QueueTypes, Fields
<1>3. requests' = requests
  BY DEF Responds
<1>4. \A k : Coming(t, k) => Coming(t, k)'
  BY <1>1, <1>2 DEF Coming, Has
<1>5. is = "audio" /\ session.of = t => Coming(t, n)'
  <2>1. Len(responses) + 1 \in DOMAIN responses'
    BY <1>1, <1>2
  <2> QED BY <1>1, <2>1 DEF Coming, Has, Audio
<1>6. Collected(t)'
  <2>1. \A i \in DOMAIN chunks : session'.of = t => chunks[i].number <= session'.sent
    BY <1>2 DEF Collected
  <2>2. ASSUME NEW i \in DOMAIN chunks, NEW j \in DOMAIN responses',
               responses'[j].is = "audio", responses'[j].of = t
        PROVE  chunks[i].number < responses'[j].number
    <3>1. CASE j \in DOMAIN responses
      BY <1>1, <1>2, <2>2, <3>1 DEF Collected
    <3>2. CASE j \notin DOMAIN responses
      <4>1. j = Len(responses) + 1
        BY <1>1, <1>2, <3>2
      <4>2. is = "audio" /\ session.of = t /\ responses'[j].number = session.sent + 1
        BY <1>1, <2>2, <4>1
      <4>3. chunks[i].number <= session.sent
        BY <4>2 DEF Collected
      <4> QED BY <1>2, <4>2, <4>3
    <3> QED BY <3>1, <3>2
  <2> QED BY <1>3, <2>1, <2>2 DEF Collected, Has
<1>7. NothingMissing(t)'
  <2>1. session'.of = t => \A k \in 1 .. session'.sent : Coming(t, k)'
    <3>1. CASE session' = NoSession
      BY <1>2, <3>1
    <3>2. CASE session' = session
      BY <1>4, <3>2 DEF NothingMissing
    <3>3. CASE session'.of = session.of /\ session'.sent = n /\ is = "audio"
      <4>1. \A k \in 1 .. n : k \in 1 .. session.sent \/ k = n
        BY <1>2, <3>3
      <4> QED BY <1>4, <1>5, <3>3, <4>1 DEF NothingMissing
    <3> QED BY <3>1, <3>2, <3>3
  <2>2. ASSUME NEW i \in DOMAIN responses', responses'[i].is = "done", responses'[i].of = t
        PROVE  t \in short' \/ \A k \in 1 .. Chunks : Coming(t, k)'
    <3>1. CASE i \in DOMAIN responses
      BY <1>1, <1>2, <1>4, <2>2, <3>1 DEF NothingMissing
    <3>2. CASE i \notin DOMAIN responses
      <4>1. is = "done" /\ session.of = t
        BY <1>1, <1>2, <2>2, <3>2
      <4> QED BY <1>4, <4>1 DEF NothingMissing
    <3> QED BY <3>1, <3>2
  <2> QED BY <2>1, <2>2 DEF NothingMissing
<1> QED BY <1>6, <1>7

LEMMA WorkerReading ==
  ASSUME TypeOK, TypeOK', OrderInv, NEW t \in Speeches, UNCHANGED chunks,
         Collected(t), NothingMissing(t),
         TakesUp \/ Skips \/ MakesChunk \/ EndsIt \/ Fails
  PROVE  Collected(t)' /\ NothingMissing(t)'
<1>0. session.sent \in Nat /\ Chunks \in Nat /\ session.sent <= Chunks /\ NoSession.of # t
  BY QueueTypes, Fields
<1>1. CASE TakesUp \/ Skips
  <2>1. requests # << >> /\ requests' = Tail(requests) /\ UNCHANGED <<responses, short>>
    BY <1>1 DEF TakesUp, Skips
  <2>2. /\ Has(requests, t)' => Has(requests, t)
        /\ Head(requests) = t => Has(requests, t)
    BY <2>1, TailOf, QueueTypes DEF Has
  <2>3. CASE session' = session
    BY <2>1, <2>2, <2>3 DEF Collected, NothingMissing, Coming, Has
  <2>4. CASE session' = [of |-> Head(requests), sent |-> 0] /\ Head(requests) # t
    BY <2>1, <2>2, <2>4 DEF Collected, NothingMissing, Coming, Has
  <2>5. CASE session' = [of |-> Head(requests), sent |-> 0] /\ Head(requests) = t
    <3>1. Len(chunks) = 0 /\ chunks = << >>
      <4>1. \A i \in DOMAIN chunks : FALSE
        BY <2>2, <2>5 DEF Collected
      <4>2. DOMAIN chunks = 1 .. Len(chunks) /\ Len(chunks) \in Nat /\ chunks \in Seq(Responses)
        BY QueueTypes
      <4>3. Len(chunks) = 0
        BY <4>1, <4>2
      <4> QED BY <4>2, <4>3
    <3>2. \A i \in DOMAIN responses : responses[i].of # t
      BY <2>2, <2>5 DEF OrderInv, Untouched, Has
    <3> QED BY <2>1, <2>5, <3>1, <3>2 DEF Collected, NothingMissing, Coming, Has
  <2> QED BY <1>1, <2>3, <2>4, <2>5 DEF TakesUp, Skips
<1>2. CASE MakesChunk
  <2>1. session.sent + 1 \in 0 .. Chunks
    BY <1>0, <1>2 DEF MakesChunk
  <2> QED BY <1>2, <2>1, Answers DEF MakesChunk
<1>3. CASE EndsIt
  <2>1. 0 \in 0 .. Chunks
    BY <1>0
  <2> QED BY <1>3, <2>1, Answers DEF EndsIt
<1>4. CASE Fails
  <2>1. 0 \in 0 .. Chunks
    BY <1>0
  <2> QED BY <1>4, <2>1, Answers DEF Fails
<1> QED BY <1>1, <1>2, <1>3, <1>4

LEMMA AudioReading ==
  ASSUME TypeOK, TypeOK', TaskInv, OrderInv, CleanInv, NEW r \in Replies, r \notin spoilt',
         ReadAudio(r), Collected(SpeechOf(r)), NothingMissing(SpeechOf(r))
  PROVE  Collected(SpeechOf(r))' /\ NothingMissing(SpeechOf(r))'
<1> DEFINE t == SpeechOf(r)
           item == Head(responses)
<1>1. t \in Speeches /\ SpeechOf(r)' = t
  BY SpeechTypes DEF ReadAudio, TaskInv, SpeechOf
<1>2. /\ task[r] = "reading" /\ responses # << >> /\ responses' = Tail(responses)
      /\ UNCHANGED <<requests, session, short>>
      /\ item.is = "audio" \/ (item.is = "done" /\ item.of # t)
  BY DEF ReadAudio
<1>3. /\ DOMAIN responses = 1 .. Len(responses) /\ Len(responses) \in Nat \ {0}
      /\ DOMAIN responses' = 1 .. Len(responses) - 1 /\ item = responses[1]
      /\ \A i \in 1 .. Len(responses) - 1 : responses'[i] = responses[i + 1]
      /\ item \in Responses
  BY <1>2, TailOf DEF TypeOK
<1>4. /\ \A i \in DOMAIN responses' : i + 1 \in DOMAIN responses /\ responses'[i] = responses[i + 1] /\ 1 < i + 1
      /\ \A i \in DOMAIN responses : i = 1 \/ (i - 1 \in DOMAIN responses' /\ responses'[i - 1] = responses[i])
      /\ 1 \in DOMAIN responses
  BY <1>3
<1>5. Takes(item, r) => item.is = "audio" /\ item.of = t
  <2>1. ASSUME Takes(item, r), ~tagged
        PROVE  item.of = t
    <3>1. ~dirty
      BY <2>1 DEF ReadAudio
    <3> QED BY <1>2, <1>3, <1>4, <3>1 DEF CleanInv
  <2> QED BY <2>1 DEF Takes
<1>6. CASE Takes(item, r)
  <2>1. chunks' = Append(chunks, item)
    BY <1>6 DEF ReadAudio
  <2>2. /\ DOMAIN chunks = 1 .. Len(chunks) /\ Len(chunks) \in Nat
        /\ DOMAIN chunks' = 1 .. Len(chunks) + 1 /\ chunks'[Len(chunks) + 1] = item
        /\ \A i \in 1 .. Len(chunks) : chunks'[i] = chunks[i]
    <3>1. chunks \in Seq(Responses) /\ item \in Responses
      BY <1>3 DEF TypeOK
    <3> HIDE DEF item
    <3> QED BY <2>1, <3>1, AppendOf
  <2>3. item.is = "audio" /\ item.of = t /\ item.number \in Nat /\ item.number <= Chunks
    BY <1>3, <1>5, <1>6, Fields
  <2>4. \A i \in DOMAIN chunks : chunks[i].number < item.number
    BY <1>3, <1>4, <2>3 DEF Collected
  <2>5. \A j \in DOMAIN responses' : responses'[j].is = "audio" /\ responses'[j].of = t =>
          item.number < responses'[j].number
    BY <1>3, <1>4, <2>3 DEF OrderInv, Rising
  <2>6. session.of = t => item.number <= session.sent
    BY <1>3, <1>4, <2>3 DEF OrderInv, Answered
  <2>7. ~Has(requests, t)
    BY <1>3, <1>4, <2>3 DEF OrderInv, Untouched, Has
  <2>8. Collected(t)'
    <3>1. \A i \in DOMAIN chunks' : chunks'[i].is = "audio" /\ chunks'[i].of = t
      BY <2>2, <2>3 DEF Collected
    <3>2. \A i, j \in DOMAIN chunks' : i < j => chunks'[i].number < chunks'[j].number
      <4> SUFFICES ASSUME NEW i \in DOMAIN chunks', NEW j \in DOMAIN chunks', i < j
                   PROVE  chunks'[i].number < chunks'[j].number
        OBVIOUS
      <4>1. i \in DOMAIN chunks /\ chunks'[i] = chunks[i]
        BY <2>2
      <4>2. CASE j \in DOMAIN chunks
        BY <2>2, <4>1, <4>2 DEF Collected
      <4>3. CASE j \notin DOMAIN chunks
        <5>1. chunks'[j] = item
          BY <2>2, <4>3
        <5> QED BY <2>4, <4>1, <5>1
      <4> QED BY <4>2, <4>3
    <3>3. ASSUME NEW i \in DOMAIN chunks'
          PROVE  /\ ~Has(requests, t)
                 /\ session.of = t => chunks'[i].number <= session.sent
                 /\ \A j \in DOMAIN responses' : responses'[j].is = "audio" /\ responses'[j].of = t =>
                      chunks'[i].number < responses'[j].number
      <4>1. CASE i \in DOMAIN chunks
        BY <1>4, <2>2, <2>7, <4>1 DEF Collected
      <4>2. CASE i \notin DOMAIN chunks
        <5>1. chunks'[i] = item
          BY <2>2, <4>2
        <5> QED BY <2>5, <2>6, <2>7, <5>1
      <4> QED BY <4>1, <4>2
    <3> QED BY <1>1, <1>2, <3>1, <3>2, <3>3 DEF Collected, Has
  <2>9. ASSUME NEW k, Coming(t, k)
        PROVE  Coming(t, k)'
    <3>1. CASE Has(chunks, Audio(t, k))
      BY <1>1, <2>2, <3>1 DEF Coming, Has, Audio
    <3>2. CASE Has(responses, Audio(t, k))
      <4>1. PICK i \in DOMAIN responses : responses[i] = Audio(t, k)
        BY <3>2 DEF Has
      <4>2. CASE i = 1
        <5>1. Len(chunks) + 1 \in DOMAIN chunks' /\ chunks'[Len(chunks) + 1] = Audio(t, k)
          BY <1>3, <2>2, <4>1, <4>2
        <5> QED BY <1>1, <5>1 DEF Coming, Has, Audio
      <4>3. CASE i # 1
        BY <1>1, <1>4, <4>1, <4>3 DEF Coming, Has, Audio
      <4> QED BY <4>2, <4>3
    <3> QED BY <2>9, <3>1, <3>2 DEF Coming
  <2>10. NothingMissing(t)'
    BY <1>1, <1>2, <1>4, <2>9 DEF NothingMissing
  <2> QED BY <1>1, <2>8, <2>10
<1>7. CASE ~Takes(item, r)
  <2>1. chunks' = chunks
    BY <1>7 DEF ReadAudio
  <2>2. Collected(t)'
    BY <1>1, <1>2, <1>4, <2>1 DEF Collected, Has
  <2>3. \A k : item # Audio(t, k)
    BY <1>2, <1>7 DEF Takes, Audio
  <2>4. ASSUME NEW k, Coming(t, k)
        PROVE  Coming(t, k)'
    BY <1>1, <1>3, <1>4, <2>1, <2>3, <2>4 DEF Coming, Has, Audio
  <2>5. NothingMissing(t)'
    BY <1>1, <1>2, <1>4, <2>4 DEF NothingMissing
  <2> QED BY <1>1, <2>2, <2>5
<1> QED BY <1>6, <1>7

LEMMA ReadingStep ==
  ASSUME TypeOK, TypeOK', TaskInv, AskedInv, OrderInv, CleanInv, ReadingInv, [Next]_vars
  PROVE  ReadingInv'
<1> SUFFICES ASSUME NEW r \in Replies, task'[r] = "reading", r \notin spoilt'
             PROVE  Collected(SpeechOf(r))' /\ NothingMissing(SpeechOf(r))'
  BY DEF ReadingInv
<1>0. lock' = r /\ Nobody \notin Replies
  BY SpeechConstants DEF TypeOK
<1>U. ASSUME UNCHANGED <<task, attempt, parts, spoilt, chunks>>
      PROVE  /\ task[r] = "reading" /\ SpeechOf(r)' = SpeechOf(r) /\ SpeechOf(r) \in Speeches
             /\ Collected(SpeechOf(r)) /\ NothingMissing(SpeechOf(r))
  BY <1>U, SpeechTypes DEF SpeechOf, TaskInv, ReadingInv
<1>V. ASSUME UNCHANGED <<task, attempt, parts, spoilt, chunks, requests, responses, session, short>>
      PROVE  Collected(SpeechOf(r))' /\ NothingMissing(SpeechOf(r))'
  BY <1>U, <1>V DEF Collected, NothingMissing, Coming, Has, Audio
<1>1. CASE TakeRequest \/ SkipRequest \/ MakeChunk \/ EndSession \/ ProviderError \/ WorkerEnds
  <2>1. UNCHANGED <<tasks, spoilt>> /\ (TakesUp \/ Skips \/ MakesChunk \/ EndsIt \/ Fails)
    BY <1>1, WorkerSteps
  <2>2. Collected(SpeechOf(r))' /\ NothingMissing(SpeechOf(r))'
    <3>0. PICK t \in Speeches : t = SpeechOf(r)
      BY <1>U, <2>1 DEF tasks
    <3>1. SpeechOf(r)' = t /\ Collected(t) /\ NothingMissing(t) /\ UNCHANGED chunks
      BY <1>U, <2>1, <3>0 DEF tasks
    <3>2. Collected(t)' /\ NothingMissing(t)'
      BY <2>1, <3>1, WorkerReading
    <3> QED BY <3>1, <3>2 DEF Collected, NothingMissing, Coming, Audio
  <2> QED BY <2>2
<1>2. CASE Reconfigure
  BY <1>0, <1>2 DEF Reconfigure, tasks
<1>3. ASSUME NEW q \in Replies, Synthesize(q) \/ WorkerReady(q)
      PROVE  Collected(SpeechOf(r))' /\ NothingMissing(SpeechOf(r))'
  <2>1. q = r /\ lock' = q
    BY <1>0, <1>3 DEF Synthesize, WorkerReady, TypeOK
  <2>2. /\ Ask(r) /\ MayAsk(r)
        /\ UNCHANGED <<responses, session, short, chunks, attempt, parts>>
    BY <1>3, <2>1 DEF Synthesize, WorkerReady, MayAsk, TypeOK, TaskInv, history
  <2>3. chunks = << >>
    BY <1>3, <2>1 DEF Synthesize, WorkerReady, TaskInv, TypeOK
  <2>4. SpeechOf(r)' = SpeechOf(r) /\ SpeechOf(r) \in Speeches /\ ~Known(SpeechOf(r))
    BY <2>2, NotAskedYet DEF SpeechOf
  <2> QED BY <2>2, <2>3, <2>4 DEF Known, Collected, NothingMissing
<1>4. ASSUME NEW q \in Replies, ReadAudio(q)
      PROVE  Collected(SpeechOf(r))' /\ NothingMissing(SpeechOf(r))'
  <2>1. q = r
    BY <1>0, <1>4 DEF ReadAudio, TypeOK
  <2>2. r \notin spoilt /\ task[r] = "reading"
    BY <1>4, <2>1 DEF ReadAudio
  <2> QED BY <1>4, <2>1, <2>2, AudioReading DEF ReadingInv
<1>5. ASSUME NEW q \in Replies, ReadDone(q) \/ ReadError(q) \/ WorkerNotReady(q) \/ Stop(q)
      PROVE  FALSE
  <2>1. lock' = Nobody
    BY <1>5 DEF ReadDone, ReadError, WorkerNotReady, Stop, Leave
  <2> QED BY <1>0, <2>1
<1>6. ASSUME NEW q \in Replies,
             Begin(q) \/ StartWorker(q) \/ StartTimesOut(q) \/ ReadTimesOut(q) \/ Publish(q)
      PROVE  Collected(SpeechOf(r))' /\ NothingMissing(SpeechOf(r))'
  <2>1. /\ task[r] = "reading" /\ attempt'[r] = attempt[r] /\ parts'[r] = parts[r]
        /\ UNCHANGED <<spoilt, chunks, requests, responses, session, short>>
    BY <1>6 DEF Begin, StartWorker, StartTimesOut, ReadTimesOut, GiveUpWaiting, Publish, tasks,
                workerVars, history, TypeOK
  <2>2. SpeechOf(r)' = SpeechOf(r)
    BY <2>1 DEF SpeechOf
  <2>3. Collected(SpeechOf(r)) /\ NothingMissing(SpeechOf(r))
    BY <2>1 DEF ReadingInv
  <2> QED BY <2>1, <2>2, <2>3 DEF Collected, NothingMissing, Coming, Has, Audio
<1>7. CASE UNCHANGED vars
  BY <1>V, <1>7 DEF vars, tasks, workerVars, history
<1> QED BY <1>1, <1>2, <1>3, <1>4, <1>5, <1>6, <1>7 DEF Next, Speak

-----------------------------------------------------------------------------
(***************************************************************************)
(* The segments that are done, and the recording.                          *)
(***************************************************************************)
Own(r, wav, done) ==
  /\ \A i \in DOMAIN wav : /\ wav[i].is = "audio" /\ wav[i].of.reply = r
                           /\ wav[i].of.attempt = attempt[r] /\ wav[i].of.segment <= done
  /\ \A i, j \in DOMAIN wav : i < j => Precedes(wav[i], wav[j])
  /\ \A n \in 1 .. done :
       Speech(r, n) \in short \/ \A k \in 1 .. Chunks : Has(wav, Audio(Speech(r, n), k))

LEMMA PartsAreOwn == PartsInv <=> \A r \in Replies \ spoilt : Own(r, parts[r].audio, parts[r].done)
  BY DEF PartsInv, Own

LEMMA DoneIsComplete ==
  ASSUME TypeOK, OrderInv, NEW t, NothingMissing(t), responses # <<>>,
         Head(responses).is = "done", Head(responses).of = t
  PROVE  t \in short \/ \A k \in 1 .. Chunks : Has(chunks, Audio(t, k))
<1>1. /\ DOMAIN responses = 1 .. Len(responses) /\ Len(responses) \in Nat \ {0}
      /\ Head(responses) = responses[1] /\ 1 \in DOMAIN responses
  BY TailOf, QueueTypes
<1>2. ASSUME NEW k, Has(responses, Audio(t, k))
      PROVE  FALSE
  <2>1. PICK i \in DOMAIN responses : responses[i] = Audio(t, k)
    BY <1>2 DEF Has
  <2>2. i # 1
    BY <1>1, <2>1 DEF Audio
  <2>3. 1 < i /\ responses[1].of = responses[i].of
    BY <1>1, <2>1, <2>2 DEF Audio
  <2> QED BY <1>1, <2>3 DEF OrderInv, Rising
<1> QED BY <1>1, <1>2 DEF NothingMissing, Coming

LEMMA HeardIsOwn ==
  ASSUME TypeOK, TaskInv, OrderInv, ReadingInv, PartsInv, NEW r \in Replies \ spoilt,
         ReadDone(r), Heard(r), short' = short
  PROVE  Own(r, parts[r].audio, parts[r].done)'
<1> DEFINE t    == SpeechOf(r)
           old  == parts[r].audio
           done == parts[r].done
           wav  == old \o chunks
<1>1. /\ task[r] = "reading" /\ responses # << >>
      /\ Head(responses).is = "done" /\ Head(responses).of = t
  BY DEF ReadDone
<1>2. /\ t \in Speeches /\ t.reply = r /\ t.segment = done + 1 /\ t.attempt = attempt[r]
  BY <1>1, SpeechTypes DEF TaskInv
<1>3. done \in Nat
  <2>1. done \in 0 .. Segments /\ Segments \in Nat
    BY PartsTypes, Fields
  <2> HIDE DEF done
  <2> QED BY <2>1
<1>4. /\ attempt'[r] = attempt[r] /\ parts'[r].done = done + 1 /\ parts'[r].audio = wav
  BY DEF Heard
<1>5. /\ DOMAIN old = 1 .. Len(old) /\ Len(old) \in Nat /\ DOMAIN chunks = 1 .. Len(chunks)
      /\ Len(chunks) \in Nat /\ DOMAIN wav = 1 .. Len(old) + Len(chunks)
      /\ \A i \in 1 .. Len(old) : wav[i] = old[i]
      /\ \A i \in 1 .. Len(chunks) : wav[Len(old) + i] = chunks[i]
  <2>1. old \in Seq(Responses) /\ chunks \in Seq(Responses)
    BY PartsTypes DEF TypeOK
  <2> HIDE DEF old
  <2> QED BY <2>1, JoinOf
<1>6. /\ Own(r, old, done) /\ Collected(t) /\ NothingMissing(t)
  BY <1>1, PartsAreOwn DEF ReadingInv
<1>7. t \in short \/ \A k \in 1 .. Chunks : Has(chunks, Audio(t, k))
  BY <1>1, <1>6, DoneIsComplete
<1>8. t = [reply |-> r, segment |-> done + 1, attempt |-> attempt[r]]
  BY DEF SpeechOf
<1> HIDE DEF t, old, done, wav
<1>9. \A i \in DOMAIN wav : \/ i \in DOMAIN old /\ wav[i] = old[i]
                            \/ i > Len(old) /\ i - Len(old) \in DOMAIN chunks /\ wav[i] = chunks[i - Len(old)]
  <2> SUFFICES ASSUME NEW i \in DOMAIN wav, i \notin DOMAIN old
               PROVE  i > Len(old) /\ i - Len(old) \in DOMAIN chunks /\ wav[i] = chunks[i - Len(old)]
    BY <1>5
  <2>1. i > Len(old) /\ i - Len(old) \in 1 .. Len(chunks) /\ i = Len(old) + (i - Len(old))
    BY <1>5
  <2> QED BY <1>5, <2>1
<1>10. /\ \A i \in DOMAIN old : /\ old[i].is = "audio" /\ old[i].of.reply = r
                                /\ old[i].of.attempt = attempt[r] /\ old[i].of.segment <= done
                                /\ old[i].of.segment \in Nat
       /\ \A i \in DOMAIN chunks : chunks[i].is = "audio" /\ chunks[i].of = t
  <2>1. \A i \in DOMAIN old : old[i] \in Responses
    <3>1. old \in Seq(Responses)
      BY PartsTypes DEF old
    <3> QED BY <3>1, <1>5
  <2> QED BY <1>6, <2>1, Fields DEF Own, Collected
<1>11. \A i \in DOMAIN wav : /\ wav[i].is = "audio" /\ wav[i].of.reply = r
                             /\ wav[i].of.attempt = attempt[r] /\ wav[i].of.segment <= done + 1
  BY <1>2, <1>3, <1>9, <1>10
<1>12. ASSUME NEW i \in DOMAIN wav, NEW j \in DOMAIN wav, i < j
       PROVE  Precedes(wav[i], wav[j])
  <2>1. CASE j \in DOMAIN old
    <3>1. i \in DOMAIN old /\ wav[i] = old[i] /\ wav[j] = old[j]
      BY <1>5, <1>12, <2>1
    <3> QED BY <1>6, <1>12, <2>1, <3>1 DEF Own
  <2>2. CASE j \notin DOMAIN old /\ i \in DOMAIN old
    <3>1. wav[i].of.segment <= done /\ wav[i].of.segment \in Nat /\ wav[j].of.segment = done + 1
      BY <1>2, <1>5, <1>9, <1>10, <2>2
    <3> QED BY <1>3, <3>1 DEF Precedes
  <2>3. CASE j \notin DOMAIN old /\ i \notin DOMAIN old
    <3>1. /\ i - Len(old) \in DOMAIN chunks /\ wav[i] = chunks[i - Len(old)]
          /\ j - Len(old) \in DOMAIN chunks /\ wav[j] = chunks[j - Len(old)]
      BY <1>9, <2>3
    <3>2. i - Len(old) < j - Len(old)
      BY <1>5, <1>12
    <3>3. wav[i].number < wav[j].number /\ wav[i].of = t /\ wav[j].of = t
      BY <1>6, <3>1, <3>2 DEF Collected
    <3> QED BY <3>3 DEF Precedes
  <2>4. i \in Nat /\ j \in Nat
    BY <1>5
  <2> QED BY <2>1, <2>2, <2>3
<1>13. \A x : Has(old, x) \/ Has(chunks, x) => Has(wav, x)
  <2>1. ASSUME NEW i \in DOMAIN old
        PROVE  i \in DOMAIN wav /\ wav[i] = old[i]
    BY <1>5
  <2>2. ASSUME NEW i \in DOMAIN chunks
        PROVE  Len(old) + i \in DOMAIN wav /\ wav[Len(old) + i] = chunks[i]
    BY <1>5
  <2> QED BY <2>1, <2>2 DEF Has
<1>14. ASSUME NEW n \in 1 .. done + 1
       PROVE  \/ [reply |-> r, segment |-> n, attempt |-> attempt[r]] \in short
              \/ \A k \in 1 .. Chunks : Has(wav, Audio([reply |-> r, segment |-> n, attempt |-> attempt[r]], k))
  <2>1. CASE n = done + 1
    BY <1>7, <1>8, <1>13, <2>1
  <2>2. CASE n # done + 1
    <3>1. n \in 1 .. done
      BY <1>3, <2>2
    <3> QED BY <1>6, <1>13, <3>1 DEF Own, Speech
  <2> QED BY <2>1, <2>2
<1> QED BY <1>4, <1>11, <1>12, <1>14 DEF Own, Speech, Has, Audio

LEMMA HeardSteps ==
  ASSUME TypeOK, [Next]_vars, NEW r \in Replies, Heard(r)
  PROVE  ReadDone(r) /\ short' = short
<1>1. /\ task[r] = "reading" /\ task'[r] = "ready" /\ attempt'[r] = attempt[r] /\ attempt[r] \in Nat
      /\ lock = r
  BY Fields DEF Heard, TypeOK
<1>2. ASSUME NEW q \in Replies, Leave(q)
      PROVE  q # r
  BY <1>1, <1>2 DEF Leave, TypeOK
<1>3. ASSUME TakeRequest \/ SkipRequest \/ MakeChunk \/ EndSession \/ ProviderError \/ WorkerEnds
      PROVE  FALSE
  BY <1>1, <1>3, WorkerSteps DEF tasks
<1>4. ASSUME Reconfigure \/ UNCHANGED vars
      PROVE  FALSE
  BY <1>1, <1>4 DEF Reconfigure, vars, tasks
<1>5. ASSUME NEW q \in Replies, \/ Begin(q) \/ Synthesize(q) \/ StartWorker(q) \/ WorkerReady(q)
                                \/ StartTimesOut(q) \/ ReadTimesOut(q) \/ ReadAudio(q) \/ Publish(q)
      PROVE  FALSE
  BY <1>1, <1>5, SpeechConstants
     DEF Begin, Synthesize, Ask, StartWorker, WorkerReady, StartTimesOut, ReadTimesOut, GiveUpWaiting,
         ReadAudio, Publish, TypeOK, tasks
<1>6. ASSUME NEW q \in Replies, WorkerNotReady(q) \/ Stop(q) \/ ReadError(q)
      PROVE  FALSE
  <2>1. Leave(q) /\ task[q] \in {"start", "stopping", "reading"}
    BY <1>6 DEF WorkerNotReady, Stop, ReadError
  <2> QED BY <1>1, <1>2, <2>1 DEF TypeOK
<1>7. ASSUME NEW q \in Replies, ReadDone(q)
      PROVE  q = r /\ short' = short
  BY <1>1, <1>7 DEF ReadDone, TypeOK
<1> QED BY <1>3, <1>4, <1>5, <1>6, <1>7 DEF Next, Speak

LEMMA SpoiltSteps ==
  ASSUME TypeOK, [Next]_vars, NEW r \in spoilt, r \notin spoilt'
  PROVE  Left(r)
<1>1. ASSUME NEW q \in Replies, Leave(q), task[q] \in {"start", "reading", "stopping"}
      PROVE  Left(r)
  BY <1>1 DEF Leave, Left, TypeOK
<1>2. ASSUME TakeRequest \/ SkipRequest \/ MakeChunk \/ EndSession \/ ProviderError \/ WorkerEnds
      PROVE  FALSE
  BY <1>2, WorkerSteps
<1>3. ASSUME Reconfigure \/ UNCHANGED vars
      PROVE  FALSE
  BY <1>3 DEF Reconfigure, vars, history
<1>4. ASSUME NEW q \in Replies,
             \/ Begin(q) \/ Synthesize(q) \/ StartWorker(q) \/ WorkerReady(q)
             \/ StartTimesOut(q) \/ ReadTimesOut(q) \/ ReadAudio(q) \/ Publish(q)
      PROVE  FALSE
  BY <1>4 DEF Begin, Synthesize, StartWorker, WorkerReady, StartTimesOut, ReadTimesOut, GiveUpWaiting,
              ReadAudio, Publish, history
<1>5. ASSUME NEW q \in Replies, WorkerNotReady(q) \/ Stop(q) \/ ReadError(q) \/ ReadDone(q)
      PROVE  Leave(q) /\ task[q] \in {"start", "reading", "stopping"}
  BY <1>5 DEF WorkerNotReady, Stop, ReadError, ReadDone
<1> QED BY <1>1, <1>2, <1>3, <1>4, <1>5 DEF Next, Speak

LEMMA PartsStep ==
  ASSUME TypeOK, TaskInv, OrderInv, ReadingInv, PartsInv, [Next]_vars
  PROVE  PartsInv'
<1>S. short \subseteq short'
  <2>1. \/ UNCHANGED queues
        \/ Clears
        \/ \E r \in Replies : Asks(r)
        \/ Consumes \/ TakesUp \/ Skips \/ MakesChunk \/ EndsIt \/ Fails
    BY QueueSteps
  <2> QED BY <2>1 DEF queues, Clears, Asks, Consumes, TakesUp, Skips, MakesChunk, EndsIt, Fails
<1> SUFFICES ASSUME NEW r \in Replies, r \notin spoilt'
             PROVE  Own(r, parts[r].audio, parts[r].done)'
  BY DEF PartsInv, Own, Speech, Has, Audio, Precedes
<1>N. ASSUME parts'[r] = NoParts
      PROVE  Own(r, parts[r].audio, parts[r].done)'
  <2>1. parts'[r].done = 0 /\ parts'[r].audio = << >>
    BY <1>N DEF NoParts
  <2> QED BY <2>1 DEF Own
<1>L. CASE Left(r)
  BY <1>L, <1>N DEF Left
<1>B. CASE Began(r)
  BY <1>B, <1>N DEF Began, TaskInv
<1>1. CASE r \notin spoilt /\ (Stays(r) \/ Moved(r))
  <2>1. attempt'[r] = attempt[r] /\ parts'[r] = parts[r]
    BY <1>1 DEF Stays, Moved
  <2>2. Own(r, parts[r].audio, parts[r].done)
    BY <1>1, PartsAreOwn
  <2> QED BY <1>S, <2>1, <2>2 DEF Own, Speech
<1>2. CASE r \notin spoilt /\ Heard(r)
  <2>1. ReadDone(r) /\ short' = short
    BY <1>2, HeardSteps
  <2> QED BY <1>2, <2>1, HeardIsOwn
<1>3. r \notin spoilt \/ Left(r)
  BY SpoiltSteps
<1> QED BY <1>L, <1>B, <1>1, <1>2, <1>3, TaskSteps

-----------------------------------------------------------------------------
\* The invariant: speeches are asked for once and answered in order, and what a task
\* has collected, with what is still in the queues, is all there is of its speech.
THEOREM SpeechInvariant == Spec => []SpeechInv
<1>1. Init => SpeechInv
  <2> SUFFICES ASSUME Init
               PROVE  SpeechInv
    OBVIOUS
  <2>1. TypeOK
    <3>1. << >> \in Seq(Speeches) /\ << >> \in Seq(Responses)
      OBVIOUS
    <3>2. NoParts \in [done : 0 .. Segments, audio : Seq(Responses)]
      BY <3>1, Fields DEF NoParts
    <3>3. /\ parts \in [Replies -> [done : 0 .. Segments, audio : Seq(Responses)]]
          /\ published \in [Replies -> Seq(Responses)] /\ attempt \in [Replies -> 0 .. Attempts]
      BY <3>1, <3>2, Fields DEF Init
    <3>4. /\ lock = Nobody /\ chunks \in Seq(Responses)
          /\ requests \in Seq(Speeches) /\ responses \in Seq(Responses)
      BY <3>1 DEF Init
    <3>5. /\ task \in [Replies -> {"idle", "ready", "start", "reading", "stopping", "published", "failed"}]
          /\ \A r \in Replies : lock = r <=> task[r] \in {"start", "reading", "stopping"}
      BY SpeechConstants DEF Init
    <3>6. /\ session = NoSession /\ worker = "none" /\ tagged \in BOOLEAN /\ dirty = FALSE
          /\ short = {} /\ spoilt = {} /\ stuck \in 0 .. Pool /\ faults \in 0 .. MaxFaults
      BY SpeechConstants DEF Init
    <3> QED BY <3>3, <3>4, <3>5, <3>6 DEF TypeOK
  <2>2. TaskInv
    BY SpeechConstants DEF Init, TaskInv
  <2>3. AskedInv /\ OrderInv /\ CleanInv /\ ReadingInv
    BY Fields DEF Init, AskedInv, Known, Has, OrderInv, Distinct, Untouched, Answered, Rising, CleanInv,
                  Empty, ReadingInv
  <2>4. PartsInv
    <3>1. \A r \in Replies : parts[r].done = 0 /\ parts[r].audio = << >>
      BY DEF Init, NoParts
    <3>2. \A r \in Replies : Own(r, parts[r].audio, parts[r].done)
      <4>1. \A r \in Replies : Own(r, << >>, 0)
        BY DEF Own
      <4> QED BY <3>1, <4>1
    <3> QED BY <3>2, PartsAreOwn
  <2> QED BY <2>1, <2>2, <2>3, <2>4 DEF SpeechInv
<1>2. SpeechInv /\ [Next]_vars => SpeechInv'
  BY TypeStep, TaskStep, AskedStep, OrderStep, CleanStep, ReadingStep, PartsStep DEF SpeechInv
<1> QED BY <1>1, <1>2, PTL DEF Spec

\* The lock belongs to exactly one task that is starting the worker, reading or
\* stopping it (speech.py:184-250).
THEOREM WorkerIsExclusive == Spec => []TypeOK
<1>1. SpeechInv => TypeOK
  BY DEF SpeechInv
<1> QED BY <1>1, SpeechInvariant, PTL

\* A recording is of its own reply and attempt, complete and in order (speech.py:219-250).
THEOREM RecordingsAreOwn == Spec => []PublishedIsReply
<1>1. ASSUME SpeechInv
      PROVE  PublishedIsReply
  <2> SUFFICES ASSUME NEW r \in Replies, task[r] = "published", r \notin spoilt
               PROVE  /\ \A i \in DOMAIN published[r] :
                           /\ published[r][i].is = "audio" /\ published[r][i].of.reply = r
                           /\ published[r][i].of.attempt = attempt[r]
                      /\ \A i, j \in DOMAIN published[r] : i < j => Precedes(published[r][i], published[r][j])
                      /\ \A n \in 1 .. Segments :
                           \/ Speech(r, n) \in short
                           \/ \A k \in 1 .. Chunks : Has(published[r], Audio(Speech(r, n), k))
    BY DEF PublishedIsReply, Speech, Has
  <2>1. parts[r].done = Segments /\ published[r] = parts[r].audio
    BY <1>1 DEF SpeechInv, TaskInv
  <2>2. Own(r, parts[r].audio, parts[r].done)
    BY <1>1, PartsAreOwn DEF SpeechInv
  <2> QED BY <2>1, <2>2 DEF Own
<1> QED BY <1>1, SpeechInvariant, PTL

-----------------------------------------------------------------------------
(***************************************************************************)
(* The executor's threads.                                                 *)
(***************************************************************************)
\* The task of a reply waits for the end of a speech that will never come.
Unanswered(r) ==
  /\ task[r] = "reading" /\ ~Has(requests, SpeechOf(r)) /\ session.of # SpeechOf(r)
  /\ \A i \in DOMAIN responses : responses[i].is = "done" => responses[i].of # SpeechOf(r)

\* What failed pays for the threads lost so far, and for the one about to be.
LossInv ==
  /\ stuck <= faults
  /\ \A r \in Replies : Unanswered(r) => stuck < faults

\* Behind what was to be read there is one answer more.
LEMMA RespondOf ==
  ASSUME TypeOK, NEW is \in {"audio", "done", "error"}, NEW n \in 0 .. Chunks, Responds(is, n)
  PROVE  /\ \A i \in DOMAIN responses : i \in DOMAIN responses' /\ responses'[i] = responses[i]
         /\ \E i \in DOMAIN responses' : responses'[i].is = is /\ responses'[i].of = session.of
<1> DEFINE x == [is |-> is, of |-> session.of, number |-> n]
<1>1. x \in Responses /\ x.is = is /\ x.of = session.of
  BY QueueTypes DEF Responds, Responses
<1>2. responses \in Seq(Responses) /\ responses' = Append(responses, x)
  BY DEF TypeOK, Responds
<1> HIDE DEF x
<1>3. /\ Len(responses) \in Nat /\ DOMAIN responses = 1 .. Len(responses)
      /\ DOMAIN responses' = 1 .. Len(responses) + 1
      /\ \A i \in 1 .. Len(responses) : responses'[i] = responses[i]
      /\ responses'[Len(responses) + 1] = x
  BY <1>1, <1>2, AppendOf
<1>4. Len(responses) + 1 \in DOMAIN responses'
  BY <1>3
<1> QED BY <1>1, <1>3, <1>4

\* Only a failure makes a speech unanswered.
LEMMA LossStep ==
  ASSUME SpeechInv, SpeechInv', LossInv, [Next]_vars
  PROVE  LossInv'
<1>t. TypeOK /\ TypeOK' /\ TaskInv
  BY DEF SpeechInv
<1>n. stuck \in Nat /\ faults \in Nat
  BY <1>t, SpeechConstants DEF TypeOK
<1>r. responses \in Seq(Responses) /\ requests \in Seq(Speeches)
  BY <1>t DEF TypeOK
<1>f. ASSUME UNCHANGED stuck, Fault
      PROVE  LossInv'
  BY <1>n, <1>f DEF Fault, LossInv
\* A speech that is unanswered was.
<1>k. ASSUME UNCHANGED <<stuck, faults>>, \A r \in Replies : Unanswered(r)' => Unanswered(r)
      PROVE  LossInv'
  BY <1>k DEF LossInv
\* Nobody reads who does not have the lock.
<1>l. ASSUME UNCHANGED <<stuck, faults>>, lock' = Nobody \/ task'[lock'] # "reading"
      PROVE  LossInv'
  <2>1. ASSUME NEW r \in Replies PROVE ~Unanswered(r)'
    <3>1. task'[r] = "reading" => lock' = r
      BY <1>t DEF TypeOK
    <3> QED BY <1>l, <3>1, SpeechConstants DEF Unanswered
  <2> QED BY <1>k, <1>l, <2>1
<1>1. CASE TakeRequest
  <2>1. ASSUME NEW r \in Replies, Unanswered(r)' PROVE Unanswered(r)
    <3>1. /\ task'[r] = task[r] /\ SpeechOf(r)' = SpeechOf(r) /\ responses' = responses
          /\ session = NoSession /\ session'.of = Head(requests)
          /\ requests # <<>> /\ requests' = Tail(requests)
      BY <1>1 DEF TakeRequest, tasks, SpeechOf, NoSession
    <3>2. task[r] = "reading" /\ ~Has(Tail(requests), SpeechOf(r)) /\ Head(requests) # SpeechOf(r)
      BY <2>1, <3>1 DEF Unanswered, Has
    <3>3. session.of # SpeechOf(r)
      <4>1. SpeechOf(r) \in Speeches
        BY <1>t, <3>2, SpeechTypes DEF TaskInv
      <4> QED BY <3>1, <4>1, Fields
    <3>4. ASSUME NEW i \in DOMAIN requests, requests[i] = SpeechOf(r) PROVE FALSE
      <4>1. i # 1
        BY <1>r, <3>1, <3>2, <3>4, TailOf
      <4>2. i - 1 \in DOMAIN Tail(requests) /\ Tail(requests)[i - 1] = requests[i]
        <5>1. /\ Len(requests) \in Nat /\ DOMAIN requests = 1 .. Len(requests)
              /\ DOMAIN Tail(requests) = 1 .. Len(requests) - 1
              /\ \A j \in 1 .. Len(requests) - 1 : Tail(requests)[j] = requests[j + 1]
          BY <1>r, <3>1, TailOf
        <5>2. i - 1 \in 1 .. Len(requests) - 1 /\ (i - 1) + 1 = i
          BY <4>1, <5>1
        <5> QED BY <5>1, <5>2
      <4> QED BY <3>2, <3>4, <4>2 DEF Has
    <3> QED BY <2>1, <3>1, <3>2, <3>3, <3>4 DEF Unanswered, Has
  <2> QED BY <1>1, <1>k, <2>1 DEF TakeRequest
<1>2. CASE SkipRequest \/ ProviderError \/ WorkerEnds \/ Reconfigure
  BY <1>2, <1>f DEF SkipRequest, ProviderError, WorkerEnds, Reconfigure
<1>3. CASE MakeChunk \/ EndSession
  <2>1. \E is \in {"audio", "done"}, n \in 0 .. Chunks : Responds(is, n) /\ (is = "done" \/ session'.of = session.of)
    <3>1. CASE MakeChunk
      <4>1. session.sent + 1 \in 0 .. Chunks
        BY <1>t, <3>1, QueueTypes, Fields DEF MakeChunk
      <4>2. Responds("audio", session.sent + 1)
        BY <3>1 DEF MakeChunk, Respond, Responds
      <4>3. session'.of = session.of
        <5>1. session = [of |-> session.of, sent |-> session.sent]
          BY <1>t, <3>1, QueueTypes DEF MakeChunk
        <5>2. session' = [session EXCEPT !.sent = @ + 1]
          BY <3>1 DEF MakeChunk
        <5> QED BY <5>1, <5>2
      <4> QED BY <4>1, <4>2, <4>3
    <3>2. CASE EndSession
      <4>1. Responds("done", 0) /\ 0 \in 0 .. Chunks
        BY <3>2, Fields DEF EndSession, Respond, Responds
      <4> QED BY <4>1
    <3> QED BY <1>3, <3>1, <3>2
  <2>2. ASSUME NEW r \in Replies, Unanswered(r)' PROVE Unanswered(r)
    <3>1. PICK is \in {"audio", "done"}, n \in 0 .. Chunks : Responds(is, n) /\ (is = "done" \/ session'.of = session.of)
      BY <2>1
    <3>2. /\ \A i \in DOMAIN responses : i \in DOMAIN responses' /\ responses'[i] = responses[i]
          /\ \E i \in DOMAIN responses' : responses'[i].is = is /\ responses'[i].of = session.of
      BY <1>t, <3>1, RespondOf
    <3>3. task'[r] = task[r] /\ SpeechOf(r)' = SpeechOf(r) /\ requests' = requests
      BY <1>3 DEF MakeChunk, EndSession, tasks, SpeechOf
    <3> QED BY <2>2, <3>1, <3>2, <3>3 DEF Unanswered, Has
  <2>3. UNCHANGED stuck /\ (UNCHANGED faults \/ Fault)
    BY <1>3 DEF MakeChunk, EndSession
  <2> QED BY <1>f, <1>k, <2>2, <2>3
<1>4. ASSUME NEW r \in Replies, ReadAudio(r)
      PROVE  LossInv'
  <2>1. ASSUME NEW q \in Replies, Unanswered(q)' PROVE Unanswered(q)
    <3>1. /\ task' = task /\ SpeechOf(q)' = SpeechOf(q) /\ requests' = requests /\ session' = session
          /\ responses # <<>> /\ responses' = Tail(responses) /\ task[r] = "reading"
          /\ Head(responses).is = "done" => Head(responses).of # SpeechOf(r)
      BY <1>4 DEF ReadAudio, SpeechOf
    <3>2. q = r
      BY <1>t, <2>1, <3>1 DEF TypeOK, Unanswered
    <3>3. ASSUME NEW i \in DOMAIN responses, responses[i].is = "done" PROVE responses[i].of # SpeechOf(q)
      <4>1. /\ Len(responses) \in Nat /\ DOMAIN responses = 1 .. Len(responses)
            /\ Head(responses) = responses[1] /\ DOMAIN responses' = 1 .. Len(responses) - 1
            /\ \A j \in 1 .. Len(responses) - 1 : responses'[j] = responses[j + 1]
        BY <1>r, <3>1, TailOf
      <4>2. CASE i = 1
        BY <3>1, <3>2, <3>3, <4>1, <4>2
      <4>3. CASE i # 1
        <5>1. i - 1 \in DOMAIN responses' /\ responses'[i - 1] = responses[i]
          <6>1. i - 1 \in 1 .. Len(responses) - 1 /\ (i - 1) + 1 = i
            BY <4>1, <4>3
          <6> QED BY <4>1, <6>1
        <5> QED BY <2>1, <3>1, <3>3, <5>1 DEF Unanswered
      <4> QED BY <4>2, <4>3
    <3> QED BY <2>1, <3>1, <3>3 DEF Unanswered, Has
  <2> QED BY <1>4, <1>k, <2>1 DEF ReadAudio
<1>5. ASSUME NEW r \in Replies, ReadDone(r) \/ ReadError(r) \/ WorkerNotReady(r) \/ Stop(r)
      PROVE  LossInv'
  <2>1. UNCHANGED <<stuck, faults>> /\ lock' = Nobody
    BY <1>5 DEF ReadDone, ReadError, WorkerNotReady, Stop, Leave
  <2> QED BY <1>l, <2>1
<1>6. ASSUME NEW r \in Replies, StartWorker(r) \/ StartTimesOut(r)
      PROVE  LossInv'
  <2>1. UNCHANGED <<stuck, faults>> /\ lock' = r /\ task'[r] # "reading"
    BY <1>t, <1>6 DEF StartWorker, StartTimesOut, GiveUpWaiting, tasks, TypeOK
  <2> QED BY <1>l, <2>1
\* The thread that is left behind was paid for when its speech was lost.
<1>7. ASSUME NEW r \in Replies, ReadTimesOut(r)
      PROVE  LossInv'
  <2>1. faults' = faults /\ lock' = r /\ task'[r] # "reading"
    BY <1>t, <1>7 DEF ReadTimesOut, GiveUpWaiting, TypeOK
  <2>2. CASE stuck' = stuck
    BY <1>l, <2>1, <2>2
  <2>3. CASE stuck' # stuck
    <3>1. stuck' = stuck + 1 /\ requests = <<>> /\ responses = <<>> /\ session = NoSession
      BY <1>7, <2>3 DEF ReadTimesOut
    <3>2. task[r] = "reading" /\ session.of # SpeechOf(r)
      <4>1. task[r] = "reading"
        BY <1>7 DEF ReadTimesOut
      <4>2. SpeechOf(r) \in Speeches
        BY <1>t, <4>1, SpeechTypes DEF TaskInv
      <4> QED BY <3>1, <4>1, <4>2, Fields
    <3>3. Unanswered(r)
      BY <3>1, <3>2 DEF Unanswered, Has
    <3>4. stuck' <= faults'
      BY <1>n, <2>1, <3>1, <3>3 DEF LossInv
    <3>5. ASSUME NEW q \in Replies PROVE ~Unanswered(q)'
      BY <1>t, <2>1 DEF TypeOK, Unanswered
    <3> QED BY <3>4, <3>5 DEF LossInv
  <2> QED BY <2>2, <2>3
<1>8. ASSUME NEW r \in Replies, Begin(r) \/ Publish(r)
      PROVE  LossInv'
  <2>1. ASSUME NEW q \in Replies, Unanswered(q)' PROVE Unanswered(q)
    <3>1. q # r /\ task'[q] = task[q] /\ SpeechOf(q)' = SpeechOf(q)
          /\ UNCHANGED <<requests, responses, session>>
      BY <1>t, <1>8, <2>1 DEF Begin, Publish, workerVars, SpeechOf, Unanswered, TypeOK
    <3> QED BY <2>1, <3>1 DEF Unanswered, Has
  <2> QED BY <1>8, <1>k, <2>1 DEF Begin, Publish
<1>9. ASSUME NEW r \in Replies, Synthesize(r) \/ WorkerReady(r)
      PROVE  LossInv'
  <2>1. UNCHANGED <<stuck, faults, attempt, parts>> /\ lock' = r
    BY <1>t, <1>9 DEF Synthesize, WorkerReady, TypeOK
  <2>2. CASE task'[r] # "reading"
    BY <1>l, <2>1, <2>2
  <2>3. CASE task'[r] = "reading"
    <3>1. requests' = Append(requests, SpeechOf(r)) /\ SpeechOf(r)' = SpeechOf(r)
      BY <1>t, <1>9, <2>1, <2>3 DEF Synthesize, WorkerReady, Ask, TypeOK, SpeechOf
    <3>2. SpeechOf(r) \in Speeches
      BY <1>t, <1>9, SpeechTypes DEF Synthesize, WorkerReady, TaskInv
    <3>3. Has(requests, SpeechOf(r))'
      <4>1. /\ Len(requests) \in Nat /\ DOMAIN requests' = 1 .. Len(requests) + 1
            /\ requests'[Len(requests) + 1] = SpeechOf(r)
        BY <1>r, <3>1, <3>2, AppendOf
      <4>2. Len(requests) + 1 \in DOMAIN requests'
        BY <4>1
      <4> QED BY <3>1, <4>1, <4>2 DEF Has
    <3>4. ASSUME NEW q \in Replies PROVE ~Unanswered(q)'
      <4>1. task'[q] = "reading" => q = r
        BY <1>t, <2>1 DEF TypeOK
      <4> QED BY <3>3, <4>1 DEF Unanswered
    <3> QED BY <1>k, <2>1, <3>4
  <2> QED BY <2>2, <2>3
<1>10. CASE UNCHANGED vars
  BY <1>10 DEF vars, tasks, workerVars, LossInv, Unanswered, SpeechOf, Has
<1> QED
  BY <1>1, <1>2, <1>3, <1>4, <1>5, <1>6, <1>7, <1>8, <1>9, <1>10 DEF Next, Speak

\* No more threads stay in Queue.get than there were failures and new workers: the
\* end of a speech the worker took up always reaches the task (speech.py:209-243).
THEOREM LostThreadsArePaid == Spec => []LostThreadsArePaidFor
<1>1. Init => LossInv
  BY SpeechConstants DEF Init, LossInv, Unanswered
<1>2. SpeechInv /\ SpeechInv' /\ LossInv /\ [Next]_vars => LossInv'
  BY LossStep
<1>3. LossInv => LostThreadsArePaidFor
  BY DEF LossInv, LostThreadsArePaidFor
<1> QED BY <1>1, <1>2, <1>3, SpeechInvariant, PTL DEF Spec
=============================================================================
