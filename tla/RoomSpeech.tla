------------------------------ MODULE RoomSpeech ------------------------------
(***************************************************************************)
(* The speech of the room's replies: one TTS worker thread, shared by the  *)
(* background tasks that each turn one reply into one WAV file.            *)
(*                                                                         *)
(*   main_logic/room/speech.py     SpeechService                           *)
(*   main_logic/room/service.py    _publish_speech, its attempts           *)
(*   main_logic/tts_client/workers/gptsovits.py   the worker of the room's *)
(*                                 cloned voice                            *)
(*                                                                         *)
(* A reply is spoken segment by segment, each under the synthesis lock, so *)
(* the segments of several replies interleave.  The task and the worker    *)
(* talk through two queues that are made with the worker and thrown away   *)
(* with it.  The task waits for the response queue in a thread of the      *)
(* executor; when it stops waiting, the thread does not.                   *)
(*                                                                         *)
(* A speech id is a reply, a segment and an attempt.  Left out: texts, the *)
(* files, failures to write them, and shutdown.                            *)
(***************************************************************************)
EXTENDS Naturals, Sequences

CONSTANTS
  Replies,
  Segments,     \* segments of a reply
  Chunks,       \* audio chunks the provider makes of a segment
  Attempts,     \* tts_attempts
  Pool,         \* threads of the default executor
  Nobody,       \* no reply
  MaxFaults     \* bound: failures of the provider, reconfigurations

ASSUME SpeechConstants ==
  /\ {Segments, Chunks, Attempts, Pool} \subseteq Nat \ {0}
  /\ MaxFaults \in Nat /\ Nobody \notin Replies

VARIABLES
  task,       \* per reply: where _publish_speech is
  attempt,    \* per reply: attempts begun
  parts,      \* per reply: how many segments are done, and their audio
  lock,       \* the owner of the synthesis lock
  chunks,     \* the audio the owner has collected
  worker,     \* the thread: "none", "starting", "alive" or "ended"
  tagged,     \* the worker says which speech its audio belongs to
  requests,   \* _request_queue: the speeches asked for, each with its end
  responses,  \* _response_queue
  session,    \* the speech the worker is at, and the chunks made of it
  stuck,      \* executor threads waiting for a queue nobody else has
  published,  \* per reply: the audio of speech.ready
  faults,     \* used budget
  short,      \* history: speeches the provider ended early
  dirty,      \* history: an error has ended a speech of this worker
  spoilt      \* history: replies that took untagged audio after an error

tasks      == <<task, attempt, parts, lock, chunks>>
workerVars == <<worker, tagged, requests, responses, session>>
history    == <<short, dirty, spoilt>>
vars       == <<tasks, workerVars, stuck, published, faults, history>>

Speeches  == [reply : Replies, segment : 1 .. Segments, attempt : 1 .. Attempts]
NoSpeech  == [reply |-> Nobody, segment |-> 0, attempt |-> 0]
Responses == [is : {"audio", "done", "error"}, of : Speeches, number : 0 .. Chunks]
NoSession == [of |-> NoSpeech, sent |-> 0]
NoParts   == [done |-> 0, audio |-> <<>>]

TypeOK ==
  /\ task \in [Replies -> {"idle", "ready", "start", "reading", "stopping", "published", "failed"}]
  /\ attempt \in [Replies -> 0 .. Attempts]
  /\ parts \in [Replies -> [done : 0 .. Segments, audio : Seq(Responses)]]
  /\ lock \in Replies \cup {Nobody} /\ chunks \in Seq(Responses)
  /\ \A r \in Replies : lock = r <=> task[r] \in {"start", "reading", "stopping"}
  /\ worker \in {"none", "starting", "alive", "ended"} /\ tagged \in BOOLEAN
  /\ requests \in Seq(Speeches) /\ responses \in Seq(Responses)
  /\ session \in [of : Speeches, sent : 0 .. Chunks] \cup {NoSession}
  /\ stuck \in 0 .. Pool /\ faults \in 0 .. MaxFaults
  /\ published \in [Replies -> Seq(Responses)]
  /\ short \subseteq Speeches /\ dirty \in BOOLEAN /\ spoilt \subseteq Replies

Init ==
  /\ task = [r \in Replies |-> "idle"] /\ attempt = [r \in Replies |-> 0]
  /\ parts = [r \in Replies |-> NoParts] /\ lock = Nobody /\ chunks = <<>>
  /\ worker = "none" /\ tagged \in BOOLEAN
  /\ requests = <<>> /\ responses = <<>> /\ session = NoSession
  /\ stuck = 0 /\ published = [r \in Replies |-> <<>>] /\ faults = 0
  /\ short = {} /\ dirty = FALSE /\ spoilt = {}

SpeechOf(r) == [reply |-> r, segment |-> parts[r].done + 1, attempt |-> attempt[r]]
Fault       == faults < MaxFaults /\ faults' = faults + 1
FreeThread  == stuck < Pool

\* _stop_worker: the worker and its queues are forgotten.
Forget ==
  /\ worker' = "none" /\ requests' = <<>> /\ responses' = <<>> /\ session' = NoSession
  /\ dirty' = FALSE

-----------------------------------------------------------------------------
(***************************************************************************)
(* The task of a reply.                                                    *)
(***************************************************************************)
Begin(r) ==
  /\ task[r] = "idle"
  /\ task' = [task EXCEPT ![r] = "ready"] /\ attempt' = [attempt EXCEPT ![r] = 1]
  /\ UNCHANGED <<parts, lock, chunks, workerVars, stuck, published, faults, history>>

\* Variant with a fault: attempts are not counted.
LeaveUncounted(r) ==
  /\ task' = [task EXCEPT ![r] = "ready"] /\ UNCHANGED attempt
  /\ parts' = [parts EXCEPT ![r] = NoParts] /\ spoilt' = spoilt \ {r}
  /\ lock' = Nobody /\ chunks' = <<>>

\* synthesize raises.  The segments so far are dropped, and after a pause the
\* reply is tried again from its beginning, Attempts times in all.
Leave(r) ==
  /\ IF attempt[r] < Attempts
     THEN task' = [task EXCEPT ![r] = "ready"] /\ attempt' = [attempt EXCEPT ![r] = @ + 1]
     ELSE task' = [task EXCEPT ![r] = "failed"] /\ UNCHANGED attempt
  /\ parts' = [parts EXCEPT ![r] = NoParts] /\ spoilt' = spoilt \ {r}
  /\ lock' = Nobody /\ chunks' = <<>>

\* The text of a segment and its end are put into the request queue.
Ask(r) ==
  /\ task' = [task EXCEPT ![r] = "reading"]
  /\ requests' = Append(requests, SpeechOf(r))

\* With the worker at hand, or a new one: an ended one is cleared away first.
Synthesize(r) ==
  /\ task[r] = "ready" /\ lock = Nobody /\ parts[r].done < Segments
  /\ lock' = r
  /\ \/ worker = "alive" /\ Ask(r) /\ UNCHANGED <<worker, responses, session, dirty>>
     \/ worker # "alive" /\ task' = [task EXCEPT ![r] = "start"] /\ Forget
  /\ UNCHANGED <<attempt, parts, chunks, tagged, stuck, published, faults, short, spoilt>>

\* The route is resolved in a thread of the executor.
StartWorker(r) ==
  /\ task[r] = "start" /\ worker = "none" /\ FreeThread
  /\ worker' = "starting"
  /\ UNCHANGED <<tasks, tagged, requests, responses, session, stuck, published, faults, history>>

WorkerReady(r) ==
  /\ task[r] = "start" /\ worker = "starting" /\ FreeThread
  /\ worker' = "alive" /\ Ask(r)
  /\ UNCHANGED <<attempt, parts, lock, chunks, tagged, responses, session, stuck, published,
                 faults, history>>

\* Speech is disabled, there is no route, or the worker cannot connect.
WorkerNotReady(r) ==
  /\ task[r] = "start"
  /\ Forget /\ Leave(r)
  /\ UNCHANGED <<tagged, stuck, published, faults, short>>

GiveUpWaiting(r) ==
  /\ task' = [task EXCEPT ![r] = "stopping"]
  /\ UNCHANGED <<attempt, parts, lock, chunks, workerVars, published, faults, history>>

\* The late answer of the worker ends the thread that waits for it.
StartTimesOut(r) ==
  /\ task[r] = "start" /\ worker = "starting"
  /\ GiveUpWaiting(r) /\ UNCHANGED stuck

\* So does any late item; a speech the worker still has to look at is taken to be
\* answered.  If nothing can come any more, the thread stays behind for good.
ReadTimesOut(r) ==
  LET silent == requests = <<>> /\ responses = <<>> /\ session = NoSession
  IN  /\ task[r] = "reading"
      /\ GiveUpWaiting(r)
      /\ stuck' = IF FreeThread /\ silent THEN stuck + 1 ELSE stuck

\* Variant with a fault: after a timeout the worker and its queues are kept.
StopKeepsWorker(r) ==
  /\ task[r] = "stopping" /\ FreeThread
  /\ Leave(r)
  /\ UNCHANGED <<workerVars, stuck, published, faults, short, dirty>>

\* Joining the worker takes a thread and at most three seconds.
Stop(r) ==
  /\ task[r] = "stopping" /\ FreeThread
  /\ Forget /\ Leave(r)
  /\ UNCHANGED <<tagged, stuck, published, faults, short>>

\* Audio without a tag belongs to whoever reads it.
Takes(item, r) == item.is = "audio" /\ (tagged => item.of = SpeechOf(r))

\* Variant with a fault: the end of the speech itself is skipped too.
ReadPastEnd(r) ==
  /\ task[r] = "reading" /\ responses # <<>> /\ FreeThread
  /\ LET item == Head(responses)
     IN  /\ item.is \in {"audio", "done"}
         /\ chunks' = IF Takes(item, r) THEN Append(chunks, item) ELSE chunks
         /\ spoilt' = IF Takes(item, r) /\ ~tagged /\ dirty THEN spoilt \cup {r} ELSE spoilt
  /\ responses' = Tail(responses)
  /\ UNCHANGED <<task, attempt, parts, lock, worker, tagged, requests, session, stuck,
                 published, faults, short, dirty>>

\* Other audio and the end of another speech are skipped.
ReadAudio(r) ==
  /\ task[r] = "reading" /\ responses # <<>> /\ FreeThread
  /\ LET item == Head(responses)
     IN  /\ item.is = "audio" \/ (item.is = "done" /\ item.of # SpeechOf(r))
         /\ chunks' = IF Takes(item, r) THEN Append(chunks, item) ELSE chunks
         /\ spoilt' = IF Takes(item, r) /\ ~tagged /\ dirty THEN spoilt \cup {r} ELSE spoilt
  /\ responses' = Tail(responses)
  /\ UNCHANGED <<task, attempt, parts, lock, worker, tagged, requests, session, stuck,
                 published, faults, short, dirty>>

\* The segment is complete; without any audio that is an error.
ReadDone(r) ==
  /\ task[r] = "reading" /\ responses # <<>> /\ FreeThread
  /\ Head(responses).is = "done" /\ Head(responses).of = SpeechOf(r)
  /\ responses' = Tail(responses)
  /\ \/ chunks = <<>> /\ Leave(r)
     \/ /\ chunks # <<>>
        /\ parts' = [parts EXCEPT ![r] = [done |-> @.done + 1, audio |-> @.audio \o chunks]]
        /\ task' = [task EXCEPT ![r] = "ready"] /\ lock' = Nobody /\ chunks' = <<>>
        /\ UNCHANGED <<attempt, spoilt>>
  /\ UNCHANGED <<worker, tagged, requests, session, stuck, published, faults, short, dirty>>

\* An error ends the speech whomever it is about; the worker goes on.
ReadError(r) ==
  /\ task[r] = "reading" /\ responses # <<>> /\ FreeThread
  /\ Head(responses).is = "error"
  /\ responses' = Tail(responses)
  /\ Leave(r) /\ dirty' = TRUE
  /\ UNCHANGED <<worker, tagged, requests, session, stuck, published, faults, short>>

\* One WAV of all segments; speech.ready.
Publish(r) ==
  /\ task[r] = "ready" /\ parts[r].done = Segments
  /\ published' = [published EXCEPT ![r] = parts[r].audio]
  /\ task' = [task EXCEPT ![r] = "published"]
  /\ UNCHANGED <<attempt, parts, lock, chunks, workerVars, stuck, faults, history>>

-----------------------------------------------------------------------------
(***************************************************************************)
(* The worker thread, as gptsovits.py, and the administrator.              *)
(***************************************************************************)
Respond(is, number) ==
  responses' = Append(responses, [is |-> is, of |-> session.of, number |-> number])

TakeRequest ==
  /\ worker = "alive" /\ session = NoSession /\ requests # <<>>
  /\ requests' = Tail(requests)
  /\ session' = [NoSession EXCEPT !.of = Head(requests)]
  /\ UNCHANGED <<tasks, worker, tagged, responses, stuck, published, faults, history>>

\* Three failed connections: the text is skipped, and its end finds no
\* connection, so that the speech is never answered.
SkipRequest ==
  /\ worker = "alive" /\ session = NoSession /\ requests # <<>> /\ Fault
  /\ requests' = Tail(requests)
  /\ UNCHANGED <<tasks, worker, tagged, responses, session, stuck, published, history>>

MakeChunk ==
  /\ worker = "alive" /\ session # NoSession /\ session.sent < Chunks
  /\ session' = [session EXCEPT !.sent = @ + 1]
  /\ Respond("audio", session.sent + 1)
  /\ UNCHANGED <<tasks, worker, tagged, requests, stuck, published, faults, history>>

\* audio_done, behind the last chunk; or the connection is lost before, or
\* closed after thirty seconds.
EndSession ==
  /\ worker = "alive" /\ session # NoSession
  /\ \/ session.sent = Chunks /\ UNCHANGED <<faults, short>>
     \/ session.sent < Chunks /\ Fault /\ short' = short \cup {session.of}
  /\ Respond("done", 0) /\ session' = NoSession
  /\ UNCHANGED <<tasks, worker, tagged, requests, stuck, published, dirty, spoilt>>

\* An error message of the server; the session goes on.
ProviderError ==
  /\ worker = "alive" /\ session # NoSession /\ Fault
  /\ Respond("error", 0)
  /\ UNCHANGED <<tasks, worker, tagged, requests, session, stuck, published, history>>

\* An exception ends the thread.
WorkerEnds ==
  /\ worker = "alive" /\ session # NoSession /\ Fault
  /\ Respond("error", 0) /\ worker' = "ended" /\ session' = NoSession
  /\ UNCHANGED <<tasks, tagged, requests, stuck, published, history>>

\* reconfigure: with both locks, so that no speech is interrupted.
Reconfigure ==
  /\ lock = Nobody /\ Fault
  /\ worker = "alive" => FreeThread
  /\ Forget /\ tagged' \in BOOLEAN
  /\ UNCHANGED <<tasks, stuck, published, short, spoilt>>

Speak(r) ==
  \/ Begin(r) \/ Synthesize(r) \/ StartWorker(r) \/ WorkerReady(r) \/ WorkerNotReady(r)
  \/ StartTimesOut(r) \/ ReadTimesOut(r) \/ Stop(r)
  \/ ReadAudio(r) \/ ReadDone(r) \/ ReadError(r) \/ Publish(r)

Next ==
  \/ \E r \in Replies : Speak(r)
  \/ TakeRequest \/ SkipRequest \/ MakeChunk \/ EndSession \/ ProviderError \/ WorkerEnds
  \/ Reconfigure

\* Deadlines pass, calls in free threads return, and asyncio.Lock is granted in
\* the order of arrival.  Nothing is assumed of the provider.
Fairness ==
  \A r \in Replies :
    /\ SF_vars(Synthesize(r))
    /\ WF_vars(StartWorker(r)) /\ WF_vars(StartTimesOut(r)) /\ WF_vars(ReadTimesOut(r))
    /\ WF_vars(Stop(r)) /\ WF_vars(Publish(r))

Spec == Init /\ [][Next]_vars
FairSpec == Spec /\ Fairness

-----------------------------------------------------------------------------
Audio(speech, number) == [is |-> "audio", of |-> speech, number |-> number]
Precedes(a, b) ==
  a.of.segment < b.of.segment \/ (a.of.segment = b.of.segment /\ a.number < b.number)

\* The audio published for a reply is its own, from its last attempt, all of it and
\* in order, however replies share the worker and whatever was abandoned before;
\* chunks are missing only from a segment the provider ended early.  The exception
\* is a provider that does not tag its audio: what it still makes of a speech that
\* an error has ended is taken by the next one (speech.py:232-241).
PublishedIsReply ==
  \A r \in Replies : task[r] = "published" /\ r \notin spoilt =>
    LET wav == published[r]
    IN  /\ \A i \in DOMAIN wav :
             wav[i].is = "audio" /\ wav[i].of.reply = r /\ wav[i].of.attempt = attempt[r]
        /\ \A i, j \in DOMAIN wav : i < j => Precedes(wav[i], wav[j])
        /\ \A n \in 1 .. Segments :
             LET speech == [reply |-> r, segment |-> n, attempt |-> attempt[r]]
             IN  \/ speech \in short
                 \/ \A k \in 1 .. Chunks : \E i \in DOMAIN wav : wav[i] = Audio(speech, k)

\* A thread of the executor stays in Queue.get for good only if the provider failed
\* or the worker was replaced, once each: the end of whatever the worker did take
\* up reaches the task that waits for it, through abandoned speeches, errors of
\* other speeches and new workers (speech.py:209-243).
LostThreadsArePaidFor == stuck <= faults

\* While the executor has a thread left, every reply's speech is published or
\* given up, whatever the provider does: no waiting is without a deadline.
SpeechEnds ==
  \A r \in Replies : task[r] = "ready" ~> task[r] \in {"published", "failed"} \/ ~FreeThread
=============================================================================
