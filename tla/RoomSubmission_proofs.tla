------------------------ MODULE RoomSubmission_proofs ------------------------
(***************************************************************************)
(* Theorems about RoomSubmission, for any number of visitors, connections, *)
(* requests, messages and crashes.                                         *)
(***************************************************************************)
EXTENDS RoomSubmission, SequenceTheorems, TLAPS

Busy == {"submit", "append", "enqueue"}

\* A connection that is handling a request knows it.
RequestKnown == \A c \in Connections : handler[c].at \in Busy => handler[c].request \in Requests

\* What is sent and answered, by whom and to which request.
Asked(m, v, r) == m \in DOMAIN sent /\ sent[m].by = v /\ sent[m].request = r

\* A message has its idempotency row; a row may outlive its message.
RowsMatch ==
  /\ \A m \in messages : [by |-> sent[m].by, request |-> sent[m].request, message |-> m] \in requests
  /\ \A q \in requests : Asked(q.message, q.by, q.request)

\* A cleanup deletes no row whose message it leaves.
CleanupKeepsPairs ==
  \A q \in cleanup.rows : q.message \in DOMAIN sent /\ q.message \notin messages \ cleanup.old

\* Answers tell of the message of the request.
AnswersMatch == \A t \in told : Asked(t.message, t.by, t.request)

\* A handler between commit and enqueue is the only one to have its message,
\* and the director has not seen it.
EnqueueOwns ==
  /\ \A c \in Connections : handler[c].at = "enqueue" =>
       /\ Asked(handler[c].message, OwnerOf[c], handler[c].request)
       /\ offers[handler[c].message] = 0
  /\ \A c, d \in Connections :
       handler[c].at = "enqueue" /\ handler[d].at = "enqueue" /\ handler[c].message = handler[d].message => c = d
  /\ \A m \in Ids : m \notin DOMAIN sent => offers[m] = 0

\* Whoever is past the status check of a banned visitor is about to be listed,
\* about to be dropped, or early.
BanReaches ==
  \A c \in Connections : visitors[OwnerOf[c]] = "banned" =>
    /\ handler[c].at = "resolved" =>
         c \in early \/ (ban.at = "banned" /\ ban.visitor = OwnerOf[c])
    /\ c \in registered =>
         \/ c \in early
         \/ ban.at = "banned" /\ ban.visitor = OwnerOf[c]
         \/ ban.at = "drop" /\ ban.visitor = OwnerOf[c] /\ c \in ban.drop

\* Memory that a cleanup has forgotten, or a deleted visitor's, came later.
MemoryIsLater ==
  \A v \in memory : visitors[v] = "deleted" \/ v \in cleanup.forgotten => v \in revived

SubmissionInv ==
  /\ TypeOK /\ RequestKnown
  /\ RowsMatch /\ CleanupKeepsPairs /\ OneMessagePerRequest /\ AnswersMatch
  /\ EnqueueOwns /\ QueuedOnce
  /\ BanReaches /\ MemoryIsLater

-----------------------------------------------------------------------------
LEMMA InitInv == Init => SubmissionInv
<1> SUFFICES ASSUME Init PROVE SubmissionInv
  OBVIOUS
<1> USE SubmissionConstants
<1>1. TypeOK
  BY DEF Init, TypeOK, Handlers, Rows, Closed, NoCleanup, NoBan, Ids
<1>2. RequestKnown /\ BanReaches
  BY DEF Init, RequestKnown, BanReaches, Busy, Closed
<1>3. RowsMatch /\ CleanupKeepsPairs /\ OneMessagePerRequest /\ AnswersMatch
  BY DEF Init, RowsMatch, CleanupKeepsPairs, NoCleanup, OneMessagePerRequest, AnswersMatch
<1>4. EnqueueOwns /\ QueuedOnce
  BY DEF Init, EnqueueOwns, QueuedOnce, Closed, Ids
<1>5. MemoryIsLater
  BY DEF Init, MemoryIsLater
<1> QED
  BY <1>1, <1>2, <1>3, <1>4, <1>5 DEF SubmissionInv

LEMMA HandlerMoves ==
  ASSUME handler \in [Connections -> Handlers], NEW c \in Connections,
         NEW place \in {"closed", "resolved", "open", "submit", "append", "enqueue"}
  PROVE  [handler EXCEPT ![c].at = place] \in [Connections -> Handlers]
<1>1. [handler[c] EXCEPT !.at = place] \in Handlers
  BY DEF Handlers
<1>2. [handler EXCEPT ![c].at = place] = [handler EXCEPT ![c] = [handler[c] EXCEPT !.at = place]]
  OBVIOUS
<1> QED
  BY <1>1, <1>2

\* At changes the place of one handler and nothing else.
LEMMA MoveKeeps ==
  ASSUME handler \in [Connections -> Handlers], NEW c \in Connections, NEW place, At(c, place)
  PROVE  /\ handler'[c].at = place
         /\ handler'[c].request = handler[c].request /\ handler'[c].message = handler[c].message
         /\ \A d \in Connections \ {c} : handler'[d] = handler[d]
<1>1. handler' = [handler EXCEPT ![c].at = place]
  BY DEF At
<1>2. handler'[c] = [handler[c] EXCEPT !.at = place]
  BY <1>1
<1>3. handler[c] \in Handlers
  OBVIOUS
<1>4. \A d \in Connections \ {c} : handler'[d] = handler[d]
  BY <1>1
<1> QED
  BY <1>2, <1>3, <1>4 DEF Handlers

LEMMA AuthorIsVisitor ==
  ASSUME sent \in Seq([by : Visitors, request : Requests]), NEW m \in DOMAIN sent
  PROVE  Author(m) \in Visitors
<1>1. m \in 1 .. Len(sent)
  OBVIOUS
<1>2. sent[m] \in [by : Visitors, request : Requests]
  BY <1>1, ElementOfSeq
<1> QED
  BY <1>2 DEF Author

\* Every action preserves the types.
LEMMA NextTypes == SubmissionInv /\ [Next]_vars => TypeOK'
<1> SUFFICES ASSUME SubmissionInv, [Next]_vars PROVE TypeOK'
  OBVIOUS
<1> USE SubmissionConstants
<1>t. TypeOK /\ RequestKnown
  BY DEF SubmissionInv
<1> USE DEF database, processVars, workVars, historyVars, Ids
<1>1. CASE UNCHANGED vars
  BY <1>t, <1>1 DEF TypeOK, vars
<1>2. ASSUME NEW c \in Connections, Resolve(c) \/ Register(c) \/ Admit(c) PROVE TypeOK'
  <2>1. CASE Resolve(c)
    <3>1. handler' \in [Connections -> Handlers]
      BY <1>t, <2>1, HandlerMoves DEF TypeOK, Resolve, At
    <3>2. registered' \subseteq {d \in Connections : handler'[d].at \notin {"closed", "resolved"}}
      BY <1>t, <2>1 DEF TypeOK, Resolve, At
    <3>3. stale' \subseteq Visitors
      BY <1>t, <2>1 DEF TypeOK, Resolve
    <3> QED
      BY <1>t, <2>1, <3>1, <3>2, <3>3 DEF TypeOK, Resolve
  <2>2. CASE Register(c)
    <3>1. handler' \in [Connections -> Handlers]
      BY <1>t, <2>2, HandlerMoves DEF TypeOK, Register, At
    <3>2. registered' \subseteq {d \in Connections : handler'[d].at \notin {"closed", "resolved"}}
      BY <1>t, <2>2 DEF TypeOK, Register, At
    <3> QED
      BY <1>t, <2>2, <3>1, <3>2 DEF TypeOK, Register
  <2>3. CASE Admit(c)
    <3>1. handler' \in [Connections -> Handlers]
      <4>1. CASE At(c, "append")
        BY <1>t, <4>1, HandlerMoves DEF TypeOK, At
      <4>2. CASE handler' = [handler EXCEPT ![c] = Listening]
        BY <1>t, <4>2 DEF TypeOK, Listening, Closed, Handlers
      <4> QED
        BY <2>3, <4>1, <4>2 DEF Admit
    <3>2. registered' \subseteq {d \in Connections : handler'[d].at \notin {"closed", "resolved"}}
      <4>1. \A d \in Connections \ {c} : handler'[d] = handler[d]
        BY <1>t, <2>3 DEF TypeOK, Admit, At
      <4>2. handler'[c].at \in {"append", "open"}
        <5>1. CASE At(c, "append")
          BY <1>t, <5>1, MoveKeeps DEF TypeOK
        <5>2. CASE handler' = [handler EXCEPT ![c] = Listening]
          BY <1>t, <5>2 DEF TypeOK, Listening, Closed
        <5> QED
          BY <2>3, <5>1, <5>2 DEF Admit
      <4> QED
        BY <1>t, <2>3, <4>1, <4>2 DEF TypeOK, Admit
    <3>3. UNCHANGED <<database, memory, registered, workVars, cleanup, ban, crashes, historyVars>>
      BY <2>3 DEF Admit
    <3> QED
      BY <1>t, <3>1, <3>2, <3>3 DEF TypeOK
  <2> QED
    BY <1>2, <2>1, <2>2, <2>3
<1>3. ASSUME NEW c \in Connections, DropSlow(c) PROVE TypeOK'
  BY <1>t, <1>3 DEF TypeOK, DropSlow
<1>4. ASSUME NEW c \in Connections, HangUp(c) \/ AppendFails(c) \/ RepeatFails(c) PROVE TypeOK'
  <2>1. /\ End(c)
        /\ UNCHANGED <<database, memory, workVars, cleanup, ban, crashes, sent, offers, unanswered, told, revived>>
    BY <1>4 DEF HangUp, AppendFails, RepeatFails
  <2>2. handler' \in [Connections -> Handlers]
    BY <1>t, <2>1 DEF TypeOK, End, Closed, Handlers
  <2>3. registered' \subseteq {d \in Connections : handler'[d].at \notin {"closed", "resolved"}}
    BY <1>t, <2>1 DEF TypeOK, End, Closed
  <2>4. early' \subseteq Connections
    BY <1>t, <2>1 DEF TypeOK, End
  <2> QED
    BY <1>t, <2>1, <2>2, <2>3, <2>4 DEF TypeOK
<1>5. ASSUME NEW c \in Connections, NEW r \in Requests, Send(c, r) PROVE TypeOK'
  BY <1>t, <1>5 DEF TypeOK, Send, Handlers
<1>6. ASSUME NEW c \in Connections, Repeat(c) PROVE TypeOK'
  BY <1>t, <1>6 DEF TypeOK, Handlers, Repeat, Tell, Listening, Closed, RequestKnown, Busy, RowsOf, Rows
<1>7. ASSUME NEW c \in Connections, Commit(c) PROVE TypeOK'
  <2> DEFINE m == Len(sent) + 1
             new == [by |-> OwnerOf[c], request |-> handler[c].request]
  <2>1. m \in Ids /\ new \in [by : Visitors, request : Requests]
    BY <1>t, <1>7 DEF TypeOK, Commit, RequestKnown, Busy
  <2>2. sent' = Append(sent, new) /\ sent' \in Seq([by : Visitors, request : Requests])
    BY <1>t, <1>7, <2>1 DEF TypeOK, Commit
  <2>3. DOMAIN sent' = DOMAIN sent \cup {m} /\ Len(sent') <= MaxMessages
    BY <1>t, <1>7, <2>1, <2>2 DEF TypeOK, Commit
  <2>4. handler' \in [Connections -> Handlers]
    <3> DEFINE step == [handler EXCEPT ![c].at = "enqueue"]
    <3>1. step \in [Connections -> Handlers]
      BY <1>t, HandlerMoves DEF TypeOK
    <3>2. handler' = [step EXCEPT ![c].message = m]
      BY <1>t, <1>7, <3>1 DEF TypeOK, Commit
    <3>3. [step[c] EXCEPT !.message = m] \in Handlers
      BY <2>1, <3>1 DEF Handlers
    <3> QED
      BY <3>1, <3>2, <3>3
  <2>5. registered' \subseteq {d \in Connections : handler'[d].at \notin {"closed", "resolved"}}
    BY <1>t, <1>7 DEF TypeOK, Commit
  <2>6. messages' \subseteq DOMAIN sent' /\ expired' \subseteq messages'
    BY <1>t, <1>7, <2>3 DEF TypeOK, Commit
  <2>7. requests' \subseteq Rows
    BY <1>t, <1>7, <2>1 DEF TypeOK, Commit, Rows
  <2> QED
    BY <1>t, <1>7, <2>2, <2>3, <2>4, <2>5, <2>6, <2>7 DEF TypeOK, Commit
<1>8. ASSUME NEW c \in Connections, Enqueue(c) PROVE TypeOK'
  BY <1>t, <1>8 DEF TypeOK, Handlers, Enqueue, Tell, Listening, Closed, RequestKnown, Busy, Rows,
                      SubmissionInv, EnqueueOwns, Asked
<1>9. ASSUME NEW m \in DOMAIN sent, TakeTurn(m) \/ StopRecording(m) \/ MessageAges(m) PROVE TypeOK'
  BY <1>t, <1>9 DEF TypeOK, TakeTurn, StopRecording, MessageAges
<1>10. ASSUME NEW m \in DOMAIN sent, RecordInteraction(m) PROVE TypeOK'
  <2>1. Author(m) \in Visitors
    BY <1>t, AuthorIsVisitor DEF TypeOK
  <2>2. memory' \subseteq Visitors /\ revived' \subseteq Visitors /\ recorders' \subseteq recorders
    BY <1>t, <1>10, <2>1 DEF TypeOK, RecordInteraction
  <2> QED
    BY <1>t, <1>10, <2>2 DEF TypeOK, RecordInteraction
<1>11. CASE AbandonTurn \/ CompleteTurn
  BY <1>t, <1>11 DEF TypeOK, AbandonTurn, CompleteTurn
<1>12. ASSUME NEW v \in Visitors, VisitorAges(v) \/ Ban(v) \/ Unban(v) PROVE TypeOK'
  <2>1. CASE VisitorAges(v)
    BY <1>t, <2>1 DEF TypeOK, VisitorAges
  <2>2. CASE Ban(v)
    BY <1>t, <2>2 DEF TypeOK, Ban
  <2>3. CASE Unban(v)
    BY <1>t, <2>3 DEF TypeOK, Unban
  <2> QED
    BY <1>12, <2>1, <2>2, <2>3
<1>13. ASSUME NEW v \in Visitors, Forget(v) \/ ForgetFails(v) PROVE TypeOK'
  <2>1. CASE Forget(v)
    <3>1. cleanup' = [cleanup EXCEPT !.todo = @ \ {v}, !.forgotten = @ \cup {v}]
      BY <2>1 DEF Forget
    <3>2. cleanup' \in [at : {"idle", "forget"}, todo : SUBSET Visitors,
                        forgotten : SUBSET Visitors, old : SUBSET Ids, rows : SUBSET Rows]
      BY <1>t, <3>1 DEF TypeOK
    <3> QED
      BY <1>t, <2>1, <3>2 DEF TypeOK, Forget
  <2>2. CASE ForgetFails(v)
    <3>1. memory' \subseteq Visitors
      BY <1>t, <2>2 DEF TypeOK, ForgetFails
    <3> QED
      BY <1>t, <2>2, <3>1 DEF TypeOK, ForgetFails
  <2> QED
    BY <1>13, <2>1, <2>2
<1>14. CASE SelectStale
  <2>1. PICK kept : cleanup' = [at |-> "forget", forgotten |-> {}, old |-> expired,
                      rows |-> {q \in requests : q.message \notin (messages \ expired) \cup kept},
                      todo |-> {v \in stale : visitors[v] # "deleted"} \ {OwnerOf[c] : c \in registered}]
    BY <1>14 DEF SelectStale
  <2>2. expired \in SUBSET Ids
    BY <1>t DEF TypeOK
  <2>3. cleanup' \in [at : {"idle", "forget"}, todo : SUBSET Visitors,
                      forgotten : SUBSET Visitors, old : SUBSET Ids, rows : SUBSET Rows]
    BY <1>t, <2>1, <2>2 DEF TypeOK
  <2> QED
    BY <1>t, <1>14, <2>3 DEF TypeOK, SelectStale
<1>15. CASE CleanUp
  BY <1>t, <1>15 DEF TypeOK, CleanUp, NoCleanup
<1>16. CASE ListConnections \/ BanEnds
  <2>1. CASE ListConnections
    <3>1. ban' \in [at : {"idle", "banned", "drop"}, visitor : Visitors \cup {None},
                    drop : SUBSET Connections]
      BY <1>t, <2>1 DEF TypeOK, ListConnections
    <3>2. early' \subseteq Connections
      BY <1>t, <2>1 DEF TypeOK, ListConnections
    <3> QED
      BY <1>t, <2>1, <3>1, <3>2 DEF TypeOK, ListConnections
  <2>2. CASE BanEnds
    BY <1>t, <2>2 DEF TypeOK, BanEnds, NoBan
  <2> QED
    BY <1>16, <2>1, <2>2
<1>17. ASSUME NEW c \in Connections, Disconnect(c) PROVE TypeOK'
  BY <1>t, <1>17 DEF TypeOK, Disconnect
<1>18. CASE Crash
  BY <1>t, <1>18 DEF TypeOK, Handlers, Crash, Closed, NoCleanup, NoBan, SubmissionInv, EnqueueOwns, Asked
<1> QED
  BY <1>1, <1>2, <1>3, <1>4, <1>5, <1>6, <1>7, <1>8, <1>9, <1>10, <1>11, <1>12, <1>13, <1>14, <1>15,
     <1>16, <1>17, <1>18 DEF Next, Handle

\* A connection knows its request from Send on.
LEMMA NextRequestKnown == SubmissionInv /\ [Next]_vars => RequestKnown'
<1> SUFFICES ASSUME SubmissionInv, [Next]_vars PROVE RequestKnown'
  OBVIOUS
<1>t. handler \in [Connections -> Handlers] /\ RequestKnown
  BY DEF SubmissionInv, TypeOK
<1> USE DEF RequestKnown, Busy, processVars
<1>1. CASE UNCHANGED handler
  BY <1>t, <1>1
<1>2. ASSUME NEW c \in Connections, Resolve(c) \/ Register(c) \/ Admit(c) \/ Commit(c) PROVE RequestKnown'
  <2>1. CASE Resolve(c) \/ Register(c)
    BY <1>t, <2>1, MoveKeeps DEF Resolve, Register
  <2>2. CASE Admit(c)
    BY <1>t, <2>2, MoveKeeps DEF Admit, Listening, Closed
  <2>3. CASE Commit(c)
    <3>1. handler[c].at = "append" /\ \A d \in Connections \ {c} : handler'[d] = handler[d]
      BY <1>t, <2>3 DEF Commit
    <3>2. handler'[c].request = handler[c].request
      BY <1>t, <2>3 DEF Commit, Handlers
    <3> QED
      BY <1>t, <3>1, <3>2
  <2> QED
    BY <1>2, <2>1, <2>2, <2>3
<1>3. ASSUME NEW c \in Connections, HangUp(c) \/ AppendFails(c) \/ RepeatFails(c) \/ Repeat(c) \/ Enqueue(c)
      PROVE RequestKnown'
  BY <1>t, <1>3 DEF HangUp, AppendFails, RepeatFails, Repeat, Enqueue, End, Listening, Closed
<1>4. ASSUME NEW c \in Connections, NEW r \in Requests, Send(c, r) PROVE RequestKnown'
  BY <1>t, <1>4 DEF Send
<1>5. CASE Crash
  BY <1>5 DEF Crash, Closed
<1> QED
  BY <1>1, <1>2, <1>3, <1>4, <1>5
  DEF Next, Handle, vars, DropSlow, Disconnect, TakeTurn, RecordInteraction, StopRecording, MessageAges,
      AbandonTurn, CompleteTurn, VisitorAges, Forget, ForgetFails, Ban, Unban, SelectStale, CleanUp,
      ListConnections, BanEnds

RowFacts == RowsMatch /\ CleanupKeepsPairs /\ OneMessagePerRequest /\ AnswersMatch

\* Commit writes both sides, cleanup leaves no message without its row, and the search of a handler
\* that holds the lock has found no row: so no request has two messages.
LEMMA NextRows == SubmissionInv /\ [Next]_vars => RowFacts'
<1> SUFFICES ASSUME SubmissionInv, [Next]_vars PROVE RowFacts'
  OBVIOUS
<1>t. TypeOK /\ RequestKnown /\ RowFacts /\ EnqueueOwns
  BY DEF SubmissionInv, RowFacts
<1> USE DEF Asked, database, historyVars, RowFacts
<1>1. CASE UNCHANGED <<messages, requests, sent, told, cleanup>>
  BY <1>t, <1>1 DEF RowsMatch, CleanupKeepsPairs, OneMessagePerRequest, AnswersMatch
<1>2. ASSUME NEW c \in Connections, Repeat(c) \/ Enqueue(c) PROVE RowFacts'
  <2>1. UNCHANGED <<messages, requests, sent, cleanup>>
    BY <1>2 DEF Repeat, Enqueue
  <2>2. (RowsMatch /\ CleanupKeepsPairs /\ OneMessagePerRequest)'
    BY <1>t, <2>1 DEF RowsMatch, CleanupKeepsPairs, OneMessagePerRequest
  <2>3. PICK m : Tell(c, m) /\ Asked(m, OwnerOf[c], handler[c].request)
    BY <1>t, <1>2 DEF Repeat, Enqueue, RowsOf, RowsMatch, EnqueueOwns
  <2>4. AnswersMatch'
    BY <1>t, <2>1, <2>3 DEF AnswersMatch, Tell
  <2> QED
    BY <2>2, <2>4
<1>3. ASSUME NEW c \in Connections, Commit(c) PROVE RowFacts'
  <2> DEFINE m == Len(sent) + 1
             v == OwnerOf[c]
             r == handler[c].request
  <2>1. /\ sent' = Append(sent, [by |-> v, request |-> r])
        /\ messages' = messages \cup {m} /\ told' = told /\ cleanup' = cleanup
        /\ requests' = requests \cup {[by |-> v, request |-> r, message |-> m]}
        /\ RowsOf(v, r) = {}
    BY <1>3 DEF Commit
  <2>2. /\ DOMAIN sent' = DOMAIN sent \cup {m} /\ m \notin DOMAIN sent
        /\ sent'[m] = [by |-> v, request |-> r]
        /\ \A k \in DOMAIN sent : sent'[k] = sent[k]
    BY <1>t, <2>1 DEF TypeOK
  <2>3. messages \subseteq DOMAIN sent
    BY <1>t DEF TypeOK
  <2>4. RowsMatch'
    BY <1>t, <2>1, <2>2, <2>3 DEF RowsMatch
  <2>5. \A k \in messages : sent[k] # [by |-> v, request |-> r]
    <3> SUFFICES ASSUME NEW k \in messages, sent[k] = [by |-> v, request |-> r] PROVE FALSE
      OBVIOUS
    <3>1. [by |-> sent[k].by, request |-> sent[k].request, message |-> k] \in requests
      BY <1>t DEF RowsMatch
    <3>2. [by |-> sent[k].by, request |-> sent[k].request, message |-> k] \in RowsOf(v, r)
      BY <3>1 DEF RowsOf
    <3> QED
      BY <2>1, <3>2
  <2>6. OneMessagePerRequest'
    BY <1>t, <2>1, <2>2, <2>3, <2>5 DEF OneMessagePerRequest
  <2>7. AnswersMatch'
    BY <1>t, <2>1, <2>2 DEF AnswersMatch
  <2>8. CleanupKeepsPairs'
    BY <1>t, <2>1, <2>2 DEF CleanupKeepsPairs
  <2> QED
    BY <2>4, <2>6, <2>7, <2>8
<1>4. CASE CleanUp
  <2>1. /\ messages' = messages \ cleanup.old /\ requests' = requests \ cleanup.rows
        /\ UNCHANGED <<sent, told>> /\ cleanup'.rows = {}
    BY <1>4 DEF CleanUp, NoCleanup
  <2>2. RowsMatch'
    BY <1>t, <2>1 DEF RowsMatch, CleanupKeepsPairs
  <2> QED
    BY <1>t, <2>1, <2>2 DEF CleanupKeepsPairs, OneMessagePerRequest, AnswersMatch
<1>5. ASSUME NEW v \in Visitors, Forget(v) \/ ForgetFails(v) PROVE RowFacts'
  <2>1. UNCHANGED <<messages, requests, sent, told>> /\ cleanup'.rows = cleanup.rows /\ cleanup'.old = cleanup.old
    BY <1>t, <1>5 DEF TypeOK, Forget, ForgetFails
  <2> QED
    BY <1>t, <2>1 DEF RowsMatch, CleanupKeepsPairs, OneMessagePerRequest, AnswersMatch
<1>6. CASE SelectStale
  <2>1. UNCHANGED <<messages, requests, sent, told>>
    BY <1>6 DEF SelectStale
  <2>2. /\ cleanup'.old = expired
        /\ \A q \in cleanup'.rows : q \in requests /\ q.message \notin messages \ expired
    BY <1>6 DEF SelectStale
  <2>3. CleanupKeepsPairs'
    BY <1>t, <2>1, <2>2 DEF RowsMatch, CleanupKeepsPairs
  <2> QED
    BY <1>t, <2>1, <2>3 DEF RowsMatch, OneMessagePerRequest, AnswersMatch
<1>7. CASE Crash
  BY <1>t, <1>7 DEF Crash, NoCleanup, RowsMatch, CleanupKeepsPairs, OneMessagePerRequest, AnswersMatch
<1> QED
  BY <1>1, <1>2, <1>3, <1>4, <1>5, <1>6, <1>7
  DEF Next, Handle, vars, Resolve, Register, DropSlow, HangUp, Send, RepeatFails, Admit, AppendFails, Disconnect,
      TakeTurn, RecordInteraction, StopRecording, MessageAges, AbandonTurn, CompleteTurn, VisitorAges,
      Ban, Unban, ListConnections, BanEnds

\* As long as no handler takes or leaves the place between commit and enqueue,
\* nothing changes for the director.
LEMMA SameWaiting ==
  ASSUME EnqueueOwns, QueuedOnce, UNCHANGED <<sent, offers, unanswered, crashes>>,
         \A c \in Connections : handler[c].at = "enqueue" \/ handler'[c].at = "enqueue" => handler'[c] = handler[c]
  PROVE  (EnqueueOwns /\ QueuedOnce)'
<1>1. EnqueueOwns'
  BY DEF EnqueueOwns, Asked
<1>2. QueuedOnce'
  BY DEF QueuedOnce
<1> QED
  BY <1>1, <1>2

\* Commit makes a handler the owner of a new message, Enqueue gives it to the
\* director once, and an end of the process writes it down as unanswered.
LEMMA NextWaiting == SubmissionInv /\ [Next]_vars => (EnqueueOwns /\ QueuedOnce)'
<1> SUFFICES ASSUME SubmissionInv, [Next]_vars PROVE (EnqueueOwns /\ QueuedOnce)'
  OBVIOUS
<1>t. TypeOK /\ handler \in [Connections -> Handlers] /\ EnqueueOwns /\ QueuedOnce
  BY DEF SubmissionInv, TypeOK
<1> USE DEF processVars, historyVars, Asked, Ids
<1>d. DOMAIN sent \subseteq Ids
  <2>1. sent \in Seq([by : Visitors, request : Requests]) /\ Len(sent) <= MaxMessages
    BY <1>t DEF TypeOK
  <2>2. DOMAIN sent = 1 .. Len(sent) /\ Len(sent) \in Nat
    BY <2>1
  <2> QED
    BY <2>1, <2>2, SubmissionConstants
<1>1. CASE UNCHANGED <<handler, sent, offers, unanswered, crashes>>
  BY <1>t, <1>1, SameWaiting
<1>2. ASSUME NEW c \in Connections,
             Resolve(c) \/ Register(c) \/ Admit(c) \/ HangUp(c) \/ AppendFails(c) \/ RepeatFails(c) \/ Repeat(c)
             \/ \E r \in Requests : Send(c, r)
      PROVE (EnqueueOwns /\ QueuedOnce)'
  <2>1. UNCHANGED <<sent, offers, unanswered, crashes>>
    BY <1>2 DEF Resolve, Register, Admit, HangUp, AppendFails, RepeatFails, Repeat, Send
  <2>2. /\ \A d \in Connections \ {c} : handler'[d] = handler[d]
        /\ handler[c].at # "enqueue" /\ handler'[c].at # "enqueue"
    <3>1. CASE Resolve(c) \/ Register(c)
      BY <1>t, <3>1, MoveKeeps DEF Resolve, Register
    <3>2. CASE Admit(c)
      BY <1>t, <3>2, MoveKeeps DEF Admit, Listening, Closed
    <3>3. CASE HangUp(c) \/ AppendFails(c) \/ RepeatFails(c) \/ Repeat(c) \/ \E r \in Requests : Send(c, r)
      BY <1>t, <3>3 DEF HangUp, AppendFails, RepeatFails, End, Repeat, Send, Listening, Closed
    <3> QED
      BY <1>2, <3>1, <3>2, <3>3
  <2> QED
    BY <1>t, <2>1, <2>2, SameWaiting
<1>3. ASSUME NEW c \in Connections, Commit(c) PROVE (EnqueueOwns /\ QueuedOnce)'
  <2> DEFINE m == Len(sent) + 1
             v == OwnerOf[c]
             r == handler[c].request
  <2>1. /\ \A d \in Connections \ {c} : handler'[d] = handler[d]
        /\ handler'[c].at = "enqueue" /\ handler'[c].message = m /\ handler'[c].request = r
    BY <1>t, <1>3 DEF Commit, Handlers
  <2>2. /\ DOMAIN sent' = DOMAIN sent \cup {m} /\ m \notin DOMAIN sent /\ m \in Ids
        /\ sent'[m] = [by |-> v, request |-> r]
        /\ \A k \in DOMAIN sent : sent'[k] = sent[k]
    BY <1>t, <1>3 DEF TypeOK, Commit
  <2>3. UNCHANGED <<offers, unanswered, crashes>> /\ offers[m] = 0
    BY <1>t, <1>3, <2>2 DEF Commit, EnqueueOwns
  <2>4. EnqueueOwns'
    BY <1>t, <2>1, <2>2, <2>3 DEF EnqueueOwns
  <2>5. ASSUME NEW k \in DOMAIN sent PROVE
          \/ offers[k] > 0 \/ k \in unanswered
          \/ \E d \in Connections : handler'[d].at = "enqueue" /\ handler'[d].message = k
    <3>1. CASE \E d \in Connections : handler[d].at = "enqueue" /\ handler[d].message = k
      <4>1. PICK d \in Connections : handler[d].at = "enqueue" /\ handler[d].message = k
        BY <3>1
      <4>2. d # c
        BY <1>3, <4>1 DEF Commit
      <4> QED
        BY <2>1, <4>1, <4>2
    <3> QED
      BY <1>t, <3>1 DEF QueuedOnce
  <2>6. QueuedOnce'
    <3>1. offers[m] <= 1 /\ handler'[c].at = "enqueue" /\ handler'[c].message = m
      BY <2>1, <2>3
    <3> HIDE DEF m
    <3>2. \A k \in DOMAIN sent : offers'[k] <= IF k \in unanswered' THEN 1 + crashes' ELSE 1
      BY <1>t, <2>3 DEF QueuedOnce
    <3>3. offers'[m] <= IF m \in unanswered' THEN 1 + crashes' ELSE 1
      BY <1>t, <2>3 DEF TypeOK
    <3> QED BY <2>2, <2>3, <2>5, <3>1, <3>2, <3>3 DEF QueuedOnce
  <2> QED
    BY <2>4, <2>6
<1>4. ASSUME NEW c \in Connections, Enqueue(c) PROVE (EnqueueOwns /\ QueuedOnce)'
  <2> DEFINE m == handler[c].message
  <2>1. /\ handler[c].at = "enqueue" /\ handler'[c].at = "open"
        /\ \A d \in Connections \ {c} : handler'[d] = handler[d]
    BY <1>t, <1>4 DEF Enqueue, Listening, Closed
  <2>2. m \in DOMAIN sent /\ m \in Ids /\ offers[m] = 0
    BY <1>t, <1>d, <2>1 DEF EnqueueOwns
  <2>3. UNCHANGED <<sent, unanswered, crashes>> /\ offers'[m] = 1 /\ \A k \in Ids \ {m} : offers'[k] = offers[k]
    BY <1>t, <1>4, <2>2 DEF Enqueue, TypeOK
  <2>4. \A d \in Connections : handler'[d].at = "enqueue" =>
          d # c /\ handler[d].at = "enqueue" /\ handler'[d] = handler[d] /\ handler[d].message # m
    BY <1>t, <2>1 DEF EnqueueOwns
  <2>5. \A d \in Connections : handler[d].at = "enqueue" => handler[d].message \in Ids
    BY <1>t, <1>d DEF EnqueueOwns
  <2>6. EnqueueOwns'
    BY <1>t, <2>2, <2>3, <2>4, <2>5 DEF EnqueueOwns
  <2>7. ASSUME NEW k \in DOMAIN sent PROVE
          /\ offers'[k] <= IF k \in unanswered THEN 1 + crashes ELSE 1
          /\ \/ offers'[k] > 0 \/ k \in unanswered
             \/ \E d \in Connections : handler'[d].at = "enqueue" /\ handler'[d].message = k
    <3>1. CASE k = m
      BY <1>t, <2>3, <3>1 DEF TypeOK
    <3>2. CASE k # m
      <4>1. offers'[k] = offers[k]
        BY <1>d, <2>3, <3>2
      <4>2. ASSUME NEW d \in Connections, handler[d].at = "enqueue", handler[d].message = k
            PROVE  handler'[d].at = "enqueue" /\ handler'[d].message = k
        BY <2>1, <3>2, <4>2
      <4> QED
        BY <1>t, <4>1, <4>2 DEF QueuedOnce
    <3> QED
      BY <3>1, <3>2
  <2>8. QueuedOnce'
    BY <2>3, <2>7 DEF QueuedOnce
  <2> QED
    BY <2>6, <2>8
<1>5. CASE Crash
  <2>1. UNCHANGED <<sent, offers>> /\ (\A c \in Connections : handler'[c].at = "closed") /\ crashes' = crashes + 1
    BY <1>5 DEF Crash, Closed
  <2>2. EnqueueOwns'
    BY <1>t, <2>1 DEF EnqueueOwns
  <2>3. unanswered \subseteq unanswered' /\ \A c \in Connections : handler[c].at = "enqueue" => handler[c].message \in unanswered'
    BY <1>5 DEF Crash
  <2>4. QueuedOnce'
    <3>1. \A k \in DOMAIN sent : k \in Ids /\ offers[k] \in Nat /\ crashes \in Nat
      BY <1>t, <1>d, SubmissionConstants DEF TypeOK
    <3>2. ASSUME NEW k \in DOMAIN sent PROVE
            /\ offers[k] <= IF k \in unanswered' THEN 1 + (crashes + 1) ELSE 1
            /\ offers[k] > 0 \/ k \in unanswered'
      BY <1>t, <2>3, <3>1, <3>2 DEF QueuedOnce
    <3> QED BY <2>1, <3>2 DEF QueuedOnce
  <2> QED
    BY <2>2, <2>4
<1> QED
  BY <1>1, <1>2, <1>3, <1>4, <1>5
  DEF Next, Handle, vars, DropSlow, Disconnect, TakeTurn, RecordInteraction, StopRecording, MessageAges,
      AbandonTurn, CompleteTurn, VisitorAges, Forget, ForgetFails, Ban, Unban, SelectStale, CleanUp,
      ListConnections, BanEnds

\* The row says "banned" before the hub is asked for connections.
LEMMA NextBan == SubmissionInv /\ [Next]_vars => BanReaches'
<1> SUFFICES ASSUME SubmissionInv, [Next]_vars PROVE BanReaches'
  OBVIOUS
<1>t. TypeOK /\ handler \in [Connections -> Handlers] /\ BanReaches
  BY DEF SubmissionInv, TypeOK
<1> USE SubmissionConstants DEF processVars, historyVars, database
<1>1. CASE UNCHANGED <<visitors, handler, registered, ban, early>>
  BY <1>t, <1>1 DEF BanReaches
<1>2. ASSUME NEW c \in Connections, Resolve(c) \/ Register(c) \/ Admit(c) PROVE BanReaches'
  <2>1. UNCHANGED <<visitors, ban, early>>
    BY <1>2 DEF Resolve, Register, Admit
  <2>2. CASE Resolve(c)
    BY <1>t, <2>1, <2>2, MoveKeeps DEF Resolve, BanReaches
  <2>3. CASE Register(c)
    BY <1>t, <2>1, <2>3, MoveKeeps DEF Register, BanReaches
  <2>4. CASE Admit(c)
    BY <1>t, <2>1, <2>4, MoveKeeps DEF Admit, Listening, Closed, BanReaches
  <2> QED
    BY <1>2, <2>2, <2>3, <2>4
<1>3. ASSUME NEW c \in Connections, DropSlow(c) PROVE BanReaches'
  <2>1. handler[c].at # "resolved"
    BY <1>t, <1>3 DEF TypeOK, DropSlow
  <2> QED
    BY <1>t, <1>3, <2>1 DEF DropSlow, BanReaches
<1>4. ASSUME NEW c \in Connections, HangUp(c) \/ AppendFails(c) \/ RepeatFails(c) PROVE BanReaches'
  BY <1>t, <1>4 DEF HangUp, AppendFails, RepeatFails, End, Closed, BanReaches
<1>5. ASSUME NEW c \in Connections, Repeat(c) \/ Enqueue(c) \/ \E r \in Requests : Send(c, r) PROVE BanReaches'
  BY <1>t, <1>5 DEF Repeat, Enqueue, Send, Listening, Closed, BanReaches
<1>6. ASSUME NEW c \in Connections, Commit(c) PROVE BanReaches'
  <2>1. handler'[c].at = "enqueue" /\ \A d \in Connections \ {c} : handler'[d] = handler[d]
    BY <1>t, <1>6 DEF Commit, Handlers
  <2> QED
    BY <1>t, <1>6, <2>1 DEF Commit, BanReaches
<1>7. ASSUME NEW v \in Visitors, Ban(v) PROVE BanReaches'
  BY <1>t, <1>7 DEF TypeOK, Ban, BanReaches
<1>8. ASSUME NEW v \in Visitors, Unban(v) PROVE BanReaches'
  BY <1>t, <1>8 DEF TypeOK, Unban, BanReaches
<1>9. CASE ListConnections
  <2>1. ban'.at = "drop" /\ ban'.visitor = ban.visitor
        /\ ban'.drop = {c \in registered : OwnerOf[c] = ban.visitor}
    BY <1>t, <1>9 DEF TypeOK, ListConnections
  <2> QED
    BY <1>t, <1>9, <2>1 DEF ListConnections, BanReaches
<1>10. ASSUME NEW c \in Connections, Disconnect(c) PROVE BanReaches'
  <2>1. ban'.at = ban.at /\ ban'.visitor = ban.visitor /\ ban'.drop = ban.drop \ {c}
    BY <1>t, <1>10 DEF TypeOK, Disconnect
  <2> QED
    BY <1>t, <1>10, <2>1 DEF Disconnect, BanReaches
<1>11. CASE BanEnds
  BY <1>t, <1>11 DEF BanEnds, BanReaches
<1>12. CASE CleanUp
  BY <1>t, <1>12 DEF CleanUp, BanReaches
<1>13. CASE Crash
  BY <1>13 DEF Crash, Closed, BanReaches
<1> QED
  BY <1>1, <1>2, <1>3, <1>4, <1>5, <1>6, <1>7, <1>8, <1>9, <1>10, <1>11, <1>12, <1>13
  DEF Next, Handle, vars, TakeTurn, RecordInteraction, StopRecording, MessageAges, AbandonTurn, CompleteTurn,
      VisitorAges, Forget, ForgetFails, SelectStale

\* Who is forgotten is forgotten first, and only a recorder brings memory back.
LEMMA NextMemory == SubmissionInv /\ [Next]_vars => MemoryIsLater'
<1> SUFFICES ASSUME SubmissionInv, [Next]_vars PROVE MemoryIsLater'
  OBVIOUS
<1>t. TypeOK /\ MemoryIsLater
  BY DEF SubmissionInv
<1> USE DEF historyVars, database
<1>1. CASE UNCHANGED <<visitors, memory, cleanup, revived>>
  BY <1>t, <1>1 DEF MemoryIsLater
<1>2. ASSUME NEW m \in DOMAIN sent, RecordInteraction(m) PROVE MemoryIsLater'
  BY <1>t, <1>2 DEF RecordInteraction, MemoryIsLater
<1>3. ASSUME NEW v \in Visitors, Forget(v) PROVE MemoryIsLater'
  <2>1. cleanup'.forgotten = cleanup.forgotten \cup {v}
    BY <1>t, <1>3 DEF TypeOK, Forget
  <2> QED
    BY <1>t, <1>3, <2>1 DEF Forget, MemoryIsLater
<1>4. ASSUME NEW v \in Visitors, ForgetFails(v) PROVE MemoryIsLater'
  <2>1. cleanup'.forgotten = cleanup.forgotten /\ memory' \subseteq memory
    BY <1>t, <1>4 DEF TypeOK, ForgetFails
  <2> QED
    BY <1>t, <1>4, <2>1 DEF ForgetFails, MemoryIsLater
<1>5. ASSUME NEW v \in Visitors, Ban(v) \/ Unban(v) PROVE MemoryIsLater'
  BY <1>t, <1>5 DEF TypeOK, Ban, Unban, MemoryIsLater
<1>6. CASE SelectStale
  BY <1>t, <1>6 DEF SelectStale, MemoryIsLater
<1>7. CASE CleanUp
  BY <1>t, <1>7 DEF TypeOK, CleanUp, NoCleanup, MemoryIsLater
<1>8. CASE Crash
  BY <1>t, <1>8 DEF Crash, NoCleanup, MemoryIsLater
<1> QED
  BY <1>1, <1>2, <1>3, <1>4, <1>5, <1>6, <1>7, <1>8
  DEF Next, Handle, vars, Resolve, Register, DropSlow, HangUp, Send, Repeat, RepeatFails, Admit, Commit, AppendFails,
      Enqueue, Disconnect, TakeTurn, StopRecording, MessageAges, AbandonTurn, CompleteTurn, VisitorAges,
      ListConnections, BanEnds

-----------------------------------------------------------------------------
\* SubmissionInv is an inductive invariant of the specification.
THEOREM SubmissionInvariant == Spec => []SubmissionInv
<1>1. SubmissionInv /\ [Next]_vars => SubmissionInv'
  BY NextTypes, NextRequestKnown, NextRows, NextWaiting, NextBan, NextMemory DEF SubmissionInv, RowFacts
<1> QED
  BY InitInv, <1>1, PTL DEF Spec

\* Every variable has its type in every reachable state.
THEOREM SubmissionTypes == Spec => []TypeOK
<1>1. SubmissionInv => TypeOK
  BY DEF SubmissionInv
<1> QED
  BY SubmissionInvariant, <1>1, PTL

\* The room shows at most one message of a request, however it is repeated.
THEOREM RequestsAreIdempotent == Spec => []OneMessagePerRequest
<1>1. SubmissionInv => OneMessagePerRequest
  BY DEF SubmissionInv
<1> QED
  BY SubmissionInvariant, <1>1, PTL

\* Two answers to one request name the same message while it is there.
THEOREM AnswersAgree == Spec => []RepeatsAgree
<1>1. ASSUME SubmissionInv PROVE RepeatsAgree
  <2>1. TypeOK /\ OneMessagePerRequest /\ AnswersMatch
    BY <1>1 DEF SubmissionInv
  <2> SUFFICES ASSUME NEW p \in told, NEW q \in told, p.by = q.by, p.request = q.request,
                      p.message \in messages, q.message \in messages
               PROVE  p.message = q.message
    BY DEF RepeatsAgree
  <2>2. p.message \in 1 .. Len(sent) /\ q.message \in 1 .. Len(sent)
    BY <2>1 DEF AnswersMatch, Asked, TypeOK
  <2>3. /\ sent[p.message] \in [by : Visitors, request : Requests]
        /\ sent[q.message] \in [by : Visitors, request : Requests]
    BY <2>1, <2>2, ElementOfSeq DEF TypeOK
  <2>4. sent[p.message] = sent[q.message]
    BY <2>1, <2>3 DEF AnswersMatch, Asked
  <2> QED
    BY <2>1, <2>4 DEF OneMessagePerRequest
<1> QED
  BY SubmissionInvariant, <1>1, PTL

\* No cleanup leaves a message without its idempotency row.
THEOREM MessagesHaveRows == Spec => []MessageHasRow
<1>1. ASSUME SubmissionInv PROVE MessageHasRow
  <2> SUFFICES ASSUME NEW m \in messages
               PROVE  \E q \in RowsOf(sent[m].by, sent[m].request) : q.message = m
    BY DEF MessageHasRow
  <2>1. [by |-> sent[m].by, request |-> sent[m].request, message |-> m] \in requests
    BY <1>1 DEF SubmissionInv, RowsMatch
  <2> QED
    BY <2>1 DEF RowsOf
<1> QED
  BY SubmissionInvariant, <1>1, PTL

\* A committed message reaches the director once in a life of the process, and
\* again in a later one only if the process that ended owed it an answer.
THEOREM MessagesAreQueuedOnce == Spec => []QueuedOnce
<1>1. SubmissionInv => QueuedOnce
  BY DEF SubmissionInv
<1> QED
  BY SubmissionInvariant, <1>1, PTL

\* What a ban leaves in the hub had passed the status check before it.
THEOREM BansRevoke == Spec => []BanRevokes
<1>1. SubmissionInv => BanRevokes
  BY DEF SubmissionInv, TypeOK, BanReaches, BanRevokes
<1> QED
  BY SubmissionInvariant, <1>1, PTL

\* A visitor is deleted after his memory, whatever a late recorder brings back.
THEOREM MemoryGoesFirst == Spec => []ForgottenFirst
<1>1. SubmissionInv => ForgottenFirst
  BY DEF SubmissionInv, MemoryIsLater, ForgottenFirst
<1> QED
  BY SubmissionInvariant, <1>1, PTL

-----------------------------------------------------------------------------
(***************************************************************************)
(* RoomSubmission implements RoomLog.                                      *)
(***************************************************************************)
\* A handler that answers, answers its own request.
LEMMA TellIsAnswer ==
  ASSUME NEW c \in Connections, NEW m, Tell(c, m), Asked(m, OwnerOf[c], handler[c].request),
         UNCHANGED <<sent, messages>>
  PROVE  Log!Next
<1>1. Log!Answer(m) /\ m \in DOMAIN sent
  BY DEF Tell, Asked, Log!Answer
<1> QED BY <1>1 DEF Log!Next

\* Commit accepts, a cleanup lets messages expire, and everything else that
\* reaches a browser is an answer.
LEMMA LogStep == SubmissionInv /\ [Next]_vars => [Log!Next]_Log!vars
<1> SUFFICES ASSUME SubmissionInv, [Next]_vars PROVE Log!Next \/ UNCHANGED Log!vars
  OBVIOUS
<1>t. TypeOK /\ RequestKnown /\ RowsMatch /\ EnqueueOwns
  BY DEF SubmissionInv
<1> USE DEF Log!vars, database, historyVars
<1>1. ASSUME NEW c \in Connections, Commit(c) PROVE Log!Next
  <2> DEFINE v == OwnerOf[c]
             r == handler[c].request
  <2>1. v \in Visitors /\ r \in Requests
    BY <1>t, <1>1, SubmissionConstants DEF Commit, RequestKnown, Busy
  <2>2. \A m \in messages : sent[m] # [by |-> v, request |-> r]
    <3> SUFFICES ASSUME NEW m \in messages, sent[m] = [by |-> v, request |-> r] PROVE FALSE
      OBVIOUS
    <3>1. [by |-> v, request |-> r, message |-> m] \in requests
      BY <1>t DEF RowsMatch
    <3>2. [by |-> v, request |-> r, message |-> m] \in RowsOf(v, r)
      BY <3>1 DEF RowsOf
    <3> QED BY <1>1, <3>2 DEF Commit
  <2>3. Log!Accept(v, r)
    BY <1>1, <2>2 DEF Commit, Log!Accept
  <2> QED BY <2>1, <2>3 DEF Log!Next
<1>2. ASSUME NEW c \in Connections, Repeat(c) PROVE Log!Next
  <2>1. PICK q \in RowsOf(OwnerOf[c], handler[c].request) : Tell(c, q.message)
    BY <1>2 DEF Repeat
  <2>2. Asked(q.message, OwnerOf[c], handler[c].request)
    BY <1>t, <2>1 DEF RowsMatch, RowsOf
  <2> QED BY <1>2, <2>1, <2>2, TellIsAnswer DEF Repeat
<1>3. ASSUME NEW c \in Connections, Enqueue(c) PROVE Log!Next
  <2>1. Asked(handler[c].message, OwnerOf[c], handler[c].request)
    BY <1>t, <1>3 DEF Enqueue, EnqueueOwns
  <2> QED BY <1>3, <2>1, TellIsAnswer DEF Enqueue
<1>4. CASE CleanUp
  BY <1>4 DEF CleanUp, Log!Next, Log!Expire
<1>5. ASSUME NEW c \in Connections,
             Resolve(c) \/ Register(c) \/ DropSlow(c) \/ HangUp(c) \/ RepeatFails(c) \/ Admit(c) \/ AppendFails(c)
             \/ Disconnect(c) \/ \E r \in Requests : Send(c, r)
      PROVE  UNCHANGED Log!vars
  BY <1>5 DEF Resolve, Register, DropSlow, HangUp, RepeatFails, Admit, AppendFails, Disconnect, Send
<1>6. ASSUME NEW m \in DOMAIN sent, TakeTurn(m) \/ RecordInteraction(m) \/ StopRecording(m) \/ MessageAges(m)
      PROVE  UNCHANGED Log!vars
  BY <1>6 DEF TakeTurn, RecordInteraction, StopRecording, MessageAges
<1>7. ASSUME NEW v \in Visitors, VisitorAges(v) \/ Forget(v) \/ ForgetFails(v) \/ Ban(v) \/ Unban(v)
      PROVE  UNCHANGED Log!vars
  BY <1>7 DEF VisitorAges, Forget, ForgetFails, Ban, Unban
<1>8. CASE AbandonTurn \/ CompleteTurn \/ SelectStale \/ ListConnections \/ BanEnds \/ Crash
  BY <1>8 DEF AbandonTurn, CompleteTurn, SelectStale, ListConnections, BanEnds, Crash
<1>9. CASE UNCHANGED vars
  BY <1>9 DEF vars
<1> QED
  BY <1>1, <1>2, <1>3, <1>4, <1>5, <1>6, <1>7, <1>8, <1>9 DEF Next, Handle

\* Whatever is repeated, on however many connections, and whatever cleanups and
\* crashes come between, what the browsers see is the log of RoomLog.
THEOREM BrowsersSeeOneLog == Spec => ImplementsLog
<1>1. Init => Log!Init
  BY DEF Init, Log!Init
<1>2. SubmissionInv /\ [Next]_vars => [Log!Next]_Log!vars
  BY LogStep
<1> QED
  BY <1>1, <1>2, SubmissionInvariant, PTL DEF Spec, ImplementsLog, Log!Spec

-----------------------------------------------------------------------------
(***************************************************************************)
(* RoomSubmission implements RoomQueue.                                    *)
(***************************************************************************)
Given == {m \in Ids : offers[m] > 0}

\* Only a handler gives the director a message, and it is new to him; only the
\* worker takes one.
LEMMA QueueStep == SubmissionInv /\ [Next]_vars => [Queue!Next]_Queue!vars
<1> SUFFICES ASSUME SubmissionInv, [Next]_vars PROVE Queue!Next \/ UNCHANGED Queue!vars
  OBVIOUS
<1>t. TypeOK /\ EnqueueOwns
  BY DEF SubmissionInv
<1>d. DOMAIN sent \subseteq Ids
  <2>1. sent \in Seq([by : Visitors, request : Requests]) /\ Len(sent) <= MaxMessages
    BY <1>t DEF TypeOK
  <2>2. DOMAIN sent = 1 .. Len(sent) /\ Len(sent) \in Nat
    BY <2>1
  <2> QED
    BY <2>1, <2>2, SubmissionConstants DEF Ids
<1> USE DEF Queue!vars, workVars, historyVars
<1>1. ASSUME NEW c \in Connections, Enqueue(c) PROVE Queue!Next
  <2>1. handler[c].message \in Ids /\ offers[handler[c].message] = 0
    BY <1>t, <1>d, <1>1 DEF Enqueue, EnqueueOwns, Asked
  <2>2. PICK m \in Ids : m = handler[c].message
    BY <2>1
  <2>3. m \notin Given /\ Given' = Given \cup {m}
    BY <1>t, <1>1, <2>1, <2>2 DEF TypeOK, Enqueue, Given
  <2>4. Queue!Give(m)
    BY <1>1, <2>2, <2>3 DEF Enqueue, Given, Queue!Give
  <2> QED BY <2>4 DEF Queue!Next
<1>2. ASSUME NEW m \in DOMAIN sent, TakeTurn(m) PROVE Queue!Next
  <2>1. Queue!Take(m)
    BY <1>2 DEF TakeTurn, Queue!Take
  <2> QED BY <1>d, <2>1 DEF Queue!Next
<1>3. CASE AbandonTurn \/ CompleteTurn
  BY <1>3 DEF AbandonTurn, CompleteTurn, Queue!Next, Queue!Finish
<1>4. CASE Crash
  <2>1. crashes' # crashes /\ turn' = 0 /\ Given' = Given /\ queue' = {}
    BY <1>t, <1>4 DEF Crash, TypeOK, Given
  <2>2. \E again \in SUBSET (Queue!Unanswered \ queue') : Given' = Given \ again
    BY <2>1
  <2> QED BY <2>1, <2>2 DEF Queue!Next, Queue!ProcessEnds, Given
<1>5. ASSUME NEW c \in Connections,
             Resolve(c) \/ Register(c) \/ DropSlow(c) \/ HangUp(c) \/ Repeat(c) \/ RepeatFails(c) \/ Admit(c)
             \/ Commit(c) \/ AppendFails(c) \/ Disconnect(c) \/ \E r \in Requests : Send(c, r)
      PROVE  UNCHANGED Queue!vars
  BY <1>5 DEF Resolve, Register, DropSlow, HangUp, Repeat, RepeatFails, Admit, Commit, AppendFails, Disconnect, Send
<1>6. ASSUME NEW m \in DOMAIN sent, RecordInteraction(m) \/ StopRecording(m) \/ MessageAges(m)
      PROVE  UNCHANGED Queue!vars
  BY <1>6 DEF RecordInteraction, StopRecording, MessageAges
<1>7. ASSUME NEW v \in Visitors, VisitorAges(v) \/ Forget(v) \/ ForgetFails(v) \/ Ban(v) \/ Unban(v)
      PROVE  UNCHANGED Queue!vars
  BY <1>7 DEF VisitorAges, Forget, ForgetFails, Ban, Unban
<1>8. CASE CleanUp \/ SelectStale \/ ListConnections \/ BanEnds
  BY <1>8 DEF CleanUp, SelectStale, ListConnections, BanEnds
<1>9. CASE UNCHANGED vars
  BY <1>9 DEF vars
<1> QED
  BY <1>1, <1>2, <1>3, <1>4, <1>5, <1>6, <1>7, <1>8, <1>9 DEF Next, Handle

\* A message is given to the director, taken and answered as RoomQueue promises,
\* however often its request comes.
THEOREM SubmissionFillsQueue == Spec => ImplementsQueue
<1>1. Init => Queue!Init
  BY DEF Init, Queue!Init
<1>2. SubmissionInv /\ [Next]_vars => [Queue!Next]_Queue!vars
  BY QueueStep
<1> QED
  BY <1>1, <1>2, SubmissionInvariant, PTL DEF Spec, ImplementsQueue, Queue!Spec

\* So no repetition makes the character answer a message twice.
THEOREM NoSecondAnswer == Spec => Queue!ServedForGood
<1>1. ASSUME [Queue!Next]_Queue!vars PROVE Queue!Served \subseteq Queue!Served'
  <2> DEFINE given == {m \in Ids : offers[m] > 0}
  <2>1. 0 \notin given
    BY DEF Ids
  <2>2. Queue!Served = given \ (queue \cup {turn}) /\ Queue!Served' = given' \ (queue' \cup {turn'})
    BY DEF Queue!Served
  <2> USE DEF Queue!vars
  <2>3. ASSUME NEW m \in Ids, Queue!Give(m) PROVE Queue!Served \subseteq Queue!Served'
    <3>1. m \notin given /\ given' = given \cup {m} /\ queue' = queue \cup {m} /\ turn' = turn
      BY <2>3 DEF Queue!Give
    <3> HIDE DEF given
    <3> QED BY <2>2, <3>1
  <2>4. CASE given' = given /\ queue' \subseteq queue /\ turn' \in queue \cup {turn, 0}
    <3> HIDE DEF given
    <3> QED BY <2>1, <2>2, <2>4
  <2>5. CASE Queue!ProcessEnds
    <3>1. queue' \subseteq (queue \cup {turn}) \ {0} /\ turn' = 0
      BY <2>5 DEF Queue!ProcessEnds, Queue!Unanswered
    <3>2. PICK again \in SUBSET ((queue \cup {turn}) \ {0}) : given' = given \ again
      BY <2>5 DEF Queue!ProcessEnds, Queue!Unanswered
    <3> HIDE DEF given
    <3> QED BY <2>1, <2>2, <3>1, <3>2
  <2> QED
    BY <1>1, <2>3, <2>4, <2>5 DEF Queue!Next, Queue!Take, Queue!Finish
<1>2. SubmissionInv /\ [Next]_vars => [Queue!Served \subseteq Queue!Served']_Queue!vars
  BY <1>1, QueueStep
<1> QED
  BY <1>2, SubmissionInvariant, PTL DEF Spec, Queue!ServedForGood
=============================================================================
