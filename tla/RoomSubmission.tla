---------------------------- MODULE RoomSubmission ----------------------------
(***************************************************************************)
(* How a visitor's message enters the room, and how visitors leave it.     *)
(*                                                                         *)
(*   main_logic/room/service.py   submit_message, run_retention_cleanup,   *)
(*                                _record_completed_turn                   *)
(*   main_logic/room/store.py     append_user_message, cleanup_expired     *)
(*   main_logic/room/session.py, hub.py, room_websocket_router.py          *)
(*                                from the cookie to the receive loop      *)
(*   main_routers/public_admin_router.py   banning                         *)
(*                                                                         *)
(* A browser may repeat a request on any of its connections.  Handlers,    *)
(* the turn worker, the recorders of finished turns, retention and the     *)
(* administrator interleave at every await.  A commit and its broadcast    *)
(* are one step here; RoomReplay takes them apart.  Turns are no more than *)
(* taken, and completed or not; RoomTurn has their steps.  Refusals of     *)
(* text, rate, or paused rooms change nothing.  A message and its          *)
(* idempotency row are stamped one after the other, so that the cutoff of  *)
(* a cleanup may fall between them.                                        *)
(***************************************************************************)
EXTENDS Naturals, Sequences, FiniteSets

CONSTANTS
  Visitors, Connections,
  OwnerOf,      \* the visitor whose cookie a connection brings
  Requests,     \* request ids a browser uses
  None,
  MaxMessages,  \* bound: committed messages
  MaxCrashes    \* bound: ends of the process

ASSUME SubmissionConstants ==
  /\ OwnerOf \in [Connections -> Visitors]
  /\ MaxMessages \in Nat /\ MaxCrashes \in Nat
  /\ None \notin Connections /\ None \notin Visitors

VARIABLES
  \* PostgreSQL
  visitors,    \* per visitor: status, or "deleted" without a row
  stale,       \* visitors whose last_seen_at is older than visitor_days
  messages,    \* rows of messages
  requests,    \* rows of client_requests
  expired,     \* messages older than message_days
  \* the memory service
  memory,      \* visitors it knows something of
  \* the process
  handler,     \* per connection: public_room_websocket
  registered,  \* connections in the hub
  queue,       \* messages the director has as candidates
  turn,        \* the message being answered, 0 for none
  recorders,   \* messages of completed turns being recorded
  cleanup,     \* run_retention_cleanup
  ban,         \* the administrator's request that bans a visitor
  crashes,     \* used budget
  \* history
  sent,        \* the committed messages in order: who asked what
  offers,      \* per message: how often the director was given it
  unanswered,  \* messages the process owed an answer when it ended
  told,        \* answers: request and message
  early,       \* connections that passed the status check before a ban
  revived      \* visitors recorded again after their memory was forgotten

database    == <<visitors, stale, messages, requests, expired>>
processVars == <<handler, registered>>
workVars    == <<queue, turn, recorders>>
historyVars == <<sent, offers, unanswered, told, early, revived>>
vars == <<database, memory, processVars, workVars, cleanup, ban, crashes, historyVars>>

Ids    == 1 .. MaxMessages
Author(m) == sent[m].by
Closed == [at |-> "closed", request |-> None, message |-> 0]
NoCleanup == [at |-> "idle", todo |-> {}, forgotten |-> {}, old |-> {}, rows |-> {}]
NoBan  == [at |-> "idle", visitor |-> None, drop |-> {}]

Rows == [by : Visitors, request : Requests, message : Ids]

\* The row of client_requests, as a set with at most one element.
RowsOf(v, r) == {q \in requests : q.by = v /\ q.request = r}

Handlers == [at : {"closed", "resolved", "open", "submit", "append", "enqueue"},
             request : Requests \cup {None}, message : Ids \cup {0}]

TypeOK ==
  /\ visitors \in [Visitors -> {"active", "banned", "deleted"}]
  /\ stale \subseteq Visitors /\ memory \subseteq Visitors
  /\ messages \subseteq DOMAIN sent /\ expired \subseteq messages
  /\ requests \subseteq Rows
  /\ handler \in [Connections -> Handlers]
  /\ registered \subseteq {c \in Connections : handler[c].at \notin {"closed", "resolved"}}
  /\ queue \subseteq DOMAIN sent /\ turn \in DOMAIN sent \cup {0} /\ recorders \subseteq DOMAIN sent
  /\ cleanup \in [at : {"idle", "forget"}, todo : SUBSET Visitors,
                  forgotten : SUBSET Visitors, old : SUBSET Ids, rows : SUBSET Rows]
  /\ ban \in [at : {"idle", "banned", "drop"}, visitor : Visitors \cup {None},
              drop : SUBSET Connections]
  /\ sent \in Seq([by : Visitors, request : Requests]) /\ Len(sent) <= MaxMessages
  /\ offers \in [Ids -> Nat] /\ unanswered \subseteq DOMAIN sent
  /\ told \subseteq Rows
  /\ early \subseteq Connections /\ revived \subseteq Visitors
  /\ crashes \in 0 .. MaxCrashes

Init ==
  /\ visitors = [v \in Visitors |-> "active"] /\ stale = {}
  /\ messages = {} /\ requests = {} /\ expired = {} /\ memory = {}
  /\ handler = [c \in Connections |-> Closed] /\ registered = {}
  /\ queue = {} /\ turn = 0 /\ recorders = {}
  /\ cleanup = NoCleanup /\ ban = NoBan /\ crashes = 0
  /\ sent = <<>> /\ offers = [m \in Ids |-> 0] /\ unanswered = {} /\ told = {}
  /\ early = {} /\ revived = {}

-----------------------------------------------------------------------------
(***************************************************************************)
(* A connection, from the cookie to the hub.                               *)
(***************************************************************************)
At(c, place) == handler' = [handler EXCEPT ![c].at = place]

\* Variant with a fault: the status is not checked.
ResolveAnyone(c) ==
  /\ handler[c].at = "closed" /\ visitors[OwnerOf[c]] # "deleted"
  /\ stale' = stale \ {OwnerOf[c]}
  /\ At(c, "resolved")
  /\ UNCHANGED <<visitors, messages, requests, expired, memory, registered, workVars,
                 cleanup, ban, crashes, historyVars>>

\* sessions.resolve reads the row and writes last_seen_at; nothing that could
\* come between matters more than what comes behind.  The visitor it returns is
\* kept while the socket lives.
Resolve(c) ==
  /\ handler[c].at = "closed" /\ visitors[OwnerOf[c]] = "active"
  /\ stale' = stale \ {OwnerOf[c]}
  /\ At(c, "resolved")
  /\ UNCHANGED <<visitors, messages, requests, expired, memory, registered, workVars,
                 cleanup, ban, crashes, historyVars>>

Register(c) ==
  /\ handler[c].at = "resolved"
  /\ registered' = registered \cup {c}
  /\ At(c, "open")
  /\ UNCHANGED <<database, memory, workVars, cleanup, ban, crashes, historyVars>>

\* The hub drops a slow connection; its handler notices later.
DropSlow(c) ==
  /\ c \in registered
  /\ registered' = registered \ {c} /\ early' = early \ {c}
  /\ UNCHANGED <<database, memory, handler, workVars, cleanup, ban, crashes,
                 sent, offers, unanswered, told, revived>>

\* The handler ends: its finally block unregisters.
End(c) ==
  /\ handler' = [handler EXCEPT ![c] = Closed]
  /\ registered' = registered \ {c} /\ early' = early \ {c}

HangUp(c) ==
  /\ handler[c].at = "open"
  /\ End(c)
  /\ UNCHANGED <<database, memory, workVars, cleanup, ban, crashes,
                 sent, offers, unanswered, told, revived>>

-----------------------------------------------------------------------------
(***************************************************************************)
(* submit_message.                                                         *)
(***************************************************************************)
\* A frame may still be read on a connection the hub has dropped.
Send(c, r) ==
  /\ handler[c].at = "open"
  /\ handler' = [handler EXCEPT ![c] = [at |-> "submit", request |-> r, message |-> 0]]
  /\ UNCHANGED <<database, memory, registered, workVars, cleanup, ban, crashes, historyVars>>

\* A visitor's submission lock is held from the search to the broadcast.
LockFree(v) == \A c \in Connections : OwnerOf[c] = v => handler[c].at # "append"

Listening == [Closed EXCEPT !.at = "open"]

\* chat.accepted
Tell(c, m) == told' = told \cup {[by |-> OwnerOf[c], request |-> handler[c].request, message |-> m]}

\* Variant with a fault: a repeated message is queued again.
RepeatQueued(c) ==
  /\ handler[c].at = "submit" /\ LockFree(OwnerOf[c])
  /\ \E q \in RowsOf(OwnerOf[c], handler[c].request) :
       /\ q.message \in messages /\ Tell(c, q.message)
       /\ queue' = queue \cup {q.message}
       /\ offers' = [offers EXCEPT ![q.message] = @ + 1]
  /\ handler' = [handler EXCEPT ![c] = Listening]
  /\ UNCHANGED <<database, memory, registered, turn, recorders, cleanup, ban, crashes,
                 sent, unanswered, early, revived>>

\* find_client_request: the first result again, and nothing else happens.
Repeat(c) ==
  /\ handler[c].at = "submit" /\ LockFree(OwnerOf[c])
  /\ \E q \in RowsOf(OwnerOf[c], handler[c].request) :
       q.message \in messages /\ Tell(c, q.message)
  /\ handler' = [handler EXCEPT ![c] = Listening]
  /\ UNCHANGED <<database, memory, registered, workVars, cleanup, ban, crashes,
                 sent, offers, unanswered, early, revived>>

\* The row is there and the message is not: a RuntimeError ends the handler.
RepeatFails(c) ==
  /\ handler[c].at = "submit" /\ LockFree(OwnerOf[c])
  /\ \E q \in RowsOf(OwnerOf[c], handler[c].request) : q.message \notin messages
  /\ End(c)
  /\ UNCHANGED <<database, memory, workVars, cleanup, ban, crashes, sent, offers, unanswered, told, revived>>

\* Not there; or refused, for the rate or because the room takes nothing.
Admit(c) ==
  /\ handler[c].at = "submit" /\ LockFree(OwnerOf[c])
  /\ RowsOf(OwnerOf[c], handler[c].request) = {}
  /\ At(c, "append") \/ handler' = [handler EXCEPT ![c] = Listening]
  /\ UNCHANGED <<database, memory, registered, workVars, cleanup, ban, crashes, historyVars>>

\* Variant with a fault: the idempotency row is not written.
CommitWithoutRow(c) ==
  LET v == OwnerOf[c]
      r == handler[c].request
      m == Len(sent) + 1
  IN
  /\ handler[c].at = "append" /\ RowsOf(v, r) = {} /\ m <= MaxMessages
  /\ sent' = Append(sent, [by |-> v, request |-> r])
  /\ messages' = messages \cup {m}
  /\ handler' = [handler EXCEPT ![c].at = "enqueue", ![c].message = m]
  /\ UNCHANGED <<visitors, stale, expired, requests, memory, registered, workVars, cleanup, ban,
                 crashes, offers, unanswered, told, early, revived>>

\* append_user_message: message and idempotency row in one transaction.
Commit(c) ==
  LET v == OwnerOf[c]
      r == handler[c].request
      m == Len(sent) + 1
  IN
  /\ handler[c].at = "append" /\ RowsOf(v, r) = {} /\ m <= MaxMessages
  /\ sent' = Append(sent, [by |-> v, request |-> r])
  /\ messages' = messages \cup {m}
  /\ requests' = requests \cup {[by |-> v, request |-> r, message |-> m]}
  /\ handler' = [handler EXCEPT ![c].at = "enqueue", ![c].message = m]
  /\ UNCHANGED <<visitors, stale, expired, memory, registered, workVars, cleanup, ban, crashes,
                 offers, unanswered, told, early, revived>>

\* The transaction fails: the exception ends the handler.
AppendFails(c) ==
  /\ handler[c].at = "append"
  /\ End(c)
  /\ UNCHANGED <<database, memory, workVars, cleanup, ban, crashes, sent, offers, unanswered, told, revived>>

Enqueue(c) ==
  /\ handler[c].at = "enqueue"
  /\ queue' = queue \cup {handler[c].message}
  /\ offers' = [offers EXCEPT ![handler[c].message] = @ + 1]
  /\ Tell(c, handler[c].message)
  /\ handler' = [handler EXCEPT ![c] = Listening]
  /\ UNCHANGED <<database, memory, registered, turn, recorders, cleanup, ban, crashes,
                 sent, unanswered, early, revived>>

-----------------------------------------------------------------------------
(***************************************************************************)
(* The turn worker and the recorders it leaves behind.                     *)
(***************************************************************************)
\* The author is read again: without a row the turn fails.
TakeTurn(m) ==
  /\ turn = 0 /\ m \in queue
  /\ queue' = queue \ {m}
  /\ turn' = IF visitors[Author(m)] = "deleted" THEN 0 ELSE m
  /\ UNCHANGED <<database, memory, processVars, recorders, cleanup, ban, crashes, historyVars>>

\* The generation fails or is cancelled.
AbandonTurn ==
  /\ turn # 0 /\ turn' = 0
  /\ UNCHANGED <<database, memory, processVars, queue, recorders, cleanup, ban, crashes, historyVars>>

\* The reply is committed; a background task records the interaction.
CompleteTurn ==
  /\ turn # 0
  /\ turn' = 0 /\ recorders' = recorders \cup {turn}
  /\ UNCHANGED <<database, memory, processVars, queue, cleanup, ban, crashes, historyVars>>

\* An attempt reaches the memory service.  If record_mentions or the answer
\* fails, there is another one.
RecordInteraction(m) ==
  /\ m \in recorders
  /\ memory' = memory \cup {Author(m)}
  /\ recorders' \in {recorders, recorders \ {m}}
  /\ revived' = IF Author(m) \in cleanup.forgotten \/ visitors[Author(m)] = "deleted"
                THEN revived \cup {Author(m)} ELSE revived
  /\ UNCHANGED <<database, processVars, queue, turn, cleanup, ban, crashes,
                 sent, offers, unanswered, told, early>>

\* memory_write_attempts are used up.
StopRecording(m) ==
  /\ m \in recorders
  /\ recorders' = recorders \ {m}
  /\ UNCHANGED <<database, memory, processVars, queue, turn, cleanup, ban, crashes, historyVars>>

-----------------------------------------------------------------------------
(***************************************************************************)
(* Time and retention.                                                     *)
(***************************************************************************)
\* A visitor whose cookie has just been resolved is not old.
VisitorAges(v) ==
  /\ v \notin stale /\ \A c \in Connections : OwnerOf[c] = v => handler[c].at # "resolved"
  /\ stale' = stale \cup {v}
  /\ UNCHANGED <<visitors, messages, requests, expired, memory, processVars, workVars,
                 cleanup, ban, crashes, historyVars>>

MessageAges(m) ==
  /\ m \in messages \ expired
  /\ expired' = expired \cup {m}
  /\ UNCHANGED <<visitors, stale, messages, requests, memory, processVars, workVars,
                 cleanup, ban, crashes, historyVars>>

\* The cutoffs, list_stale_visitors, and then online_visitor_ids: whoever comes
\* or goes between the two is treated as if he had come or gone before.  The row of
\* one old message may be younger than the cutoff.
SelectStale ==
  /\ cleanup.at = "idle"
  /\ \E kept \in {{}} \cup {{m} : m \in expired} :
       cleanup' = [at |-> "forget", forgotten |-> {}, old |-> expired,
                   rows |-> {q \in requests : q.message \notin (messages \ expired) \cup kept},
                   todo |-> {v \in stale : visitors[v] # "deleted"} \ {OwnerOf[c] : c \in registered}]
  /\ UNCHANGED <<database, memory, processVars, workVars, ban, crashes, historyVars>>

Forget(v) ==
  /\ cleanup.at = "forget" /\ v \in cleanup.todo
  /\ memory' = memory \ {v} /\ revived' = revived \ {v}
  /\ cleanup' = [cleanup EXCEPT !.todo = @ \ {v}, !.forgotten = @ \cup {v}]
  /\ UNCHANGED <<database, processVars, workVars, ban, crashes, sent, offers, unanswered, told, early>>

\* Variant with a fault: a failed call counts as done.
ForgetFailsUnseen(v) ==
  /\ cleanup.at = "forget" /\ v \in cleanup.todo
  /\ cleanup' = [cleanup EXCEPT !.todo = @ \ {v}, !.forgotten = @ \cup {v}]
  /\ UNCHANGED <<database, memory, processVars, workVars, ban, crashes, historyVars>>

\* The call fails, or its answer is lost.
ForgetFails(v) ==
  /\ cleanup.at = "forget" /\ v \in cleanup.todo
  /\ memory' \in {memory, memory \ {v}}
  /\ cleanup' = [cleanup EXCEPT !.todo = @ \ {v}]
  /\ UNCHANGED <<database, processVars, workVars, ban, crashes, historyVars>>

\* Variant with a fault: messages are kept longer than idempotency rows.
CleanUpKeepsMessages ==
  /\ cleanup.at = "forget" /\ cleanup.todo = {}
  /\ requests' = requests \ cleanup.rows
  /\ visitors' = [v \in Visitors |-> IF v \in cleanup.forgotten THEN "deleted" ELSE visitors[v]]
  /\ stale' = stale \ cleanup.forgotten
  /\ cleanup' = NoCleanup
  /\ UNCHANGED <<messages, expired, memory, processVars, workVars, ban, crashes, historyVars>>

\* cleanup_expired, one transaction.
CleanUp ==
  /\ cleanup.at = "forget" /\ cleanup.todo = {}
  /\ messages' = messages \ cleanup.old /\ expired' = expired \ cleanup.old
  /\ requests' = requests \ cleanup.rows
  /\ visitors' = [v \in Visitors |-> IF v \in cleanup.forgotten THEN "deleted" ELSE visitors[v]]
  /\ stale' = stale \ cleanup.forgotten
  /\ cleanup' = NoCleanup
  /\ UNCHANGED <<memory, processVars, workVars, ban, crashes, historyVars>>

-----------------------------------------------------------------------------
(***************************************************************************)
(* Banning: the row first, then the connections the hub knows.             *)
(***************************************************************************)
Ban(v) ==
  /\ ban.at = "idle" /\ visitors[v] = "active"
  /\ visitors' = [visitors EXCEPT ![v] = "banned"]
  /\ ban' = [at |-> "banned", visitor |-> v, drop |-> {}]
  /\ UNCHANGED <<stale, messages, requests, expired, memory, processVars, workVars, cleanup,
                 crashes, historyVars>>

ListConnections ==
  /\ ban.at = "banned"
  /\ ban' = [ban EXCEPT !.at = "drop", !.drop = {c \in registered : OwnerOf[c] = ban.visitor}]
  /\ early' = early \cup {c \in Connections : OwnerOf[c] = ban.visitor /\ handler[c].at = "resolved"}
  /\ UNCHANGED <<database, memory, processVars, workVars, cleanup, crashes,
                 sent, offers, unanswered, told, revived>>

Disconnect(c) ==
  /\ ban.at = "drop" /\ c \in ban.drop
  /\ registered' = registered \ {c}
  /\ ban' = [ban EXCEPT !.drop = @ \ {c}]
  /\ UNCHANGED <<database, memory, handler, workVars, cleanup, crashes, historyVars>>

BanEnds ==
  /\ ban.at = "drop" /\ ban.drop = {}
  /\ ban' = NoBan
  /\ UNCHANGED <<database, memory, processVars, workVars, cleanup, crashes, historyVars>>

Unban(v) ==
  /\ ban.at = "idle" /\ visitors[v] = "banned"
  /\ visitors' = [visitors EXCEPT ![v] = "active"]
  /\ early' = {c \in early : OwnerOf[c] # v}
  /\ UNCHANGED <<stale, messages, requests, expired, memory, processVars, workVars, cleanup,
                 ban, crashes, sent, offers, unanswered, told, revived>>

-----------------------------------------------------------------------------
\* The process ends, and starts again with what the database has.
Crash ==
  /\ crashes < MaxCrashes /\ crashes' = crashes + 1
  /\ handler' = [c \in Connections |-> Closed] /\ registered' = {}
  /\ queue' = {} /\ turn' = 0 /\ recorders' = {}
  /\ cleanup' = NoCleanup /\ ban' = NoBan /\ early' = {}
  /\ unanswered' = unanswered \cup queue \cup ({turn} \ {0})
       \cup {handler[c].message : c \in {d \in Connections : handler[d].at = "enqueue"}}
  /\ UNCHANGED <<database, memory, sent, offers, told, revived>>

Handle(c) ==
  \/ Resolve(c) \/ Register(c) \/ DropSlow(c) \/ HangUp(c)
  \/ \E r \in Requests : Send(c, r)
  \/ Repeat(c) \/ RepeatFails(c) \/ Admit(c) \/ Commit(c) \/ AppendFails(c) \/ Enqueue(c)

Next ==
  \/ \E c \in Connections : Handle(c) \/ Disconnect(c)
  \/ \E m \in DOMAIN sent :
       TakeTurn(m) \/ RecordInteraction(m) \/ StopRecording(m) \/ MessageAges(m)
  \/ AbandonTurn \/ CompleteTurn
  \/ \E v \in Visitors :
       VisitorAges(v) \/ Forget(v) \/ ForgetFails(v) \/ Ban(v) \/ Unban(v)
  \/ SelectStale \/ CleanUp \/ ListConnections \/ BanEnds
  \/ Crash

Spec == Init /\ [][Next]_vars

-----------------------------------------------------------------------------
\* However often, on whichever connections and however concurrently a browser
\* repeats a request, the room shows at most one message of it.
OneMessagePerRequest ==
  \A m, n \in messages : sent[m] = sent[n] => m = n

\* A repeated request gets the first answer again, unless that message has been
\* deleted by retention in between (service.py:241-246).
RepeatsAgree ==
  \A p, q \in told :
    p.by = q.by /\ p.request = q.request /\ {p.message, q.message} \subseteq messages =>
      p.message = q.message

\* Whatever cleanups do while requests come in, no message is left without its
\* idempotency row: as long as it is shown, it can be asked for again.
MessageHasRow ==
  \A m \in messages : \E q \in RowsOf(sent[m].by, sent[m].request) : q.message = m

\* The director is given a message at most once in each life of the process,
\* and again in a later one only if the earlier owed it an answer, however often
\* the request is repeated; a committed message misses him only if the process
\* ended in between.
QueuedOnce ==
  \A m \in DOMAIN sent :
    /\ offers[m] <= IF m \in unanswered THEN 1 + crashes ELSE 1
    /\ \/ offers[m] > 0 \/ m \in unanswered
       \/ \E c \in Connections : handler[c].at = "enqueue" /\ handler[c].message = m

\* Once the ban of a visitor is through, the only connections of his that are
\* still in the hub had passed the status check before (hub.py:153-167).
BanRevokes ==
  \A c \in registered : visitors[OwnerOf[c]] = "banned" /\ ban.visitor # OwnerOf[c] => c \in early

\* A visitor's row is deleted only after his memory (retention-policy.md:28-30):
\* what the memory service still knows of a deleted visitor came later.
ForgottenFirst ==
  \A v \in memory : visitors[v] = "deleted" => v \in revived

-----------------------------------------------------------------------------
\* retention-policy.md:33: no memory is left of a visitor whose identity is
\* deleted.  A turn of his may be recorded after his memory was forgotten.
NoOrphanedMemory == \A v \in memory : visitors[v] # "deleted"
-----------------------------------------------------------------------------
(***************************************************************************)
(* Submission promises a browser what RoomLog says, and the director what  *)
(* RoomQueue says.                                                         *)
(***************************************************************************)
Log == INSTANCE RoomLog WITH log <- sent, shown <- messages, told <- told

Queue ==
  INSTANCE RoomQueue WITH
    Messages <- Ids, None <- 0,
    given <- {m \in Ids : offers[m] > 0}, waiting <- queue, current <- turn,
    life <- crashes

\* Repetitions, concurrent connections, cleanups and crashes leave a log in
\* which each request is accepted once for as long as its message is kept.
ImplementsLog == Log!Spec

\* However often a request is repeated, its message is given, taken and served
\* once.
ImplementsQueue == Queue!Spec
=============================================================================
