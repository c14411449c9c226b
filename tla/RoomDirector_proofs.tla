-------------------------- MODULE RoomDirector_proofs --------------------------
(***************************************************************************)
(* How the director ranks what waits, for any visitors, scores and times   *)
(* within DirectorConstants.                                               *)
(***************************************************************************)
EXTENDS RoomDirector, TLAPS

\* Who waits longer has the higher age: the queue is in the order of arrival.
AgesFall ==
  \A i, j \in DOMAIN queue : i <= j => queue[j].age <= queue[i].age

\* How often a candidate has been passed fits the place of its author among the
\* recent targets: with every turn of another target that place moves back.
PassedFits ==
  \A i \in DOMAIN queue :
    /\ queue[i].passed <= Remembered
    /\ \A k \in DOMAIN recent :
         recent[k] = queue[i].author => queue[i].passed <= Len(recent) - k

DirectorInv == TypeOK /\ AgesFall /\ PassedFits

-----------------------------------------------------------------------------
LEMMA Candidates ==
  ASSUME TypeOK
  PROVE  /\ DOMAIN queue = 1 .. Len(queue) /\ Len(queue) \in Nat
         /\ \A i \in DOMAIN queue :
              /\ queue[i] \in Candidate
              /\ queue[i].author \in Authors /\ queue[i].reason \in Reasons
              /\ queue[i].age \in 0 .. AgeLimit /\ queue[i].passed \in Nat
              /\ queue[i].age \in Nat
<1>1. queue \in Seq(Candidate)
  BY DEF TypeOK
<1>2. ASSUME NEW c \in Candidate
      PROVE  /\ c.author \in Authors /\ c.reason \in Reasons
             /\ c.age \in 0 .. AgeLimit /\ c.passed \in Nat /\ c.age \in Nat
  BY DirectorConstants DEF Candidate
<1> QED BY <1>1, <1>2

\* Element k of a sequence without its i-th element.
Without(i, k) == IF k < i THEN k ELSE k + 1

LEMMA Joined ==
  ASSUME NEW T, NEW a \in Seq(T), NEW b \in Seq(T)
  PROVE  /\ a \o b \in Seq(T) /\ Len(a \o b) = Len(a) + Len(b)
         /\ \A k \in 1 .. Len(a) : (a \o b)[k] = a[k]
         /\ \A k \in 1 .. Len(b) : (a \o b)[Len(a) + k] = b[k]
  OBVIOUS

LEMMA Removed ==
  ASSUME NEW T, NEW s \in Seq(T), NEW i \in 1 .. Len(s)
  PROVE  /\ RemoveAt(s, i) \in Seq(T) /\ Len(RemoveAt(s, i)) = Len(s) - 1
         /\ \A k \in 1 .. Len(s) - 1 : /\ RemoveAt(s, i)[k] = s[Without(i, k)]
                                       /\ Without(i, k) \in 1 .. Len(s)
<1> DEFINE a == SubSeq(s, 1, i - 1)
           b == SubSeq(s, i + 1, Len(s))
<1>1. /\ a \in Seq(T) /\ Len(a) = i - 1 /\ b \in Seq(T) /\ Len(b) = Len(s) - i
      /\ \A k \in 1 .. i - 1 : a[k] = s[k]
      /\ \A k \in 1 .. Len(s) - i : b[k] = s[i + k]
  OBVIOUS
<1>2. RemoveAt(s, i) = a \o b
  BY DEF RemoveAt
<1> HIDE DEF a, b
<1>3. /\ a \o b \in Seq(T) /\ Len(a \o b) = Len(a) + Len(b)
      /\ \A k \in 1 .. Len(a) : (a \o b)[k] = a[k]
      /\ \A k \in 1 .. Len(b) : (a \o b)[Len(a) + k] = b[k]
  <2>1. a \in Seq(T) /\ b \in Seq(T)
    BY <1>1
  <2> QED BY <2>1, Joined
<1>4. Len(s) \in Nat /\ i \in Nat
  OBVIOUS
<1>5. ASSUME NEW k \in 1 .. Len(s) - 1
      PROVE  (a \o b)[k] = s[Without(i, k)] /\ Without(i, k) \in 1 .. Len(s)
  <2>1. CASE k < i
    BY <1>1, <1>3, <1>4, <2>1 DEF Without
  <2>2. CASE ~(k < i)
    <3> DEFINE n == k - (i - 1)
    <3>1. n \in 1 .. Len(b) /\ i + n = k + 1 /\ Len(a) + n = k
      BY <1>1, <1>4, <2>2
    <3> HIDE DEF n
    <3>2. (a \o b)[k] = b[n] /\ b[n] = s[k + 1]
      BY <1>1, <1>3, <3>1
    <3> QED BY <1>4, <2>2, <3>2 DEF Without
  <2> QED BY <2>1, <2>2
<1> QED BY <1>1, <1>2, <1>3, <1>4, <1>5

\* The recent targets after one more.
LEMMA Remembering ==
  ASSUME TypeOK, NEW author \in Authors, Remember(author)
  PROVE  /\ recent' \in Seq(Authors) /\ Len(recent') \in 1 .. Remembered
         /\ recent'[Len(recent')] = author
         /\ \A k \in DOMAIN recent' : k < Len(recent') =>
              \E n \in DOMAIN recent :
                recent[n] = recent'[k] /\ Len(recent') - k = Len(recent) - n + 1
<1> DEFINE kept == IF Len(recent) = Remembered THEN Tail(recent) ELSE recent
<1>1. recent \in Seq(Authors) /\ Len(recent) \in 0 .. Remembered /\ Remembered \in Nat \ {0}
  BY DirectorConstants DEF TypeOK
<1>2. recent' = Append(kept, author)
  BY DEF Remember
<1>3. /\ kept \in Seq(Authors) /\ Len(kept) \in 0 .. Remembered - 1
      /\ \A k \in 1 .. Len(kept) : \E n \in 1 .. Len(recent) :
           recent[n] = kept[k] /\ Len(kept) - k = Len(recent) - n
  <2>1. CASE Len(recent) = Remembered
    <3>1. /\ kept = Tail(recent) /\ recent # <<>> /\ Tail(recent) \in Seq(Authors)
          /\ Len(Tail(recent)) = Remembered - 1
          /\ \A k \in 1 .. Remembered - 1 : Tail(recent)[k] = recent[k + 1]
      BY <1>1, <2>1
    <3>2. \A k \in 1 .. Remembered - 1 :
            k + 1 \in 1 .. Len(recent) /\ Len(Tail(recent)) - k = Len(recent) - (k + 1)
      BY <1>1, <2>1, <3>1
    <3> QED BY <1>1, <2>1, <3>1, <3>2
  <2>2. CASE Len(recent) # Remembered
    BY <1>1, <2>2
  <2> QED BY <2>1, <2>2
<1> HIDE DEF kept
<1>4. /\ Append(kept, author) \in Seq(Authors) /\ Len(Append(kept, author)) = Len(kept) + 1
      /\ Append(kept, author)[Len(kept) + 1] = author
      /\ \A k \in 1 .. Len(kept) : Append(kept, author)[k] = kept[k]
      /\ DOMAIN Append(kept, author) = 1 .. Len(kept) + 1
      /\ DOMAIN recent = 1 .. Len(recent)
  BY <1>1, <1>3
<1>5. Len(recent') = Len(kept) + 1 /\ \A k \in 1 .. Len(kept) : recent'[k] = kept[k]
  BY <1>2, <1>4
<1>6. ASSUME NEW k \in 1 .. Len(kept)
      PROVE  \E n \in DOMAIN recent :
               recent[n] = recent'[k] /\ Len(recent') - k = Len(recent) - n + 1
  <2>1. PICK n \in 1 .. Len(recent) : recent[n] = kept[k] /\ Len(kept) - k = Len(recent) - n
    BY <1>3
  <2>2. Len(recent') - k = Len(recent) - n + 1
    <3>1. /\ Len(kept) \in Nat /\ Len(recent) \in Nat /\ k \in Nat /\ n \in Nat
          /\ Len(recent') = Len(kept) + 1 /\ Len(kept) - k = Len(recent) - n
      BY <1>1, <1>3, <1>5, <2>1
    <3> QED BY <3>1
  <2>3. n \in DOMAIN recent /\ recent[n] = recent'[k]
    BY <1>1, <1>5, <2>1
  <2> WITNESS n \in DOMAIN recent
  <2> QED BY <2>2, <2>3
<1>7. recent' \in Seq(Authors) /\ DOMAIN recent' = 1 .. Len(kept) + 1
  BY <1>2, <1>4
<1>8. Len(recent') \in 1 .. Remembered /\ recent'[Len(recent')] = author
  BY <1>1, <1>2, <1>3, <1>4, <1>5
<1>9. ASSUME NEW k \in DOMAIN recent', k < Len(recent')
      PROVE  k \in 1 .. Len(kept)
  BY <1>3, <1>5, <1>7, <1>9
<1> QED BY <1>6, <1>7, <1>8, <1>9

\* What is left of the queue when candidate i is taken.
LEMMA Left ==
  ASSUME TypeOK, NEW i \in DOMAIN queue, NextTurn(i)
  PROVE  /\ queue' \in Seq(Candidate) /\ Len(queue') = Len(queue) - 1
         /\ \A k \in DOMAIN queue' : /\ queue'[k] = SeesTaken(Without(i, k), i)
                                     /\ Without(i, k) \in DOMAIN queue
<1> DEFINE q == [j \in DOMAIN queue |-> SeesTaken(j, i)]
<1>1. DOMAIN queue = 1 .. Len(queue) /\ Len(queue) \in Nat /\ i \in 1 .. Len(queue)
  BY DEF TypeOK
<1>2. ASSUME NEW j \in DOMAIN queue
      PROVE  SeesTaken(j, i) \in Candidate
  <2>1. queue[j] \in Candidate /\ queue[i] \in Candidate /\ Remembered \in Nat
    BY DirectorConstants DEF TypeOK
  <2> QED BY <2>1 DEF SeesTaken, Candidate
<1>3. q \in Seq(Candidate) /\ Len(q) = Len(queue)
  BY <1>1, <1>2
<1>4. queue' = RemoveAt(q, i)
  BY DEF NextTurn
<1>5. \A j \in DOMAIN queue : q[j] = SeesTaken(j, i)
  OBVIOUS
<1> HIDE DEF q
<1>6. /\ RemoveAt(q, i) \in Seq(Candidate) /\ Len(RemoveAt(q, i)) = Len(q) - 1
      /\ \A k \in 1 .. Len(q) - 1 : /\ RemoveAt(q, i)[k] = q[Without(i, k)]
                                    /\ Without(i, k) \in 1 .. Len(q)
  BY <1>1, <1>3, Removed
<1> QED BY <1>1, <1>3, <1>4, <1>5, <1>6

LEMMA Enqueued ==
  ASSUME TypeOK, NEW a \in Authors, NEW r \in Reasons, Enqueue(a, r)
  PROVE  /\ queue' \in Seq(Candidate) /\ Len(queue') = Len(queue) + 1
         /\ DOMAIN queue' = DOMAIN queue \cup {Len(queue')}
         /\ \A k \in DOMAIN queue : queue'[k] = queue[k]
         /\ queue'[Len(queue')].age = 0 /\ queue'[Len(queue')].passed = 0
<1> DEFINE c == [author |-> a, reason |-> r, age |-> 0, passed |-> 0]
<1>1. c \in Candidate /\ c.age = 0 /\ c.passed = 0
  BY DirectorConstants DEF Candidate
<1>2. queue \in Seq(Candidate) /\ queue' = Append(queue, c)
  BY DEF Enqueue, TypeOK
<1> HIDE DEF c
<1>3. /\ Append(queue, c) \in Seq(Candidate) /\ Len(Append(queue, c)) = Len(queue) + 1
      /\ DOMAIN queue = 1 .. Len(queue) /\ Len(queue) \in Nat
      /\ DOMAIN Append(queue, c) = 1 .. Len(queue) + 1
      /\ \A k \in 1 .. Len(queue) : Append(queue, c)[k] = queue[k]
      /\ Append(queue, c)[Len(queue) + 1] = c
  BY <1>1, <1>2
<1>4. 1 .. Len(queue) + 1 = (1 .. Len(queue)) \cup {Len(queue) + 1}
  BY <1>3
<1> QED BY <1>1, <1>2, <1>3, <1>4

LEMMA Aged ==
  ASSUME TypeOK, Tick
  PROVE  /\ queue' \in Seq(Candidate) /\ DOMAIN queue' = DOMAIN queue
         /\ \A k \in DOMAIN queue :
              /\ queue'[k].age = IF queue[k].age < AgeLimit THEN queue[k].age + 1 ELSE queue[k].age
              /\ queue'[k].author = queue[k].author /\ queue'[k].passed = queue[k].passed
<1>1. DOMAIN queue = 1 .. Len(queue) /\ Len(queue) \in Nat
  BY DEF TypeOK
<1>2. ASSUME NEW k \in DOMAIN queue
      PROVE  /\ queue'[k] = [queue[k] EXCEPT !.age = IF @ < AgeLimit THEN @ + 1 ELSE @]
             /\ queue'[k] \in Candidate /\ queue[k] \in Candidate
  <2>1. queue[k] \in Candidate /\ AgeLimit \in Nat
    BY DirectorConstants DEF TypeOK
  <2>2. queue'[k] = [queue[k] EXCEPT !.age = IF @ < AgeLimit THEN @ + 1 ELSE @]
    BY DEF Tick
  <2> QED BY <2>1, <2>2 DEF Candidate
<1>3. queue' \in Seq(Candidate) /\ DOMAIN queue' = DOMAIN queue
  BY <1>1, <1>2 DEF Tick
<1> QED BY <1>2, <1>3 DEF Candidate

-----------------------------------------------------------------------------
LEMMA TypeStep == TypeOK /\ [Next]_vars => TypeOK'
<1> SUFFICES ASSUME TypeOK, [Next]_vars PROVE TypeOK'
  OBVIOUS
<1>1. ASSUME NEW v \in Visitors, Submit(v) PROVE TypeOK'
  BY <1>1, Enqueued DEF Submit, TypeOK, Authors, Reasons
<1>2. CASE Prompt
  BY <1>2, Enqueued DEF Prompt, TypeOK, Authors, Reasons
<1>3. ASSUME NEW i \in DOMAIN queue, NextTurn(i) PROVE TypeOK'
  <2>1. queue[i].author \in Authors /\ queue[i].reason \in Reasons
    BY Candidates
  <2>2. Remember(queue[i].author)
    BY <1>3 DEF NextTurn
  <2>3. recent' \in Seq(Authors) /\ Len(recent') <= Remembered
    BY <2>1, <2>2, Remembering, DirectorConstants
  <2> QED BY <1>3, <2>1, <2>3, Left DEF NextTurn, TypeOK
<1>4. CASE Tick
  BY <1>4, Aged DEF Tick, TypeOK
<1>5. CASE StartSpeaking \/ EndTurn \/ Close \/ UNCHANGED vars
  BY <1>5 DEF StartSpeaking, EndTurn, Close, vars, TypeOK
<1> QED BY <1>1, <1>2, <1>3, <1>4, <1>5 DEF Next

LEMMA AgesStep == TypeOK /\ AgesFall /\ [Next]_vars => AgesFall'
<1> SUFFICES ASSUME TypeOK, AgesFall, [Next]_vars PROVE AgesFall'
  OBVIOUS
<1>t. /\ DOMAIN queue = 1 .. Len(queue) /\ Len(queue) \in Nat
      /\ \A i \in DOMAIN queue : queue[i].age \in Nat
  BY Candidates
<1>1. ASSUME NEW a \in Authors, NEW r \in Reasons, Enqueue(a, r) PROVE AgesFall'
  <2> SUFFICES ASSUME NEW i \in DOMAIN queue', NEW j \in DOMAIN queue', i <= j
               PROVE  queue'[j].age <= queue'[i].age
    BY DEF AgesFall
  <2>1. /\ DOMAIN queue' = DOMAIN queue \cup {Len(queue) + 1}
        /\ \A k \in DOMAIN queue : queue'[k] = queue[k]
        /\ queue'[Len(queue) + 1].age = 0
    BY <1>1, Enqueued
  <2>2. CASE j = Len(queue) + 1
    BY <1>t, <2>1, <2>2
  <2>3. CASE j # Len(queue) + 1
    BY <1>t, <2>1, <2>3 DEF AgesFall
  <2> QED BY <2>2, <2>3
<1>2. ASSUME NEW n \in DOMAIN queue, NextTurn(n) PROVE AgesFall'
  <2> SUFFICES ASSUME NEW i \in DOMAIN queue', NEW j \in DOMAIN queue', i <= j
               PROVE  queue'[j].age <= queue'[i].age
    BY DEF AgesFall
  <2>1. /\ queue'[i] = SeesTaken(Without(n, i), n) /\ Without(n, i) \in DOMAIN queue
        /\ queue'[j] = SeesTaken(Without(n, j), n) /\ Without(n, j) \in DOMAIN queue
    BY <1>2, Left
  <2>2. \A k \in DOMAIN queue : SeesTaken(k, n).age = queue[k].age
    BY DEF SeesTaken, TypeOK, Candidate
  <2>3. i \in Nat /\ j \in Nat
    <3>1. queue' \in Seq(Candidate)
      BY <1>2, Left
    <3> QED BY <3>1
  <2>4. Without(n, i) <= Without(n, j)
    BY <1>t, <2>3 DEF Without
  <2> QED BY <2>1, <2>2, <2>4 DEF AgesFall
<1>3. CASE Tick
  <2> SUFFICES ASSUME NEW i \in DOMAIN queue', NEW j \in DOMAIN queue', i <= j
               PROVE  queue'[j].age <= queue'[i].age
    BY DEF AgesFall
  <2>1. i \in DOMAIN queue /\ j \in DOMAIN queue /\ queue[j].age <= queue[i].age
    BY <1>3, Aged DEF AgesFall
  <2> QED BY <1>3, <1>t, <2>1, Aged, DirectorConstants
<1>4. CASE UNCHANGED queue
  BY <1>4 DEF AgesFall
<1> QED BY <1>1, <1>2, <1>3, <1>4
        DEF Next, Submit, Prompt, StartSpeaking, EndTurn, Close, vars, Authors, Reasons

\* Only a candidate whose author is a recent target is passed by a later one of
\* its kind.
LEMMA PassedIsRecent ==
  ASSUME TypeOK, AgesFall, NEW i \in DOMAIN queue, IsChosen(i),
         NEW j \in DOMAIN queue, j < i, queue[j].reason = queue[i].reason
  PROVE  IsRecent(queue[j].author)
<1>1. /\ queue[i].age \in Int /\ queue[j].age \in Int /\ i \in Nat /\ j \in Nat
      /\ Penalty \in Nat /\ MentionBonus \in Nat /\ PromptMalus \in Nat
  BY Candidates, DirectorConstants
<1>2. queue[i].age <= queue[j].age
  BY <1>1 DEF AgesFall
<1>3. Score(queue[j]) < Score(queue[i])
  BY <1>1 DEF IsChosen
<1> QED BY <1>1, <1>2, <1>3 DEF Score

LEMMA PassedStep == TypeOK /\ AgesFall /\ PassedFits /\ [Next]_vars => PassedFits'
<1> SUFFICES ASSUME TypeOK, AgesFall, PassedFits, [Next]_vars PROVE PassedFits'
  OBVIOUS
<1>t. /\ DOMAIN queue = 1 .. Len(queue) /\ Len(queue) \in Nat
      /\ DOMAIN recent = 1 .. Len(recent) /\ Len(recent) \in 0 .. Remembered
      /\ Remembered \in Nat \ {0} /\ recent \in Seq(Authors)
      /\ \A i \in DOMAIN queue : queue[i] \in Candidate /\ queue[i].passed \in Nat
  <2>1. recent \in Seq(Authors) /\ Len(recent) <= Remembered /\ Remembered \in Nat \ {0}
    BY DirectorConstants DEF TypeOK
  <2> QED BY <2>1, Candidates
<1>1. ASSUME NEW a \in Authors, NEW r \in Reasons, Enqueue(a, r), UNCHANGED recent
      PROVE  PassedFits'
  <2>1. /\ DOMAIN queue' = DOMAIN queue \cup {Len(queue')}
        /\ \A k \in DOMAIN queue : queue'[k] = queue[k]
        /\ queue'[Len(queue')].passed = 0
    BY <1>1, Enqueued
  <2>2. \A k \in DOMAIN recent : 0 <= Len(recent) - k
    BY <1>t
  <2>3. ASSUME NEW i \in DOMAIN queue'
        PROVE  /\ queue'[i].passed <= Remembered
               /\ \A k \in DOMAIN recent :
                    recent[k] = queue'[i].author => queue'[i].passed <= Len(recent) - k
    <3>1. CASE i \in DOMAIN queue
      BY <2>1, <3>1 DEF PassedFits
    <3>2. CASE i = Len(queue')
      <4>1. queue'[i].passed = 0
        BY <2>1, <3>2
      <4>2. 0 <= Remembered
        BY <1>t
      <4> QED BY <2>2, <4>1, <4>2
    <3> QED BY <2>1, <3>1, <3>2
  <2> QED BY <1>1, <2>3 DEF PassedFits
<1>2. ASSUME NEW n \in DOMAIN queue, NextTurn(n) PROVE PassedFits'
  <2>1. queue[n].author \in Authors /\ Remember(queue[n].author) /\ IsChosen(n)
    BY <1>2, <1>t DEF NextTurn, Candidate
  <2>2. /\ recent' \in Seq(Authors) /\ Len(recent') \in 1 .. Remembered
        /\ recent'[Len(recent')] = queue[n].author
        /\ \A k \in DOMAIN recent' : k < Len(recent') =>
             \E m \in DOMAIN recent :
               recent[m] = recent'[k] /\ Len(recent') - k = Len(recent) - m + 1
    BY <2>1, Remembering
  <2>3. DOMAIN recent' = 1 .. Len(recent')
    BY <2>2
  <2> SUFFICES ASSUME NEW i \in DOMAIN queue'
               PROVE  /\ queue'[i].passed <= Remembered
                      /\ \A k \in DOMAIN recent' :
                           recent'[k] = queue'[i].author =>
                             queue'[i].passed <= Len(recent') - k
    BY DEF PassedFits
  <2> DEFINE j == Without(n, i)
             c == queue[j]
  <2>4. j \in DOMAIN queue /\ queue'[i] = SeesTaken(j, n)
    BY <1>2, Left
  <2> HIDE DEF j
  <2>5. c \in Candidate /\ c.passed \in Nat /\ queue'[i].author = c.author
    BY <1>t, <2>4 DEF SeesTaken, Candidate
  <2>6. ASSUME c.author # queue[n].author,
               NEW k \in DOMAIN recent', recent'[k] = c.author
        PROVE  c.passed + 1 <= Len(recent') - k
    <3>1. k < Len(recent')
      BY <2>2, <2>3, <2>6
    <3>2. PICK m \in DOMAIN recent :
            recent[m] = c.author /\ Len(recent') - k = Len(recent) - m + 1
      BY <2>2, <2>6, <3>1
    <3>3. c.passed <= Len(recent) - m
      BY <2>4, <3>2 DEF PassedFits
    <3> QED BY <1>t, <2>2, <2>3, <2>5, <3>2, <3>3
  <2>7. CASE c.author = queue[n].author
    <3>1. queue'[i].passed = 0
      BY <1>t, <2>4, <2>5, <2>7 DEF SeesTaken, Candidate
    <3> QED BY <1>t, <2>2, <2>3, <3>1
  <2>8. CASE c.author # queue[n].author /\ j < n /\ c.reason = queue[n].reason
    <3>1. IsRecent(c.author)
      BY <2>1, <2>4, <2>8, PassedIsRecent
    <3>2. PICK m \in DOMAIN recent : recent[m] = c.author
      BY <3>1 DEF IsRecent
    <3>3. c.passed <= Len(recent) - m
      BY <2>4, <3>2 DEF PassedFits
    <3>4. c.passed + 1 <= Remembered
      BY <1>t, <2>5, <3>3
    <3>5. queue'[i].passed = c.passed + 1
      BY <1>t, <2>4, <2>5, <2>8, <3>4 DEF SeesTaken, Candidate
    <3> QED BY <2>5, <2>6, <2>8, <3>4, <3>5
  <2>9. CASE c.author # queue[n].author /\ ~(j < n /\ c.reason = queue[n].reason)
    <3>1. queue'[i].passed = c.passed
      BY <1>t, <2>4, <2>5, <2>9 DEF SeesTaken, Candidate
    <3>2. c.passed <= Remembered
      BY <2>4 DEF PassedFits
    <3>3. \A k \in DOMAIN recent' : recent'[k] = c.author => c.passed <= Len(recent') - k
      BY <1>t, <2>2, <2>3, <2>5, <2>6, <2>9
    <3> QED BY <2>5, <3>1, <3>2, <3>3
  <2> QED BY <2>7, <2>8, <2>9
<1>3. CASE Tick
  <2>1. /\ DOMAIN queue' = DOMAIN queue /\ recent' = recent
        /\ \A k \in DOMAIN queue :
             queue'[k].author = queue[k].author /\ queue'[k].passed = queue[k].passed
    BY <1>3, Aged DEF Tick
  <2> QED BY <2>1 DEF PassedFits
<1>4. CASE UNCHANGED <<queue, recent>>
  BY <1>4 DEF PassedFits
<1> QED BY <1>1, <1>2, <1>3, <1>4
        DEF Next, Submit, Prompt, StartSpeaking, EndTurn, Close, vars, Authors, Reasons

\* The inductive invariant of the director: types, the order of ages, and how the
\* passes of a candidate fit the memory of recent targets.
THEOREM DirectorInvariant == Spec => []DirectorInv
<1>1. Init => DirectorInv
  <2> SUFFICES ASSUME Init PROVE DirectorInv
    OBVIOUS
  <2>1. DOMAIN queue = {} /\ DOMAIN recent = {}
    BY DEF Init
  <2>2. queue \in Seq(Candidate) /\ recent \in Seq(Authors) /\ Len(recent) <= Remembered
    BY DirectorConstants DEF Init
  <2>3. TypeOK
    BY <2>2 DEF Init, TypeOK
  <2> QED BY <2>1, <2>3 DEF DirectorInv, AgesFall, PassedFits
<1>2. DirectorInv /\ [Next]_vars => DirectorInv'
  BY TypeStep, AgesStep, PassedStep DEF DirectorInv
<1> QED BY <1>1, <1>2, PTL DEF Spec

\* Type correctness, the length of the memory included.
THEOREM DirectorTypes == Spec => []TypeOK
<1>1. DirectorInv => TypeOK
  BY DEF DirectorInv
<1> QED BY <1>1, DirectorInvariant, PTL

\* No candidate is passed by more later ones of its kind than targets are
\* remembered, whatever arrives and however time passes.
THEOREM PassesAreFew == Spec => []FewArePassed
<1>1. DirectorInv => FewArePassed
  BY DEF DirectorInv, PassedFits, FewArePassed
<1> QED BY <1>1, DirectorInvariant, PTL

\* Neither waiting nor the penalty outweighs the class of a candidate: mentions go
\* before all other messages for as long as any mention waits, prompts come last.
THEOREM MentionsFirst == Spec => ClassesKeepTheirOrder
<1> DEFINE Ordered ==
      turn' # turn /\ turn' # NoTurn =>
        /\ turn'.reason # "direct_mention" => ~\E v \in Visitors : Waits(v, "direct_mention")
        /\ turn'.reason = "dead_air" => ~\E v \in Visitors : Waits(v, "queued_message")
<1>1. TypeOK /\ [Next]_vars => [Ordered]_vars
  <2> SUFFICES ASSUME TypeOK, Next, turn' # turn, turn' # NoTurn PROVE Ordered
    OBVIOUS
  <2>1. PICK i \in DOMAIN queue : NextTurn(i)
    BY DEF Next, Submit, Prompt, Tick, StartSpeaking, EndTurn, Close
  <2>2. turn'.reason = queue[i].reason /\ IsChosen(i)
    BY <2>1 DEF NextTurn
  <2>3. ASSUME NEW j \in DOMAIN queue
        PROVE  /\ queue[j].age \in Int /\ 0 <= queue[j].age /\ queue[j].age <= AgeLimit
               /\ Score(queue[j]) \in Int
               /\ queue[j].reason = "direct_mention" => Score(queue[j]) >= MentionBonus - Penalty
               /\ queue[j].reason = "queued_message" =>
                    Score(queue[j]) >= 0 - Penalty /\ Score(queue[j]) <= AgeLimit
               /\ queue[j].reason = "dead_air" => Score(queue[j]) <= AgeLimit - PromptMalus
    BY Candidates, DirectorConstants DEF Score
  <2>4. \A j \in DOMAIN queue : Score(queue[j]) <= Score(queue[i])
    BY <2>2, <2>3 DEF IsChosen
  <2>5. queue[i].reason \in Reasons
    BY Candidates
  <2>6. turn'.reason # "direct_mention" => ~\E v \in Visitors : Waits(v, "direct_mention")
    BY <2>2, <2>3, <2>4, <2>5, DirectorConstants DEF Waits, Reasons
  <2>7. turn'.reason = "dead_air" => ~\E v \in Visitors : Waits(v, "queued_message")
    <3> SUFFICES ASSUME turn'.reason = "dead_air",
                        NEW j \in DOMAIN queue, queue[j].reason = "queued_message"
                 PROVE  FALSE
      BY DEF Waits
    <3>1. Score(queue[i]) <= AgeLimit - PromptMalus /\ Score(queue[j]) >= 0 - Penalty
      BY <2>2, <2>3
    <3> QED BY <2>3, <2>4, <3>1, DirectorConstants
  <2> QED BY <2>6, <2>7
<1> QED BY <1>1, DirectorTypes, PTL DEF Spec, ClassesKeepTheirOrder
=============================================================================
