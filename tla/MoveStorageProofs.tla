-------------------------- MODULE MoveStorageProofs --------------------------
(* Proofs about MoveStorage, for any torrents, folders, moves, renames and       *)
(* failures: what a helper of the code makes of the record that it is given, and *)
(* then what each step makes of the queue of moves.                             *)
EXTENDS MoveStorage, QueueFacts, FiniteSetTheorems, TLAPS

States ==
    [queue : Seq(Job), moves : SUBSET Job, temp : BOOLEAN,
     savePath : [Torrent -> Path \cup {NoPath}], moving : [Torrent -> BOOLEAN],
     renames : [Torrent -> Nat], triggers : [Torrent -> Seq(Trigger)],
     seedStatus : [Torrent -> BOOLEAN], location : [Torrent -> Path \cup {NoPath}],
     seed : [Torrent -> BOOLEAN]]

\* The answers to moves among the alerts
IsAnswer(a) == a.type \in {"moved", "moveFailed"}

Answers(al) == {i \in DOMAIN al : IsAnswer(al[i])}

(* The queue q, the moves mv of libtorrent and the alerts al: one move or one
   answer at most, that of the head, and some while the queue is not empty. *)
AlertsPart(q, mv, al, st, failed) ==
    /\ \A i \in Answers(al) : q # << >> /\ al[i].job = Head(q)
    /\ \A job \in mv : q # << >> /\ job = Head(q)
    /\ \A i, j \in Answers(al) : i = j
    /\ Answers(al) = {} \/ mv = {}
    /\ q # << >> => mv # {} \/ Answers(al) # {} \/ st
    /\ \A i \in DOMAIN al : al[i].type = "moveFailed" => failed > 0

\* No torrent waits twice.
OnePart(q) ==
    \A i, j \in DOMAIN q \ {1} : q[i].torrent = q[j].torrent /\ q[i].handle = q[j].handle => i = j

(* A job is of a native torrent that is or was there. If none of its torrent was
   replaced, it is shown as long as the torrent is alive, and kept until then;
   and the torrent is in libtorrent when the job waits. *)
JobFine(job, mo, ha, ins, alv, rem) ==
    /\ job.handle >= 1 /\ job.handle <= ha[job.torrent]
    /\ ha[job.torrent] = 1 =>
          /\ job.torrent \in alv => mo[job.torrent]
          /\ job.torrent \notin alv /\ rem[job.torrent] = "keepFiles" => job.torrent \in ins

Present(job, ha, ins) == ha[job.torrent] = 1 => job.torrent \in ins

JobsPart(q, mo, ha, ins, alv, rem) ==
    \A i \in DOMAIN q :
        /\ JobFine(q[i], mo, ha, ins, alv, rem)
        /\ i # 1 => Present(q[i], ha, ins)

PathsPart(s, alv) == \A t \in alv : s.savePath[t] \in Path /\ s.location[t] \in Path

Good(s, al, st) ==
    /\ s \in States
    /\ AlertsPart(s.queue, s.moves, al, st, failures)
    /\ OnePart(s.queue)
    /\ JobsPart(s.queue, s.moving, handle, inSession, alive, removing)
    /\ PathsPart(s, alive)

RestPart ==
    /\ alive \subseteq inSession /\ inSession \subseteq Torrent
    /\ noMetadata \subseteq inSession /\ complete \subseteq inSession \ noMetadata
    /\ removing \in [Torrent -> {"no", "keepFiles", "deleteFiles"}]
    /\ handle \in [Torrent -> Nat]
    /\ search \in [Torrent -> SUBSET Path]
    /\ place \in [Torrent -> Path \cup {NoPath}]
    /\ \A t \in alive : place[t] \in Path /\ handle[t] >= 1
    /\ deleting \subseteq Torrent
    /\ alerts \in Seq(Alert)
    /\ stalled \in BOOLEAN
    /\ toggles \in Nat /\ failures \in Nat /\ checks \in [Torrent -> Nat]
    /\ stalled => failures > 0 \/ \E t \in Torrent : handle[t] > 1

Inv == RestPart /\ Good(Current, alerts, stalled)

-----------------------------------------------------------------------------
(* The helpers, by the record that they are given and the one that they return *)

LEMMA StateType ==
  ASSUME NEW s \in States
  PROVE  /\ s.queue \in Seq(Job) /\ s.moves \subseteq Job /\ s.temp \in BOOLEAN
         /\ s.savePath \in [Torrent -> Path \cup {NoPath}] /\ s.moving \in [Torrent -> BOOLEAN]
         /\ s.renames \in [Torrent -> Nat] /\ s.triggers \in [Torrent -> Seq(Trigger)]
         /\ s.seedStatus \in [Torrent -> BOOLEAN] /\ s.location \in [Torrent -> Path \cup {NoPath}]
         /\ s.seed \in [Torrent -> BOOLEAN]
  BY DEF States

\* What does not touch the queue, the moves and what is shown
LEMMA GoodSame ==
  ASSUME NEW s, NEW al, NEW st, Good(s, al, st), NEW e \in States,
         e.queue = s.queue, e.moves = s.moves, e.moving = s.moving, PathsPart(e, alive)
  PROVE  Good(e, al, st)
  BY DEF Good

LEMMA Alive ==
  ASSUME RestPart, NEW t \in alive
  PROVE  /\ t \in Torrent /\ t \in inSession /\ place[t] \in Path
         /\ handle[t] \in Nat /\ handle[t] >= 1
  BY DEF RestPart

LEMMA UpdatedGood ==
  ASSUME RestPart, NEW s, NEW al, NEW st, Good(s, al, st), NEW t \in alive,
         NEW e, e = UpdateStatus(s, t)
  PROVE  Good(e, al, st) /\ e.seed[t] = (t \in complete) /\ e.moving = s.moving
  <1> DEFINE l == [s.location EXCEPT ![t] = place[t]]
             d == [s.seed EXCEPT ![t] = (t \in complete)]
  <1>1. s \in States /\ PathsPart(s, alive)
    BY DEF Good
  <1>2. e = [s EXCEPT !.location = l, !.seed = d]
    BY DEF UpdateStatus
  <1>3. l \in [Torrent -> Path \cup {NoPath}] /\ d \in [Torrent -> BOOLEAN]
    BY <1>1, StateType, Alive
  <1>4. /\ \A x \in alive : s.location[x] \in Path => l[x] \in Path
        /\ d[t] = (t \in complete)
    BY <1>1, StateType, Alive
  <1> HIDE DEF l, d
  <1>5. e \in States
    BY <1>1, <1>2, <1>3 DEF States
  <1>6. /\ e.queue = s.queue /\ e.moves = s.moves /\ e.moving = s.moving
        /\ e.savePath = s.savePath /\ e.location = l /\ e.seed = d
    BY <1>1, <1>2 DEF States
  <1>7. PathsPart(e, alive)
    BY <1>1, <1>4, <1>6 DEF PathsPart
  <1>8. QED BY <1>4, <1>5, <1>6, <1>7, GoodSame

\* r is q without an inactive job of t.
Cancels(q, t, r) ==
    /\ q = << >> <=> r = << >>
    /\ q # << >> => Head(r) = Head(q)
    /\ \A j \in DOMAIN r : \E k \in DOMAIN q : r[j] = q[k] /\ (j # 1 => k # 1)
    /\ OnePart(q) => OnePart(r) /\ \A j \in DOMAIN r : j # 1 => ~IsJobOf(r[j], t)
    /\ \A k \in DOMAIN q : ~IsJobOf(q[k], t) => \E j \in DOMAIN r : r[j] = q[k] /\ (k # 1 => j # 1)

LEMMA CancelledIs ==
  ASSUME NEW q \in Seq(Job), NEW t, NEW r, r = Cancelled(q, t)
  PROVE  r \in Seq(Job) /\ Cancels(q, t, r)
  <1> DEFINE I == {i \in 2 .. Len(q) : IsJobOf(q[i], t)}
  <1>0. Len(q) \in Nat /\ DOMAIN q = 1 .. Len(q)
    BY LenProperties
  <1>1. CASE I = {}
    <2>1. r = q
      BY <1>1 DEF Cancelled
    <2>2. \A j \in DOMAIN q : j # 1 => ~IsJobOf(q[j], t)
      BY <1>0, <1>1
    <2>3. QED BY <2>1, <2>2 DEF Cancels
  <1>2. CASE I # {}
    <2>1. PICK i \in 2 .. Len(q) : IsJobOf(q[i], t) /\ r = RemovedFrom(q, i)
      <3>1. \E i \in I : \A j \in I : i <= j
        <4>1. I \in SUBSET Nat
          OBVIOUS
        <4> HIDE DEF I
        <4>2. QED BY <1>2, <4>1, Least
      <3>2. PICK i : i = CHOOSE x \in I : \A j \in I : x <= j
        OBVIOUS
      <3>3. i \in I
        BY <3>1, <3>2
      <3>4. r = RemovedFrom(q, i)
        BY <1>2, <3>2 DEF Cancelled, RemoveAt, RemovedFrom
      <3>5. QED BY <3>3, <3>4
    <2>2. i \in 1 .. Len(q)
      BY <1>0
    <2>3. r \in Seq(Job) /\ ClosesUp(q, i, r)
      BY <2>1, <2>2, RemovedAt
    <2>4. /\ DOMAIN r = 1 .. Len(q) - 1
          /\ \A j \in 1 .. Len(q) - 1 : r[j] = IF j < i THEN q[j] ELSE q[j + 1]
      BY <2>3 DEF ClosesUp
    <2>5. q # << >> /\ r # << >> /\ r[1] = q[1]
      <3>1. 1 \in DOMAIN r /\ 1 < i
        BY <1>0, <2>1, <2>4
      <3>2. QED BY <1>0, <2>4, <3>1
    <2>6. Head(r) = Head(q)
      BY <2>3, <2>5, TailIn
    <2> DEFINE at(j) == IF j < i THEN j ELSE j + 1
    <2>7. ASSUME NEW j \in DOMAIN r
          PROVE  /\ j \in Nat /\ at(j) \in DOMAIN q /\ r[j] = q[at(j)] /\ at(j) # i
                 /\ (j # 1 => at(j) # 1)
      BY <1>0, <2>1, <2>4
    <2>8. ASSUME NEW j \in DOMAIN r, NEW k \in DOMAIN r, at(j) = at(k) PROVE j = k
      BY <1>0, <2>1, <2>4, <2>8
    <2> HIDE DEF at
    <2>9. ASSUME OnePart(q) PROVE OnePart(r) /\ \A j \in DOMAIN r : j # 1 => ~IsJobOf(r[j], t)
      <3>1. ASSUME NEW j \in DOMAIN r \ {1}, NEW k \in DOMAIN r \ {1},
                   r[j].torrent = r[k].torrent, r[j].handle = r[k].handle
            PROVE  j = k
        <4>1. at(j) = at(k)
          BY <2>7, <2>9, <3>1 DEF OnePart
        <4>2. QED BY <2>8, <4>1
      <3>2. ASSUME NEW j \in DOMAIN r, j # 1, IsJobOf(r[j], t) PROVE FALSE
        <4>1. i \in DOMAIN q \ {1} /\ at(j) \in DOMAIN q \ {1}
          BY <1>0, <2>1, <2>7, <3>2
        <4>2. at(j) = i
          BY <2>1, <2>7, <2>9, <3>2, <4>1 DEF OnePart, IsJobOf
        <4>3. QED BY <2>7, <4>2
      <3>3. QED BY <3>1, <3>2 DEF OnePart
    <2>10. \A j \in DOMAIN r : \E k \in DOMAIN q : r[j] = q[k] /\ (j # 1 => k # 1)
      BY <2>7
    <2>11. ASSUME NEW k \in DOMAIN q, ~IsJobOf(q[k], t)
           PROVE  \E j \in DOMAIN r : r[j] = q[k] /\ (k # 1 => j # 1)
      <3>1. k # i /\ k \in 1 .. Len(q)
        BY <1>0, <2>1, <2>11
      <3>2. CASE k < i
        <4>1. k \in DOMAIN r /\ r[k] = q[k]
          BY <1>0, <2>1, <2>4, <3>1, <3>2
        <4>2. QED BY <4>1
      <3>3. CASE ~(k < i)
        <4>1. k - 1 \in DOMAIN r /\ ~(k - 1 < i) /\ k - 1 + 1 = k /\ k - 1 # 1
          BY <1>0, <2>1, <2>4, <3>1, <3>3
        <4>2. r[k - 1] = q[k]
          BY <2>4, <4>1
        <4>3. QED BY <4>1, <4>2
      <3>4. QED BY <3>2, <3>3
    <2>12. QED BY <2>3, <2>5, <2>6, <2>9, <2>10, <2>11 DEF Cancels
  <1>3. QED BY <1>1, <1>2

\* A job leaves the queue of s, or none does.
LEMMA CancelledGood ==
  ASSUME NEW s, NEW al, NEW st, Good(s, al, st), NEW t, NEW q, q = Cancelled(s.queue, t),
         NEW e, e = [s EXCEPT !.queue = q]
  PROVE  Good(e, al, st)
  <1>1. s \in States /\ s.queue \in Seq(Job)
    BY StateType DEF Good
  <1>2. q \in Seq(Job) /\ Cancels(s.queue, t, q)
    BY <1>1, CancelledIs
  <1>3. e \in States
    BY <1>1, <1>2 DEF States
  <1>4. /\ e.queue = q /\ e.moves = s.moves /\ e.moving = s.moving
        /\ e.savePath = s.savePath /\ e.location = s.location
    BY <1>1 DEF States
  <1>5. AlertsPart(q, s.moves, al, st, failures)
    BY <1>2 DEF Good, AlertsPart, Cancels
  <1>6. OnePart(q)
    BY <1>2 DEF Good, Cancels
  <1>7. JobsPart(q, s.moving, handle, inSession, alive, removing)
    BY <1>2 DEF Good, JobsPart, Cancels
  <1>8. PathsPart(e, alive)
    BY <1>4 DEF Good, PathsPart
  <1>9. QED BY <1>3, <1>4, <1>5, <1>6, <1>7, <1>8 DEF Good

\* A move of t to p is asked for, after what waited for t was cancelled.
LEMMA AppendedGood ==
  ASSUME RestPart, NEW s, NEW al, NEW st, Good(s, al, st), NEW t \in alive, NEW p \in Path,
         \A j \in DOMAIN s.queue : j # 1 => ~IsJobOf(s.queue[j], t),
         NEW job, job = [torrent |-> t, handle |-> handle[t], path |-> p],
         NEW e, e = [s EXCEPT !.queue = Append(s.queue, job),
                              !.moves = StartedIfAlone(s, s.queue, job),
                              !.moving[t] = TRUE]
  PROVE  Good(e, al, st)
  <1> DEFINE q == Append(s.queue, job)
             mv == StartedIfAlone(s, s.queue, job)
             mo == [s.moving EXCEPT ![t] = TRUE]
  <1>1. /\ s \in States /\ s.queue \in Seq(Job) /\ s.moves \subseteq Job /\ s.moving \in [Torrent -> BOOLEAN]
        /\ AlertsPart(s.queue, s.moves, al, st, failures) /\ OnePart(s.queue)
        /\ JobsPart(s.queue, s.moving, handle, inSession, alive, removing) /\ PathsPart(s, alive)
    BY StateType DEF Good
  <1>2. job \in Job
    BY Alive DEF Job
  <1>3. /\ job.torrent = t /\ job.handle = handle[t] /\ job.handle \in Nat /\ job.handle >= 1
        /\ t \in inSession /\ t \in Torrent
    BY Alive
  <1>4. /\ q \in Seq(Job)
        /\ DOMAIN s.queue = 1 .. Len(s.queue) /\ Len(s.queue) \in Nat
        /\ DOMAIN q = 1 .. Len(s.queue) + 1
        /\ \A i \in 1 .. Len(s.queue) : q[i] = s.queue[i]
        /\ q[Len(s.queue) + 1] = job
    BY <1>1, <1>2, AppendIn
  <1>5. s.queue = << >> <=> Len(s.queue) = 0
    BY <1>1, EmptySeq
  <1>6. q # << >> /\ Head(q) = q[1]
    <2>1. q # << >>
      BY <1>4
    <2>2. QED BY <1>4, <2>1, TailIn
  <1>7. /\ s.queue = << >> => Head(q) = job /\ mv = s.moves \cup {job}
        /\ s.queue # << >> => Head(q) = Head(s.queue) /\ mv = s.moves
    <2>1. s.queue # << >> => Head(s.queue) = s.queue[1]
      BY <1>1, TailIn
    <2>2. CASE s.queue = << >>
      BY <1>4, <1>5, <1>6, <2>2 DEF StartedIfAlone
    <2>3. CASE s.queue # << >>
      <3>1. 1 \in 1 .. Len(s.queue)
        BY <1>4, <1>5, <2>3
      <3>2. QED BY <1>4, <1>6, <2>1, <2>3, <3>1 DEF StartedIfAlone
    <2>4. QED BY <2>2, <2>3
  <1>8. mv \subseteq Job
    BY <1>1, <1>2 DEF StartedIfAlone
  <1>9. /\ mo \in [Torrent -> BOOLEAN] /\ mo[t] = TRUE
        /\ \A x \in Torrent : s.moving[x] => mo[x]
    BY <1>1, <1>3
  <1>10. e = [s EXCEPT !.queue = q, !.moves = mv, !.moving = mo]
    OBVIOUS
  <1> HIDE DEF q, mv, mo
  <1>11. e \in States
    <2>1. s \in States /\ q \in Seq(Job) /\ mv \subseteq Job /\ mo \in [Torrent -> BOOLEAN]
      BY <1>1, <1>4, <1>8, <1>9
    <2>2. PICK e1 : e1 = [s EXCEPT !.queue = q]
      OBVIOUS
    <2>3. PICK e2 : e2 = [e1 EXCEPT !.moves = mv]
      OBVIOUS
    <2>4. e1 \in States
      BY <2>1, <2>2 DEF States
    <2>5. e2 \in States
      BY <2>1, <2>3, <2>4 DEF States
    <2>6. e = [e2 EXCEPT !.moving = mo]
      BY <1>10, <2>2, <2>3
    <2>7. QED BY <2>1, <2>5, <2>6 DEF States
  <1>12. /\ e.queue = q /\ e.moves = mv /\ e.moving = mo
         /\ e.savePath = s.savePath /\ e.location = s.location
    BY <1>1, <1>10 DEF States
  <1>13. AlertsPart(q, mv, al, st, failures)
    <2>1. CASE s.queue = << >>
      <3>1. Answers(al) = {} /\ s.moves = {}
        BY <1>1, <2>1 DEF AlertsPart
      <3>2. mv = {job} /\ Head(q) = job
        BY <1>7, <2>1, <3>1
      <3>3. \A i \in DOMAIN al : al[i].type = "moveFailed" => failures > 0
        BY <1>1 DEF AlertsPart
      <3>4. QED BY <1>6, <3>1, <3>2, <3>3 DEF AlertsPart
    <2>2. CASE s.queue # << >>
      BY <1>1, <1>6, <1>7, <2>2 DEF AlertsPart
    <2>3. QED BY <2>1, <2>2
  <1>14. OnePart(q)
    <2>1. ASSUME NEW i \in DOMAIN q \ {1}, NEW j \in DOMAIN q \ {1},
                 q[i].torrent = q[j].torrent, q[i].handle = q[j].handle, i # j
          PROVE  FALSE
      <3>1. ASSUME NEW k \in 1 .. Len(s.queue), k # 1 PROVE ~(q[k].torrent = t /\ q[k].handle = handle[t])
        BY <1>4, <3>1 DEF IsJobOf
      <3>2. CASE i = Len(s.queue) + 1
        <4>1. j \in 1 .. Len(s.queue) /\ j # 1
          BY <1>4, <2>1, <3>2
        <4>2. QED BY <1>3, <1>4, <2>1, <3>1, <3>2, <4>1
      <3>3. CASE j = Len(s.queue) + 1
        <4>1. i \in 1 .. Len(s.queue) /\ i # 1
          BY <1>4, <2>1, <3>3
        <4>2. QED BY <1>3, <1>4, <2>1, <3>1, <3>3, <4>1
      <3>4. CASE i # Len(s.queue) + 1 /\ j # Len(s.queue) + 1
        <4>1. i \in DOMAIN s.queue \ {1} /\ j \in DOMAIN s.queue \ {1}
          BY <1>4, <2>1, <3>4
        <4>2. QED BY <1>1, <1>4, <2>1, <4>1 DEF OnePart
      <3>5. QED BY <3>2, <3>3, <3>4
    <2>2. QED BY <2>1 DEF OnePart
  <1>15. JobsPart(q, mo, handle, inSession, alive, removing)
    <2>1. ASSUME NEW i \in DOMAIN q
          PROVE  /\ JobFine(q[i], mo, handle, inSession, alive, removing)
                 /\ i # 1 => Present(q[i], handle, inSession)
      <3>1. CASE i = Len(s.queue) + 1
        <4>1. q[i] = job
          BY <1>4, <3>1
        <4>2. QED BY <1>3, <1>9, <4>1 DEF JobFine, Present
      <3>2. CASE i # Len(s.queue) + 1
        <4>1. i \in DOMAIN s.queue /\ q[i] = s.queue[i]
          BY <1>4, <3>2
        <4>2. /\ JobFine(q[i], s.moving, handle, inSession, alive, removing)
              /\ i # 1 => Present(q[i], handle, inSession)
          BY <1>1, <4>1 DEF JobsPart
        <4>3. q[i].torrent \in Torrent
          <5>1. s.queue[i] \in Job
            BY <1>1, <4>1, ElementOfSeq, LenProperties
          <5>2. QED BY <4>1, <5>1 DEF Job
        <4>4. QED BY <1>9, <4>2, <4>3 DEF JobFine
      <3>3. QED BY <3>1, <3>2
    <2>2. QED BY <2>1 DEF JobsPart
  <1>16. PathsPart(e, alive)
    BY <1>1, <1>12 DEF PathsPart
  <1>17. QED BY <1>11, <1>12, <1>13, <1>14, <1>15, <1>16 DEF Good

LEMMA MoveStorageGood ==
  ASSUME RestPart, NEW s, NEW al, NEW st, Good(s, al, st), NEW t \in alive, NEW p \in Path,
         NEW e, e = MoveStorage(s, t, p)
  PROVE  Good(e, al, st)
  <1>1. PICK q : q = Cancelled(s.queue, t)
    OBVIOUS
  <1>2. PICK job : job = [torrent |-> t, handle |-> handle[t], path |-> p]
    OBVIOUS
  <1>3. PICK s1 : s1 = [s EXCEPT !.queue = q]
    OBVIOUS
  <1>4. Good(s1, al, st)
    BY <1>1, <1>3, CancelledGood
  <1>5. CASE Meaningless(s, q, t, p)
    BY <1>1, <1>3, <1>4, <1>5 DEF MoveStorage
  <1>6. CASE ~Meaningless(s, q, t, p)
    <2>1. PICK s2 : s2 = [s EXCEPT !.queue = Append(q, job), !.moves = StartedIfAlone(s, q, job),
                                   !.moving[t] = TRUE]
      OBVIOUS
    <2>2. e = UpdateStatus(s2, t)
      BY <1>1, <1>2, <1>6, <2>1 DEF MoveStorage
    <2>3. s \in States /\ s1.queue = q /\ s1.moves = s.moves
      BY <1>3 DEF Good, States
    <2>4. s2 = [s1 EXCEPT !.queue = Append(s1.queue, job), !.moves = StartedIfAlone(s1, s1.queue, job),
                          !.moving[t] = TRUE]
      BY <1>3, <2>1, <2>3 DEF StartedIfAlone, States
    <2>5. \A j \in DOMAIN q : j # 1 => ~IsJobOf(q[j], t)
      <3>1. s.queue \in Seq(Job) /\ OnePart(s.queue)
        BY StateType DEF Good
      <3>2. Cancels(s.queue, t, q)
        BY <1>1, <3>1, CancelledIs
      <3>3. QED BY <3>1, <3>2 DEF Cancels
    <2>6. Good(s2, al, st)
      BY <1>2, <1>4, <2>3, <2>4, <2>5, AppendedGood
    <2>7. QED BY <2>2, <2>6, UpdatedGood
  <1>7. QED BY <1>5, <1>6

\* A trigger is added to those of t, or taken, or a rename of it is counted.
LEMMA TriggersGood ==
  ASSUME NEW s, NEW al, NEW st, Good(s, al, st), NEW t \in Torrent, NEW work \in Seq(Trigger),
         NEW e, e = [s EXCEPT !.triggers[t] = work]
  PROVE  Good(e, al, st) /\ e.moving = s.moving /\ e.location = s.location /\ e.savePath = s.savePath
  <1> DEFINE g == [s.triggers EXCEPT ![t] = work]
  <1>1. s \in States /\ PathsPart(s, alive)
    BY DEF Good
  <1>2. g \in [Torrent -> Seq(Trigger)]
    BY <1>1, StateType
  <1>3. e = [s EXCEPT !.triggers = g]
    OBVIOUS
  <1> HIDE DEF g
  <1>4. /\ e \in States /\ e.queue = s.queue /\ e.moves = s.moves /\ e.moving = s.moving
        /\ e.savePath = s.savePath /\ e.location = s.location
    BY <1>1, <1>2, <1>3 DEF States
  <1>5. QED BY <1>1, <1>4, GoodSame DEF PathsPart

LEMMA RenamesGood ==
  ASSUME NEW s, NEW al, NEW st, Good(s, al, st), NEW t \in Torrent, NEW n \in Nat,
         NEW e, e = [s EXCEPT !.renames[t] = n]
  PROVE  Good(e, al, st)
  <1> DEFINE g == [s.renames EXCEPT ![t] = n]
  <1>1. s \in States /\ PathsPart(s, alive)
    BY DEF Good
  <1>2. g \in [Torrent -> Nat]
    BY <1>1, StateType
  <1>3. e = [s EXCEPT !.renames = g]
    OBVIOUS
  <1> HIDE DEF g
  <1>4. /\ e \in States /\ e.queue = s.queue /\ e.moves = s.moves /\ e.moving = s.moving
        /\ e.savePath = s.savePath /\ e.location = s.location
    BY <1>1, <1>2, <1>3 DEF States
  <1>5. QED BY <1>1, <1>4, GoodSame DEF PathsPart

LEMMA SeedStatusGood ==
  ASSUME NEW s, NEW al, NEW st, Good(s, al, st), NEW t \in Torrent, NEW b \in BOOLEAN,
         NEW e, e = [s EXCEPT !.seedStatus[t] = b]
  PROVE  Good(e, al, st)
  <1> DEFINE g == [s.seedStatus EXCEPT ![t] = b]
  <1>1. s \in States /\ PathsPart(s, alive)
    BY DEF Good
  <1>2. g \in [Torrent -> BOOLEAN]
    BY <1>1, StateType
  <1>3. e = [s EXCEPT !.seedStatus = g]
    OBVIOUS
  <1> HIDE DEF g
  <1>4. /\ e \in States /\ e.queue = s.queue /\ e.moves = s.moves /\ e.moving = s.moving
        /\ e.savePath = s.savePath /\ e.location = s.location
    BY <1>1, <1>2, <1>3 DEF States
  <1>5. QED BY <1>1, <1>4, GoodSame DEF PathsPart

LEMMA SavePathGood ==
  ASSUME NEW s, NEW al, NEW st, Good(s, al, st), NEW t \in Torrent, NEW p \in Path,
         NEW e, e = [s EXCEPT !.savePath[t] = p]
  PROVE  Good(e, al, st)
  <1> DEFINE g == [s.savePath EXCEPT ![t] = p]
  <1>1. s \in States /\ PathsPart(s, alive)
    BY DEF Good
  <1>2. g \in [Torrent -> Path \cup {NoPath}] /\ \A x \in Torrent : s.savePath[x] \in Path => g[x] \in Path
    BY <1>1, StateType
  <1>3. e = [s EXCEPT !.savePath = g]
    OBVIOUS
  <1>4. \A x \in alive : s.savePath[x] \in Path => g[x] \in Path
    BY <1>1, StateType
  <1> HIDE DEF g
  <1>5. /\ e \in States /\ e.queue = s.queue /\ e.moves = s.moves /\ e.moving = s.moving
        /\ e.savePath = g /\ e.location = s.location
    BY <1>1, <1>2, <1>3 DEF States
  <1>6. QED BY <1>1, <1>4, <1>5, GoodSame DEF PathsPart

\* adjustActualSavePath_impl
LEMMA AdjustNowGood ==
  ASSUME RestPart, NEW s, NEW al, NEW st, Good(s, al, st), NEW t \in alive,
         NEW e, e = AdjustNow(s, t)
  PROVE  Good(e, al, st)
  <1>1. PICK p : p = IF UseTempPath(s, t) THEN Temp ELSE s.savePath[t]
    OBVIOUS
  <1>2. p \in Path
    BY <1>1 DEF Good, PathsPart, Path
  <1>3. PICK work : work = Append(s.triggers[t], "removeTempFolder")
    OBVIOUS
  <1>4. work \in Seq(Trigger)
    <2>1. s.triggers[t] \in Seq(Trigger) /\ "removeTempFolder" \in Trigger
      BY StateType, Alive DEF Good, Trigger
    <2>2. QED BY <1>3, <2>1, AppendIn
  <1>5. PICK s1 : s1 = [s EXCEPT !.triggers[t] = work]
    OBVIOUS
  <1>6. Good(s1, al, st)
    BY <1>4, <1>5, Alive, TriggersGood
  <1>7. e = s \/ e = MoveStorage(s, t, p) \/ e = MoveStorage(s1, t, p)
    BY <1>1, <1>3, <1>5 DEF AdjustNow
  <1>8. QED BY <1>2, <1>6, <1>7, MoveStorageGood

\* adjustActualSavePath
LEMMA AdjustGood ==
  ASSUME RestPart, NEW s, NEW al, NEW st, Good(s, al, st), NEW t \in alive,
         NEW e, e = Adjust(s, t)
  PROVE  Good(e, al, st)
  <1>1. CASE s.moving[t]
    <2>1. PICK work : work = Append(s.triggers[t], "adjust")
      OBVIOUS
    <2>2. work \in Seq(Trigger)
      <3>1. s.triggers[t] \in Seq(Trigger) /\ "adjust" \in Trigger
        BY StateType, Alive DEF Good, Trigger
      <3>2. QED BY <2>1, <3>1, AppendIn
    <2>3. e = [s EXCEPT !.triggers[t] = work]
      BY <1>1, <2>1 DEF Adjust
    <2>4. QED BY <2>2, <2>3, Alive, TriggersGood
  <1>2. CASE ~s.moving[t]
    <2>1. e = AdjustNow(s, t)
      BY <1>2 DEF Adjust
    <2>2. QED BY <2>1, AdjustNowGood
  <1>3. QED BY <1>1, <1>2

\* move_impl
LEMMA MoveGood ==
  ASSUME RestPart, NEW s, NEW al, NEW st, Good(s, al, st), NEW t \in alive, NEW p \in Path,
         NEW e, e = Move(s, t, p)
  PROVE  Good(e, al, st)
  <1>1. e = s \/ e = [s EXCEPT !.savePath[t] = p] \/ e = MoveStorage(s, t, p)
    BY DEF Move
  <1>2. CASE e = [s EXCEPT !.savePath[t] = p]
    BY <1>2, Alive, SavePathGood
  <1>3. CASE e = MoveStorage(s, t, p)
    BY <1>3, MoveStorageGood
  <1>4. QED BY <1>1, <1>2, <1>3

LEMMA TurnGood ==
  ASSUME RestPart, NEW s, NEW al, NEW st, Good(s, al, st), NEW t \in alive, NEW u,
         NEW e, e = Turn(s, t, u)
  PROVE  Good(e, al, st)
  <1>1. CASE s.triggers[t] = << >>
    BY <1>1 DEF Turn
  <1>2. CASE s.triggers[t] # << >>
    <2>1. PICK work : work = Tail(s.triggers[t])
      OBVIOUS
    <2>2. work \in Seq(Trigger)
      <3>1. s.triggers[t] \in Seq(Trigger)
        BY StateType, Alive DEF Good
      <3>2. QED BY <1>2, <2>1, <3>1, TailIn
    <2>3. PICK s1 : s1 = [s EXCEPT !.triggers[t] = work]
      OBVIOUS
    <2>4. Good(s1, al, st)
      BY <2>2, <2>3, Alive, TriggersGood
    <2>5. e = s \/ e = s1 \/ e = AdjustNow(s1, t)
      BY <2>1, <2>3 DEF Turn, Run
    <2>6. QED BY <2>4, <2>5, AdjustNowGood
  <1>3. QED BY <1>1, <1>2

\* The loop over the triggers stays where one round of it stays.
LEMMA RunAllIn ==
  ASSUME NEW S, NEW s \in S, NEW t, s.triggers[t] \in Seq(Trigger), NEW u,
         \A x \in S : Turn(x, t, u) \in S
  PROVE  RunAll(s, t, u) \in S
  <1> DEFINE N == 2 * Len(s.triggers[t])
             Body(f) == [n \in 0 .. N |-> IF n = 0 THEN s ELSE Turn(f[n - 1], t, u)]
             f == CHOOSE g : g = Body(g)
             step == [n \in 1 .. N |-> [x \in S |-> Turn(x, t, u)]]
  <1>0. N \in Nat
    <2>1. Len(s.triggers[t]) \in Nat
      BY LenProperties
    <2>2. QED BY <2>1
  <1>1. RunAll(s, t, u) = f[N]
    BY DEF RunAll
  <1> HIDE DEF N, f
  <1>2. f = Body(f)
    <2>1. step \in [1 .. N -> [S -> S]]
      OBVIOUS
    <2>2. PICK g \in [0 .. N -> S] : Iterates(g, N, s, step)
      <3> HIDE DEF step
      <3>1. QED BY <1>0, <2>1, Iterated
    <2>3. ASSUME NEW n \in 1 .. N PROVE g[n] = Turn(g[n - 1], t, u)
      <3>1. n - 1 \in 0 .. N
        BY <1>0
      <3>2. g[n - 1] \in S
        BY <2>2, <3>1
      <3>3. g[n] = step[n][g[n - 1]]
        BY <2>2 DEF Iterates
      <3>4. QED BY <3>2, <3>3
    <2>4. g = Body(g)
      BY <1>0, <2>2, <2>3 DEF Iterates
    <2>5. QED BY <2>4 DEF f
  <1> DEFINE P == {n \in 0 .. N : f[n] \in S}
  <1>3. 0 \in P
    BY <1>0, <1>2
  <1>4. ASSUME NEW n \in 1 .. N, n - 1 \in P PROVE n \in P
    <2>1. n \in 0 .. N /\ n # 0
      BY <1>0
    <2>2. f[n] = Turn(f[n - 1], t, u)
      <3>1. Body(f)[n] = Turn(f[n - 1], t, u)
        BY <2>1
      <3> HIDE DEF Body
      <3>2. QED BY <1>2, <3>1
    <2>3. f[n - 1] \in S
      BY <1>4
    <2>4. QED BY <2>1, <2>2, <2>3
  <1>5. \A n \in 0 .. N : n \in P
    <2> HIDE DEF P
    <2>1. QED BY <1>0, <1>3, <1>4, UpTo
  <1>6. f[N] \in S
    BY <1>0, <1>5
  <1>7. QED BY <1>1, <1>6

LEMMA RunAllGood ==
  ASSUME RestPart, NEW s, NEW al, NEW st, Good(s, al, st), NEW t \in alive, NEW u,
         NEW e, e = RunAll(s, t, u)
  PROVE  Good(e, al, st)
  <1>1. PICK S : S = {x \in States : Good(x, al, st)}
    OBVIOUS
  <1>2. s \in S /\ s.triggers[t] \in Seq(Trigger)
    BY <1>1, StateType, Alive DEF Good
  <1>3. ASSUME NEW x \in S PROVE Turn(x, t, u) \in S
    <2>1. PICK y : y = Turn(x, t, u)
      OBVIOUS
    <2>2. Good(y, al, st)
      BY <1>1, <2>1, TurnGood
    <2>3. QED BY <1>1, <2>1, <2>2 DEF Good
  <1>4. e \in S
    BY <1>2, <1>3, RunAllIn
  <1>5. QED BY <1>1, <1>4

\* handleTempPathChanged: where the adjustment of one torrent after another leads.
\* G[n] is where it is after n torrents.
LEMMA AdjustAllIn ==
  ASSUME NEW order \in Seq(alive), NEW G, NEW s \in G[0],
         \A n \in 1 .. Len(order) : \A x \in G[n - 1] : Adjust(x, order[n]) \in G[n]
  PROVE  AdjustAll(s, order) \in G[Len(order)]
  <1> DEFINE N == Len(order)
             Body(f) == [n \in 0 .. N |-> IF n = 0 THEN s ELSE Adjust(f[n - 1], order[n])]
             f == CHOOSE g : g = Body(g)
             S == UNION {G[n] : n \in 0 .. N}
             step == [n \in 1 .. N |->
                        [x \in S |-> IF x \in G[n - 1] THEN Adjust(x, order[n]) ELSE x]]
  <1>0. N \in Nat
    BY LenProperties
  <1>1. AdjustAll(s, order) = f[N]
    BY DEF AdjustAll
  <1>2. \A n \in 1 .. N : \A x \in G[n - 1] : Adjust(x, order[n]) \in G[n]
    OBVIOUS
  <1> HIDE DEF N, f
  <1>3. PICK g \in [0 .. N -> S] : Iterates(g, N, s, step) /\ \A n \in 0 .. N : g[n] \in G[n]
    <2>1. s \in S
      BY <1>0
    <2>2. step \in [1 .. N -> [S -> S]]
      <3>1. ASSUME NEW n \in 1 .. N, NEW x \in S
            PROVE  (IF x \in G[n - 1] THEN Adjust(x, order[n]) ELSE x) \in S
        <4>1. n \in 0 .. N
          BY <1>0
        <4>2. CASE x \in G[n - 1]
          <5>1. Adjust(x, order[n]) \in G[n]
            BY <1>2, <4>2
          <5>2. QED BY <4>1, <4>2, <5>1
        <4>3. QED BY <4>2
      <3> HIDE DEF S
      <3>2. QED BY <3>1
    <2>3. ASSUME NEW n \in 1 .. N, NEW x \in S, x \in G[n - 1] PROVE step[n][x] \in G[n]
      <3>1. Adjust(x, order[n]) \in G[n]
        BY <1>2, <2>3
      <3> HIDE DEF S
      <3>2. step[n][x] = Adjust(x, order[n])
        BY <2>3
      <3>3. QED BY <3>1, <3>2
    <2> HIDE DEF step, S
    <2>4. QED BY <1>0, <2>1, <2>2, <2>3, IteratedIn
  <1>4. f = Body(f)
    <2>1. ASSUME NEW n \in 1 .. N PROVE g[n] = Adjust(g[n - 1], order[n])
      <3>1. n - 1 \in 0 .. N
        BY <1>0
      <3>2. g[n - 1] \in S /\ g[n - 1] \in G[n - 1]
        BY <1>3, <3>1
      <3>3. g[n] = step[n][g[n - 1]]
        BY <1>3 DEF Iterates
      <3> HIDE DEF S
      <3>4. step[n][g[n - 1]] = Adjust(g[n - 1], order[n])
        BY <3>2
      <3>5. QED BY <3>3, <3>4
    <2> HIDE DEF step, S
    <2>2. g = Body(g)
      BY <1>0, <1>3, <2>1 DEF Iterates
    <2>3. QED BY <2>2 DEF f
  <1> HIDE DEF step, S
  <1> DEFINE P == {n \in 0 .. N : f[n] = g[n]}
  <1>5. 0 \in P
    BY <1>0, <1>3, <1>4 DEF Iterates
  <1>6. ASSUME NEW n \in 1 .. N, n - 1 \in P PROVE n \in P
    <2>1. n \in 0 .. N /\ n # 0 /\ n - 1 \in 0 .. N
      BY <1>0
    <2>2. f[n] = Adjust(f[n - 1], order[n])
      <3>1. Body(f)[n] = Adjust(f[n - 1], order[n])
        BY <2>1
      <3> HIDE DEF Body
      <3>2. QED BY <1>4, <3>1
    <2>3. g[n] = Adjust(g[n - 1], order[n])
      <3>1. g[n - 1] \in G[n - 1] /\ g[n] = step[n][g[n - 1]] /\ g[n - 1] \in S
        BY <1>3, <2>1 DEF Iterates
      <3>2. step[n][g[n - 1]] = Adjust(g[n - 1], order[n])
        BY <3>1 DEF step
      <3>3. QED BY <3>1, <3>2
    <2>4. f[n - 1] = g[n - 1]
      BY <1>6
    <2>5. QED BY <2>1, <2>2, <2>3, <2>4
  <1>7. \A n \in 0 .. N : n \in P
    <2> HIDE DEF P
    <2>1. QED BY <1>0, <1>5, <1>6, UpTo
  <1>8. f[N] \in G[N]
    BY <1>0, <1>3, <1>7
  <1>9. QED BY <1>1, <1>8 DEF N

LEMMA AdjustAllGood ==
  ASSUME RestPart, NEW s, NEW al, NEW st, Good(s, al, st), NEW order \in Seq(alive),
         NEW e, e = AdjustAll(s, order)
  PROVE  Good(e, al, st)
  <1>1. PICK S : S = {x \in States : Good(x, al, st)}
    OBVIOUS
  <1>2. PICK G : G = [n \in 0 .. Len(order) |-> S]
    OBVIOUS
  <1>3. Len(order) \in Nat /\ \A n \in 1 .. Len(order) : order[n] \in alive
    BY LenProperties, ElementOfSeq
  <1>4. \A n \in 0 .. Len(order) : G[n] = S
    BY <1>2
  <1>5. s \in G[0]
    BY <1>1, <1>3, <1>4 DEF Good
  <1>6. ASSUME NEW n \in 1 .. Len(order), NEW x \in G[n - 1] PROVE Adjust(x, order[n]) \in G[n]
    <2>1. G[n - 1] = S /\ G[n] = S /\ order[n] \in alive
      BY <1>3, <1>4
    <2>2. Good(x, al, st)
      BY <1>1, <2>1
    <2>3. PICK y : y = Adjust(x, order[n])
      OBVIOUS
    <2>4. Good(y, al, st)
      BY <2>1, <2>2, <2>3, AdjustGood
    <2>5. QED BY <1>1, <2>1, <2>3, <2>4 DEF Good
  <1>7. e \in G[Len(order)]
    BY <1>5, <1>6, AdjustAllIn
  <1>8. QED BY <1>1, <1>3, <1>4, <1>7

-----------------------------------------------------------------------------
(* The alerts: what is taken, and what comes *)

\* r is al without its first alert.
LEMMA TakenIs ==
  ASSUME NEW al \in Seq(Alert), al # << >>, NEW r, r = Tail(al)
  PROVE  /\ r \in Seq(Alert) /\ Head(al) = al[1] /\ Head(al) \in Alert /\ 1 \in DOMAIN al
         /\ \A i \in DOMAIN r : i + 1 \in DOMAIN al /\ i + 1 # 1 /\ r[i] = al[i + 1]
         /\ \A i \in DOMAIN al : i # 1 => i - 1 \in DOMAIN r /\ r[i - 1] = al[i]
         /\ \A i \in DOMAIN r : i \in Nat
         /\ \A i \in DOMAIN al : i \in Nat
  <1>1. /\ Head(al) \in Alert /\ Tail(al) \in Seq(Alert)
        /\ Len(al) \in Nat \ {0} /\ DOMAIN al = 1 .. Len(al)
        /\ DOMAIN Tail(al) = 1 .. Len(al) - 1
        /\ \A i \in DOMAIN Tail(al) : Tail(al)[i] = al[i + 1]
        /\ Head(al) = al[1]
    BY TailIn
  <1>2. QED BY <1>1

\* Another alert is taken, and the answers stay what they were.
LEMMA OtherTaken ==
  ASSUME NEW al \in Seq(Alert), al # << >>, ~IsAnswer(Head(al)),
         NEW q, NEW mv, NEW st, NEW failed, AlertsPart(q, mv, al, st, failed),
         NEW r, r = Tail(al)
  PROVE  AlertsPart(q, mv, r, st, failed)
  <1>1. /\ r \in Seq(Alert) /\ Head(al) = al[1] /\ 1 \in DOMAIN al
        /\ \A i \in DOMAIN r : i + 1 \in DOMAIN al /\ i + 1 # 1 /\ r[i] = al[i + 1]
        /\ \A i \in DOMAIN al : i # 1 => i - 1 \in DOMAIN r /\ r[i - 1] = al[i]
        /\ \A i \in DOMAIN r : i \in Nat
    BY TakenIs
  <1>2. ASSUME NEW i \in Answers(r) PROVE i \in Nat /\ i + 1 \in Answers(al) /\ r[i] = al[i + 1]
    BY <1>1 DEF Answers
  <1>3. ASSUME NEW i \in Answers(al) PROVE i - 1 \in Answers(r)
    BY <1>1 DEF Answers
  <1>4. \A i \in DOMAIN r : r[i].type = "moveFailed" => failed > 0
    BY <1>1 DEF AlertsPart
  <1>5. \A i \in Answers(r) : q # << >> /\ r[i].job = Head(q)
    BY <1>2 DEF AlertsPart
  <1>6. ASSUME NEW i \in Answers(r), NEW j \in Answers(r) PROVE i = j
    <2>1. i + 1 = j + 1 /\ i \in Nat /\ j \in Nat
      BY <1>2 DEF AlertsPart
    <2>2. QED BY <2>1
  <1>7. Answers(r) = {} <=> Answers(al) = {}
    BY <1>2, <1>3
  <1>8. QED BY <1>4, <1>5, <1>6, <1>7 DEF AlertsPart

\* The answer is taken: it was for the head of the queue, and it was the only one.
LEMMA AnswerTaken ==
  ASSUME NEW al \in Seq(Alert), al # << >>, IsAnswer(Head(al)),
         NEW q, NEW mv, NEW st, NEW failed, AlertsPart(q, mv, al, st, failed),
         NEW r, r = Tail(al)
  PROVE  /\ q # << >> /\ mv = {} /\ r \in Seq(Alert) /\ Answers(r) = {}
         /\ \A i \in DOMAIN r : r[i].type # "moveFailed"
         /\ Head(al).type = "moveFailed" => failed > 0
  <1>1. /\ r \in Seq(Alert) /\ Head(al) = al[1] /\ 1 \in DOMAIN al
        /\ \A i \in DOMAIN r : i + 1 \in DOMAIN al /\ i + 1 # 1 /\ r[i] = al[i + 1]
    BY TakenIs
  <1>2. 1 \in Answers(al)
    BY <1>1 DEF Answers
  <1>3. ASSUME NEW i \in DOMAIN r PROVE ~IsAnswer(r[i])
    <2>1. CASE IsAnswer(r[i])
      <3>1. i + 1 \in Answers(al) /\ i + 1 # 1
        BY <1>1, <2>1 DEF Answers
      <3>2. QED BY <1>2, <3>1 DEF AlertsPart
    <2>2. QED BY <2>1
  <1>4. Answers(r) = {}
    BY <1>3 DEF Answers
  <1>5. \A i \in DOMAIN r : r[i].type # "moveFailed"
    BY <1>3 DEF IsAnswer
  <1>6. q # << >> /\ mv = {}
    BY <1>2 DEF AlertsPart
  <1>7. Head(al).type = "moveFailed" => failed > 0
    BY <1>1 DEF AlertsPart
  <1>8. QED BY <1>1, <1>4, <1>5, <1>6, <1>7

\* More alerts come, which are no answers.
Longer(al, r) ==
    /\ r \in Seq(Alert)
    /\ DOMAIN al \subseteq DOMAIN r
    /\ \A i \in DOMAIN al : r[i] = al[i]
    /\ \A i \in DOMAIN r \ DOMAIN al : ~IsAnswer(r[i])

LEMMA AboutIsNoAnswer ==
  ASSUME NEW type \in {"finished", "checked", "removed", "deleted"}, NEW t \in Torrent
  PROVE  About(type, t) \in Alert /\ ~IsAnswer(About(type, t))
  BY DEF About, Alert, IsAnswer

LEMMA OneMore ==
  ASSUME NEW al \in Seq(Alert), NEW type \in {"finished", "checked", "removed", "deleted"},
         NEW t \in Torrent, NEW r, r = Append(al, About(type, t))
  PROVE  Longer(al, r)
  <1>1. PICK a : a = About(type, t)
    OBVIOUS
  <1>2. a \in Alert /\ ~IsAnswer(a)
    BY <1>1, AboutIsNoAnswer
  <1>3. /\ r \in Seq(Alert)
        /\ DOMAIN al = 1 .. Len(al) /\ Len(al) \in Nat
        /\ DOMAIN r = 1 .. Len(al) + 1
        /\ \A i \in 1 .. Len(al) : r[i] = al[i]
        /\ r[Len(al) + 1] = a
    BY <1>1, <1>2, AppendIn
  <1>4. DOMAIN al \subseteq DOMAIN r /\ \A i \in DOMAIN al : r[i] = al[i]
    BY <1>3
  <1>5. ASSUME NEW i \in DOMAIN r \ DOMAIN al PROVE ~IsAnswer(r[i])
    <2>1. i = Len(al) + 1
      BY <1>3
    <2>2. QED BY <1>2, <1>3, <2>1
  <1>6. QED BY <1>3, <1>4, <1>5 DEF Longer

LEMMA SomeMore ==
  ASSUME NEW al \in Seq(Alert), NEW b \in Seq(Alert), \A i \in DOMAIN b : ~IsAnswer(b[i]),
         NEW r, r = al \o b
  PROVE  Longer(al, r)
  <1>1. /\ r \in Seq(Alert)
        /\ DOMAIN al = 1 .. Len(al) /\ DOMAIN b = 1 .. Len(b)
        /\ Len(al) \in Nat /\ Len(b) \in Nat
        /\ DOMAIN r = 1 .. Len(al) + Len(b)
        /\ \A i \in 1 .. Len(al) : r[i] = al[i]
        /\ \A i \in 1 .. Len(b) : r[Len(al) + i] = b[i]
    BY ConcatIn
  <1>2. DOMAIN al \subseteq DOMAIN r /\ \A i \in DOMAIN al : r[i] = al[i]
    BY <1>1
  <1>3. ASSUME NEW i \in DOMAIN r \ DOMAIN al PROVE ~IsAnswer(r[i])
    <2>1. i - Len(al) \in 1 .. Len(b) /\ i = Len(al) + (i - Len(al))
      BY <1>1
    <2>2. r[i] = b[i - Len(al)]
      BY <1>1, <2>1
    <2>3. QED BY <1>1, <2>1, <2>2
  <1>4. QED BY <1>1, <1>2, <1>3 DEF Longer

LEMMA LongerAlerts ==
  ASSUME NEW al, NEW r, Longer(al, r),
         NEW q, NEW mv, NEW st, NEW failed, AlertsPart(q, mv, al, st, failed)
  PROVE  AlertsPart(q, mv, r, st, failed)
  <1>1. Answers(r) = Answers(al)
    BY DEF Longer, Answers
  <1>2. \A i \in Answers(r) : r[i] = al[i]
    BY <1>1 DEF Longer, Answers
  <1>3. \A i \in DOMAIN r : r[i].type = "moveFailed" => i \in Answers(r)
    BY DEF Answers, IsAnswer
  <1>4. \A i \in DOMAIN r : r[i].type = "moveFailed" => failed > 0
    <2>1. ASSUME NEW i \in DOMAIN r, r[i].type = "moveFailed" PROVE failed > 0
      <3>1. i \in Answers(al) /\ r[i] = al[i]
        BY <1>1, <1>2, <1>3, <2>1
      <3>2. i \in DOMAIN al
        BY <3>1 DEF Answers
      <3>3. QED BY <2>1, <3>1, <3>2 DEF AlertsPart
    <2>2. QED BY <2>1
  <1>5. QED BY <1>1, <1>2, <1>4 DEF AlertsPart

-----------------------------------------------------------------------------
(* Where the data of a torrent is, and where it belongs *)

\* The alerts that tell t that its download or its check has ended
Told(al, t) == {i \in DOMAIN al : al[i].type \in {"finished", "checked"} /\ al[i].torrent = t}

\* The torrent knows as much as libtorrent: no such alert would change its mind.
Known(s, al, t) == Told(al, t) = {} \/ s.seedStatus[t]

Adjusts(s, t) == \E i \in DOMAIN s.triggers[t] : s.triggers[t][i] = "adjust"

ToTemp(s, t) == s.temp /\ ~s.seedStatus[t]

\* The last move of t that is queued, if any, leads to p.
LastIs(q, t, p) ==
    /\ \A i \in DOMAIN q : i # 1 /\ q[i].torrent = t => q[i].path = p
    /\ (\A i \in DOMAIN q : i # 1 => q[i].torrent # t) =>
          \A i \in DOMAIN q : q[i].torrent = t => q[i].path = p

\* The last alert of that kind, when it tells that t has finished, and the answer
\* that t was moved, are true of libtorrent: of the places pl and of the complete co.
AlertsTell(al, t, pl, co) ==
    /\ \A i \in Told(al, t) :
          al[i].type = "finished" /\ (\A j \in Told(al, t) : j <= i) => t \in co
    /\ \A i \in DOMAIN al : al[i].type = "moved" /\ al[i].job.torrent = t => pl[t] = al[i].job.path

\* What the torrent takes for true is.
Shown(s, al, t, pl, co) ==
    /\ ~s.moving[t] => s.location[t] = pl[t]
    /\ Told(al, t) = {} => (s.seedStatus[t] <=> t \in co) /\ (s.seed[t] => t \in co)

\* A torrent that is not being moved is where it belongs, unless work waits.
Placed(s, al, t) ==
    Known(s, al, t) /\ ~s.moving[t] /\ ~Adjusts(s, t) =>
        s.location[t] = IF ToTemp(s, t) THEN Temp ELSE s.savePath[t]

\* One that is being moved and belongs into the temporary folder goes there; with
\* "always", even when work waits.
Going(s, al, t, always) ==
    Known(s, al, t) /\ s.moving[t] /\ ToTemp(s, t) /\ (always \/ ~Adjusts(s, t)) =>
        LastIs(s.queue, t, Temp)

Settles(s, al, t, always, pl, co) ==
    Shown(s, al, t, pl, co) /\ Placed(s, al, t) /\ Going(s, al, t, always)

Watched(t, ha, failed) == ha[t] = 1 /\ failed = 0

SettleInv ==
    /\ \A t \in Torrent \ alive : ~seedStatus[t]
    /\ \A t \in alive \ noMetadata : Watched(t, handle, failures) =>
          /\ AlertsTell(alerts, t, place, complete)
          /\ Settles(Current, alerts, t, FALSE, place, complete)

\* s and e do not differ in what is known of t.
SameAt(s, e, t) ==
    /\ e.temp = s.temp /\ e.seedStatus[t] = s.seedStatus[t] /\ e.savePath[t] = s.savePath[t]
    /\ e.moving[t] = s.moving[t] /\ e.triggers[t] = s.triggers[t]
    /\ e.location[t] = s.location[t] /\ e.seed[t] = s.seed[t]
    /\ LastIs(s.queue, t, Temp) => LastIs(e.queue, t, Temp)

\* They differ only in u, and in the queue.
Apart(s, e, u) ==
    /\ e.temp = s.temp /\ e.seedStatus = s.seedStatus
    /\ \A t \in Torrent \ {u} : SameAt(s, e, t)

LEMMA SettlesSame ==
  ASSUME NEW s, NEW e, NEW al, NEW r, NEW t, NEW a, NEW pl, NEW co, NEW pl2, NEW co2,
         Settles(s, al, t, a, pl, co), SameAt(s, e, t),
         pl2[t] = pl[t], t \in co2 <=> t \in co, Told(r, t) = {} <=> Told(al, t) = {}
  PROVE  Settles(e, r, t, a, pl2, co2)
  <1>1. /\ Known(e, r, t) <=> Known(s, al, t)
        /\ Adjusts(e, t) <=> Adjusts(s, t)
        /\ ToTemp(e, t) <=> ToTemp(s, t)
    BY DEF SameAt, Known, Adjusts, ToTemp
  <1>2. Shown(e, r, t, pl2, co2)
    BY DEF Settles, Shown, SameAt
  <1>3. Placed(e, r, t)
    BY <1>1 DEF Settles, Placed, SameAt
  <1>4. Going(e, r, t, a)
    BY <1>1 DEF Settles, Going, SameAt
  <1>5. QED BY <1>2, <1>3, <1>4 DEF Settles

LEMMA ApartSettles ==
  ASSUME NEW s, NEW e, NEW u, Apart(s, e, u), NEW t \in Torrent, t # u,
         NEW al, NEW a, NEW pl, NEW co, Settles(s, al, t, a, pl, co)
  PROVE  Settles(e, al, t, a, pl, co)
  <1>1. SameAt(s, e, t)
    BY DEF Apart
  <1>2. QED BY <1>1, SettlesSame

LEMMA SameTransitive ==
  ASSUME NEW s, NEW e, NEW f, NEW t, SameAt(s, e, t), SameAt(e, f, t)
  PROVE  SameAt(s, f, t)
  BY DEF SameAt

LEMMA ApartTransitive ==
  ASSUME NEW s, NEW e, NEW f, NEW u, Apart(s, e, u), Apart(e, f, u)
  PROVE  Apart(s, f, u)
  <1>1. ASSUME NEW t \in Torrent \ {u} PROVE SameAt(s, f, t)
    BY SameTransitive DEF Apart
  <1>2. QED BY <1>1 DEF Apart

LEMMA ApartSelf ==
  ASSUME NEW s, NEW u
  PROVE  Apart(s, s, u)
  BY DEF Apart, SameAt

\* Going is the stronger with "always", and says nothing of a torrent at rest.
LEMMA Weaken ==
  ASSUME NEW s, NEW al, NEW t, NEW a \in BOOLEAN, NEW pl, NEW co
  PROVE  /\ Settles(s, al, t, TRUE, pl, co) => Settles(s, al, t, a, pl, co)
         /\ ~s.moving[t] /\ Settles(s, al, t, a, pl, co) => Settles(s, al, t, TRUE, pl, co)
  BY DEF Settles, Going

-----------------------------------------------------------------------------
(* What alerts that come and go tell *)

LEMMA TakenTell ==
  ASSUME NEW al \in Seq(Alert), al # << >>, NEW r, r = Tail(al), NEW t, NEW pl, NEW co,
         AlertsTell(al, t, pl, co)
  PROVE  /\ AlertsTell(r, t, pl, co)
         /\ 1 \notin Told(al, t) => (Told(r, t) = {} <=> Told(al, t) = {})
  <1>1. /\ 1 \in DOMAIN al
        /\ \A i \in DOMAIN r : i + 1 \in DOMAIN al /\ i + 1 # 1 /\ r[i] = al[i + 1]
        /\ \A i \in DOMAIN al : i # 1 => i - 1 \in DOMAIN r /\ r[i - 1] = al[i]
        /\ \A i \in DOMAIN r : i \in Nat
        /\ \A i \in DOMAIN al : i \in Nat
    BY TakenIs
  <1>2. ASSUME NEW i \in Told(r, t) PROVE i + 1 \in Told(al, t) /\ i \in Nat /\ r[i] = al[i + 1]
    BY <1>1 DEF Told
  <1>3. ASSUME NEW i \in Told(al, t), i # 1 PROVE i - 1 \in Told(r, t)
    BY <1>1, <1>3 DEF Told
  <1>4. \A i \in Told(al, t) : i \in Nat
    BY <1>1 DEF Told
  <1>5. ASSUME NEW i \in Told(r, t), r[i].type = "finished", \A j \in Told(r, t) : j <= i
        PROVE  t \in co
    <2>1. ASSUME NEW j \in Told(al, t) PROVE j <= i + 1
      <3>1. CASE j = 1
        BY <1>2, <3>1
      <3>2. CASE j # 1
        <4>1. j - 1 <= i
          BY <1>3, <1>5, <3>2
        <4>2. QED BY <1>2, <1>4, <4>1
      <3>3. QED BY <3>1, <3>2
    <2>2. i + 1 \in Told(al, t) /\ al[i + 1].type = "finished"
      BY <1>2, <1>5
    <2>3. QED BY <2>1, <2>2 DEF AlertsTell
  <1>6. ASSUME NEW i \in DOMAIN r, r[i].type = "moved", r[i].job.torrent = t
        PROVE  pl[t] = r[i].job.path
    BY <1>1, <1>6 DEF AlertsTell
  <1>7. AlertsTell(r, t, pl, co)
    BY <1>5, <1>6 DEF AlertsTell
  <1>8. ASSUME 1 \notin Told(al, t) PROVE Told(r, t) = {} <=> Told(al, t) = {}
    BY <1>2, <1>3, <1>8
  <1>9. QED BY <1>7, <1>8

\* More alerts, of which none is for t
LEMMA LongerTell ==
  ASSUME NEW al, NEW r, Longer(al, r), NEW t, NEW pl, NEW co, NEW pl2, NEW co2,
         \A i \in DOMAIN r \ DOMAIN al : i \notin Told(r, t),
         AlertsTell(al, t, pl, co), pl2[t] = pl[t], t \in co2 <=> t \in co
  PROVE  AlertsTell(r, t, pl2, co2) /\ Told(r, t) = Told(al, t)
  <1>1. Told(r, t) = Told(al, t)
    BY DEF Longer, Told
  <1>2. \A i \in Told(r, t) : r[i] = al[i]
    BY <1>1 DEF Longer, Told
  <1>3. ASSUME NEW i \in DOMAIN r, r[i].type = "moved" PROVE i \in DOMAIN al /\ r[i] = al[i]
    BY <1>3 DEF Longer, IsAnswer
  <1>4. QED BY <1>1, <1>2, <1>3 DEF AlertsTell

-----------------------------------------------------------------------------
(* What the helpers do to the torrent that they are given, and to the others *)

LEMMA UpdatedIs ==
  ASSUME NEW s \in States, NEW u \in Torrent, NEW e, e = UpdateStatus(s, u)
  PROVE  /\ e.queue = s.queue /\ e.moving = s.moving /\ e.temp = s.temp
         /\ e.savePath = s.savePath /\ e.triggers = s.triggers /\ e.seedStatus = s.seedStatus
         /\ e.location[u] = place[u] /\ (e.seed[u] <=> u \in complete)
         /\ \A t \in Torrent \ {u} : e.location[t] = s.location[t] /\ e.seed[t] = s.seed[t]
  <1> DEFINE l == [s.location EXCEPT ![u] = place[u]]
             d == [s.seed EXCEPT ![u] = (u \in complete)]
  <1>1. e = [s EXCEPT !.location = l, !.seed = d]
    BY DEF UpdateStatus
  <1>2. /\ l[u] = place[u] /\ (d[u] <=> u \in complete)
        /\ \A t \in Torrent \ {u} : l[t] = s.location[t] /\ d[t] = s.seed[t]
    BY StateType
  <1> HIDE DEF l, d
  <1>3. /\ e.queue = s.queue /\ e.moving = s.moving /\ e.temp = s.temp
        /\ e.savePath = s.savePath /\ e.triggers = s.triggers /\ e.seedStatus = s.seedStatus
        /\ e.location = l /\ e.seed = d
    BY <1>1 DEF States
  <1>4. QED BY <1>2, <1>3

LEMMA UpdatedApart ==
  ASSUME NEW s \in States, NEW u \in Torrent, NEW e, e = UpdateStatus(s, u)
  PROVE  Apart(s, e, u)
  BY UpdatedIs DEF Apart, SameAt

\* The work that waits for u changes.
LEMMA TriggersIs ==
  ASSUME NEW s \in States, NEW u \in Torrent, NEW work, NEW e, e = [s EXCEPT !.triggers[u] = work]
  PROVE  /\ e.queue = s.queue /\ e.moving = s.moving /\ e.temp = s.temp /\ e.seed = s.seed
         /\ e.savePath = s.savePath /\ e.location = s.location /\ e.seedStatus = s.seedStatus
         /\ Apart(s, e, u)
  <1> DEFINE g == [s.triggers EXCEPT ![u] = work]
  <1>1. e = [s EXCEPT !.triggers = g]
    OBVIOUS
  <1>2. \A t \in Torrent \ {u} : g[t] = s.triggers[t]
    BY StateType
  <1> HIDE DEF g
  <1>3. /\ e.queue = s.queue /\ e.moving = s.moving /\ e.temp = s.temp /\ e.seed = s.seed
        /\ e.savePath = s.savePath /\ e.location = s.location /\ e.seedStatus = s.seedStatus
        /\ e.triggers = g
    BY <1>1 DEF States
  <1>4. Apart(s, e, u)
    BY <1>2, <1>3 DEF Apart, SameAt
  <1>5. QED BY <1>3, <1>4

LEMMA SavePathIs ==
  ASSUME NEW s \in States, NEW u \in Torrent, NEW p, NEW e, e = [s EXCEPT !.savePath[u] = p]
  PROVE  /\ e.queue = s.queue /\ e.moving = s.moving /\ e.temp = s.temp /\ e.seed = s.seed
         /\ e.triggers = s.triggers /\ e.location = s.location /\ e.seedStatus = s.seedStatus
         /\ e.savePath[u] = p
         /\ Apart(s, e, u)
  <1> DEFINE g == [s.savePath EXCEPT ![u] = p]
  <1>1. e = [s EXCEPT !.savePath = g]
    OBVIOUS
  <1>2. g[u] = p /\ \A t \in Torrent \ {u} : g[t] = s.savePath[t]
    BY StateType
  <1> HIDE DEF g
  <1>3. /\ e.queue = s.queue /\ e.moving = s.moving /\ e.temp = s.temp /\ e.seed = s.seed
        /\ e.triggers = s.triggers /\ e.location = s.location /\ e.seedStatus = s.seedStatus
        /\ e.savePath = g
    BY <1>1 DEF States
  <1>4. Apart(s, e, u)
    BY <1>2, <1>3 DEF Apart, SameAt
  <1>5. QED BY <1>2, <1>3, <1>4

\* Renames are no part of what is known of a torrent.
LEMMA RenamesSame ==
  ASSUME NEW s \in States, NEW u \in Torrent, NEW n, NEW e, e = [s EXCEPT !.renames[u] = n], NEW t
  PROVE  SameAt(s, e, t) /\ e.seedStatus = s.seedStatus /\ e.moving = s.moving /\ e.triggers = s.triggers
  <1> DEFINE g == [s.renames EXCEPT ![u] = n]
  <1>1. e = [s EXCEPT !.renames = g]
    OBVIOUS
  <1> HIDE DEF g
  <1>2. /\ e.queue = s.queue /\ e.moving = s.moving /\ e.temp = s.temp /\ e.seed = s.seed
        /\ e.savePath = s.savePath /\ e.location = s.location /\ e.seedStatus = s.seedStatus
        /\ e.triggers = s.triggers
    BY <1>1 DEF States
  <1>3. QED BY <1>2 DEF SameAt

\* The jobs of a torrent that has entered libtorrent once are all of its native torrent.
LEMMA OnlyJobs ==
  ASSUME NEW s, NEW al, NEW st, Good(s, al, st), NEW t \in alive, handle[t] = 1, NEW i \in DOMAIN s.queue
  PROVE  /\ s.queue[i] \in Job /\ i \in Nat /\ 1 \in DOMAIN s.queue
         /\ s.queue[i].torrent = t <=> IsJobOf(s.queue[i], t)
         /\ s.queue[i].torrent = t => s.moving[t]
  <1>1. s.queue \in Seq(Job) /\ JobsPart(s.queue, s.moving, handle, inSession, alive, removing)
    BY StateType DEF Good
  <1>2. /\ s.queue[i] \in Job /\ DOMAIN s.queue = 1 .. Len(s.queue) /\ Len(s.queue) \in Nat
    BY <1>1, ElementOfSeq, LenProperties
  <1>3. s.queue[i].torrent = t => s.queue[i].handle \in Nat /\ s.queue[i].handle >= 1 /\ s.queue[i].handle <= 1
    BY <1>1, <1>2 DEF JobsPart, JobFine, Job
  <1>4. s.queue[i].torrent = t => s.moving[t]
    BY <1>1 DEF JobsPart, JobFine
  <1>5. QED BY <1>2, <1>3, <1>4 DEF IsJobOf

\* The last move of another torrent stays the last when one of u is cancelled,
LEMMA CancelledLast ==
  ASSUME NEW q, NEW u, NEW r, Cancels(q, u, r), NEW t, t # u, NEW p, LastIs(q, t, p)
  PROVE  LastIs(r, t, p)
  <1>1. /\ \A j \in DOMAIN r : \E k \in DOMAIN q : r[j] = q[k] /\ (j # 1 => k # 1)
        /\ \A k \in DOMAIN q : ~IsJobOf(q[k], u) => \E j \in DOMAIN r : r[j] = q[k] /\ (k # 1 => j # 1)
    BY DEF Cancels
  <1>2. ASSUME NEW j \in DOMAIN r, j # 1, r[j].torrent = t PROVE r[j].path = p
    BY <1>1, <1>2 DEF LastIs
  <1>3. ASSUME \A j \in DOMAIN r : j # 1 => r[j].torrent # t, NEW j \in DOMAIN r, r[j].torrent = t
        PROVE  r[j].path = p
    <2>1. ASSUME NEW k \in DOMAIN q, k # 1, q[k].torrent = t PROVE FALSE
      <3>1. ~IsJobOf(q[k], u)
        BY <2>1 DEF IsJobOf
      <3>2. QED BY <1>1, <1>3, <2>1, <3>1
    <2>2. \A k \in DOMAIN q : q[k].torrent = t => q[k].path = p
      BY <2>1 DEF LastIs
    <2>3. QED BY <1>1, <1>3, <2>2
  <1>4. QED BY <1>2, <1>3 DEF LastIs

\* and when one of u is appended. What is appended for t becomes the last of t.
LEMMA AppendedLast ==
  ASSUME NEW q \in Seq(Job), NEW job \in Job, NEW r, r = Append(q, job), NEW t, NEW p
  PROVE  /\ job.torrent # t /\ LastIs(q, t, p) => LastIs(r, t, p)
         /\ /\ \A i \in DOMAIN q : i # 1 => q[i].torrent # t
            /\ job.torrent = t /\ job.path = p
            => LastIs(r, t, p)
  <1>1. /\ DOMAIN q = 1 .. Len(q) /\ Len(q) \in Nat /\ DOMAIN r = 1 .. Len(q) + 1
        /\ \A i \in 1 .. Len(q) : r[i] = q[i]
        /\ r[Len(q) + 1] = job
    BY AppendIn
  <1>2. \A i \in DOMAIN r : (i \in DOMAIN q /\ r[i] = q[i]) \/ (i = Len(q) + 1 /\ r[i] = job)
    BY <1>1
  <1>3. \A i \in DOMAIN q : i \in DOMAIN r /\ r[i] = q[i]
    BY <1>1
  <1>4. ASSUME job.torrent # t, LastIs(q, t, p) PROVE LastIs(r, t, p)
    BY <1>2, <1>3, <1>4 DEF LastIs
  <1>5. ASSUME \A i \in DOMAIN q : i # 1 => q[i].torrent # t, job.torrent = t, job.path = p
        PROVE  LastIs(r, t, p)
    <2>1. \A i \in DOMAIN r : i # 1 /\ r[i].torrent = t => r[i].path = p
      BY <1>2, <1>5
    <2>2. ASSUME \A i \in DOMAIN r : i # 1 => r[i].torrent # t, NEW i \in DOMAIN r, r[i].torrent = t
          PROVE  r[i].path = p
      <3>1. Len(q) + 1 \in DOMAIN r
        BY <1>1
      <3>2. Len(q) + 1 = 1
        BY <1>1, <1>5, <2>2, <3>1
      <3>3. i = Len(q) + 1
        BY <1>1, <3>2
      <3>4. QED BY <1>1, <1>5, <3>3
    <2>3. QED BY <2>1, <2>2 DEF LastIs
  <1>6. QED BY <1>4, <1>5

\* It stays the last when the head of the queue leaves.
LEMMA RestLast ==
  ASSUME NEW q \in Seq(Job), q # << >>, NEW r, r = Tail(q), NEW t, NEW p, LastIs(q, t, p)
  PROVE  LastIs(r, t, p)
  <1>1. /\ Len(q) \in Nat \ {0} /\ DOMAIN q = 1 .. Len(q) /\ DOMAIN r = 1 .. Len(q) - 1
        /\ \A i \in DOMAIN r : r[i] = q[i + 1]
    BY TailIn
  <1>2. ASSUME NEW i \in DOMAIN r, r[i].torrent = t PROVE r[i].path = p
    <2>1. i + 1 \in DOMAIN q /\ i + 1 # 1 /\ r[i] = q[i + 1]
      BY <1>1
    <2>2. QED BY <1>2, <2>1 DEF LastIs
  <1>3. QED BY <1>2 DEF LastIs

\* moveStorage, which refuses the move or queues it
LEMMA MoveStorageIs ==
  ASSUME NEW s \in States, NEW u \in alive, RestPart, NEW p \in Path, NEW e, e = MoveStorage(s, u, p)
  PROVE  /\ e.temp = s.temp /\ e.seedStatus = s.seedStatus /\ e.savePath = s.savePath
         /\ e.triggers = s.triggers
         /\ \A t \in Torrent \ {u} :
               e.moving[t] = s.moving[t] /\ e.location[t] = s.location[t] /\ e.seed[t] = s.seed[t]
         /\ \E q \in Seq(Job) :
               /\ Cancels(s.queue, u, q)
               /\ \/ /\ Meaningless(s, q, u, p) /\ e.queue = q
                     /\ e.moving[u] = s.moving[u] /\ e.location[u] = s.location[u] /\ e.seed[u] = s.seed[u]
                  \/ /\ \E job \in Job : /\ job.torrent = u /\ job.path = p
                                         /\ e.queue = Append(q, job)
                     /\ e.moving[u] /\ e.location[u] = place[u] /\ (e.seed[u] <=> u \in complete)
  <1>1. PICK q : q = Cancelled(s.queue, u)
    OBVIOUS
  <1>2. q \in Seq(Job) /\ Cancels(s.queue, u, q)
    BY <1>1, StateType, CancelledIs
  <1>3. PICK job : job = [torrent |-> u, handle |-> handle[u], path |-> p]
    OBVIOUS
  <1>4. job \in Job /\ job.torrent = u /\ job.path = p /\ u \in Torrent
    BY <1>3, Alive DEF Job
  <1>5. CASE Meaningless(s, q, u, p)
    <2>1. e = [s EXCEPT !.queue = q]
      BY <1>1, <1>5 DEF MoveStorage
    <2>2. /\ e.temp = s.temp /\ e.seedStatus = s.seedStatus /\ e.savePath = s.savePath
          /\ e.triggers = s.triggers /\ e.queue = q /\ e.moving = s.moving
          /\ e.location = s.location /\ e.seed = s.seed
      BY <2>1 DEF States
    <2>3. QED BY <1>2, <1>5, <2>2
  <1>6. CASE ~Meaningless(s, q, u, p)
    <2>1. PICK r : r = Append(q, job)
      OBVIOUS
    <2>2. PICK mv : mv = StartedIfAlone(s, q, job)
      OBVIOUS
    <2>3. PICK mo : mo = [s.moving EXCEPT ![u] = TRUE]
      OBVIOUS
    <2>4. PICK s1 : s1 = [s EXCEPT !.queue = r, !.moves = mv, !.moving = mo]
      OBVIOUS
    <2>5. e = UpdateStatus(s1, u)
      BY <1>1, <1>3, <1>6, <2>1, <2>2, <2>3, <2>4 DEF MoveStorage
    <2>6. /\ r \in Seq(Job) /\ mv \subseteq Job /\ mo \in [Torrent -> BOOLEAN]
          /\ mo[u] /\ \A t \in Torrent \ {u} : mo[t] = s.moving[t]
      <3>1. r \in Seq(Job)
        BY <1>2, <1>4, <2>1, AppendIn
      <3>2. mv \subseteq Job
        BY <1>4, <2>2, StateType DEF StartedIfAlone
      <3>3. s.moving \in [Torrent -> BOOLEAN]
        BY StateType
      <3>4. QED BY <1>4, <2>3, <3>1, <3>2, <3>3
    <2>7. s1 \in States
      BY <2>4, <2>6 DEF States
    <2>8. /\ s1.temp = s.temp /\ s1.seedStatus = s.seedStatus /\ s1.savePath = s.savePath
          /\ s1.triggers = s.triggers /\ s1.queue = r /\ s1.moving = mo
          /\ s1.location = s.location /\ s1.seed = s.seed
      BY <2>4 DEF States
    <2>9. /\ e.queue = r /\ e.moving = mo /\ e.temp = s.temp
          /\ e.savePath = s.savePath /\ e.triggers = s.triggers /\ e.seedStatus = s.seedStatus
          /\ e.location[u] = place[u] /\ (e.seed[u] <=> u \in complete)
          /\ \A t \in Torrent \ {u} : e.location[t] = s.location[t] /\ e.seed[t] = s.seed[t]
      <3>1. /\ e.queue = s1.queue /\ e.moving = s1.moving /\ e.temp = s1.temp
            /\ e.savePath = s1.savePath /\ e.triggers = s1.triggers /\ e.seedStatus = s1.seedStatus
            /\ e.location[u] = place[u] /\ (e.seed[u] <=> u \in complete)
            /\ \A t \in Torrent \ {u} : e.location[t] = s1.location[t] /\ e.seed[t] = s1.seed[t]
        <4>1. u \in Torrent
          BY <1>4
        <4>2. QED BY <4>1, <2>5, <2>7, UpdatedIs
      <3>2. QED BY <2>8, <3>1
    <2>10. /\ e.temp = s.temp /\ e.seedStatus = s.seedStatus /\ e.savePath = s.savePath
           /\ e.triggers = s.triggers
           /\ \A t \in Torrent \ {u} :
                 e.moving[t] = s.moving[t] /\ e.location[t] = s.location[t] /\ e.seed[t] = s.seed[t]
      BY <2>6, <2>9
    <2>11. e.queue = Append(q, job) /\ e.moving[u] /\ e.location[u] = place[u] /\ (e.seed[u] <=> u \in complete)
      BY <2>1, <2>6, <2>9
    <2>12. QED BY <1>2, <1>4, <2>10, <2>11
  <1>7. QED BY <1>5, <1>6

LEMMA MoveStorageApart ==
  ASSUME NEW s \in States, NEW u \in alive, RestPart, NEW p \in Path, NEW e, e = MoveStorage(s, u, p)
  PROVE  Apart(s, e, u)
  <1>1. /\ e.temp = s.temp /\ e.seedStatus = s.seedStatus /\ e.savePath = s.savePath
        /\ e.triggers = s.triggers
        /\ \A t \in Torrent \ {u} :
              e.moving[t] = s.moving[t] /\ e.location[t] = s.location[t] /\ e.seed[t] = s.seed[t]
    BY MoveStorageIs
  <1>2. PICK q \in Seq(Job) :
           /\ Cancels(s.queue, u, q)
           /\ e.queue = q \/ \E job \in Job : job.torrent = u /\ e.queue = Append(q, job)
    BY MoveStorageIs
  <1>3. ASSUME NEW t \in Torrent \ {u}, LastIs(s.queue, t, Temp) PROVE LastIs(e.queue, t, Temp)
    <2>1. LastIs(q, t, Temp)
      BY <1>2, <1>3, CancelledLast
    <2>2. QED BY <1>2, <2>1, AppendedLast
  <1>4. QED BY <1>1, <1>3 DEF Apart, SameAt

\* adjustActualSavePath_impl and its callers leave the other torrents alone.
LEMMA AdjustNowApart ==
  ASSUME RestPart, NEW s, NEW al, NEW st, Good(s, al, st), NEW u \in alive, NEW e, e = AdjustNow(s, u)
  PROVE  Apart(s, e, u)
  <1>1. s \in States /\ u \in Torrent /\ s.triggers[u] \in Seq(Trigger)
    BY StateType, Alive DEF Good
  <1>2. PICK p : p = IF UseTempPath(s, u) THEN Temp ELSE s.savePath[u]
    OBVIOUS
  <1>3. p \in Path
    BY <1>2 DEF Good, PathsPart, Path
  <1>4. PICK work : work = Append(s.triggers[u], "removeTempFolder")
    OBVIOUS
  <1>5. work \in Seq(Trigger)
    BY <1>1, <1>4, AppendIn DEF Trigger
  <1>6. PICK s1 : s1 = [s EXCEPT !.triggers[u] = work]
    OBVIOUS
  <1>7. Apart(s, s1, u) /\ s1 \in States
    BY <1>1, <1>5, <1>6, TriggersIs, TriggersGood DEF Good
  <1>8. e = s \/ e = MoveStorage(s, u, p) \/ e = MoveStorage(s1, u, p)
    BY <1>2, <1>4, <1>6 DEF AdjustNow
  <1>9. QED BY <1>1, <1>3, <1>7, <1>8, MoveStorageApart, ApartSelf, ApartTransitive

LEMMA AdjustApart ==
  ASSUME RestPart, NEW s, NEW al, NEW st, Good(s, al, st), NEW u \in alive, NEW e, e = Adjust(s, u)
  PROVE  Apart(s, e, u)
  <1>1. s \in States /\ u \in Torrent
    BY Alive DEF Good
  <1>2. CASE s.moving[u]
    <2>1. PICK work : work = Append(s.triggers[u], "adjust")
      OBVIOUS
    <2>2. e = [s EXCEPT !.triggers[u] = work]
      BY <1>2, <2>1 DEF Adjust
    <2>3. QED BY <1>1, <2>2, TriggersIs
  <1>3. CASE ~s.moving[u]
    <2>1. e = AdjustNow(s, u)
      BY <1>3 DEF Adjust
    <2>2. QED BY <2>1, AdjustNowApart
  <1>4. QED BY <1>2, <1>3

LEMMA MoveApart ==
  ASSUME RestPart, NEW s, NEW al, NEW st, Good(s, al, st), NEW u \in alive, NEW p \in Path,
         NEW e, e = Move(s, u, p)
  PROVE  Apart(s, e, u)
  <1>1. s \in States /\ u \in Torrent
    BY Alive DEF Good
  <1>2. e = s \/ e = [s EXCEPT !.savePath[u] = p] \/ e = MoveStorage(s, u, p)
    BY DEF Move
  <1>3. QED BY <1>1, <1>2, ApartSelf, SavePathIs, MoveStorageApart

LEMMA TurnApart ==
  ASSUME RestPart, NEW s, NEW al, NEW st, Good(s, al, st), NEW u \in alive, NEW b, NEW e, e = Turn(s, u, b)
  PROVE  Apart(s, e, u)
  <1>1. CASE s.triggers[u] = << >>
    BY <1>1, ApartSelf DEF Turn
  <1>2. CASE s.triggers[u] # << >>
    <2>1. PICK work : work = Tail(s.triggers[u])
      OBVIOUS
    <2>2. s \in States /\ u \in Torrent /\ work \in Seq(Trigger)
      <3>1. s \in States /\ u \in Torrent /\ s.triggers[u] \in Seq(Trigger)
        BY StateType, Alive DEF Good
      <3>2. QED BY <1>2, <2>1, <3>1, TailIn
    <2>3. PICK s1 : s1 = [s EXCEPT !.triggers[u] = work]
      OBVIOUS
    <2>4. Good(s1, al, st) /\ Apart(s, s1, u)
      BY <2>2, <2>3, TriggersGood, TriggersIs
    <2>5. e = s \/ e = s1 \/ e = AdjustNow(s1, u)
      BY <2>1, <2>3 DEF Turn, Run
    <2>6. QED BY <2>4, <2>5, AdjustNowApart, ApartSelf, ApartTransitive
  <1>3. QED BY <1>1, <1>2

LEMMA RunAllApart ==
  ASSUME RestPart, NEW s, NEW al, NEW st, Good(s, al, st), NEW u \in alive, NEW b, NEW e, e = RunAll(s, u, b)
  PROVE  Apart(s, e, u)
  <1>1. PICK S : S = {x \in States : Good(x, al, st) /\ Apart(s, x, u)}
    OBVIOUS
  <1>2. s \in S /\ s.triggers[u] \in Seq(Trigger)
    BY <1>1, StateType, Alive, ApartSelf DEF Good
  <1>3. ASSUME NEW x \in S PROVE Turn(x, u, b) \in S
    <2>1. PICK y : y = Turn(x, u, b)
      OBVIOUS
    <2>2. Good(x, al, st) /\ Apart(s, x, u)
      BY <1>1
    <2>3. Good(y, al, st) /\ Apart(x, y, u)
      BY <2>1, <2>2, TurnGood, TurnApart
    <2>4. Apart(s, y, u) /\ y \in States
      BY <2>2, <2>3, ApartTransitive DEF Good
    <2>5. QED BY <1>1, <2>1, <2>3, <2>4
  <1>4. e \in S
    BY <1>2, <1>3, RunAllIn
  <1>5. QED BY <1>1, <1>4

\* A torrent that knows as much as libtorrent uses the temporary path when it belongs there.
LEMMA UsesTemp ==
  ASSUME NEW s, NEW al, NEW t, Known(s, al, t), Shown(s, al, t, place, complete)
  PROVE  UseTempPath(s, t) <=> ToTemp(s, t)
  BY DEF Known, Shown, UseTempPath, ToTemp

\* moveStorage for t itself: it is refused only where t is, or goes, already.
LEMMA MoveStorageOwn ==
  ASSUME RestPart, NEW s, NEW al, NEW st, Good(s, al, st), NEW t \in alive, handle[t] = 1,
         NEW p \in Path, NEW e, e = MoveStorage(s, t, p)
  PROVE  /\ e.temp = s.temp /\ e.seedStatus = s.seedStatus /\ e.savePath = s.savePath
         /\ e.triggers = s.triggers
         /\ \/ /\ e.moving[t] = s.moving[t] /\ e.location[t] = s.location[t] /\ e.seed[t] = s.seed[t]
               /\ (s.moving[t] /\ LastIs(e.queue, t, p)) \/ s.location[t] = p
            \/ /\ e.moving[t] /\ e.location[t] = place[t] /\ (e.seed[t] <=> t \in complete)
               /\ LastIs(e.queue, t, p)
  <1>1. s \in States /\ OnePart(s.queue)
    BY DEF Good
  <1>2. PICK q \in Seq(Job) :
           /\ Cancels(s.queue, t, q)
           /\ \/ /\ Meaningless(s, q, t, p) /\ e.queue = q
                 /\ e.moving[t] = s.moving[t] /\ e.location[t] = s.location[t] /\ e.seed[t] = s.seed[t]
              \/ /\ \E job \in Job : /\ job.torrent = t /\ job.path = p
                                     /\ e.queue = Append(q, job)
                 /\ e.moving[t] /\ e.location[t] = place[t] /\ (e.seed[t] <=> t \in complete)
    BY <1>1, MoveStorageIs
  <1>3. e.temp = s.temp /\ e.seedStatus = s.seedStatus /\ e.savePath = s.savePath /\ e.triggers = s.triggers
    BY <1>1, MoveStorageIs
  <1>4. ASSUME NEW j \in DOMAIN q, q[j].torrent = t
        PROVE  IsJobOf(q[j], t) /\ j = 1 /\ s.moving[t]
    <2>1. PICK k \in DOMAIN s.queue : q[j] = s.queue[k]
      BY <1>2 DEF Cancels
    <2>2. IsJobOf(q[j], t) /\ s.moving[t]
      BY <1>4, <2>1, OnlyJobs
    <2>3. j = 1
      BY <1>1, <1>2, <2>2 DEF Cancels
    <2>4. QED BY <2>2, <2>3
  <1>5. \A j \in DOMAIN q : j # 1 => q[j].torrent # t
    BY <1>4
  <1>6. CASE /\ \E job \in Job : /\ job.torrent = t /\ job.path = p
                                 /\ e.queue = Append(q, job)
             /\ e.moving[t] /\ e.location[t] = place[t] /\ (e.seed[t] <=> t \in complete)
    <2>1. PICK job \in Job : job.torrent = t /\ job.path = p /\ e.queue = Append(q, job)
      BY <1>6
    <2>2. PICK r : r = Append(q, job)
      OBVIOUS
    <2>3. LastIs(r, t, p)
      BY <1>5, <2>1, <2>2, AppendedLast
    <2>4. LastIs(e.queue, t, p)
      BY <2>1, <2>2, <2>3
    <2>5. QED BY <1>3, <1>6, <2>4
  <1>7. CASE /\ Meaningless(s, q, t, p) /\ e.queue = q
             /\ e.moving[t] = s.moving[t] /\ e.location[t] = s.location[t] /\ e.seed[t] = s.seed[t]
    <2>1. CASE q # << >> /\ IsJobOf(Head(q), t)
      <3>1. 1 \in DOMAIN q /\ Head(q) = q[1]
        BY <2>1, TailIn
      <3>2. q[1].path = p /\ q[1].torrent = t
        BY <1>7, <2>1, <3>1 DEF Meaningless, IsJobOf
      <3>3. LastIs(q, t, p)
        BY <1>4, <3>2 DEF LastIs
      <3>4. QED BY <1>3, <1>4, <1>7, <3>1, <3>2, <3>3
    <2>2. CASE ~(q # << >> /\ IsJobOf(Head(q), t))
      <3>1. s.location[t] = p
        BY <1>7, <2>2 DEF Meaningless
      <3>2. QED BY <1>3, <1>7, <3>1
    <2>3. QED BY <2>1, <2>2
  <1>8. QED BY <1>2, <1>6, <1>7

\* The torrent is adjusted now: from then on it is where it belongs, or goes there.
LEMMA AdjustNowOwn ==
  ASSUME RestPart, NEW s, NEW al, NEW st, Good(s, al, st), NEW t \in alive, handle[t] = 1,
         Shown(s, al, t, place, complete), Going(s, al, t, TRUE), NEW e, e = AdjustNow(s, t)
  PROVE  Settles(e, al, t, TRUE, place, complete)
  <1>1. s \in States /\ t \in Torrent /\ s.triggers[t] \in Seq(Trigger)
    BY StateType, Alive DEF Good
  <1>2. PICK p : p = IF UseTempPath(s, t) THEN Temp ELSE s.savePath[t]
    OBVIOUS
  <1>3. p \in Path
    BY <1>2 DEF Good, PathsPart, Path
  <1>4. CASE p = s.location[t]
    <2>1. e = s
      BY <1>2, <1>4 DEF AdjustNow
    <2>2. Placed(s, al, t)
      <3>1. ASSUME Known(s, al, t) PROVE s.location[t] = IF ToTemp(s, t) THEN Temp ELSE s.savePath[t]
        BY <1>2, <1>4, <3>1, UsesTemp
      <3>2. QED BY <3>1 DEF Placed
    <2>3. QED BY <2>1, <2>2 DEF Settles
  <1>5. CASE p # s.location[t]
    <2>1. PICK work : work = Append(s.triggers[t], "removeTempFolder")
      OBVIOUS
    <2>2. work \in Seq(Trigger)
      BY <1>1, <2>1, AppendIn DEF Trigger
    <2>3. PICK s1 : s1 = [s EXCEPT !.triggers[t] = work]
      OBVIOUS
    <2>4. /\ Good(s1, al, st) /\ s1.temp = s.temp /\ s1.moving = s.moving /\ s1.seedStatus = s.seedStatus
          /\ s1.location = s.location /\ s1.seed = s.seed
      <3>1. Good(s1, al, st)
        BY <1>1, <2>2, <2>3, TriggersGood
      <3>2. /\ s1.queue = s.queue /\ s1.moving = s.moving /\ s1.temp = s.temp /\ s1.seed = s.seed
            /\ s1.savePath = s.savePath /\ s1.location = s.location /\ s1.seedStatus = s.seedStatus
        BY <1>1, <2>3, TriggersIs
      <3>3. QED BY <3>1, <3>2
    <2>5. PICK x : (x = s \/ x = s1) /\ e = MoveStorage(x, t, p)
      <3>1. e = MoveStorage(s, t, p) \/ e = MoveStorage(s1, t, p)
        BY <1>2, <1>5, <2>1, <2>3 DEF AdjustNow
      <3>2. QED BY <3>1
    <2>6. /\ Good(x, al, st) /\ x.temp = s.temp /\ x.moving = s.moving /\ x.seedStatus = s.seedStatus
          /\ x.location = s.location /\ x.seed = s.seed
      BY <2>4, <2>5
    <2>7. /\ e.temp = s.temp /\ e.seedStatus = s.seedStatus
          /\ e.moving[t] /\ (e.seed[t] = s.seed[t] \/ (e.seed[t] <=> t \in complete))
          /\ LastIs(e.queue, t, p)
      <3>1. /\ e.temp = x.temp /\ e.seedStatus = x.seedStatus
            /\ \/ /\ e.moving[t] = x.moving[t] /\ e.location[t] = x.location[t] /\ e.seed[t] = x.seed[t]
                  /\ (x.moving[t] /\ LastIs(e.queue, t, p)) \/ x.location[t] = p
               \/ /\ e.moving[t] /\ e.location[t] = place[t] /\ (e.seed[t] <=> t \in complete)
                  /\ LastIs(e.queue, t, p)
        BY <1>3, <2>5, <2>6, MoveStorageOwn
      <3>2. QED BY <1>5, <2>6, <3>1
    <2>8. Shown(e, al, t, place, complete)
      BY <2>7 DEF Shown
    <2>9. Placed(e, al, t)
      BY <2>7 DEF Placed
    <2>10. Going(e, al, t, TRUE)
      <3>1. ASSUME Known(e, al, t), ToTemp(e, t) PROVE LastIs(e.queue, t, Temp)
        <4>1. Known(s, al, t) /\ ToTemp(s, t)
          BY <2>7, <3>1 DEF Known, ToTemp
        <4>2. p = Temp
          BY <1>2, <4>1, UsesTemp
        <4>3. QED BY <2>7, <4>2
      <3>2. QED BY <3>1 DEF Going
    <2>11. QED BY <2>8, <2>9, <2>10 DEF Settles
  <1>6. QED BY <1>4, <1>5

LEMMA AdjustOwn ==
  ASSUME RestPart, NEW s, NEW al, NEW st, Good(s, al, st), NEW t \in alive, handle[t] = 1,
         Shown(s, al, t, place, complete), NEW e, e = Adjust(s, t)
  PROVE  Settles(e, al, t, FALSE, place, complete)
  <1>1. CASE s.moving[t]
    <2>1. PICK work : work = Append(s.triggers[t], "adjust")
      OBVIOUS
    <2>2. e = [s EXCEPT !.triggers[t] = work]
      BY <1>1, <2>1 DEF Adjust
    <2>3. s \in States /\ t \in Torrent /\ s.triggers[t] \in Seq(Trigger)
      BY StateType, Alive DEF Good
    <2>4. /\ e.triggers[t] = work /\ e.moving = s.moving /\ e.seedStatus = s.seedStatus
          /\ e.location = s.location /\ e.seed = s.seed
      <3>1. /\ e.queue = s.queue /\ e.moving = s.moving /\ e.temp = s.temp /\ e.seed = s.seed
            /\ e.savePath = s.savePath /\ e.location = s.location /\ e.seedStatus = s.seedStatus
        BY <2>2, <2>3, TriggersIs
      <3>2. PICK g : g = [s.triggers EXCEPT ![t] = work]
        OBVIOUS
      <3>3. g[t] = work
        BY <2>3, <3>2, StateType
      <3>4. e = [s EXCEPT !.triggers = g]
        BY <2>2, <3>2
      <3>5. e.triggers = g
        BY <2>3, <3>4 DEF States
      <3>6. QED BY <3>1, <3>3, <3>5
    <2>5. Adjusts(e, t)
      <3>1. /\ DOMAIN work = 1 .. Len(s.triggers[t]) + 1 /\ Len(s.triggers[t]) \in Nat
            /\ work[Len(s.triggers[t]) + 1] = "adjust"
        BY <2>1, <2>3, AppendIn DEF Trigger
      <3>2. Len(s.triggers[t]) + 1 \in DOMAIN work
        BY <3>1
      <3>3. QED BY <2>4, <3>1, <3>2 DEF Adjusts
    <2>6. Shown(e, al, t, place, complete)
      BY <2>4 DEF Shown
    <2>7. QED BY <2>5, <2>6 DEF Settles, Placed, Going
  <1>2. CASE ~s.moving[t]
    <2>1. e = AdjustNow(s, t)
      BY <1>2 DEF Adjust
    <2>2. Going(s, al, t, TRUE)
      BY <1>2 DEF Going
    <2>3. QED BY <2>1, <2>2, AdjustNowOwn, Weaken
  <1>3. QED BY <1>1, <1>2

\* One round of the loop over the triggers
LEMMA TurnOwn ==
  ASSUME RestPart, NEW s, NEW al, NEW st, Good(s, al, st), NEW t \in alive, handle[t] = 1,
         NEW b \in BOOLEAN, Settles(s, al, t, ~b, place, complete), NEW e, e = Turn(s, t, b)
  PROVE  Settles(e, al, t, ~b, place, complete)
  <1>1. CASE s.triggers[t] = << >> \/ (b /\ s.moving[t])
    <2>1. e = s
      BY <1>1 DEF Turn
    <2>2. QED BY <2>1
  <1>2. CASE s.triggers[t] # << >> /\ ~(b /\ s.moving[t])
    <2>1. s \in States /\ t \in Torrent /\ s.triggers[t] \in Seq(Trigger)
      BY StateType, Alive DEF Good
    <2>2. PICK work : work = Tail(s.triggers[t])
      OBVIOUS
    <2>3. /\ work \in Seq(Trigger) /\ Head(s.triggers[t]) = s.triggers[t][1]
          /\ Len(s.triggers[t]) \in Nat \ {0} /\ DOMAIN s.triggers[t] = 1 .. Len(s.triggers[t])
          /\ DOMAIN work = 1 .. Len(s.triggers[t]) - 1
          /\ \A i \in DOMAIN work : work[i] = s.triggers[t][i + 1]
      BY <1>2, <2>1, <2>2, TailIn
    <2>4. PICK g : g = [s.triggers EXCEPT ![t] = work]
      OBVIOUS
    <2>5. g[t] = work
      BY <2>1, <2>4, StateType
    <2>6. PICK s1 : s1 = [s EXCEPT !.triggers = g]
      OBVIOUS
    <2>7. /\ s1.queue = s.queue /\ s1.moving = s.moving /\ s1.temp = s.temp /\ s1.seed = s.seed
          /\ s1.savePath = s.savePath /\ s1.location = s.location /\ s1.seedStatus = s.seedStatus
          /\ s1.triggers = g
      BY <2>1, <2>6 DEF States
    <2>8. s1 = [s EXCEPT !.triggers[t] = work]
      BY <2>4, <2>6
    <2>9. Good(s1, al, st)
      BY <2>1, <2>3, <2>8, TriggersGood
    <2>10. Settles(s, al, t, TRUE, place, complete)
      BY <1>2, Weaken
    <2>11. Shown(s1, al, t, place, complete) /\ Going(s1, al, t, TRUE)
      BY <2>7, <2>10 DEF Settles, Shown, Going, Known, ToTemp
    <2>12. e = s \/ e = IF Head(s.triggers[t]) = "adjust" THEN AdjustNow(s1, t) ELSE s1
      BY <2>2, <2>8 DEF Turn, Run
    <2>13. CASE e = s
      BY <2>13
    <2>14. CASE Head(s.triggers[t]) = "adjust" /\ e = AdjustNow(s1, t)
      <3>1. Settles(e, al, t, TRUE, place, complete)
        BY <2>9, <2>11, <2>14, AdjustNowOwn
      <3>2. (~b) \in BOOLEAN
        OBVIOUS
      <3>3. QED BY <3>1, <3>2, Weaken
    <2>15. CASE Head(s.triggers[t]) # "adjust" /\ e = s1
      <3>1. ASSUME Adjusts(s, t) PROVE Adjusts(s1, t)
        <4>1. PICK i \in DOMAIN s.triggers[t] : s.triggers[t][i] = "adjust"
          BY <3>1 DEF Adjusts
        <4>2. i # 1 /\ i \in 1 .. Len(s.triggers[t])
          BY <2>3, <2>15, <4>1
        <4>3. i - 1 \in DOMAIN work /\ i - 1 + 1 = i
          BY <2>3, <4>2
        <4>4. work[i - 1] = "adjust"
          BY <2>3, <4>1, <4>3
        <4>5. QED BY <2>5, <2>7, <4>3, <4>4 DEF Adjusts
      <3>2. Placed(s1, al, t)
        BY <2>7, <2>10, <3>1 DEF Settles, Placed, Known, ToTemp
      <3>3. Settles(s1, al, t, TRUE, place, complete)
        BY <2>11, <3>2 DEF Settles
      <3>4. (~b) \in BOOLEAN
        OBVIOUS
      <3>5. QED BY <2>15, <3>3, <3>4, Weaken
    <2>16. QED BY <2>12, <2>13, <2>14, <2>15
  <1>3. QED BY <1>1, <1>2

LEMMA RunAllOwn ==
  ASSUME RestPart, NEW s, NEW al, NEW st, Good(s, al, st), NEW t \in alive, handle[t] = 1,
         NEW b \in BOOLEAN, Settles(s, al, t, ~b, place, complete), NEW e, e = RunAll(s, t, b)
  PROVE  Settles(e, al, t, ~b, place, complete)
  <1>1. PICK S : S = {x \in States : Good(x, al, st) /\ Settles(x, al, t, ~b, place, complete)}
    OBVIOUS
  <1>2. s \in S /\ s.triggers[t] \in Seq(Trigger)
    BY <1>1, StateType, Alive DEF Good
  <1>3. ASSUME NEW x \in S PROVE Turn(x, t, b) \in S
    <2>1. PICK y : y = Turn(x, t, b)
      OBVIOUS
    <2>2. Good(x, al, st) /\ Settles(x, al, t, ~b, place, complete)
      BY <1>1
    <2>3. Good(y, al, st)
      BY <2>1, <2>2, TurnGood
    <2>4. Settles(y, al, t, ~b, place, complete)
      BY <2>1, <2>2, TurnOwn
    <2>5. y \in States
      BY <2>3 DEF Good
    <2>6. QED BY <1>1, <2>1, <2>3, <2>4, <2>5
  <1>4. e \in S
    BY <1>2, <1>3, RunAllIn
  <1>5. QED BY <1>1, <1>4

\* move_impl: outside of the temporary folder the move is started, inside it waits for the
\* end of the download.
LEMMA MoveOwn ==
  ASSUME RestPart, NEW s, NEW al, NEW st, Good(s, al, st), NEW t \in alive, handle[t] = 1,
         Settles(s, al, t, FALSE, place, complete), NEW p \in Path, NEW e, e = Move(s, t, p)
  PROVE  Settles(e, al, t, FALSE, place, complete)
  <1>1. s \in States /\ t \in Torrent
    BY Alive DEF Good
  <1>2. CASE p = s.savePath[t]
    <2>1. e = s
      BY <1>2 DEF Move
    <2>2. QED BY <2>1
  <1>3. CASE p # s.savePath[t] /\ UseTempPath(s, t)
    <2>1. e = [s EXCEPT !.savePath[t] = p]
      BY <1>3 DEF Move
    <2>2. /\ e.queue = s.queue /\ e.moving = s.moving /\ e.temp = s.temp /\ e.seed = s.seed
          /\ e.triggers = s.triggers /\ e.location = s.location /\ e.seedStatus = s.seedStatus
      BY <1>1, <2>1, SavePathIs
    <2>3. ToTemp(s, t)
      BY <1>3 DEF UseTempPath, ToTemp
    <2>4. /\ Known(e, al, t) <=> Known(s, al, t)
          /\ Adjusts(e, t) <=> Adjusts(s, t)
          /\ ToTemp(e, t) /\ ToTemp(s, t)
      BY <2>2, <2>3 DEF Known, Adjusts, ToTemp
    <2>5. QED BY <2>2, <2>4 DEF Settles, Shown, Placed, Going
  <1>4. CASE p # s.savePath[t] /\ ~UseTempPath(s, t)
    <2>1. e = MoveStorage(s, t, p)
      BY <1>4 DEF Move
    <2>2. /\ e.temp = s.temp /\ e.seedStatus = s.seedStatus /\ e.savePath = s.savePath
          /\ e.triggers = s.triggers
          /\ \/ /\ e.moving[t] = s.moving[t] /\ e.location[t] = s.location[t] /\ e.seed[t] = s.seed[t]
                /\ (s.moving[t] /\ LastIs(e.queue, t, p)) \/ s.location[t] = p
             \/ /\ e.moving[t] /\ e.location[t] = place[t] /\ (e.seed[t] <=> t \in complete)
                /\ LastIs(e.queue, t, p)
      BY <2>1, MoveStorageOwn
    <2>3. /\ Known(e, al, t) <=> Known(s, al, t)
          /\ Adjusts(e, t) <=> Adjusts(s, t)
          /\ ToTemp(e, t) <=> ToTemp(s, t)
      BY <2>2 DEF Known, Adjusts, ToTemp
    <2>4. Known(s, al, t) => ~ToTemp(s, t)
      BY <1>4, UsesTemp DEF Settles
    <2>5. Going(e, al, t, FALSE)
      BY <2>3, <2>4 DEF Going
    <2>6. Shown(e, al, t, place, complete)
      BY <2>2 DEF Settles, Shown
    <2>7. Placed(e, al, t)
      BY <2>2, <2>3 DEF Settles, Placed
    <2>8. QED BY <2>5, <2>6, <2>7 DEF Settles
  <1>5. QED BY <1>2, <1>3, <1>4

\* What a torrent is told of its state
LEMMA UpdatedOwn ==
  ASSUME NEW s \in States, NEW al, NEW t \in Torrent, Settles(s, al, t, FALSE, place, complete),
         NEW e, e = UpdateStatus(s, t)
  PROVE  Settles(e, al, t, FALSE, place, complete)
  <1>1. /\ e.queue = s.queue /\ e.moving = s.moving /\ e.temp = s.temp
        /\ e.savePath = s.savePath /\ e.triggers = s.triggers /\ e.seedStatus = s.seedStatus
        /\ e.location[t] = place[t] /\ (e.seed[t] <=> t \in complete)
    BY UpdatedIs
  <1>2. /\ Known(e, al, t) <=> Known(s, al, t)
        /\ Adjusts(e, t) <=> Adjusts(s, t)
        /\ ToTemp(e, t) <=> ToTemp(s, t)
    BY <1>1 DEF Known, Adjusts, ToTemp
  <1>3. Shown(e, al, t, place, complete)
    BY <1>1 DEF Settles, Shown
  <1>4. Placed(e, al, t)
    BY <1>1, <1>2 DEF Settles, Shown, Placed
  <1>5. Going(e, al, t, FALSE)
    BY <1>1, <1>2 DEF Settles, Going
  <1>6. QED BY <1>3, <1>4, <1>5 DEF Settles

\* The temporary folder was enabled or disabled in s: the torrents of the order are adjusted
\* one after another, and those are settled that had been as they were shown.
LEMMA AdjustAllOwn ==
  ASSUME RestPart, NEW s, NEW al, NEW st, Good(s, al, st), NEW t \in alive, handle[t] = 1,
         Shown(s, al, t, place, complete), NEW order \in Seq(alive),
         \E n \in 1 .. Len(order) : order[n] = t,
         NEW e, e = AdjustAll(s, order)
  PROVE  Settles(e, al, t, FALSE, place, complete)
  <1>1. PICK G : G = [n \in 0 .. Len(order) |->
                        {x \in States :
                           /\ Good(x, al, st) /\ Shown(x, al, t, place, complete)
                           /\ (\E m \in 1 .. n : order[m] = t) => Settles(x, al, t, FALSE, place, complete)}]
    OBVIOUS
  <1>2. Len(order) \in Nat /\ \A n \in 1 .. Len(order) : order[n] \in alive
    BY LenProperties, ElementOfSeq
  <1>3. \A n \in 0 .. Len(order) : \A x : x \in G[n] <=>
           /\ x \in States /\ Good(x, al, st) /\ Shown(x, al, t, place, complete)
           /\ (\E m \in 1 .. n : order[m] = t) => Settles(x, al, t, FALSE, place, complete)
    BY <1>1
  <1>4. s \in G[0]
    <2>1. 0 \in 0 .. Len(order) /\ s \in States /\ ~\E m \in 1 .. 0 : order[m] = t
      BY <1>2 DEF Good
    <2>2. QED BY <1>3, <2>1
  <1>5. ASSUME NEW n \in 1 .. Len(order), NEW x \in G[n - 1] PROVE Adjust(x, order[n]) \in G[n]
    <2>1. n - 1 \in 0 .. Len(order) /\ n \in 0 .. Len(order) /\ order[n] \in alive
      BY <1>2
    <2>2. /\ x \in States /\ Good(x, al, st) /\ Shown(x, al, t, place, complete)
          /\ (\E m \in 1 .. n - 1 : order[m] = t) => Settles(x, al, t, FALSE, place, complete)
      BY <1>3, <2>1
    <2>3. PICK y : y = Adjust(x, order[n])
      OBVIOUS
    <2>4. Good(y, al, st) /\ y \in States
      BY <2>1, <2>2, <2>3, AdjustGood DEF Good
    <2>5. CASE order[n] = t
      <3>1. Settles(y, al, t, FALSE, place, complete)
        BY <2>2, <2>3, <2>5, AdjustOwn
      <3>2. Shown(y, al, t, place, complete)
        BY <3>1 DEF Settles
      <3>3. QED BY <1>3, <2>1, <2>3, <2>4, <3>1, <3>2
    <2>6. CASE order[n] # t
      <3>1. Apart(x, y, order[n]) /\ t \in Torrent
        BY <2>1, <2>2, <2>3, AdjustApart, Alive
      <3>2. SameAt(x, y, t)
        BY <2>6, <3>1 DEF Apart
      <3>3. Shown(y, al, t, place, complete)
        BY <2>2, <3>2 DEF Shown, SameAt
      <3>4. ASSUME \E m \in 1 .. n : order[m] = t PROVE Settles(y, al, t, FALSE, place, complete)
        <4>1. PICK m \in 1 .. n : order[m] = t
          BY <3>4
        <4>2. m \in 1 .. n - 1
          BY <2>1, <2>6, <4>1
        <4>3. Settles(x, al, t, FALSE, place, complete)
          BY <2>2, <4>1, <4>2
        <4>4. QED BY <3>2, <4>3, SettlesSame
      <3>5. QED BY <1>3, <2>1, <2>3, <2>4, <3>3, <3>4
    <2>7. QED BY <2>5, <2>6
  <1>6. e \in G[Len(order)]
    BY <1>4, <1>5, AdjustAllIn
  <1>7. Len(order) \in 0 .. Len(order)
    BY <1>2
  <1>8. (\E m \in 1 .. Len(order) : order[m] = t) => Settles(e, al, t, FALSE, place, complete)
    BY <1>3, <1>6, <1>7
  <1>9. QED BY <1>8

LEMMA AdjustAllSeedStatus ==
  ASSUME RestPart, NEW s, NEW al, NEW st, Good(s, al, st), NEW order \in Seq(alive),
         NEW e, e = AdjustAll(s, order)
  PROVE  e.seedStatus = s.seedStatus
  <1>1. PICK S : S = {x \in States : Good(x, al, st) /\ x.seedStatus = s.seedStatus}
    OBVIOUS
  <1>2. PICK G : G = [n \in 0 .. Len(order) |-> S]
    OBVIOUS
  <1>3. Len(order) \in Nat /\ \A n \in 1 .. Len(order) : order[n] \in alive
    BY LenProperties, ElementOfSeq
  <1>4. \A n \in 0 .. Len(order) : G[n] = S
    BY <1>2
  <1>5. s \in G[0]
    BY <1>1, <1>3, <1>4 DEF Good
  <1>6. ASSUME NEW n \in 1 .. Len(order), NEW x \in G[n - 1] PROVE Adjust(x, order[n]) \in G[n]
    <2>1. G[n - 1] = S /\ G[n] = S /\ order[n] \in alive
      BY <1>3, <1>4
    <2>2. Good(x, al, st) /\ x.seedStatus = s.seedStatus
      BY <1>1, <2>1
    <2>3. PICK y : y = Adjust(x, order[n])
      OBVIOUS
    <2>4. Good(y, al, st) /\ Apart(x, y, order[n])
      BY <2>1, <2>2, <2>3, AdjustGood, AdjustApart
    <2>5. y \in States /\ y.seedStatus = s.seedStatus
      BY <2>2, <2>4 DEF Good, Apart
    <2>6. QED BY <1>1, <2>1, <2>3, <2>4, <2>5
  <1>7. e \in G[Len(order)]
    BY <1>5, <1>6, AdjustAllIn
  <1>8. QED BY <1>1, <1>3, <1>4, <1>7

-----------------------------------------------------------------------------
(* From one state to the next *)

LEMMA InvFacts ==
  ASSUME Inv
  PROVE  /\ RestPart /\ Good(Current, alerts, stalled)
         /\ Current \in States /\ alerts \in Seq(Alert) /\ stalled \in BOOLEAN
         /\ Current.queue = queue /\ Current.moves = moves /\ Current.temp = temp
         /\ Current.savePath = savePath /\ Current.moving = moving /\ Current.renames = renames
         /\ Current.triggers = triggers /\ Current.seedStatus = seedStatus
         /\ Current.location = location /\ Current.seed = seed
  BY DEF Inv, RestPart, Good, Current

\* Every field of the record becomes a variable.
LEMMA BecomesIs ==
  ASSUME NEW s \in States, Becomes(s)
  PROVE  Current' = s
  <1>1. s = [queue |-> s.queue, moves |-> s.moves, temp |-> s.temp, savePath |-> s.savePath,
             moving |-> s.moving, renames |-> s.renames, triggers |-> s.triggers,
             seedStatus |-> s.seedStatus, location |-> s.location, seed |-> s.seed]
    BY DEF States
  <1>2. Current' = [queue |-> s.queue, moves |-> s.moves, temp |-> s.temp, savePath |-> s.savePath,
             moving |-> s.moving, renames |-> s.renames, triggers |-> s.triggers,
             seedStatus |-> s.seedStatus, location |-> s.location, seed |-> s.seed]
    BY DEF Current, Becomes
  <1>3. QED BY <1>1, <1>2

LEMMA BecomesInv ==
  ASSUME NEW s, Becomes(s), Good(s, alerts', stalled'), RestPart',
         handle' = handle, inSession' = inSession, alive' = alive, removing' = removing,
         failures' = failures
  PROVE  Inv'
  <1>1. Current' = s
    BY BecomesIs DEF Good
  <1>2. PICK c : c = Current'
    OBVIOUS
  <1>3. Good(c, alerts', stalled')
    BY <1>1, <1>2
  <1>4. Good(Current, alerts, stalled)'
    BY <1>2, <1>3 DEF Good, PathsPart
  <1>5. QED BY <1>4 DEF Inv

\* What RestPart is about stays, but for the alerts.
LEMMA RestKept ==
  ASSUME RestPart,
         UNCHANGED <<alive, removing, handle, search, inSession, noMetadata, place, complete,
                     deleting, bounds>>,
         alerts' \in Seq(Alert), stalled' \in BOOLEAN,
         stalled' => failures > 0 \/ \E t \in Torrent : handle[t] > 1
  PROVE  RestPart'
  BY DEF RestPart, bounds

LEMMA RestStays ==
  ASSUME RestPart,
         UNCHANGED <<alive, removing, handle, search, inSession, noMetadata, place, complete,
                     deleting, alerts, stalled, bounds>>
  PROVE  RestPart'
  BY DEF RestPart, bounds

-----------------------------------------------------------------------------
(* The steps that leave the torrents and their native counterparts alone *)

LEMMA SetLocationStep ==
  ASSUME Inv, NEW t \in Torrent, NEW p \in Place, SetLocation(t, p)
  PROVE  Inv'
  <1>1. t \in alive /\ p \in Path
    BY DEF SetLocation, Path
  <1>2. PICK s : s = Move(Current, t, p)
    OBVIOUS
  <1>3. Good(s, alerts, stalled) /\ RestPart
    BY <1>1, <1>2, InvFacts, MoveGood
  <1>4. /\ Becomes(s)
        /\ UNCHANGED <<alive, removing, handle, search, inSession, noMetadata, place, complete,
                       deleting, alerts, stalled, bounds>>
    BY <1>2 DEF SetLocation
  <1>5. RestPart'
    BY <1>3, <1>4, RestStays
  <1>6. failures' = failures
    BY <1>4 DEF bounds
  <1>7. QED BY <1>3, <1>4, <1>5, <1>6, BecomesInv

\* The orders of the torrents that are alive are sequences of them.
LEMMA OrderIs ==
  ASSUME RestPart, NEW order \in SetToSeqs(alive)
  PROVE  order \in Seq(alive)
  <1>1. IsFiniteSet(Torrent) /\ alive \in SUBSET Torrent
    BY MoveStorageAssumption DEF RestPart
  <1>2. IsFiniteSet(alive)
    BY <1>1, FS_Subset
  <1>3. Cardinality(alive) \in Nat
    BY <1>2, FS_CardinalityType
  <1>4. order \in [1 .. Cardinality(alive) -> alive]
    BY DEF SetToSeqs
  <1>5. QED BY <1>3, <1>4, SeqDef

LEMMA SetTempPathEnabledStep ==
  ASSUME Inv, NEW enabled \in BOOLEAN, SetTempPathEnabled(enabled)
  PROVE  Inv'
  <1>1. PICK s1 : s1 = [Current EXCEPT !.temp = enabled]
    OBVIOUS
  <1>2. Good(s1, alerts, stalled)
    <2>1. Current \in States /\ Good(Current, alerts, stalled) /\ PathsPart(Current, alive)
      BY InvFacts DEF Good
    <2>2. /\ s1 \in States /\ s1.queue = Current.queue /\ s1.moves = Current.moves
          /\ s1.moving = Current.moving /\ s1.savePath = Current.savePath
          /\ s1.location = Current.location
      BY <1>1, <2>1 DEF States
    <2>3. PathsPart(s1, alive)
      BY <2>1, <2>2 DEF PathsPart
    <2>4. QED BY <2>1, <2>2, <2>3, GoodSame
  <1>3. PICK order \in SetToSeqs(alive) : Becomes(AdjustAll(s1, order))
    BY <1>1 DEF SetTempPathEnabled
  <1>4. PICK s : s = AdjustAll(s1, order)
    OBVIOUS
  <1>5. Good(s, alerts, stalled) /\ RestPart
    BY <1>2, <1>4, InvFacts, OrderIs, AdjustAllGood
  <1>6. /\ Becomes(s)
        /\ UNCHANGED <<alive, removing, handle, search, inSession, noMetadata, place, complete,
                       deleting, alerts, stalled, checks, failures>>
        /\ toggles' = toggles + 1
    BY <1>3, <1>4 DEF SetTempPathEnabled
  <1>7. RestPart'
    BY <1>5, <1>6 DEF RestPart
  <1>8. QED BY <1>5, <1>6, <1>7, BecomesInv

LEMMA RenameFileStep ==
  ASSUME Inv, NEW t \in Torrent, RenameFile(t)
  PROVE  Inv'
  <1>1. PICK n : n = renames[t] + 1
    OBVIOUS
  <1>2. n \in Nat
    BY <1>1, InvFacts, StateType
  <1>3. PICK s : s = [Current EXCEPT !.renames[t] = n]
    OBVIOUS
  <1>4. Good(s, alerts, stalled) /\ RestPart
    BY <1>2, <1>3, InvFacts, RenamesGood
  <1>5. /\ renames' = [renames EXCEPT ![t] = n]
        /\ UNCHANGED <<session, savePath, moving, triggers, seedStatus, location, seed, handle,
                       search, native, alerts, stalled, bounds>>
    BY <1>1 DEF RenameFile
  <1>6. Becomes(s)
    BY <1>3, <1>5 DEF Becomes, Current, session, native
  <1>7. UNCHANGED <<alive, removing, handle, search, inSession, noMetadata, place, complete,
                    deleting, alerts, stalled, bounds>>
    BY <1>5 DEF session, native
  <1>8. RestPart'
    BY <1>4, <1>7, RestStays
  <1>9. failures' = failures
    BY <1>7 DEF bounds
  <1>10. QED BY <1>4, <1>6, <1>7, <1>8, <1>9, BecomesInv

LEMMA HandleStateUpdateStep ==
  ASSUME Inv, NEW t \in Torrent, HandleStateUpdate(t)
  PROVE  Inv'
  <1>1. t \in alive
    BY DEF HandleStateUpdate
  <1>2. PICK s : s = UpdateStatus(Current, t)
    OBVIOUS
  <1>3. Good(s, alerts, stalled) /\ RestPart
    BY <1>1, <1>2, InvFacts, UpdatedGood
  <1>4. /\ Becomes(s)
        /\ UNCHANGED <<alive, removing, handle, search, inSession, noMetadata, place, complete,
                       deleting, alerts, stalled, bounds>>
    BY <1>2 DEF HandleStateUpdate
  <1>5. RestPart'
    BY <1>3, <1>4, RestStays
  <1>6. failures' = failures
    BY <1>4 DEF bounds
  <1>7. QED BY <1>3, <1>4, <1>5, <1>6, BecomesInv

LEMMA HandleFileRenamedStep ==
  ASSUME Inv, NEW t \in Torrent, HandleFileRenamed(t)
  PROVE  Inv'
  <1>1. t \in alive /\ renames[t] > 0
    BY DEF HandleFileRenamed
  <1>2. PICK n : n = renames[t] - 1
    OBVIOUS
  <1>3. n \in Nat
    BY <1>1, <1>2, InvFacts, StateType
  <1>4. PICK s1 : s1 = [Current EXCEPT !.renames[t] = n]
    OBVIOUS
  <1>5. Good(s1, alerts, stalled)
    BY <1>3, <1>4, InvFacts, RenamesGood
  <1>6. s1 = [Current EXCEPT !.renames[t] = @ - 1]
    BY <1>2, <1>4, InvFacts
  <1>7. PICK s : s = RunAll(s1, t, TRUE)
    OBVIOUS
  <1>8. Good(s, alerts, stalled) /\ RestPart
    BY <1>1, <1>5, <1>7, InvFacts, RunAllGood
  <1>9. /\ Becomes(s)
        /\ UNCHANGED <<alive, removing, handle, search, inSession, noMetadata, place, complete,
                       deleting, alerts, stalled, bounds>>
    BY <1>6, <1>7 DEF HandleFileRenamed
  <1>10. RestPart'
    BY <1>8, <1>9, RestStays
  <1>11. failures' = failures
    BY <1>9 DEF bounds
  <1>12. QED BY <1>8, <1>9, <1>10, <1>11, BecomesInv

\* An alert that is no answer is taken, and the record stays good.
LEMMA OtherTakenGood ==
  ASSUME Inv, alerts # << >>, ~IsAnswer(Head(alerts))
  PROVE  Good(Current, Tail(alerts), stalled) /\ Tail(alerts) \in Seq(Alert) /\ Head(alerts) \in Alert
  <1>1. PICK r : r = Tail(alerts)
    OBVIOUS
  <1>2. AlertsPart(Current.queue, Current.moves, r, stalled, failures)
    BY <1>1, InvFacts, OtherTaken DEF Good
  <1>3. r \in Seq(Alert) /\ Head(alerts) \in Alert
    BY <1>1, InvFacts, TakenIs
  <1>4. Good(Current, r, stalled)
    BY <1>2, InvFacts DEF Good
  <1>5. QED BY <1>1, <1>3, <1>4

LEMMA RenamedGood ==
  ASSUME NEW s, NEW al, NEW st, Good(s, al, st), NEW t \in Torrent, NEW e \in Renamed(s, t)
  PROVE  Good(e, al, st)
  <1>1. PICK n \in s.renames[t] .. MaxRenames : e = [s EXCEPT !.renames[t] = n]
    BY DEF Renamed
  <1>2. s.renames[t] \in Nat /\ MaxRenames \in Nat
    BY MoveStorageAssumption, StateType DEF Good
  <1>3. n \in Nat
    BY <1>2
  <1>4. QED BY <1>1, <1>3, RenamesGood

\* What a record becomes when an alert that is no answer is handled
LEMMA OtherAlertInv ==
  ASSUME Inv, alerts # << >>, ~IsAnswer(Head(alerts)), alerts' = Tail(alerts),
         NEW s, Becomes(s), Good(s, Tail(alerts), stalled),
         UNCHANGED <<alive, removing, handle, search, inSession, noMetadata, place, complete,
                     deleting, stalled, bounds>>
  PROVE  Inv'
  <1>1. Tail(alerts) \in Seq(Alert) /\ RestPart
    BY OtherTakenGood, InvFacts
  <1>2. stalled \in BOOLEAN /\ (stalled => failures > 0 \/ \E t \in Torrent : handle[t] > 1)
    BY <1>1 DEF RestPart
  <1>3. alerts' \in Seq(Alert) /\ stalled' = stalled
    BY <1>1
  <1>4. RestPart'
    BY <1>1, <1>2, <1>3, RestKept
  <1>5. failures' = failures
    BY DEF bounds
  <1>6. Good(s, alerts', stalled')
    BY <1>3
  <1>7. QED BY <1>4, <1>5, <1>6, BecomesInv

LEMMA CurrentStays ==
  ASSUME UNCHANGED current
  PROVE  Becomes(Current)
  BY DEF current, torrent, Becomes, Current

\* The head of the alerts is no answer when it is of another type.
LEMMA HeadIsOther ==
  ASSUME Inv, NEW type \in {"finished", "checked", "removed", "deleted"}, AlertIs(type)
  PROVE  /\ alerts # << >> /\ ~IsAnswer(Head(alerts)) /\ Head(alerts).torrent \in Torrent
  <1>1. alerts # << >> /\ Head(alerts).type = type
    BY DEF AlertIs
  <1>2. Head(alerts) \in Alert
    BY <1>1, InvFacts, TakenIs
  <1>3. QED BY <1>1, <1>2 DEF IsAnswer, Alert

LEMMA HandleTorrentFinishedStep ==
  ASSUME Inv, NEW recheck \in BOOLEAN, HandleTorrentFinished(recheck)
  PROVE  Inv'
  <1>1. PICK t : t = Head(alerts).torrent
    OBVIOUS
  <1>2. AlertIs("finished") /\ alerts' = Tail(alerts)
    BY DEF HandleTorrentFinished
  <1>3. alerts # << >> /\ ~IsAnswer(Head(alerts)) /\ t \in Torrent
    BY <1>1, <1>2, HeadIsOther
  <1>4. Good(Current, Tail(alerts), stalled) /\ RestPart
    BY <1>3, OtherTakenGood, InvFacts
  <1>5. UNCHANGED <<alive, removing, handle, search, inSession, noMetadata, place, complete,
                    deleting, stalled, bounds>>
    BY DEF HandleTorrentFinished
  <1>6. CASE t \notin alive \/ seedStatus[t]
    <2>1. UNCHANGED current
      BY <1>1, <1>6 DEF HandleTorrentFinished
    <2>2. QED BY <1>2, <1>3, <1>4, <1>5, <2>1, CurrentStays, OtherAlertInv
  <1>7. CASE ~(t \notin alive \/ seedStatus[t])
    <2>1. PICK work : work = IF recheck THEN <<"recheck", "finished">> ELSE <<"finished">>
      OBVIOUS
    <2>2. work \in Seq(Trigger)
      <3>1. <<"recheck", "finished">> \in Seq(Trigger) /\ <<"finished">> \in Seq(Trigger)
        BY DEF Trigger
      <3>2. CASE recheck
        BY <2>1, <3>1, <3>2
      <3>3. CASE ~recheck
        BY <2>1, <3>1, <3>3
      <3>4. QED BY <3>2, <3>3
    <2>3. PICK s0 : s0 = UpdateStatus(Current, t)
      OBVIOUS
    <2>4. PICK s1 : s1 = [s0 EXCEPT !.seedStatus[t] = TRUE]
      OBVIOUS
    <2>5. PICK s2 : s2 = Adjust(s1, t)
      OBVIOUS
    <2>6. PICK s \in Renamed(s2, t) :
             Becomes(IF s.moving[t] \/ s.renames[t] > 0 THEN [s EXCEPT !.triggers[t] = @ \o work] ELSE s)
      BY <1>1, <1>7, <2>1, <2>3, <2>4, <2>5 DEF HandleTorrentFinished
    <2>7. Good(s0, Tail(alerts), stalled)
      BY <1>4, <1>7, <2>3, UpdatedGood
    <2>8. Good(s1, Tail(alerts), stalled)
      BY <1>3, <2>4, <2>7, SeedStatusGood
    <2>9. Good(s2, Tail(alerts), stalled)
      BY <1>4, <1>7, <2>5, <2>8, AdjustGood
    <2>10. Good(s, Tail(alerts), stalled)
      BY <1>3, <2>9, RenamedGood
    <2>11. PICK all : all = s.triggers[t] \o work
      OBVIOUS
    <2>12. all \in Seq(Trigger)
      <3>1. s.triggers[t] \in Seq(Trigger)
        BY <1>3, <2>10, StateType DEF Good
      <3>2. QED BY <2>2, <2>11, <3>1, ConcatProperties
    <2>13. PICK e : e = [s EXCEPT !.triggers[t] = all]
      OBVIOUS
    <2>14. Good(e, Tail(alerts), stalled)
      BY <1>3, <2>10, <2>12, <2>13, TriggersGood
    <2>15. Becomes(e) \/ Becomes(s)
      BY <2>6, <2>11, <2>13
    <2>16. QED BY <1>2, <1>3, <1>5, <2>10, <2>14, <2>15, OtherAlertInv
  <1>8. QED BY <1>6, <1>7

LEMMA HandleTorrentCheckedStep ==
  ASSUME Inv, HandleTorrentChecked
  PROVE  Inv'
  <1>1. PICK t : t = Head(alerts).torrent
    OBVIOUS
  <1>2. AlertIs("checked") /\ alerts' = Tail(alerts)
    BY DEF HandleTorrentChecked
  <1>3. alerts # << >> /\ ~IsAnswer(Head(alerts)) /\ t \in Torrent
    BY <1>1, <1>2, HeadIsOther
  <1>4. Good(Current, Tail(alerts), stalled) /\ RestPart
    BY <1>3, OtherTakenGood, InvFacts
  <1>5. UNCHANGED <<alive, removing, handle, search, inSession, noMetadata, place, complete,
                    deleting, stalled, bounds>>
    BY DEF HandleTorrentChecked
  <1>6. CASE t \notin alive \ noMetadata
    <2>1. UNCHANGED current
      BY <1>1, <1>6 DEF HandleTorrentChecked
    <2>2. QED BY <1>2, <1>3, <1>4, <1>5, <2>1, CurrentStays, OtherAlertInv
  <1>7. CASE t \in alive \ noMetadata
    <2>1. PICK b : b = (t \in complete)
      OBVIOUS
    <2>2. b \in BOOLEAN
      BY <2>1
    <2>3. PICK s0 : s0 = UpdateStatus(Current, t)
      OBVIOUS
    <2>4. PICK s1 : s1 = [s0 EXCEPT !.seedStatus[t] = b]
      OBVIOUS
    <2>5. PICK s2 : s2 = Adjust(s1, t)
      OBVIOUS
    <2>6. PICK s \in Renamed(s2, t) : Becomes(s)
      BY <1>1, <1>7, <2>1, <2>3, <2>4, <2>5 DEF HandleTorrentChecked
    <2>7. Good(s0, Tail(alerts), stalled)
      BY <1>4, <1>7, <2>3, UpdatedGood
    <2>8. Good(s1, Tail(alerts), stalled)
      BY <1>3, <2>2, <2>4, <2>7, SeedStatusGood
    <2>9. Good(s2, Tail(alerts), stalled)
      BY <1>4, <1>7, <2>5, <2>8, AdjustGood
    <2>10. Good(s, Tail(alerts), stalled)
      BY <1>3, <2>9, RenamedGood
    <2>11. QED BY <1>2, <1>3, <1>5, <2>6, <2>10, OtherAlertInv
  <1>8. QED BY <1>6, <1>7

-----------------------------------------------------------------------------
(* The steps that change the torrents or their native counterparts *)

\* Nothing of the record changes, but for what the steps of libtorrent do to it.
LEMMA JobsKept ==
  ASSUME NEW q \in Seq(Job), NEW mo, NEW ha, NEW ins, NEW alv, NEW rem,
         JobsPart(q, mo, ha, ins, alv, rem),
         NEW mo2, NEW ha2, NEW ins2, NEW alv2, NEW rem2,
         \A i \in DOMAIN q :
            /\ JobFine(q[i], mo, ha, ins, alv, rem) => JobFine(q[i], mo2, ha2, ins2, alv2, rem2)
            /\ i # 1 /\ JobFine(q[i], mo, ha, ins, alv, rem) /\ Present(q[i], ha, ins) =>
                  Present(q[i], ha2, ins2)
  PROVE  JobsPart(q, mo2, ha2, ins2, alv2, rem2)
  BY DEF JobsPart

LEMMA InvQueue ==
  ASSUME Inv
  PROVE  /\ RestPart /\ AlertsPart(queue, moves, alerts, stalled, failures) /\ OnePart(queue)
         /\ JobsPart(queue, moving, handle, inSession, alive, removing)
         /\ queue \in Seq(Job) /\ moves \subseteq Job /\ moving \in [Torrent -> BOOLEAN]
         /\ \A t \in alive : savePath[t] \in Path /\ location[t] \in Path
         /\ \A i \in DOMAIN queue : queue[i] \in Job
         /\ \A i \in DOMAIN queue : i \in Nat
  <1>1. queue \in Seq(Job)
    BY InvFacts, StateType
  <1>2. /\ RestPart /\ AlertsPart(queue, moves, alerts, stalled, failures) /\ OnePart(queue)
        /\ JobsPart(queue, moving, handle, inSession, alive, removing)
        /\ moves \subseteq Job /\ moving \in [Torrent -> BOOLEAN]
    BY InvFacts, StateType DEF Good
  <1>3. \A t \in alive : savePath[t] \in Path /\ location[t] \in Path
    BY InvFacts DEF Good, PathsPart
  <1>4. \A i \in DOMAIN queue : queue[i] \in Job /\ i \in Nat
    BY <1>1, ElementOfSeq, LenProperties
  <1>5. QED BY <1>1, <1>2, <1>3, <1>4

\* What a step leads to, when it is given variable by variable
LEMMA InvAfter ==
  ASSUME RestPart',
         queue' \in Seq(Job), moves' \subseteq Job, temp' \in BOOLEAN,
         savePath' \in [Torrent -> Path \cup {NoPath}], moving' \in [Torrent -> BOOLEAN],
         renames' \in [Torrent -> Nat], triggers' \in [Torrent -> Seq(Trigger)],
         seedStatus' \in [Torrent -> BOOLEAN], location' \in [Torrent -> Path \cup {NoPath}],
         seed' \in [Torrent -> BOOLEAN],
         AlertsPart(queue', moves', alerts', stalled', failures'), OnePart(queue'),
         JobsPart(queue', moving', handle', inSession', alive', removing'),
         \A t \in alive' : savePath'[t] \in Path /\ location'[t] \in Path
  PROVE  Inv'
  <1>1. PICK c : c = Current'
    OBVIOUS
  <1>2. /\ c \in States
        /\ c.queue = queue' /\ c.moves = moves' /\ c.moving = moving'
        /\ c.savePath = savePath' /\ c.location = location'
    BY <1>1 DEF Current, States
  <1>3. Good(Current, alerts, stalled)'
    BY <1>1, <1>2 DEF Good, PathsPart
  <1>4. QED BY <1>3 DEF Inv

LEMMA TorrentType ==
  ASSUME Inv
  PROVE  /\ temp \in BOOLEAN /\ savePath \in [Torrent -> Path \cup {NoPath}]
         /\ moving \in [Torrent -> BOOLEAN] /\ renames \in [Torrent -> Nat]
         /\ triggers \in [Torrent -> Seq(Trigger)] /\ seedStatus \in [Torrent -> BOOLEAN]
         /\ location \in [Torrent -> Path \cup {NoPath}] /\ seed \in [Torrent -> BOOLEAN]
  BY InvFacts, StateType

\* When only what libtorrent knows of data, and the alerts, change
LEMMA NativeInv ==
  ASSUME Inv, RestPart', Longer(alerts, alerts'),
         UNCHANGED <<queue, temp, torrent, handle, inSession, alive, removing, moves, stalled, failures>>
  PROVE  Inv'
  <1>1. UNCHANGED <<savePath, moving, renames, triggers, seedStatus, location, seed>>
    BY DEF torrent
  <1>2. AlertsPart(queue, moves, alerts', stalled, failures)
    BY InvQueue, LongerAlerts
  <1>3. AlertsPart(queue', moves', alerts', stalled', failures')
    BY <1>2
  <1>4. OnePart(queue') /\ JobsPart(queue', moving', handle', inSession', alive', removing')
    BY <1>1, InvQueue
  <1>5. \A t \in alive' : savePath'[t] \in Path /\ location'[t] \in Path
    BY <1>1, InvQueue
  <1>6. queue' \in Seq(Job) /\ moves' \subseteq Job
    BY InvQueue
  <1>7. QED BY <1>1, <1>3, <1>4, <1>5, <1>6, TorrentType, InvAfter

LEMMA NativeChecksStep ==
  ASSUME Inv, NEW t \in Torrent, NativeChecks(t)
  PROVE  Inv'
  <1>1. /\ t \in inSession \ noMetadata /\ checks' = [checks EXCEPT ![t] = @ + 1]
        /\ UNCHANGED <<session, torrent, handle, search, inSession, noMetadata, place, moves,
                       deleting, stalled, toggles, failures>>
    BY DEF NativeChecks
  <1>2. Longer(alerts, alerts')
    <2>1. CASE alerts' = Append(alerts, About("checked", t))
      BY <2>1, InvFacts, OneMore
    <2>2. CASE alerts' = alerts \o <<About("finished", t)>>
      <3>1. PICK b : b = <<About("finished", t)>>
        OBVIOUS
      <3>2. b \in Seq(Alert) /\ \A i \in DOMAIN b : ~IsAnswer(b[i])
        BY <3>1, AboutIsNoAnswer
      <3>3. QED BY <2>2, <3>1, <3>2, InvFacts, SomeMore
    <2>3. CASE alerts' = alerts \o <<About("checked", t), About("finished", t)>>
      <3>1. PICK b : b = <<About("checked", t), About("finished", t)>>
        OBVIOUS
      <3>2. b \in Seq(Alert) /\ \A i \in DOMAIN b : ~IsAnswer(b[i])
        BY <3>1, AboutIsNoAnswer
      <3>3. QED BY <2>3, <3>1, <3>2, InvFacts, SomeMore
    <2>4. QED BY <2>1, <2>2, <2>3 DEF NativeChecks
  <1>3. complete' \subseteq inSession \ noMetadata
    BY <1>1, InvFacts DEF NativeChecks, RestPart
  <1>4. alerts' \in Seq(Alert)
    BY <1>2 DEF Longer
  <1>5. RestPart'
    BY <1>1, <1>3, <1>4, InvFacts DEF RestPart, session
  <1>6. QED BY <1>1, <1>2, <1>5, NativeInv DEF session

LEMMA NativeDeletesStep ==
  ASSUME Inv, NEW t \in Torrent, NativeDeletes(t)
  PROVE  Inv'
  <1>1. /\ deleting' = deleting \ {t} /\ alerts' = Append(alerts, About("deleted", t))
        /\ UNCHANGED <<session, torrent, handle, search, inSession, noMetadata, place, complete,
                       moves, stalled, bounds>>
    BY DEF NativeDeletes
  <1>2. Longer(alerts, alerts')
    BY <1>1, InvFacts, OneMore
  <1>3. alerts' \in Seq(Alert)
    BY <1>2 DEF Longer
  <1>4. RestPart'
    BY <1>1, <1>3, InvFacts DEF RestPart, session, bounds
  <1>5. QED BY <1>1, <1>2, <1>4, NativeInv DEF session, bounds

LEMMA LookForFilesStep ==
  ASSUME Inv, NEW t \in Torrent, LookForFiles(t)
  PROVE  Inv'
  <1>1. /\ t \in alive
        /\ search' = [search EXCEPT ![t] = {savePath[t]} \cup IF temp THEN {Temp} ELSE {}]
        /\ UNCHANGED <<session, torrent, handle, native, alerts, stalled, bounds>>
    BY DEF LookForFiles
  <1>2. search' \in [Torrent -> SUBSET Path]
    BY <1>1, InvQueue DEF RestPart, Path
  <1>3. RestPart'
    BY <1>1, <1>2, InvFacts DEF RestPart, session, bounds, native
  <1>4. Longer(alerts, alerts')
    BY <1>1, InvFacts DEF Longer
  <1>5. QED BY <1>1, <1>3, <1>4, NativeInv DEF session, bounds, native

\* What removing becomes when the end of a removal is told
LEMMA RemovingInv ==
  ASSUME Inv, alerts # << >>, ~IsAnswer(Head(alerts)), alerts' = Tail(alerts),
         NEW t \in Torrent, removing' = removing \/ removing' = [removing EXCEPT ![t] = "no"],
         UNCHANGED <<alive, queue, temp, torrent, handle, search, native, stalled, bounds>>
  PROVE  Inv'
  <1>1. /\ UNCHANGED <<savePath, moving, renames, triggers, seedStatus, location, seed>>
        /\ UNCHANGED <<inSession, noMetadata, place, complete, moves, deleting>>
        /\ UNCHANGED <<toggles, checks, failures>>
    BY DEF torrent, native, bounds
  <1>2. PICK rem : rem = removing'
    OBVIOUS
  <1>3. PICK al : al = Tail(alerts)
    OBVIOUS
  <1>4. AlertsPart(queue, moves, al, stalled, failures)
    BY <1>3, InvFacts, InvQueue, OtherTaken
  <1>5. al \in Seq(Alert)
    BY <1>3, OtherTakenGood
  <1>6. /\ rem \in [Torrent -> {"no", "keepFiles", "deleteFiles"}]
        /\ \A x \in Torrent : rem[x] = "keepFiles" => removing[x] = "keepFiles"
    BY <1>2, InvFacts DEF RestPart
  <1>7. JobsPart(queue, moving, handle, inSession, alive, rem)
    <2>1. ASSUME NEW i \in DOMAIN queue, JobFine(queue[i], moving, handle, inSession, alive, removing)
          PROVE  JobFine(queue[i], moving, handle, inSession, alive, rem)
      <3>1. queue[i].torrent \in Torrent
        BY InvQueue DEF Job
      <3>2. QED BY <1>6, <2>1, <3>1 DEF JobFine
    <2>2. QED BY <2>1, InvQueue, JobsKept
  <1>8. RestPart'
    BY <1>1, <1>2, <1>3, <1>5, <1>6, InvFacts DEF RestPart
  <1>9. AlertsPart(queue', moves', alerts', stalled', failures') /\ OnePart(queue')
    BY <1>1, <1>3, <1>4, InvQueue
  <1>10. JobsPart(queue', moving', handle', inSession', alive', removing')
    BY <1>1, <1>2, <1>7
  <1>11. QED BY <1>1, <1>8, <1>9, <1>10, InvQueue, TorrentType, InvAfter

LEMMA HandleTorrentRemovedStep ==
  ASSUME Inv, HandleTorrentRemoved
  PROVE  Inv'
  <1>1. AlertIs("removed") /\ alerts' = Tail(alerts)
    BY DEF HandleTorrentRemoved
  <1>2. PICK t : t = Head(alerts).torrent
    OBVIOUS
  <1>3. alerts # << >> /\ ~IsAnswer(Head(alerts)) /\ t \in Torrent
    BY <1>1, <1>2, HeadIsOther
  <1>4. removing' = removing \/ removing' = [removing EXCEPT ![t] = "no"]
    BY <1>2 DEF HandleTorrentRemoved
  <1>5. UNCHANGED <<alive, queue, temp, torrent, handle, search, native, stalled, bounds>>
    BY DEF HandleTorrentRemoved
  <1>6. QED BY <1>1, <1>3, <1>4, <1>5, RemovingInv

LEMMA HandleTorrentDeletedStep ==
  ASSUME Inv, HandleTorrentDeleted
  PROVE  Inv'
  <1>1. AlertIs("deleted") /\ alerts' = Tail(alerts)
    BY DEF HandleTorrentDeleted
  <1>2. PICK t : t = Head(alerts).torrent
    OBVIOUS
  <1>3. alerts # << >> /\ ~IsAnswer(Head(alerts)) /\ t \in Torrent
    BY <1>1, <1>2, HeadIsOther
  <1>4. removing' = removing \/ removing' = [removing EXCEPT ![t] = "no"]
    BY <1>2 DEF HandleTorrentDeleted
  <1>5. UNCHANGED <<alive, queue, temp, torrent, handle, search, native, stalled, bounds>>
    BY DEF HandleTorrentDeleted
  <1>6. QED BY <1>1, <1>3, <1>4, <1>5, RemovingInv

\* A job of a torrent that enters libtorrent is of an earlier native torrent.
LEMMA AddTorrentStep ==
  ASSUME Inv, NEW t \in Torrent, NEW p \in Place, NEW hasMetadata \in BOOLEAN,
         AddTorrent(t, p, hasMetadata)
  PROVE  Inv'
  <1>1. /\ t \notin alive /\ t \notin inSession
        /\ alive' = alive \cup {t} /\ inSession' = inSession \cup {t}
        /\ savePath' = [savePath EXCEPT ![t] = p]
        /\ noMetadata' = IF hasMetadata THEN noMetadata ELSE noMetadata \cup {t}
        /\ UNCHANGED <<removing, queue, temp, moving, renames, triggers, seedStatus, seed, search,
                       complete, moves, deleting, stalled, bounds>>
    BY DEF AddTorrent
  <1>2. PICK found \in Path : /\ place' = [place EXCEPT ![t] = found]
                              /\ location' = [location EXCEPT ![t] = found]
    BY DEF AddTorrent, Path
  <1>3. PICK ha : ha = [handle EXCEPT ![t] = @ + 1]
    OBVIOUS
  <1>4. handle' = ha
    BY <1>3 DEF AddTorrent
  <1>5. handle \in [Torrent -> Nat]
    BY InvFacts DEF RestPart
  <1>6. /\ ha \in [Torrent -> Nat] /\ ha[t] = handle[t] + 1 /\ handle[t] \in Nat
        /\ \A x \in Torrent : x # t => ha[x] = handle[x]
    BY <1>3, <1>5
  <1>7. Longer(alerts, alerts')
    <2>1. CASE alerts' = Append(alerts, About("checked", t))
      BY <2>1, InvFacts, OneMore
    <2>2. CASE alerts' = alerts
      BY <2>2, InvFacts DEF Longer
    <2>3. QED BY <2>1, <2>2 DEF AddTorrent
  <1>8. alerts' \in Seq(Alert)
    BY <1>7 DEF Longer
  <1>9. p \in Path
    BY DEF Path
  <1>10. RestPart'
    <2>1. RestPart
      BY InvFacts
    <2>2. /\ alive' \subseteq inSession' /\ inSession' \subseteq Torrent /\ noMetadata' \subseteq inSession'
          /\ complete' \subseteq inSession' \ noMetadata'
      BY <1>1, <2>1 DEF RestPart
    <2>3. place' \in [Torrent -> Path \cup {NoPath}]
      BY <1>2, <2>1 DEF RestPart
    <2>4. \A x \in alive' : place'[x] \in Path /\ handle'[x] >= 1
      <3>1. ASSUME NEW x \in alive' PROVE place'[x] \in Path /\ handle'[x] >= 1
        <4>1. CASE x = t
          <5>1. place'[x] \in Path
            BY <1>2, <2>1, <4>1 DEF RestPart
          <5>2. handle'[x] >= 1
            BY <1>4, <1>6, <4>1
          <5>3. QED BY <5>1, <5>2
        <4>2. CASE x # t
          <5>1. x \in alive /\ x \in Torrent
            BY <1>1, <2>1, <3>1, <4>2 DEF RestPart
          <5>2. place'[x] = place[x]
            BY <1>2, <2>1, <4>2, <5>1 DEF RestPart
          <5>3. handle'[x] = handle[x]
            BY <1>4, <1>6, <4>2, <5>1
          <5>4. QED BY <2>1, <5>1, <5>2, <5>3 DEF RestPart
        <4>3. QED BY <4>1, <4>2
      <3>2. QED BY <3>1
    <2>5. stalled' => failures' > 0 \/ \E x \in Torrent : handle'[x] > 1
      <3>1. ASSUME NEW x \in Torrent, handle[x] > 1 PROVE handle'[x] > 1
        <4>1. handle[x] \in Nat /\ (ha[x] = handle[x] \/ ha[x] = handle[x] + 1)
          BY <1>5, <1>6
        <4>2. QED BY <1>4, <3>1, <4>1
      <3>2. QED BY <1>1, <2>1, <3>1 DEF RestPart, bounds
    <2>6. QED BY <1>1, <1>4, <1>6, <1>8, <2>1, <2>2, <2>3, <2>4, <2>5 DEF RestPart, bounds
  <1>11. AlertsPart(queue, moves, alerts', stalled, failures)
    BY <1>7, InvQueue, LongerAlerts
  <1>12. PICK alv : alv = alive \cup {t}
    OBVIOUS
  <1>13. PICK ins : ins = inSession \cup {t}
    OBVIOUS
  <1>14. JobsPart(queue, moving, ha, ins, alv, removing)
    <2>1. ASSUME NEW i \in DOMAIN queue, JobFine(queue[i], moving, handle, inSession, alive, removing)
          PROVE  /\ JobFine(queue[i], moving, ha, ins, alv, removing)
                 /\ Present(queue[i], handle, inSession) => Present(queue[i], ha, ins)
      <3>1. queue[i].torrent \in Torrent /\ queue[i].handle \in Nat
        BY InvQueue DEF Job
      <3>2. CASE queue[i].torrent = t
        <4>1. ha[t] # 1 /\ queue[i].handle >= 1 /\ queue[i].handle <= ha[t]
          BY <1>6, <2>1, <3>1, <3>2 DEF JobFine
        <4>2. QED BY <3>2, <4>1 DEF JobFine, Present
      <3>3. CASE queue[i].torrent # t
        <4>1. ha[queue[i].torrent] = handle[queue[i].torrent]
          BY <1>6, <3>1, <3>3
        <4>2. /\ queue[i].torrent \in alv <=> queue[i].torrent \in alive
              /\ queue[i].torrent \in ins <=> queue[i].torrent \in inSession
          BY <1>12, <1>13, <3>3
        <4>3. QED BY <2>1, <4>1, <4>2 DEF JobFine, Present
      <3>4. QED BY <3>2, <3>3
    <2>2. QED BY <2>1, InvQueue, JobsKept
  <1>15. JobsPart(queue', moving', handle', inSession', alive', removing')
    BY <1>1, <1>4, <1>12, <1>13, <1>14
  <1>16. AlertsPart(queue', moves', alerts', stalled', failures') /\ OnePart(queue')
    BY <1>1, <1>11, InvQueue DEF bounds
  <1>17. /\ savePath' \in [Torrent -> Path \cup {NoPath}] /\ location' \in [Torrent -> Path \cup {NoPath}]
         /\ \A x \in alive' : savePath'[x] \in Path /\ location'[x] \in Path
    <2>1. savePath \in [Torrent -> Path \cup {NoPath}] /\ location \in [Torrent -> Path \cup {NoPath}]
      BY TorrentType
    <2>2. alive \subseteq Torrent
      BY InvFacts DEF RestPart
    <2>3. QED BY <1>1, <1>2, <1>9, <2>1, <2>2, InvQueue
  <1>18. QED BY <1>1, <1>10, <1>15, <1>16, <1>17, InvQueue, TorrentType, InvAfter

\* The jobs of a torrent that is added again are of the native torrent before.
LEMMA FileSearchFinishedStep ==
  ASSUME Inv, NEW t \in Torrent, FileSearchFinished(t)
  PROVE  Inv'
  <1>1. /\ search[t] # {} /\ search' = [search EXCEPT ![t] = {}]
        /\ UNCHANGED <<session, savePath, moving, renames, triggers, seedStatus, inSession, moves,
                       deleting, stalled, bounds>>
    BY DEF FileSearchFinished
  <1>2. search \in [Torrent -> SUBSET Path] /\ search' \in [Torrent -> SUBSET Path]
    BY <1>1, InvFacts DEF RestPart
  <1>3. CASE t \notin alive
    <2>1. UNCHANGED <<handle, noMetadata, place, location, seed, complete, alerts>>
      BY <1>3 DEF FileSearchFinished
    <2>2. RestPart'
      BY <1>1, <1>2, <2>1, InvFacts DEF RestPart, session, bounds
    <2>3. Longer(alerts, alerts')
      BY <2>1, InvFacts DEF Longer
    <2>4. QED BY <1>1, <2>1, <2>2, <2>3, NativeInv DEF session, bounds, torrent
  <1>4. CASE t \in alive
    <2>1. PICK found \in Path : /\ place' = [place EXCEPT ![t] = found]
                                /\ location' = [location EXCEPT ![t] = found]
      BY <1>2, <1>4 DEF FileSearchFinished
    <2>2. /\ noMetadata' = noMetadata \ {t} /\ complete' = complete \ {t}
          /\ seed' = [seed EXCEPT ![t] = FALSE]
          /\ alerts' = alerts \o <<About("removed", t), About("checked", t)>>
      BY <1>4 DEF FileSearchFinished
    <2>3. PICK ha : ha = [handle EXCEPT ![t] = @ + 1]
      OBVIOUS
    <2>4. handle' = ha
      BY <1>4, <2>3 DEF FileSearchFinished
    <2>5. handle \in [Torrent -> Nat] /\ handle[t] >= 1
      BY <1>4, InvFacts DEF RestPart
    <2>6. /\ ha \in [Torrent -> Nat] /\ ha[t] = handle[t] + 1 /\ handle[t] \in Nat
          /\ \A x \in Torrent : x # t => ha[x] = handle[x]
      BY <2>3, <2>5
    <2>7. Longer(alerts, alerts')
      <3>1. PICK b : b = <<About("removed", t), About("checked", t)>>
        OBVIOUS
      <3>2. b \in Seq(Alert) /\ \A i \in DOMAIN b : ~IsAnswer(b[i])
        BY <3>1, AboutIsNoAnswer
      <3>3. QED BY <2>2, <3>1, <3>2, InvFacts, SomeMore
    <2>8. alerts' \in Seq(Alert)
      BY <2>7 DEF Longer
    <2>9. RestPart'
      <3>1. RestPart
        BY InvFacts
      <3>2. noMetadata' \subseteq inSession' /\ complete' \subseteq inSession' \ noMetadata'
        BY <1>1, <2>2, <3>1 DEF RestPart
      <3>3. place' \in [Torrent -> Path \cup {NoPath}]
        BY <2>1, <3>1 DEF RestPart
      <3>4. ASSUME NEW x \in alive PROVE place'[x] \in Path /\ handle'[x] >= 1
        <4>1. place'[x] \in Path
          BY <2>1, <3>1, <3>4 DEF RestPart
        <4>2. handle[x] \in Nat /\ handle[x] >= 1 /\ x \in Torrent
          BY <3>1, <3>4 DEF RestPart
        <4>3. ha[x] = handle[x] \/ ha[x] = handle[x] + 1
          BY <2>6, <4>2
        <4>4. QED BY <2>4, <4>1, <4>2, <4>3
      <3>5. stalled' => failures' > 0 \/ \E x \in Torrent : handle'[x] > 1
        <4>1. ASSUME NEW x \in Torrent, handle[x] > 1 PROVE handle'[x] > 1
          <5>1. handle[x] \in Nat /\ (ha[x] = handle[x] \/ ha[x] = handle[x] + 1)
            BY <2>5, <2>6
          <5>2. QED BY <2>4, <4>1, <5>1
        <4>2. QED BY <1>1, <3>1, <4>1 DEF RestPart, bounds
      <3>6. QED BY <1>1, <1>2, <2>4, <2>6, <2>8, <3>1, <3>2, <3>3, <3>4, <3>5 DEF RestPart, bounds, session
    <2>10. AlertsPart(queue, moves, alerts', stalled, failures)
      BY <2>7, InvQueue, LongerAlerts
    <2>11. JobsPart(queue, moving, ha, inSession, alive, removing)
      <3>1. ASSUME NEW i \in DOMAIN queue, JobFine(queue[i], moving, handle, inSession, alive, removing)
            PROVE  /\ JobFine(queue[i], moving, ha, inSession, alive, removing)
                   /\ Present(queue[i], handle, inSession) => Present(queue[i], ha, inSession)
        <4>1. queue[i].torrent \in Torrent /\ queue[i].handle \in Nat
          BY InvQueue DEF Job
        <4>2. CASE queue[i].torrent = t
          <5>1. ha[t] # 1 /\ queue[i].handle >= 1 /\ queue[i].handle <= ha[t]
            BY <2>5, <2>6, <3>1, <4>1, <4>2 DEF JobFine
          <5>2. QED BY <4>2, <5>1 DEF JobFine, Present
        <4>3. CASE queue[i].torrent # t
          <5>1. ha[queue[i].torrent] = handle[queue[i].torrent]
            BY <2>6, <4>1, <4>3
          <5>2. QED BY <3>1, <5>1 DEF JobFine, Present
        <4>4. QED BY <4>2, <4>3
      <3>2. QED BY <3>1, InvQueue, JobsKept
    <2>12. JobsPart(queue', moving', handle', inSession', alive', removing')
      BY <1>1, <2>4, <2>11 DEF session
    <2>13. AlertsPart(queue', moves', alerts', stalled', failures') /\ OnePart(queue')
      BY <1>1, <2>10, InvQueue DEF bounds, session
    <2>14. location' \in [Torrent -> Path \cup {NoPath}] /\ seed' \in [Torrent -> BOOLEAN]
      BY <2>1, <2>2, TorrentType
    <2>15. \A x \in alive' : savePath'[x] \in Path /\ location'[x] \in Path
      <3>1. alive \subseteq Torrent /\ alive' = alive
        BY <1>1, InvFacts DEF RestPart, session
      <3>2. QED BY <1>1, <2>1, <3>1, InvQueue, TorrentType
    <2>16. QED BY <1>1, <2>9, <2>12, <2>13, <2>14, <2>15, InvQueue, TorrentType, InvAfter DEF session
  <1>5. QED BY <1>3, <1>4

LEMMA NativeMoveEndsStep ==
  ASSUME Inv, NEW job \in moves, NEW type \in {"moved", "moveFailed"}, NativeMoveEnds(job, type)
  PROVE  Inv'
  <1>1. /\ moves' = moves \ {job}
        /\ alerts' = Append(alerts, [type |-> type, job |-> job])
        /\ UNCHANGED <<session, torrent, handle, search, inSession, noMetadata, complete, deleting,
                       stalled, toggles, checks>>
        /\ place' = IF type = "moved" /\ IsCurrent(job) THEN [place EXCEPT ![job.torrent] = job.path]
                    ELSE place
    BY DEF NativeMoveEnds
  <1>2. failures' \in Nat /\ failures' >= failures /\ (type = "moveFailed" => failures' > 0)
    <2>1. failures \in Nat
      BY InvFacts DEF RestPart
    <2>2. \/ type = "moved" /\ failures' = failures
          \/ type = "moveFailed" /\ failures' = failures + 1
      BY DEF NativeMoveEnds
    <2>3. QED BY <2>1, <2>2
  <1>3. job \in Job
    BY InvQueue
  <1>4. PICK a : a = [type |-> type, job |-> job]
    OBVIOUS
  <1>5. a \in Alert /\ a.type = type /\ a.job = job
    BY <1>3, <1>4 DEF Alert
  <1>6. /\ alerts' \in Seq(Alert)
        /\ DOMAIN alerts = 1 .. Len(alerts) /\ Len(alerts) \in Nat
        /\ DOMAIN alerts' = 1 .. Len(alerts) + 1
        /\ \A i \in 1 .. Len(alerts) : alerts'[i] = alerts[i]
        /\ alerts'[Len(alerts) + 1] = a
    <2>1. PICK r : r = Append(alerts, a)
      OBVIOUS
    <2>2. /\ r \in Seq(Alert)
          /\ DOMAIN alerts = 1 .. Len(alerts) /\ Len(alerts) \in Nat
          /\ DOMAIN r = 1 .. Len(alerts) + 1
          /\ \A i \in 1 .. Len(alerts) : r[i] = alerts[i]
          /\ r[Len(alerts) + 1] = a
      BY <1>5, <2>1, InvFacts, AppendIn
    <2>3. alerts' = r
      BY <1>1, <1>4, <2>1
    <2>4. QED BY <2>2, <2>3
  <1>7. queue # << >> /\ job = Head(queue) /\ Answers(alerts) = {} /\ moves' = {}
    BY <1>1, InvQueue DEF AlertsPart
  <1>8. AlertsPart(queue, moves', alerts', stalled, failures')
    <2>1. ASSUME NEW i \in Answers(alerts') PROVE i = Len(alerts) + 1
      <3>1. i \in DOMAIN alerts' /\ IsAnswer(alerts'[i])
        BY DEF Answers
      <3>2. i \notin DOMAIN alerts
        BY <1>6, <1>7, <3>1 DEF Answers
      <3>3. QED BY <1>6, <3>1, <3>2
    <2>2. Len(alerts) + 1 \in Answers(alerts')
      BY <1>5, <1>6 DEF Answers, IsAnswer
    <2>3. ASSUME NEW i \in DOMAIN alerts', alerts'[i].type = "moveFailed" PROVE failures' > 0
      <3>1. i \in Answers(alerts')
        BY <2>3 DEF Answers, IsAnswer
      <3>2. a.type = "moveFailed"
        BY <1>6, <2>1, <2>3, <3>1
      <3>3. QED BY <1>2, <1>5, <3>2
    <2>4. \A i \in Answers(alerts') : alerts'[i].job = Head(queue)
      BY <1>5, <1>6, <1>7, <2>1
    <2>5. QED BY <1>7, <2>1, <2>2, <2>3, <2>4 DEF AlertsPart
  <1>9. RestPart'
    <2>1. RestPart
      BY InvFacts
    <2>2. /\ place' \in [Torrent -> Path \cup {NoPath}]
          /\ \A t \in Torrent : place[t] \in Path => place'[t] \in Path
      <3>1. job.path \in Path /\ job.torrent \in Torrent
        BY <1>3 DEF Job
      <3>2. QED BY <1>1, <2>1, <3>1 DEF RestPart
    <2>3. stalled => failures' > 0 \/ \E t \in Torrent : handle[t] > 1
      BY <1>2, <2>1 DEF RestPart
    <2>4. alive \subseteq Torrent
      BY <2>1 DEF RestPart
    <2>5. QED BY <1>1, <1>2, <1>6, <2>1, <2>2, <2>3, <2>4 DEF RestPart, session
  <1>10. /\ UNCHANGED <<savePath, moving, renames, triggers, seedStatus, location, seed>>
         /\ UNCHANGED <<alive, removing, queue, temp>>
    BY <1>1 DEF torrent, session
  <1>11. moves' \subseteq Job
    BY <1>7
  <1>12. AlertsPart(queue', moves', alerts', stalled', failures') /\ OnePart(queue')
    BY <1>1, <1>8, <1>10, InvQueue
  <1>13. JobsPart(queue', moving', handle', inSession', alive', removing')
    BY <1>1, <1>10, InvQueue
  <1>14. QED BY <1>9, <1>10, <1>11, <1>12, <1>13, InvQueue, TorrentType, InvAfter

\* The torrent t is forgotten; q is what stays of the queue and ins of the session.
LEMMA ForgottenJobs ==
  ASSUME Inv, NEW t \in alive,
         NEW mo, mo = [moving EXCEPT ![t] = FALSE],
         NEW how \in {"keepFiles", "deleteFiles"}, NEW rem, rem = [removing EXCEPT ![t] = how],
         NEW q \in Seq(Job),
         \A j \in DOMAIN q : \E k \in DOMAIN queue : q[j] = queue[k] /\ (j # 1 => k # 1),
         NEW ins, ins = inSession \/ ins = inSession \ {t},
         \A j \in DOMAIN q : IsJobOf(q[j], t) => ins = inSession \/ (how = "deleteFiles" /\ j = 1)
  PROVE  JobsPart(q, mo, handle, ins, alive \ {t}, rem)
  <1> SUFFICES ASSUME NEW j \in DOMAIN q
               PROVE  /\ JobFine(q[j], mo, handle, ins, alive \ {t}, rem)
                      /\ j # 1 => Present(q[j], handle, ins)
    BY DEF JobsPart
  <1>1. PICK k \in DOMAIN queue : q[j] = queue[k] /\ (j # 1 => k # 1)
    OBVIOUS
  <1>2. /\ JobFine(q[j], moving, handle, inSession, alive, removing)
        /\ j # 1 => Present(q[j], handle, inSession)
    BY <1>1, InvQueue DEF JobsPart
  <1>3. q[j].torrent \in Torrent /\ q[j].handle \in Nat
    BY <1>1, InvQueue DEF Job
  <1>4. /\ handle \in [Torrent -> Nat] /\ removing \in [Torrent -> {"no", "keepFiles", "deleteFiles"}]
        /\ moving \in [Torrent -> BOOLEAN] /\ t \in inSession /\ t \in Torrent
    BY InvFacts, InvQueue DEF RestPart
  <1>5. CASE q[j].torrent # t
    <2>1. mo[q[j].torrent] = moving[q[j].torrent] /\ rem[q[j].torrent] = removing[q[j].torrent]
      BY <1>3, <1>4, <1>5
    <2>2. q[j].torrent \in ins <=> q[j].torrent \in inSession
      BY <1>5
    <2>3. q[j].torrent \in alive \ {t} <=> q[j].torrent \in alive
      BY <1>5
    <2>4. QED BY <1>2, <2>1, <2>2, <2>3 DEF JobFine, Present
  <1>6. CASE q[j].torrent = t
    <2>1. q[j].handle >= 1 /\ q[j].handle <= handle[t] /\ handle[t] \in Nat
      BY <1>2, <1>4, <1>6 DEF JobFine
    <2>2. handle[t] = 1 => IsJobOf(q[j], t)
      BY <1>3, <1>6, <2>1 DEF IsJobOf
    <2>3. rem[t] = how
      BY <1>4
    <2>4. handle[t] = 1 /\ how = "keepFiles" => t \in ins
      BY <1>4, <2>2
    <2>5. handle[t] = 1 /\ j # 1 => t \in ins
      BY <1>4, <2>2
    <2>6. QED BY <1>6, <2>1, <2>3, <2>4, <2>5 DEF JobFine, Present
  <1>7. QED BY <1>5, <1>6

LEMMA ForgetIs ==
  ASSUME Inv, NEW t \in alive, Forget(t)
  PROVE  /\ savePath' \in [Torrent -> Path \cup {NoPath}] /\ moving' \in [Torrent -> BOOLEAN]
         /\ renames' \in [Torrent -> Nat] /\ triggers' \in [Torrent -> Seq(Trigger)]
         /\ seedStatus' \in [Torrent -> BOOLEAN] /\ location' \in [Torrent -> Path \cup {NoPath}]
         /\ seed' \in [Torrent -> BOOLEAN]
         /\ alive' = alive \ {t} /\ moving' = [moving EXCEPT ![t] = FALSE]
         /\ \A x \in alive' : savePath'[x] \in Path /\ location'[x] \in Path
  <1>1. /\ alive' = alive \ {t}
        /\ savePath' = [savePath EXCEPT ![t] = NoPath]
        /\ moving' = [moving EXCEPT ![t] = FALSE]
        /\ renames' = [renames EXCEPT ![t] = 0]
        /\ triggers' = [triggers EXCEPT ![t] = << >>]
        /\ seedStatus' = [seedStatus EXCEPT ![t] = FALSE]
        /\ location' = [location EXCEPT ![t] = NoPath]
        /\ seed' = [seed EXCEPT ![t] = FALSE]
    BY DEF Forget
  <1>2. alive \subseteq Torrent
    BY InvFacts DEF RestPart
  <1>3. savePath' \in [Torrent -> Path \cup {NoPath}] /\ location' \in [Torrent -> Path \cup {NoPath}]
    BY <1>1, TorrentType
  <1>4. moving' \in [Torrent -> BOOLEAN] /\ seedStatus' \in [Torrent -> BOOLEAN] /\ seed' \in [Torrent -> BOOLEAN]
    BY <1>1, TorrentType
  <1>5. renames' \in [Torrent -> Nat] /\ triggers' \in [Torrent -> Seq(Trigger)]
    <2>1. renames' \in [Torrent -> Nat]
      BY <1>1, TorrentType
    <2>2. PICK none \in Seq(Trigger) : none = << >>
      <3>1. << >> \in Seq(Trigger)
        OBVIOUS
      <3>2. QED BY <3>1
    <2>3. triggers' = [triggers EXCEPT ![t] = none] /\ triggers \in [Torrent -> Seq(Trigger)]
      BY <1>1, <2>2, TorrentType
    <2>4. triggers' \in [Torrent -> Seq(Trigger)]
      BY <2>3
    <2>5. QED BY <2>1, <2>4
  <1>6. \A x \in alive' : savePath'[x] \in Path /\ location'[x] \in Path
    BY <1>1, <1>2, InvQueue, TorrentType
  <1>7. QED BY <1>1, <1>3, <1>4, <1>5, <1>6

\* What the removal of the native torrent t makes of the rest
LEMMA RemoveNativeRest ==
  ASSUME RestPart, NEW t \in Torrent, NEW before \in Seq(Alert), RemoveNative(t, before),
         alive' = alive \ {t}, removing' \in [Torrent -> {"no", "keepFiles", "deleteFiles"}],
         deleting' \subseteq Torrent,
         UNCHANGED <<handle, search, stalled, bounds>>
  PROVE  RestPart' /\ Longer(before, alerts')
  <1>1. /\ inSession' = inSession \ {t} /\ noMetadata' = noMetadata \ {t}
        /\ place' = [place EXCEPT ![t] = NoPath] /\ complete' = complete \ {t}
        /\ alerts' = Append(before, About("removed", t))
    BY DEF RemoveNative
  <1>2. Longer(before, alerts')
    BY <1>1, OneMore
  <1>3. alerts' \in Seq(Alert)
    BY <1>2 DEF Longer
  <1>4. /\ place' \in [Torrent -> Path \cup {NoPath}]
        /\ \A x \in alive' : place'[x] \in Path /\ handle'[x] >= 1
    BY <1>1 DEF RestPart
  <1>5. /\ alive' \subseteq inSession' /\ inSession' \subseteq Torrent /\ noMetadata' \subseteq inSession'
        /\ complete' \subseteq inSession' \ noMetadata'
    BY <1>1 DEF RestPart
  <1>6. QED BY <1>2, <1>3, <1>4, <1>5 DEF RestPart, bounds

LEMMA DeleteTorrentStep ==
  ASSUME Inv, NEW t \in Torrent, DeleteTorrent(t)
  PROVE  Inv'
  <1>1. /\ t \in alive /\ Forget(t)
        /\ removing' = [removing EXCEPT ![t] = "keepFiles"]
        /\ UNCHANGED <<queue, temp, handle, search, moves, deleting, stalled, bounds>>
    BY DEF DeleteTorrent
  <1>2. /\ alive' = alive \ {t} /\ moving' = [moving EXCEPT ![t] = FALSE]
        /\ moving' \in [Torrent -> BOOLEAN]
    BY <1>1, ForgetIs
  <1>3. removing' \in [Torrent -> {"no", "keepFiles", "deleteFiles"}]
    BY <1>1, InvFacts DEF RestPart
  <1>4. deleting' \subseteq Torrent /\ failures' = failures /\ stalled' = stalled
    BY <1>1, InvFacts DEF RestPart, bounds
  <1>5. RestPart' /\ Longer(alerts, alerts')
        /\ (inSession' = inSession \/ (inSession' = inSession \ {t} /\ ~HasJob(queue, t)))
    <2>1. CASE KeptForMoves(t)
      <3>1. UNCHANGED <<inSession, noMetadata, place, complete, alerts>>
        BY <2>1 DEF DeleteTorrent
      <3>2. RestPart'
        BY <1>1, <1>2, <1>3, <3>1, InvFacts DEF RestPart, bounds
      <3>3. Longer(alerts, alerts')
        BY <3>1, InvFacts DEF Longer
      <3>4. QED BY <3>1, <3>2, <3>3
    <2>2. CASE ~KeptForMoves(t)
      <3>1. RemoveNative(t, alerts)
        BY <2>2 DEF DeleteTorrent
      <3>2. inSession' = inSession \ {t} /\ ~HasJob(queue, t)
        BY <2>2, <3>1 DEF RemoveNative, KeptForMoves
      <3>3. RestPart /\ alerts \in Seq(Alert)
        BY InvFacts
      <3>4. RestPart' /\ Longer(alerts, alerts')
        BY <1>1, <1>2, <1>3, <1>4, <3>1, <3>3, RemoveNativeRest
      <3>5. QED BY <3>2, <3>4
    <2>3. QED BY <2>1, <2>2
  <1>6. AlertsPart(queue, moves, alerts', stalled, failures)
    BY <1>5, InvQueue, LongerAlerts
  <1>7. PICK mo : mo = moving'
    OBVIOUS
  <1>8. PICK rem : rem = removing'
    OBVIOUS
  <1>9. PICK ins : ins = inSession'
    OBVIOUS
  <1>10. JobsPart(queue, mo, handle, ins, alive \ {t}, rem)
    <2>1. mo = [moving EXCEPT ![t] = FALSE] /\ rem = [removing EXCEPT ![t] = "keepFiles"]
      BY <1>1, <1>2, <1>7, <1>8
    <2>2. ins = inSession \/ ins = inSession \ {t}
      BY <1>5, <1>9
    <2>3. \A j \in DOMAIN queue : IsJobOf(queue[j], t) => ins = inSession
      BY <1>5, <1>9 DEF HasJob
    <2>4. \A j \in DOMAIN queue : \E k \in DOMAIN queue : queue[j] = queue[k] /\ (j # 1 => k # 1)
      OBVIOUS
    <2>5. queue \in Seq(Job) /\ "keepFiles" \in {"keepFiles", "deleteFiles"}
      BY InvQueue
    <2>6. QED BY <1>1, <2>1, <2>2, <2>3, <2>4, <2>5, ForgottenJobs
  <1>11. JobsPart(queue', moving', handle', inSession', alive', removing')
    BY <1>1, <1>2, <1>7, <1>8, <1>9, <1>10
  <1>12. AlertsPart(queue', moves', alerts', stalled', failures') /\ OnePart(queue')
    BY <1>1, <1>4, <1>6, InvQueue
  <1>13. queue' \in Seq(Job) /\ moves' \subseteq Job /\ temp' \in BOOLEAN
    BY <1>1, InvQueue, TorrentType
  <1>14. QED BY <1>1, <1>5, <1>11, <1>12, <1>13, ForgetIs, InvAfter

LEMMA DeleteTorrentAndFilesStep ==
  ASSUME Inv, NEW t \in Torrent, DeleteTorrentAndFiles(t)
  PROVE  Inv'
  <1>1. /\ t \in alive /\ Forget(t)
        /\ removing' = [removing EXCEPT ![t] = "deleteFiles"]
        /\ RemoveNative(t, alerts) /\ deleting' = deleting \cup {t}
        /\ UNCHANGED <<temp, handle, search, moves, stalled, bounds>>
    BY DEF DeleteTorrentAndFiles
  <1>2. PICK q : q = Cancelled(queue, t)
    OBVIOUS
  <1>3. queue' = q
    BY <1>2 DEF DeleteTorrentAndFiles
  <1>4. q \in Seq(Job) /\ Cancels(queue, t, q)
    BY <1>2, InvQueue, CancelledIs
  <1>5. /\ alive' = alive \ {t} /\ moving' = [moving EXCEPT ![t] = FALSE]
    BY <1>1, ForgetIs
  <1>6. removing' \in [Torrent -> {"no", "keepFiles", "deleteFiles"}]
    BY <1>1, InvFacts DEF RestPart
  <1>7. deleting' \subseteq Torrent /\ failures' = failures /\ stalled' = stalled
    BY <1>1, InvFacts DEF RestPart, bounds
  <1>8. RestPart' /\ Longer(alerts, alerts')
    <2>1. RestPart /\ alerts \in Seq(Alert)
      BY InvFacts
    <2>2. QED BY <1>1, <1>5, <1>6, <1>7, <2>1, RemoveNativeRest
  <1>9. AlertsPart(queue, moves, alerts', stalled, failures)
    BY <1>8, InvQueue, LongerAlerts
  <1>10. AlertsPart(q, moves, alerts', stalled, failures)
    BY <1>4, <1>9 DEF AlertsPart, Cancels
  <1>11. OnePart(q) /\ \A j \in DOMAIN q : j # 1 => ~IsJobOf(q[j], t)
    BY <1>4, InvQueue DEF Cancels
  <1>12. PICK mo : mo = moving'
    OBVIOUS
  <1>13. PICK rem : rem = removing'
    OBVIOUS
  <1>14. PICK ins : ins = inSession'
    OBVIOUS
  <1>15. JobsPart(q, mo, handle, ins, alive \ {t}, rem)
    <2>1. mo = [moving EXCEPT ![t] = FALSE] /\ rem = [removing EXCEPT ![t] = "deleteFiles"]
      BY <1>1, <1>5, <1>12, <1>13
    <2>2. ins = inSession \ {t}
      BY <1>1, <1>14 DEF RemoveNative
    <2>3. \A j \in DOMAIN q : IsJobOf(q[j], t) => j = 1
      BY <1>11
    <2>4. \A j \in DOMAIN q : \E k \in DOMAIN queue : q[j] = queue[k] /\ (j # 1 => k # 1)
      BY <1>4 DEF Cancels
    <2>5. "deleteFiles" \in {"keepFiles", "deleteFiles"}
      OBVIOUS
    <2>6. QED BY <1>1, <1>4, <2>1, <2>2, <2>3, <2>4, <2>5, ForgottenJobs
  <1>16. JobsPart(queue', moving', handle', inSession', alive', removing')
    BY <1>1, <1>3, <1>5, <1>12, <1>13, <1>14, <1>15
  <1>17. AlertsPart(queue', moves', alerts', stalled', failures') /\ OnePart(queue')
    BY <1>1, <1>3, <1>7, <1>10, <1>11
  <1>18. queue' \in Seq(Job) /\ moves' \subseteq Job /\ temp' \in BOOLEAN
    BY <1>1, <1>3, <1>4, InvQueue, TorrentType
  <1>19. QED BY <1>1, <1>8, <1>16, <1>17, <1>18, ForgetIs, InvAfter

-----------------------------------------------------------------------------
(* The answers of libtorrent to moves *)

\* What is known when an answer is taken: the head of the queue has been moved, or
\* has not been, and the rest of the queue is as good as the whole was.
Answered(type, job, rest, al) ==
    /\ queue # << >> /\ job = Head(queue) /\ rest = Tail(queue) /\ al = Tail(alerts)
    /\ job \in Job /\ rest \in Seq(Job) /\ al \in Seq(Alert)
    /\ moves = {} /\ Answers(al) = {}
    /\ \A i \in DOMAIN al : al[i].type # "moveFailed"
    /\ type = "moveFailed" => failures > 0
    /\ JobFine(job, moving, handle, inSession, alive, removing)
    /\ OnePart(rest)
    /\ JobsPart(rest, moving, handle, inSession, alive, removing)
    /\ \A i \in DOMAIN rest : /\ rest[i] \in Job
                              /\ JobFine(rest[i], moving, handle, inSession, alive, removing)
                              /\ Present(rest[i], handle, inSession)

LEMMA AnsweredIs ==
  ASSUME Inv, NEW type \in {"moved", "moveFailed"}, AlertIs(type),
         NEW job, job = Head(queue), NEW rest, rest = Tail(queue), NEW al, al = Tail(alerts)
  PROVE  Answered(type, job, rest, al)
  <1>1. alerts # << >> /\ IsAnswer(Head(alerts)) /\ Head(alerts).type = type
    BY DEF AlertIs, IsAnswer
  <1>2. /\ queue # << >> /\ moves = {} /\ al \in Seq(Alert) /\ Answers(al) = {}
        /\ \A i \in DOMAIN al : al[i].type # "moveFailed"
        /\ Head(alerts).type = "moveFailed" => failures > 0
    <2>1. AlertsPart(queue, moves, alerts, stalled, failures) /\ alerts \in Seq(Alert)
      BY InvFacts, InvQueue
    <2>2. QED BY <1>1, <2>1, AnswerTaken
  <1>3. /\ job \in Job /\ rest \in Seq(Job)
        /\ Len(queue) \in Nat \ {0} /\ DOMAIN queue = 1 .. Len(queue)
        /\ DOMAIN rest = 1 .. Len(queue) - 1
        /\ \A i \in DOMAIN rest : rest[i] = queue[i + 1]
        /\ job = queue[1]
    BY <1>2, InvQueue, TailIn
  <1>4. 1 \in DOMAIN queue /\ \A i \in DOMAIN rest : i \in Nat /\ i + 1 \in DOMAIN queue /\ i + 1 # 1
    BY <1>3
  <1>5. JobFine(job, moving, handle, inSession, alive, removing)
    BY <1>3, <1>4, InvQueue DEF JobsPart
  <1>6. ASSUME NEW i \in DOMAIN rest
        PROVE  /\ rest[i] \in Job /\ JobFine(rest[i], moving, handle, inSession, alive, removing)
               /\ Present(rest[i], handle, inSession)
    <2>1. rest[i] = queue[i + 1] /\ i + 1 \in DOMAIN queue /\ i + 1 # 1
      BY <1>3, <1>4
    <2>2. QED BY <2>1, InvQueue DEF JobsPart
  <1>7. JobsPart(rest, moving, handle, inSession, alive, removing)
    BY <1>6 DEF JobsPart
  <1>8. OnePart(rest)
    <2>1. ASSUME NEW i \in DOMAIN rest, NEW j \in DOMAIN rest,
                 rest[i].torrent = rest[j].torrent, rest[i].handle = rest[j].handle
          PROVE  i = j
      <3>1. /\ rest[i] = queue[i + 1] /\ i + 1 \in DOMAIN queue \ {1} /\ i \in Nat
            /\ rest[j] = queue[j + 1] /\ j + 1 \in DOMAIN queue \ {1} /\ j \in Nat
        BY <1>3, <1>4
      <3>2. i + 1 = j + 1
        BY <2>1, <3>1, InvQueue DEF OnePart
      <3>3. QED BY <3>1, <3>2
    <2>2. QED BY <2>1 DEF OnePart
  <1>9. QED BY <1>1, <1>2, <1>3, <1>5, <1>6, <1>7, <1>8 DEF Answered

\* The next move is started.
LEMMA NextStarted ==
  ASSUME NEW type, NEW job, NEW rest, NEW al, Answered(type, job, rest, al), NEW st
  PROVE  /\ AlertsPart(rest, Started(rest), al, st, failures)
         /\ moves \cup Started(rest) = Started(rest) /\ Started(rest) \subseteq Job
  <1>1. Started(rest) \subseteq Job
    <2>1. rest # << >> => Head(rest) \in Job
      BY TailIn DEF Answered
    <2>2. QED BY <2>1 DEF Started
  <1>2. AlertsPart(rest, Started(rest), al, st, failures)
    BY DEF Answered, AlertsPart, Started
  <1>3. QED BY <1>1, <1>2 DEF Answered

\* After the last job of its only native torrent there is none of the torrent.
LEMMA NoMore ==
  ASSUME Inv, NEW type, NEW job, NEW rest, NEW al, Answered(type, job, rest, al),
         ~Outstanding(rest, job), handle[job.torrent] = 1, NEW i \in DOMAIN rest
  PROVE  rest[i].torrent # job.torrent
  <1> SUFFICES ASSUME rest[i].torrent = job.torrent PROVE FALSE
    OBVIOUS
  <1>1. job.handle \in Nat /\ job.handle >= 1 /\ job.handle <= 1
    BY DEF Answered, JobFine, Job
  <1>2. rest[i].handle \in Nat /\ rest[i].handle >= 1 /\ rest[i].handle <= 1
    BY DEF Answered, JobFine, Job
  <1>3. rest[i].handle = job.handle
    BY <1>1, <1>2
  <1>4. QED BY <1>3 DEF Outstanding

\* What handleMoveStorageJobFinished makes of the torrent of the job, before the work
\* that waits is done: x of s.
Done(s, t, out, x) ==
    /\ x.queue = s.queue /\ x.temp = s.temp /\ x.seedStatus = s.seedStatus /\ x.triggers = s.triggers
    /\ x.moving[t] = out
    /\ x.location[t] = place[t]
    /\ x.seed[t] <=> t \in complete
    /\ ~UseTempPath(x, t) => x.savePath[t] = place[t]

\* that torrent then
AfterJob(s, t, out) ==
    LET s1 == UpdateStatus([s EXCEPT !.moving[t] = out], t)
    IN  IF UseTempPath(s1, t) THEN s1 ELSE [s1 EXCEPT !.savePath[t] = s1.location[t]]

LEMMA JobDone ==
  ASSUME Inv, NEW type, NEW job, NEW rest, NEW al, Answered(type, job, rest, al),
         NEW st, NEW s, Good(s, al, st), s.queue = rest, s.moving = moving,
         NEW t \in alive, t = job.torrent,
         NEW out \in BOOLEAN, out = Outstanding(rest, job),
         NEW x, x = AfterJob(s, t, out)
  PROVE  Good(x, al, st) /\ Apart(s, x, t) /\ Done(s, t, out, x)
  <1>0. RestPart /\ s \in States /\ t \in Torrent
    BY InvFacts, Alive DEF Good
  <1>1. PICK mo : mo = [s.moving EXCEPT ![t] = out]
    OBVIOUS
  <1>2. /\ mo \in [Torrent -> BOOLEAN] /\ mo[t] = out
        /\ \A u \in Torrent : u # t => mo[u] = s.moving[u]
    BY <1>0, <1>1, StateType
  <1>3. PICK s0 : s0 = [s EXCEPT !.moving = mo]
    OBVIOUS
  <1>4. /\ s0 \in States /\ s0.queue = rest /\ s0.moves = s.moves /\ s0.moving = mo
        /\ s0.savePath = s.savePath /\ s0.location = s.location
        /\ s0.temp = s.temp /\ s0.triggers = s.triggers /\ s0.seedStatus = s.seedStatus /\ s0.seed = s.seed
    BY <1>0, <1>2, <1>3 DEF States
  <1>5. JobsPart(rest, mo, handle, inSession, alive, removing)
    <2>1. ASSUME NEW i \in DOMAIN rest
          PROVE  /\ JobFine(rest[i], mo, handle, inSession, alive, removing)
                 /\ Present(rest[i], handle, inSession)
      <3>1. /\ rest[i] \in Job /\ JobFine(rest[i], moving, handle, inSession, alive, removing)
            /\ Present(rest[i], handle, inSession)
        BY DEF Answered
      <3>2. rest[i].torrent \in Torrent
        BY <3>1 DEF Job
      <3>3. CASE rest[i].torrent = t
        <4>1. handle[t] = 1 => out
          BY <3>3, NoMore
        <4>2. QED BY <1>2, <3>1, <3>3, <4>1 DEF JobFine
      <3>4. CASE rest[i].torrent # t
        <4>1. mo[rest[i].torrent] = moving[rest[i].torrent]
          BY <1>2, <3>2, <3>4
        <4>2. QED BY <3>1, <4>1 DEF JobFine
      <3>5. QED BY <3>3, <3>4
    <2>2. QED BY <2>1 DEF JobsPart
  <1>6. Good(s0, al, st)
    <2>1. AlertsPart(rest, s.moves, al, st, failures) /\ OnePart(rest) /\ PathsPart(s, alive)
      BY DEF Good
    <2>2. PathsPart(s0, alive)
      BY <1>4, <2>1 DEF PathsPart
    <2>3. QED BY <1>4, <1>5, <2>1, <2>2 DEF Good
  <1>7. PICK s1 : s1 = UpdateStatus(s0, t)
    OBVIOUS
  <1>8. Good(s1, al, st) /\ s1 \in States
    BY <1>0, <1>6, <1>7, UpdatedGood DEF Good
  <1>9. /\ s1.queue = s0.queue /\ s1.moving = s0.moving /\ s1.temp = s0.temp
        /\ s1.savePath = s0.savePath /\ s1.triggers = s0.triggers /\ s1.seedStatus = s0.seedStatus
        /\ s1.location[t] = place[t] /\ (s1.seed[t] <=> t \in complete)
    BY <1>0, <1>4, <1>7, UpdatedIs
  <1>10. PICK p : p = s1.location[t]
    OBVIOUS
  <1>11. p \in Path
    BY <1>8, <1>10 DEF Good, PathsPart
  <1>12. PICK s2 : s2 = [s1 EXCEPT !.savePath[t] = p]
    OBVIOUS
  <1>13. /\ Good(s2, al, st) /\ Apart(s1, s2, t)
         /\ s2.queue = s1.queue /\ s2.moving = s1.moving /\ s2.temp = s1.temp /\ s2.seed = s1.seed
         /\ s2.triggers = s1.triggers /\ s2.location = s1.location /\ s2.seedStatus = s1.seedStatus
         /\ s2.savePath[t] = p
    <2>1. Good(s2, al, st)
      BY <1>0, <1>8, <1>11, <1>12, SavePathGood
    <2>2. /\ s2.queue = s1.queue /\ s2.moving = s1.moving /\ s2.temp = s1.temp /\ s2.seed = s1.seed
          /\ s2.triggers = s1.triggers /\ s2.location = s1.location /\ s2.seedStatus = s1.seedStatus
      BY <1>0, <1>8, <1>12, SavePathIs
    <2>3. PICK g : g = [s1.savePath EXCEPT ![t] = p]
      OBVIOUS
    <2>4. s2 = [s1 EXCEPT !.savePath = g] /\ g[t] = p
      BY <1>0, <1>8, <1>12, <2>3, StateType
    <2>5. s2.savePath[t] = p
      BY <1>8, <2>4 DEF States
    <2>6. Apart(s1, s2, t)
      BY <1>0, <1>8, <1>12, SavePathIs
    <2>7. QED BY <2>1, <2>2, <2>5, <2>6
  <1>14. Apart(s, s1, t)
    <2>1. Apart(s, s0, t)
      BY <1>2, <1>4 DEF Apart, SameAt
    <2>2. Apart(s0, s1, t)
      BY <1>0, <1>4, <1>7, UpdatedApart
    <2>3. QED BY <2>1, <2>2, ApartTransitive
  <1>15. x = IF UseTempPath(s1, t) THEN s1 ELSE s2
    BY <1>1, <1>3, <1>7, <1>10, <1>12 DEF AfterJob
  <1>16. CASE UseTempPath(s1, t)
    <2>1. x = s1
      BY <1>15, <1>16
    <2>2. Done(s, t, out, s1)
      BY <1>2, <1>4, <1>9, <1>16 DEF Done
    <2>3. QED BY <1>8, <1>14, <2>1, <2>2
  <1>17. CASE ~UseTempPath(s1, t)
    <2>1. x = s2
      BY <1>15, <1>17
    <2>2. Apart(s, s2, t)
      BY <1>13, <1>14, ApartTransitive
    <2>3. s2.savePath[t] = place[t] /\ s2.location[t] = place[t] /\ (s2.seed[t] <=> t \in complete)
      BY <1>9, <1>10, <1>13
    <2>4. /\ s2.queue = s.queue /\ s2.temp = s.temp /\ s2.seedStatus = s.seedStatus
          /\ s2.triggers = s.triggers /\ s2.moving[t] = out
      BY <1>2, <1>4, <1>9, <1>13
    <2>5. Done(s, t, out, s2)
      BY <2>3, <2>4 DEF Done
    <2>6. QED BY <1>13, <2>1, <2>2, <2>5
  <1>18. QED BY <1>16, <1>17

LEMMA JobFinishedGood ==
  ASSUME Inv, NEW type, NEW job, NEW rest, NEW al, Answered(type, job, rest, al),
         NEW st, NEW s, Good(s, al, st), s.queue = rest, s.moving = moving,
         NEW t \in alive, t = job.torrent,
         NEW out \in BOOLEAN, out = Outstanding(rest, job),
         NEW e, e = JobFinished(s, t, out)
  PROVE  Good(e, al, st) /\ Apart(s, e, t)
  <1>1. PICK x : x = AfterJob(s, t, out)
    OBVIOUS
  <1>2. Good(x, al, st) /\ Apart(s, x, t)
    BY <1>1, JobDone
  <1>3. e = x \/ e = RunAll(x, t, FALSE)
    BY <1>1 DEF JobFinished, AfterJob
  <1>4. CASE e = x
    BY <1>2, <1>4
  <1>5. CASE e = RunAll(x, t, FALSE)
    <2>1. RestPart
      BY InvFacts
    <2>2. Good(e, al, st) /\ Apart(x, e, t)
      BY <1>2, <1>5, <2>1, RunAllGood, RunAllApart
    <2>3. QED BY <1>2, <2>2, ApartTransitive
  <1>6. QED BY <1>3, <1>4, <1>5

\* The same for the torrent of the job, of which the data has been moved as asked: it is
\* settled after it if it was before.
LEMMA JobFinishedOwn ==
  ASSUME Inv, NEW type, NEW job, NEW rest, NEW al, Answered(type, job, rest, al),
         NEW st, NEW s, Good(s, al, st), s.queue = rest, s.moving = moving,
         s.temp = temp, s.seedStatus = seedStatus, s.triggers = triggers,
         NEW t \in alive, t = job.torrent, handle[t] = 1, place[t] = job.path,
         Settles(Current, al, t, FALSE, place, complete),
         NEW out \in BOOLEAN, out = Outstanding(rest, job),
         NEW e, e = JobFinished(s, t, out)
  PROVE  Settles(e, al, t, FALSE, place, complete)
  <1>1. PICK x : x = AfterJob(s, t, out)
    OBVIOUS
  <1>2. Good(x, al, st) /\ Done(s, t, out, x)
    BY <1>1, JobDone
  <1>3. /\ x.queue = rest /\ x.temp = temp /\ x.seedStatus = seedStatus /\ x.triggers = triggers
        /\ x.location[t] = place[t] /\ (x.seed[t] <=> t \in complete)
        /\ ~UseTempPath(x, t) => x.savePath[t] = place[t]
    BY <1>2 DEF Done
  <1>4. x.moving[t] = out
    BY <1>2 DEF Done
  <1>5. moving[t]
    BY DEF Answered, JobFine
  <1>6. /\ Known(x, al, t) <=> Known(Current, al, t)
        /\ Adjusts(x, t) <=> Adjusts(Current, t)
        /\ ToTemp(x, t) <=> ToTemp(Current, t)
    BY <1>3, InvFacts DEF Known, Adjusts, ToTemp
  <1>7. Shown(x, al, t, place, complete)
    <2>1. Told(al, t) = {} => (seedStatus[t] <=> t \in complete)
      BY InvFacts DEF Settles, Shown
    <2>2. QED BY <1>3, <2>1 DEF Shown
  <1>8. ASSUME Known(x, al, t), ToTemp(x, t), ~Adjusts(x, t) PROVE LastIs(queue, t, Temp)
    BY <1>5, <1>6, <1>8, InvFacts DEF Settles, Going
  <1>9. queue \in Seq(Job) /\ queue # << >> /\ job = Head(queue) /\ rest = Tail(queue)
    BY InvQueue DEF Answered
  <1>10. CASE out
    <2>1. e = x
      BY <1>1, <1>10 DEF JobFinished, AfterJob
    <2>2. Placed(x, al, t)
      BY <1>4, <1>10 DEF Placed
    <2>3. Going(x, al, t, FALSE)
      <3>1. ASSUME Known(x, al, t), ToTemp(x, t), ~Adjusts(x, t) PROVE LastIs(x.queue, t, Temp)
        <4>1. LastIs(queue, t, Temp)
          BY <1>8, <3>1
        <4>2. LastIs(rest, t, Temp)
          BY <1>9, <4>1, RestLast
        <4>3. QED BY <1>3, <4>2
      <3>2. QED BY <3>1 DEF Going
    <2>4. QED BY <1>7, <2>1, <2>2, <2>3 DEF Settles
  <1>11. CASE ~out
    <2>1. e = RunAll(x, t, FALSE)
      BY <1>1, <1>11 DEF JobFinished, AfterJob
    <2>2. ~x.moving[t]
      BY <1>4, <1>11
    <2>3. ASSUME Known(x, al, t), ToTemp(x, t), ~Adjusts(x, t) PROVE place[t] = Temp
      <3>1. LastIs(queue, t, Temp)
        BY <1>8, <2>3
      <3>2. /\ Len(queue) \in Nat \ {0} /\ DOMAIN queue = 1 .. Len(queue)
            /\ DOMAIN rest = 1 .. Len(queue) - 1
            /\ \A i \in DOMAIN rest : rest[i] = queue[i + 1]
            /\ job = queue[1]
        BY <1>9, TailIn
      <3>3. ASSUME NEW i \in DOMAIN queue, i # 1 PROVE queue[i].torrent # t
        <4>1. i - 1 \in DOMAIN rest /\ i - 1 + 1 = i
          BY <3>2, <3>3
        <4>2. queue[i] = rest[i - 1]
          BY <3>2, <4>1
        <4>3. ~Outstanding(rest, job)
          BY <1>11
        <4>4. rest[i - 1].torrent # t
          BY <4>1, <4>3, NoMore
        <4>5. QED BY <4>2, <4>4
      <3>4. 1 \in DOMAIN queue /\ queue[1].torrent = t
        BY <3>2
      <3>5. queue[1].path = Temp
        BY <3>1, <3>3, <3>4 DEF LastIs
      <3>6. QED BY <3>2, <3>5
    <2>4. ASSUME Known(x, al, t), ~ToTemp(x, t) PROVE x.savePath[t] = place[t]
      BY <1>3, <1>7, <2>4, UsesTemp
    <2>5. Placed(x, al, t)
      BY <1>3, <2>3, <2>4 DEF Placed
    <2>6. Settles(x, al, t, TRUE, place, complete)
      BY <1>7, <2>2, <2>5 DEF Settles, Going
    <2>7. PICK b \in BOOLEAN : b = FALSE
      OBVIOUS
    <2>8. (~b) = TRUE
      BY <2>7
    <2>9. Settles(x, al, t, ~b, place, complete) /\ e = RunAll(x, t, b)
      BY <2>1, <2>6, <2>7, <2>8
    <2>10. RestPart
      BY InvFacts
    <2>11. Settles(e, al, t, ~b, place, complete)
      BY <1>2, <2>9, <2>10, RunAllOwn
    <2>12. Settles(e, al, t, TRUE, place, complete)
      BY <2>8, <2>11
    <2>13. QED BY <2>12, Weaken
  <1>12. QED BY <1>10, <1>11

\* The record becomes s after an answer, and libtorrent keeps what it has.
LEMMA AnsweredInv ==
  ASSUME Inv, NEW type, NEW job, NEW rest, NEW al, Answered(type, job, rest, al),
         alerts' = al, NEW st \in BOOLEAN, stalled' = st,
         st => failures > 0 \/ \E t \in Torrent : handle[t] > 1,
         NEW s, Good(s, al, st), Becomes(s),
         UNCHANGED <<inSession, noMetadata, place, complete>>,
         UNCHANGED <<alive, removing, handle, search, deleting, bounds>>
  PROVE  Inv'
  <1>1. alerts' \in Seq(Alert) /\ failures' = failures /\ RestPart
    BY InvFacts DEF Answered, bounds
  <1>2. RestPart'
    BY <1>1, RestKept
  <1>3. Good(s, alerts', stalled')
    OBVIOUS
  <1>4. QED BY <1>1, <1>2, <1>3, BecomesInv

\* The removed torrent t leaves libtorrent after its last move.
LEMMA LeavesInv ==
  ASSUME Inv, NEW type, NEW job, NEW rest, NEW al, Answered(type, job, rest, al),
         NEW t, t = job.torrent, t \notin alive, ~Outstanding(rest, job),
         RemoveNative(t, al),
         queue' = rest, moves' = Started(rest), UNCHANGED temp, UNCHANGED torrent,
         stalled' = stalled, UNCHANGED <<alive, removing, handle, search, deleting, bounds>>
  PROVE  Inv'
  <1>1. /\ t \in Torrent /\ al \in Seq(Alert) /\ rest \in Seq(Job) /\ RestPart
    BY InvFacts DEF Answered, Job
  <1>2. alive' = alive \ {t}
    OBVIOUS
  <1>3. removing' \in [Torrent -> {"no", "keepFiles", "deleteFiles"}] /\ deleting' \subseteq Torrent
    BY <1>1 DEF RestPart
  <1>4. RestPart' /\ Longer(al, alerts')
    BY <1>1, <1>2, <1>3, RemoveNativeRest
  <1>5. AlertsPart(rest, Started(rest), alerts', stalled, failures)
    <2>1. AlertsPart(rest, Started(rest), al, stalled, failures)
      BY NextStarted
    <2>2. QED BY <1>4, <2>1, LongerAlerts
  <1>6. PICK ins : ins = inSession \ {t}
    OBVIOUS
  <1>7. JobsPart(rest, moving, handle, ins, alive, removing)
    <2>1. ASSUME NEW i \in DOMAIN rest
          PROVE  /\ JobFine(rest[i], moving, handle, ins, alive, removing)
                 /\ Present(rest[i], handle, ins)
      <3>1. /\ JobFine(rest[i], moving, handle, inSession, alive, removing)
            /\ Present(rest[i], handle, inSession)
        BY DEF Answered
      <3>2. CASE rest[i].torrent = t
        <4>1. handle[t] # 1
          BY <3>2, NoMore
        <4>2. QED BY <3>1, <3>2, <4>1 DEF JobFine, Present
      <3>3. CASE rest[i].torrent # t
        <4>1. rest[i].torrent \in ins <=> rest[i].torrent \in inSession
          BY <1>6, <3>3
        <4>2. QED BY <3>1, <4>1 DEF JobFine, Present
      <3>4. QED BY <3>2, <3>3
    <2>2. QED BY <2>1 DEF JobsPart
  <1>8. /\ UNCHANGED <<savePath, moving, renames, triggers, seedStatus, location, seed>>
        /\ inSession' = ins
    BY <1>6 DEF torrent, RemoveNative
  <1>9. JobsPart(queue', moving', handle', inSession', alive', removing')
    BY <1>7, <1>8
  <1>10. AlertsPart(queue', moves', alerts', stalled', failures') /\ OnePart(queue')
    BY <1>5 DEF bounds, Answered
  <1>11. queue' \in Seq(Job) /\ moves' \subseteq Job
    BY <1>1, NextStarted
  <1>12. \A x \in alive' : savePath'[x] \in Path /\ location'[x] \in Path
    BY <1>8, InvQueue
  <1>13. QED BY <1>4, <1>8, <1>9, <1>10, <1>11, <1>12, TorrentType, InvAfter

LEMMA MoveJobFinishedStep ==
  ASSUME Inv, NEW type \in {"moved", "moveFailed"}, MoveJobFinished(type)
  PROVE  Inv'
  <1>1. PICK job : job = Head(queue)
    OBVIOUS
  <1>2. PICK rest : rest = Tail(queue)
    OBVIOUS
  <1>3. PICK al : al = Tail(alerts)
    OBVIOUS
  <1>4. PICK t : t = job.torrent
    OBVIOUS
  <1>5. PICK out : out = Outstanding(rest, job)
    OBVIOUS
  <1>6. PICK s : s = [Current EXCEPT !.queue = rest, !.moves = @ \cup Started(rest)]
    OBVIOUS
  <1>7. PICK c : c = [Current EXCEPT !.queue = rest]
    OBVIOUS
  <1> DEFINE Removed == t \notin alive /\ ~out /\ removing[t] = "keepFiles"
             Handled ==
                /\ Becomes(IF t \in alive THEN JobFinished(s, t, out) ELSE s)
                /\ IF Removed THEN RemoveNative(t, al)
                   ELSE alerts' = al /\ UNCHANGED <<inSession, noMetadata, place, complete>>
                /\ UNCHANGED stalled
             NotFound ==
                /\ Becomes(IF type = "moved" THEN s ELSE Current)
                /\ stalled' = (stalled \/ type = "moveFailed")
                /\ alerts' = al
                /\ UNCHANGED <<inSession, noMetadata, place, complete>>
             NextFails ==
                /\ \E next \in Started(rest) : ~IsCurrent(next)
                /\ Becomes(c)
                /\ alerts' = al
                /\ stalled' = TRUE
                /\ UNCHANGED <<inSession, noMetadata, place, complete>>
  <1>8. AlertIs(type) /\ UNCHANGED <<alive, removing, handle, search, deleting, bounds>>
    BY DEF MoveJobFinished
  <1>9. Handled \/ NotFound \/ NextFails
    BY <1>1, <1>2, <1>3, <1>4, <1>5, <1>6, <1>7 DEF MoveJobFinished
  <1>10. Answered(type, job, rest, al)
    BY <1>1, <1>2, <1>3, <1>8, AnsweredIs
  <1>11. /\ stalled \in BOOLEAN /\ RestPart /\ Current \in States /\ PathsPart(Current, alive)
         /\ stalled => failures > 0 \/ \E x \in Torrent : handle[x] > 1
    BY InvFacts DEF RestPart, Good
  <1>12. /\ s \in States /\ s.queue = rest /\ s.moves = Started(rest) /\ s.moving = moving
         /\ s.savePath = savePath /\ s.location = location /\ s.temp = temp /\ s.renames = renames
         /\ s.triggers = triggers /\ s.seedStatus = seedStatus /\ s.seed = seed
    <2>1. rest \in Seq(Job) /\ moves \cup Started(rest) = Started(rest) /\ Started(rest) \subseteq Job
      BY <1>10, NextStarted DEF Answered
    <2>2. PICK mv : mv = Started(rest)
      OBVIOUS
    <2>3. s = [Current EXCEPT !.queue = rest, !.moves = mv]
      BY <1>6, <2>1, <2>2, InvFacts
    <2>4. /\ s \in States /\ s.queue = rest /\ s.moves = mv /\ s.moving = Current.moving
          /\ s.savePath = Current.savePath /\ s.location = Current.location /\ s.temp = Current.temp
          /\ s.renames = Current.renames /\ s.triggers = Current.triggers
          /\ s.seedStatus = Current.seedStatus /\ s.seed = Current.seed
      BY <1>11, <2>1, <2>2, <2>3 DEF States
    <2>5. QED BY <2>2, <2>4, InvFacts
  <1>13. /\ c \in States /\ c.queue = rest /\ c.moves = {} /\ c.moving = moving
         /\ c.savePath = savePath /\ c.location = location
    <2>1. rest \in Seq(Job) /\ moves = {}
      BY <1>10 DEF Answered
    <2>2. /\ c \in States /\ c.queue = rest /\ c.moves = Current.moves /\ c.moving = Current.moving
          /\ c.savePath = Current.savePath /\ c.location = Current.location
      BY <1>7, <1>11, <2>1 DEF States
    <2>3. QED BY <2>1, <2>2, InvFacts
  <1>14. OnePart(rest) /\ JobsPart(rest, moving, handle, inSession, alive, removing)
    BY <1>10 DEF Answered
  <1>15. PathsPart(s, alive) /\ PathsPart(c, alive)
    BY <1>12, <1>13, InvQueue DEF PathsPart
  <1>16. ASSUME NEW st PROVE Good(s, al, st)
    <2>1. AlertsPart(rest, Started(rest), al, st, failures)
      BY <1>10, NextStarted
    <2>2. QED BY <1>12, <1>14, <1>15, <2>1 DEF Good
  <1>17. CASE Handled
    <2>1. CASE t \in alive
      <3>1. PICK e : e = JobFinished(s, t, out)
        OBVIOUS
      <3>2. out \in BOOLEAN
        BY <1>5 DEF Outstanding
      <3>3. Good(s, al, stalled)
        BY <1>16
      <3>4. Good(e, al, stalled)
        BY <1>4, <1>5, <1>10, <1>12, <2>1, <3>1, <3>2, <3>3, JobFinishedGood
      <3>5. /\ Becomes(e) /\ alerts' = al /\ stalled' = stalled
            /\ UNCHANGED <<inSession, noMetadata, place, complete>>
        BY <1>17, <2>1, <3>1
      <3>6. QED BY <1>8, <1>10, <1>11, <3>4, <3>5, AnsweredInv
    <2>2. CASE t \notin alive /\ ~Removed
      <3>1. /\ Becomes(s) /\ alerts' = al /\ stalled' = stalled
            /\ UNCHANGED <<inSession, noMetadata, place, complete>>
        BY <1>17, <2>2
      <3>2. Good(s, al, stalled)
        BY <1>16
      <3>3. QED BY <1>8, <1>10, <1>11, <3>1, <3>2, AnsweredInv
    <2>3. CASE Removed
      <3>1. Becomes(s) /\ RemoveNative(t, al) /\ stalled' = stalled
        BY <1>17, <2>3
      <3>2. /\ queue' = rest /\ moves' = Started(rest) /\ UNCHANGED temp /\ UNCHANGED torrent
        BY <1>12, <3>1 DEF Becomes, torrent
      <3>3. t \notin alive /\ ~Outstanding(rest, job)
        BY <1>5, <2>3
      <3>4. QED BY <1>4, <1>8, <1>10, <3>1, <3>2, <3>3, LeavesInv
    <2>4. QED BY <2>1, <2>2, <2>3
  <1>18. CASE NotFound
    <2>1. PICK st \in BOOLEAN : st = (stalled \/ type = "moveFailed")
      OBVIOUS
    <2>2. st => failures > 0 \/ \E x \in Torrent : handle[x] > 1
      BY <1>10, <1>11, <2>1 DEF Answered
    <2>3. CASE type = "moved"
      <3>1. Becomes(s) /\ alerts' = al /\ stalled' = st
        BY <1>18, <2>1, <2>3
      <3>2. Good(s, al, st)
        BY <1>16
      <3>3. UNCHANGED <<inSession, noMetadata, place, complete>>
        BY <1>18
      <3>4. QED BY <1>8, <1>10, <2>2, <3>1, <3>2, <3>3, AnsweredInv
    <2>4. CASE type = "moveFailed"
      <3>1. Becomes(Current) /\ alerts' = al /\ stalled' = st /\ st = TRUE
        BY <1>18, <2>1, <2>4
      <3>2. AlertsPart(queue, moves, al, st, failures)
        BY <1>10, <3>1 DEF Answered, AlertsPart
      <3>3. Good(Current, al, st)
        BY <3>2, InvFacts DEF Good
      <3>4. UNCHANGED <<inSession, noMetadata, place, complete>>
        BY <1>18
      <3>5. QED BY <1>8, <1>10, <2>2, <3>1, <3>3, <3>4, AnsweredInv
    <2>5. QED BY <2>3, <2>4
  <1>19. CASE NextFails
    <2>1. PICK next \in Started(rest) : ~IsCurrent(next)
      BY <1>19
    <2>2. rest # << >> /\ next = Head(rest)
      BY <2>1 DEF Started
    <2>3. 1 \in DOMAIN rest /\ next = rest[1]
      <3>1. rest \in Seq(Job)
        BY <1>10 DEF Answered
      <3>2. Head(rest) = rest[1] /\ Len(rest) \in Nat \ {0} /\ DOMAIN rest = 1 .. Len(rest)
        BY <2>2, <3>1, TailIn
      <3>3. QED BY <2>2, <3>2
    <2>4. /\ next \in Job /\ JobFine(next, moving, handle, inSession, alive, removing)
          /\ Present(next, handle, inSession)
      BY <1>10, <2>3 DEF Answered
    <2>5. next.torrent \in Torrent /\ handle[next.torrent] > 1
      <3>1. /\ next.torrent \in Torrent /\ next.handle \in Nat /\ handle[next.torrent] \in Nat
        BY <1>11, <2>4 DEF Job, RestPart
      <3>2. next.handle >= 1 /\ next.handle <= handle[next.torrent]
        BY <2>4 DEF JobFine
      <3>3. handle[next.torrent] = 1 => next.torrent \in inSession
        BY <2>4 DEF Present
      <3>4. ~(next.torrent \in inSession /\ next.handle = handle[next.torrent])
        BY <2>1 DEF IsCurrent
      <3>5. handle[next.torrent] = 1 => next.handle = 1
        BY <3>1, <3>2
      <3>6. QED BY <3>1, <3>2, <3>3, <3>4, <3>5
    <2>6. AlertsPart(rest, {}, al, TRUE, failures)
      BY <1>10 DEF Answered, AlertsPart
    <2>7. Good(c, al, TRUE)
      BY <1>13, <1>14, <1>15, <2>6 DEF Good
    <2>8. /\ Becomes(c) /\ alerts' = al /\ stalled' = TRUE
          /\ UNCHANGED <<inSession, noMetadata, place, complete>>
      BY <1>19
    <2>9. \E x \in Torrent : handle[x] > 1
      BY <2>5
    <2>10. TRUE \in BOOLEAN
      OBVIOUS
    <2>11. QED BY <1>8, <1>10, <2>7, <2>8, <2>9, <2>10, AnsweredInv
  <1>20. QED BY <1>9, <1>17, <1>18, <1>19

-----------------------------------------------------------------------------
(* The torrents settle, step by step *)

LEMMA SettleFacts ==
  ASSUME SettleInv, NEW t \in alive \ noMetadata, Watched(t, handle, failures)
  PROVE  /\ AlertsTell(alerts, t, place, complete)
         /\ Settles(Current, alerts, t, FALSE, place, complete)
  BY DEF SettleInv

\* What is to be shown of a step, when c is the record after it
LEMMA SettleAfter ==
  ASSUME NEW c, c = Current', \A t \in Torrent \ alive' : ~c.seedStatus[t],
         \A t \in alive' \ noMetadata' : Watched(t, handle', failures') =>
            /\ AlertsTell(alerts', t, place', complete')
            /\ Settles(c, alerts', t, FALSE, place', complete')
  PROVE  SettleInv'
  <1>1. seedStatus' = c.seedStatus
    BY DEF Current
  <1>2. QED BY <1>1 DEF SettleInv

\* A step of the torrent u that leaves the others and libtorrent alone. It may take an
\* alert, which is of u or tells nobody of the end of a download or a check.
LEMMA SettleBecomes ==
  ASSUME Inv, SettleInv, NEW u \in alive, NEW s \in States, Becomes(s),
         \A t \in Torrent \ {u} : SameAt(Current, s, t),
         UNCHANGED <<alive, handle, noMetadata, place, complete, failures>>,
         NEW al, alerts' = al,
         \A t \in alive \ noMetadata : Watched(t, handle, failures) =>
            /\ AlertsTell(al, t, place, complete)
            /\ t # u => (Told(al, t) = {} <=> Told(alerts, t) = {}),
         u \notin noMetadata /\ Watched(u, handle, failures) => Settles(s, al, u, FALSE, place, complete)
  PROVE  SettleInv'
  <1>1. s = Current'
    BY BecomesIs
  <1>2. ASSUME NEW t \in Torrent \ alive PROVE ~s.seedStatus[t]
    <2>1. t # u /\ ~seedStatus[t]
      BY <1>2 DEF SettleInv
    <2>2. SameAt(Current, s, t)
      BY <1>2, <2>1
    <2>3. QED BY <2>1, <2>2, InvFacts DEF SameAt
  <1>3. ASSUME NEW t \in alive \ noMetadata, Watched(t, handle, failures)
        PROVE  AlertsTell(al, t, place, complete) /\ Settles(s, al, t, FALSE, place, complete)
    <2>1. AlertsTell(al, t, place, complete)
      BY <1>3
    <2>2. CASE t = u
      BY <1>3, <2>1, <2>2
    <2>3. CASE t # u
      <3>1. t \in Torrent
        BY InvFacts, Alive
      <3>2. SameAt(Current, s, t) /\ (Told(al, t) = {} <=> Told(alerts, t) = {})
        BY <1>3, <2>3, <3>1
      <3>3. Settles(Current, alerts, t, FALSE, place, complete)
        BY <1>3, SettleFacts
      <3>4. Settles(s, al, t, FALSE, place, complete)
        BY <3>2, <3>3, SettlesSame
      <3>5. QED BY <2>1, <3>4
    <2>4. QED BY <2>2, <2>3
  <1>4. QED BY <1>1, <1>2, <1>3, SettleAfter

\* It takes no alert.
LEMMA SettleQuietly ==
  ASSUME Inv, SettleInv, NEW u \in alive, NEW s \in States, Becomes(s),
         \A t \in Torrent \ {u} : SameAt(Current, s, t),
         UNCHANGED <<alive, handle, noMetadata, place, complete, failures, alerts>>,
         u \notin noMetadata /\ Watched(u, handle, failures) => Settles(s, alerts, u, FALSE, place, complete)
  PROVE  SettleInv'
  <1>1. \A t \in alive \ noMetadata : Watched(t, handle, failures) => AlertsTell(alerts, t, place, complete)
    BY SettleFacts
  <1>2. PICK al : al = alerts
    OBVIOUS
  <1>3. /\ alerts' = al
        /\ \A t \in alive \ noMetadata : Watched(t, handle, failures) =>
            /\ AlertsTell(al, t, place, complete)
            /\ t # u => (Told(al, t) = {} <=> Told(alerts, t) = {})
        /\ u \notin noMetadata /\ Watched(u, handle, failures) => Settles(s, al, u, FALSE, place, complete)
    BY <1>1, <1>2
  <1>4. QED BY <1>3, SettleBecomes

LEMMA SetLocationSettles ==
  ASSUME Inv, SettleInv, NEW t \in Torrent, NEW p \in Place, SetLocation(t, p)
  PROVE  SettleInv'
  <1>1. t \in alive /\ p \in Path /\ RestPart /\ Good(Current, alerts, stalled)
    BY InvFacts DEF SetLocation, Path
  <1>2. PICK s : s = Move(Current, t, p)
    OBVIOUS
  <1>3. s \in States /\ Apart(Current, s, t)
    BY <1>1, <1>2, MoveGood, MoveApart DEF Good
  <1>4. Becomes(s) /\ UNCHANGED <<alive, handle, noMetadata, place, complete, failures, alerts>>
    BY <1>2 DEF SetLocation, bounds
  <1>5. ASSUME t \notin noMetadata, Watched(t, handle, failures)
        PROVE  Settles(s, alerts, t, FALSE, place, complete)
    <2>1. Settles(Current, alerts, t, FALSE, place, complete) /\ handle[t] = 1
      BY <1>1, <1>5, SettleFacts DEF Watched
    <2>2. QED BY <1>1, <1>2, <2>1, MoveOwn
  <1>6. QED BY <1>1, <1>3, <1>4, <1>5, SettleQuietly DEF Apart

LEMMA RenameFileSettles ==
  ASSUME Inv, SettleInv, NEW t \in Torrent, RenameFile(t)
  PROVE  SettleInv'
  <1>1. PICK n : n = renames[t] + 1
    OBVIOUS
  <1>2. n \in Nat /\ t \in alive
    BY <1>1, InvFacts, StateType DEF RenameFile
  <1>3. PICK s : s = [Current EXCEPT !.renames[t] = n]
    OBVIOUS
  <1>4. s \in States
    BY <1>2, <1>3, InvFacts, RenamesGood DEF Good
  <1>5. /\ renames' = [renames EXCEPT ![t] = n]
        /\ UNCHANGED <<session, savePath, moving, triggers, seedStatus, location, seed, handle,
                       search, native, alerts, stalled, bounds>>
    BY <1>1 DEF RenameFile
  <1>6. Becomes(s) /\ UNCHANGED <<alive, handle, noMetadata, place, complete, failures, alerts>>
    BY <1>3, <1>5 DEF Becomes, Current, session, native, bounds
  <1>7. \A x : SameAt(Current, s, x)
    BY <1>3, InvFacts, RenamesSame
  <1>8. ASSUME t \notin noMetadata, Watched(t, handle, failures)
        PROVE  Settles(s, alerts, t, FALSE, place, complete)
    <2>1. Settles(Current, alerts, t, FALSE, place, complete)
      BY <1>2, <1>8, SettleFacts
    <2>2. QED BY <1>7, <2>1, SettlesSame
  <1>9. QED BY <1>2, <1>4, <1>6, <1>7, <1>8, SettleQuietly

LEMMA HandleStateUpdateSettles ==
  ASSUME Inv, SettleInv, NEW t \in Torrent, HandleStateUpdate(t)
  PROVE  SettleInv'
  <1>1. t \in alive /\ Current \in States /\ RestPart /\ Good(Current, alerts, stalled)
    BY InvFacts DEF HandleStateUpdate
  <1>2. PICK s : s = UpdateStatus(Current, t)
    OBVIOUS
  <1>3. s \in States /\ Apart(Current, s, t)
    BY <1>1, <1>2, UpdatedGood, UpdatedApart DEF Good
  <1>4. Becomes(s) /\ UNCHANGED <<alive, handle, noMetadata, place, complete, failures, alerts>>
    BY <1>2 DEF HandleStateUpdate, bounds
  <1>5. ASSUME t \notin noMetadata, Watched(t, handle, failures)
        PROVE  Settles(s, alerts, t, FALSE, place, complete)
    <2>1. Settles(Current, alerts, t, FALSE, place, complete)
      BY <1>1, <1>5, SettleFacts
    <2>2. QED BY <1>1, <1>2, <2>1, UpdatedOwn
  <1>6. QED BY <1>1, <1>3, <1>4, <1>5, SettleQuietly DEF Apart

LEMMA HandleFileRenamedSettles ==
  ASSUME Inv, SettleInv, NEW t \in Torrent, HandleFileRenamed(t)
  PROVE  SettleInv'
  <1>1. t \in alive /\ renames[t] > 0 /\ RestPart /\ Good(Current, alerts, stalled)
    BY InvFacts DEF HandleFileRenamed
  <1>2. PICK n : n = renames[t] - 1
    OBVIOUS
  <1>3. n \in Nat
    BY <1>1, <1>2, InvFacts, StateType
  <1>4. PICK s1 : s1 = [Current EXCEPT !.renames[t] = n]
    OBVIOUS
  <1>5. Good(s1, alerts, stalled)
    BY <1>1, <1>3, <1>4, RenamesGood
  <1>6. \A x : SameAt(Current, s1, x)
    BY <1>4, InvFacts, RenamesSame
  <1>7. s1 = [Current EXCEPT !.renames[t] = @ - 1]
    BY <1>2, <1>4, InvFacts
  <1>8. PICK s : s = RunAll(s1, t, TRUE)
    OBVIOUS
  <1>9. s \in States /\ Apart(s1, s, t)
    BY <1>1, <1>5, <1>8, RunAllGood, RunAllApart DEF Good
  <1>10. \A x \in Torrent \ {t} : SameAt(Current, s, x)
    BY <1>6, <1>9, SameTransitive DEF Apart
  <1>11. Becomes(s) /\ UNCHANGED <<alive, handle, noMetadata, place, complete, failures, alerts>>
    BY <1>7, <1>8 DEF HandleFileRenamed, bounds
  <1>12. ASSUME t \notin noMetadata, Watched(t, handle, failures)
         PROVE  Settles(s, alerts, t, FALSE, place, complete)
    <2>1. Settles(Current, alerts, t, FALSE, place, complete) /\ handle[t] = 1
      BY <1>1, <1>12, SettleFacts DEF Watched
    <2>2. Settles(s1, alerts, t, FALSE, place, complete)
      BY <1>6, <2>1, SettlesSame
    <2>3. PICK b \in BOOLEAN : b = TRUE
      OBVIOUS
    <2>4. (~b) = FALSE
      BY <2>3
    <2>5. Settles(s1, alerts, t, ~b, place, complete) /\ s = RunAll(s1, t, b)
      BY <1>8, <2>2, <2>3, <2>4
    <2>6. Settles(s, alerts, t, ~b, place, complete)
      BY <1>1, <1>5, <2>1, <2>5, RunAllOwn
    <2>7. QED BY <2>4, <2>6
  <1>13. QED BY <1>1, <1>9, <1>10, <1>11, <1>12, SettleQuietly

\* An order of the torrents holds every one of them.
LEMMA OrderHas ==
  ASSUME RestPart, NEW order \in SetToSeqs(alive), NEW t \in alive
  PROVE  order \in Seq(alive) /\ \E n \in 1 .. Len(order) : order[n] = t
  <1>1. IsFiniteSet(Torrent) /\ alive \in SUBSET Torrent
    BY MoveStorageAssumption DEF RestPart
  <1>2. IsFiniteSet(alive)
    BY <1>1, FS_Subset
  <1>3. PICK N : N = Cardinality(alive)
    OBVIOUS
  <1>4. N \in Nat
    BY <1>2, <1>3, FS_CardinalityType
  <1>5. order \in [1 .. N -> alive] /\ \A i, j \in 1 .. N : i # j => order[i] # order[j]
    BY <1>3 DEF SetToSeqs
  <1>6. order \in Seq(alive) /\ Len(order) = N
    <2>1. order \in Seq(alive)
      BY <1>4, <1>5, SeqDef
    <2>2. QED BY <1>4, <1>5, <2>1, LenProperties
  <1>7. ASSUME \A n \in 1 .. N : order[n] # t PROVE FALSE
    <2>1. order \in [1 .. N -> alive \ {t}]
      BY <1>5, <1>7
    <2>2. IsFiniteSet(alive \ {t}) /\ Cardinality(alive \ {t}) = N - 1
      BY <1>2, <1>3, FS_RemoveElement
    <2>3. IsFiniteSet(1 .. N) /\ Cardinality(1 .. N) = N
      <3>1. 1 \in Int /\ N \in Int
        BY <1>4
      <3>2. IsFiniteSet(1 .. N) /\ Cardinality(1 .. N) = IF 1 > N THEN 0 ELSE N - 1 + 1
        BY <3>1, FS_Interval
      <3>3. QED BY <1>4, <3>2
    <2>4. Cardinality(alive \ {t}) < Cardinality(1 .. N)
      BY <1>4, <2>2, <2>3
    <2>5. PICK S, T : S = 1 .. N /\ T = alive \ {t}
      OBVIOUS
    <2>6. \E x, y \in S : x # y /\ order[x] = order[y]
      BY <2>1, <2>2, <2>3, <2>4, <2>5, FS_PigeonHole
    <2>7. QED BY <1>5, <2>5, <2>6
  <1>8. QED BY <1>6, <1>7

LEMMA SetTempPathEnabledSettles ==
  ASSUME Inv, SettleInv, NEW enabled \in BOOLEAN, SetTempPathEnabled(enabled)
  PROVE  SettleInv'
  <1>1. PICK s1 : s1 = [Current EXCEPT !.temp = enabled]
    OBVIOUS
  <1>2. /\ s1 \in States /\ s1.queue = Current.queue /\ s1.moves = Current.moves
        /\ s1.moving = Current.moving /\ s1.savePath = Current.savePath
        /\ s1.location = Current.location /\ s1.seed = Current.seed
        /\ s1.seedStatus = Current.seedStatus
    BY <1>1, InvFacts DEF States
  <1>3. Good(s1, alerts, stalled) /\ RestPart
    <2>1. Good(Current, alerts, stalled) /\ PathsPart(Current, alive)
      BY InvFacts DEF Good
    <2>2. PathsPart(s1, alive)
      BY <1>2, <2>1 DEF PathsPart
    <2>3. QED BY <1>2, <2>1, <2>2, InvFacts, GoodSame
  <1>4. PICK order \in SetToSeqs(alive) : Becomes(AdjustAll(s1, order))
    BY <1>1 DEF SetTempPathEnabled
  <1>5. PICK s : s = AdjustAll(s1, order)
    OBVIOUS
  <1>6. order \in Seq(alive)
    BY <1>3, OrderIs
  <1>7. s \in States /\ s.seedStatus = seedStatus
    BY <1>2, <1>3, <1>5, <1>6, InvFacts, AdjustAllGood, AdjustAllSeedStatus DEF Good
  <1>8. s = Current'
    BY <1>4, <1>5, <1>7, BecomesIs
  <1>9. UNCHANGED <<alive, handle, noMetadata, place, complete, failures, alerts>>
    BY DEF SetTempPathEnabled
  <1>10. \A t \in Torrent \ alive : ~s.seedStatus[t]
    BY <1>7 DEF SettleInv
  <1>11. ASSUME NEW t \in alive \ noMetadata, Watched(t, handle, failures)
         PROVE  /\ AlertsTell(alerts, t, place, complete)
                /\ Settles(s, alerts, t, FALSE, place, complete)
    <2>1. /\ AlertsTell(alerts, t, place, complete) /\ handle[t] = 1
          /\ Shown(Current, alerts, t, place, complete)
      BY <1>11, SettleFacts DEF Settles, Watched
    <2>2. Shown(s1, alerts, t, place, complete)
      BY <1>2, <2>1 DEF Shown
    <2>3. \E n \in 1 .. Len(order) : order[n] = t
      BY <1>3, OrderHas
    <2>4. Settles(s, alerts, t, FALSE, place, complete)
      BY <1>3, <1>5, <1>6, <2>1, <2>2, <2>3, AdjustAllOwn
    <2>5. QED BY <2>1, <2>4
  <1>12. QED BY <1>8, <1>9, <1>10, <1>11, SettleAfter

\* An alert is taken that is of u, or that tells of no end of a download or a check.
LEMMA TakenTells ==
  ASSUME Inv, SettleInv, alerts # << >>, NEW al, al = Tail(alerts), NEW u,
         Head(alerts).type \in {"finished", "checked"} => Head(alerts).torrent = u,
         NEW t \in alive \ noMetadata, Watched(t, handle, failures)
  PROVE  /\ AlertsTell(al, t, place, complete)
         /\ t # u => (Told(al, t) = {} <=> Told(alerts, t) = {})
  <1>1. alerts \in Seq(Alert) /\ Head(alerts) = alerts[1]
    BY InvFacts, TakenIs
  <1>2. t # u => 1 \notin Told(alerts, t)
    BY <1>1 DEF Told
  <1>3. AlertsTell(alerts, t, place, complete)
    BY SettleFacts
  <1>4. QED BY <1>1, <1>2, <1>3, TakenTell

\* The last alert of its kind tells the truth when it tells that t has finished.
LEMMA FinishedTells ==
  ASSUME Inv, alerts # << >>, NEW al, al = Tail(alerts), NEW t,
         Head(alerts).type = "finished", Head(alerts).torrent = t,
         AlertsTell(alerts, t, place, complete), Told(al, t) = {}
  PROVE  t \in complete
  <1>1. /\ Head(alerts) = alerts[1] /\ 1 \in DOMAIN alerts
        /\ \A i \in DOMAIN alerts : i # 1 => i - 1 \in DOMAIN al /\ al[i - 1] = alerts[i]
    BY InvFacts, TakenIs
  <1>2. 1 \in Told(alerts, t)
    BY <1>1 DEF Told
  <1>3. ASSUME NEW j \in Told(alerts, t) PROVE j = 1
    <2>1. CASE j # 1
      <3>1. j - 1 \in Told(al, t)
        BY <1>1, <2>1 DEF Told
      <3>2. QED BY <3>1
    <2>2. QED BY <2>1
  <1>4. \A j \in Told(alerts, t) : j <= 1
    BY <1>3
  <1>5. QED BY <1>1, <1>2, <1>4 DEF AlertsTell

\* An alert changes nothing: it is of a torrent that is not there or has no metadata,
\* or it is no news.
LEMMA TakenSettles ==
  ASSUME Inv, SettleInv, alerts # << >>, alerts' = Tail(alerts), NEW c, c = Current', NEW u,
         Head(alerts).type \in {"finished", "checked"} => Head(alerts).torrent = u,
         \A t \in Torrent : SameAt(Current, c, t),
         UNCHANGED <<alive, handle, noMetadata, place, complete, failures>>,
         u \in alive \ noMetadata => \/ seedStatus[u] /\ Head(alerts).type = "finished"
                                     \/ Head(alerts).type \notin {"finished", "checked"}
  PROVE  SettleInv'
  <1>1. PICK al : al = Tail(alerts)
    OBVIOUS
  <1>2. ASSUME NEW t \in Torrent \ alive PROVE ~c.seedStatus[t]
    <2>1. ~seedStatus[t] /\ SameAt(Current, c, t)
      BY <1>2 DEF SettleInv
    <2>2. QED BY <2>1, InvFacts DEF SameAt
  <1>3. ASSUME NEW t \in alive \ noMetadata, Watched(t, handle, failures)
        PROVE  AlertsTell(al, t, place, complete) /\ Settles(c, al, t, FALSE, place, complete)
    <2>1. /\ AlertsTell(al, t, place, complete)
          /\ t # u => (Told(al, t) = {} <=> Told(alerts, t) = {})
      BY <1>1, <1>3, TakenTells
    <2>2. SameAt(Current, c, t) /\ t \in Torrent
      BY InvFacts, Alive
    <2>3. /\ Settles(Current, alerts, t, FALSE, place, complete)
          /\ AlertsTell(alerts, t, place, complete)
      BY <1>3, SettleFacts
    <2>4. CASE Told(al, t) = {} <=> Told(alerts, t) = {}
      <3>1. Settles(c, al, t, FALSE, place, complete)
        BY <2>2, <2>3, <2>4, SettlesSame
      <3>2. QED BY <2>1, <3>1
    <2>5. CASE ~(Told(al, t) = {} <=> Told(alerts, t) = {})
      <3>1. t = u
        BY <2>1, <2>5
      <3>2. 1 \in Told(alerts, t) /\ Head(alerts) = alerts[1]
        BY <1>1, <2>3, <2>5, InvFacts, TakenTell, TakenIs
      <3>3. seedStatus[t] /\ Head(alerts).type = "finished" /\ Head(alerts).torrent = t
        BY <3>1, <3>2 DEF Told
      <3>4. Told(al, t) = {} => t \in complete
        BY <1>1, <2>3, <3>3, FinishedTells
      <3>5. /\ Known(c, al, t) <=> Known(Current, alerts, t)
            /\ Adjusts(c, t) <=> Adjusts(Current, t)
            /\ ToTemp(c, t) <=> ToTemp(Current, t)
        BY <2>2, <3>3, InvFacts DEF SameAt, Known, Adjusts, ToTemp
      <3>6. Shown(c, al, t, place, complete)
        BY <2>2, <2>3, <3>3, <3>4, InvFacts DEF Settles, Shown, SameAt
      <3>7. Placed(c, al, t) /\ Going(c, al, t, FALSE)
        BY <2>2, <2>3, <3>5 DEF Settles, Placed, Going, SameAt
      <3>8. QED BY <2>1, <3>6, <3>7 DEF Settles
    <2>6. QED BY <2>4, <2>5
  <1>4. QED BY <1>1, <1>2, <1>3, SettleAfter

\* The state that is stored for u changes.
LEMMA SeedStatusIs ==
  ASSUME NEW s \in States, NEW u \in Torrent, NEW b \in BOOLEAN, NEW e, e = [s EXCEPT !.seedStatus[u] = b]
  PROVE  /\ e.queue = s.queue /\ e.moving = s.moving /\ e.temp = s.temp /\ e.seed = s.seed
         /\ e.savePath = s.savePath /\ e.location = s.location /\ e.triggers = s.triggers
         /\ e.seedStatus[u] = b
         /\ \A t \in Torrent \ {u} : SameAt(s, e, t)
  <1> DEFINE g == [s.seedStatus EXCEPT ![u] = b]
  <1>1. e = [s EXCEPT !.seedStatus = g]
    OBVIOUS
  <1>2. g[u] = b /\ \A t \in Torrent \ {u} : g[t] = s.seedStatus[t]
    BY StateType
  <1> HIDE DEF g
  <1>3. /\ e.queue = s.queue /\ e.moving = s.moving /\ e.temp = s.temp /\ e.seed = s.seed
        /\ e.savePath = s.savePath /\ e.location = s.location /\ e.triggers = s.triggers
        /\ e.seedStatus = g
    BY <1>1 DEF States
  <1>4. \A t \in Torrent \ {u} : SameAt(s, e, t)
    BY <1>2, <1>3 DEF SameAt
  <1>5. QED BY <1>2, <1>3, <1>4

\* Work that is not to adjust
Calm(work) == \A i \in DOMAIN work : work[i] # "adjust"

WithWork(s, t, work) == [s EXCEPT !.triggers[t] = @ \o work]

\* It is added to that which waits for t.
LEMMA WorkSettles ==
  ASSUME NEW s \in States, NEW t \in Torrent, NEW work \in Seq(Trigger), Calm(work),
         NEW e, e = WithWork(s, t, work),
         NEW al, NEW pl, NEW co, Settles(s, al, t, FALSE, pl, co)
  PROVE  Settles(e, al, t, FALSE, pl, co)
  <1>0. PICK all : all = s.triggers[t] \o work /\ e = [s EXCEPT !.triggers[t] = all]
    BY DEF WithWork
  <1>1. /\ e.queue = s.queue /\ e.moving = s.moving /\ e.temp = s.temp /\ e.seed = s.seed
        /\ e.savePath = s.savePath /\ e.location = s.location /\ e.seedStatus = s.seedStatus
    BY <1>0, TriggersIs
  <1>2. e.triggers[t] = all
    <2>1. PICK g : g = [s.triggers EXCEPT ![t] = all]
      OBVIOUS
    <2>2. g[t] = all /\ e = [s EXCEPT !.triggers = g]
      BY <1>0, <2>1, StateType
    <2>3. QED BY <2>2 DEF States
  <1>3. PICK q : q = s.triggers[t]
    OBVIOUS
  <1>4. /\ q \in Seq(Trigger) /\ DOMAIN q = 1 .. Len(q) /\ DOMAIN work = 1 .. Len(work)
        /\ Len(q) \in Nat /\ Len(work) \in Nat
        /\ DOMAIN all = 1 .. Len(q) + Len(work)
        /\ \A i \in 1 .. Len(q) : all[i] = q[i]
        /\ \A i \in 1 .. Len(work) : all[Len(q) + i] = work[i]
    <2>1. q \in Seq(Trigger) /\ all = q \o work
      BY <1>0, <1>3, StateType
    <2>2. PICK r : r = q \o work
      OBVIOUS
    <2>3. /\ DOMAIN q = 1 .. Len(q) /\ DOMAIN work = 1 .. Len(work)
          /\ Len(q) \in Nat /\ Len(work) \in Nat
          /\ DOMAIN r = 1 .. Len(q) + Len(work)
          /\ \A i \in 1 .. Len(q) : r[i] = q[i]
          /\ \A i \in 1 .. Len(work) : r[Len(q) + i] = work[i]
      BY <2>1, <2>2, ConcatIn
    <2>4. QED BY <2>1, <2>2, <2>3
  <1>5. Adjusts(e, t) <=> Adjusts(s, t)
    <2>1. ASSUME NEW i \in DOMAIN q, q[i] = "adjust" PROVE i \in DOMAIN all /\ all[i] = "adjust"
      BY <1>4, <2>1
    <2>2. ASSUME NEW i \in DOMAIN all, all[i] = "adjust" PROVE i \in DOMAIN q /\ q[i] = "adjust"
      <3>1. CASE i \in 1 .. Len(q)
        BY <1>4, <2>2, <3>1
      <3>2. CASE i \notin 1 .. Len(q)
        <4>1. i - Len(q) \in 1 .. Len(work) /\ Len(q) + (i - Len(q)) = i
          BY <1>4, <3>2
        <4>2. all[i] = work[i - Len(q)]
          BY <1>4, <4>1
        <4>3. QED BY <1>4, <2>2, <4>1, <4>2 DEF Calm
      <3>3. QED BY <3>1, <3>2
    <2>3. QED BY <1>2, <1>3, <2>1, <2>2 DEF Adjusts
  <1>6. (Known(e, al, t) <=> Known(s, al, t)) /\ (ToTemp(e, t) <=> ToTemp(s, t))
    BY <1>1 DEF Known, ToTemp
  <1>7. QED BY <1>1, <1>5, <1>6 DEF Settles, Shown, Placed, Going

\* The torrent t learns its state, is adjusted, and has files renamed.
LEMMA LearnsOwn ==
  ASSUME RestPart, NEW s, NEW al, NEW st, Good(s, al, st), NEW t \in alive, handle[t] = 1,
         NEW b \in BOOLEAN, Told(al, t) = {} => (b <=> t \in complete),
         NEW s0, s0 = UpdateStatus(s, t), NEW s1, s1 = [s0 EXCEPT !.seedStatus[t] = b],
         NEW s2, s2 = Adjust(s1, t), NEW e \in Renamed(s2, t)
  PROVE  Settles(e, al, t, FALSE, place, complete)
  <1>1. s \in States /\ t \in Torrent
    BY Alive DEF Good
  <1>2. Good(s0, al, st) /\ s0.location[t] = place[t] /\ (s0.seed[t] <=> t \in complete)
    BY <1>1, UpdatedGood, UpdatedIs
  <1>3. Good(s1, al, st)
    BY <1>1, <1>2, SeedStatusGood
  <1>4. s1.location = s0.location /\ s1.seed = s0.seed /\ s1.seedStatus[t] = b
    <2>1. PICK g : g = [s0.seedStatus EXCEPT ![t] = b]
      OBVIOUS
    <2>2. s0 \in States
      BY <1>2 DEF Good
    <2>3. s1 = [s0 EXCEPT !.seedStatus = g] /\ g[t] = b
      BY <1>1, <2>1, <2>2, StateType
    <2>4. QED BY <2>2, <2>3 DEF States
  <1>5. Shown(s1, al, t, place, complete)
    BY <1>2, <1>4 DEF Shown
  <1>6. Good(s2, al, st) /\ Settles(s2, al, t, FALSE, place, complete)
    BY <1>3, <1>5, AdjustGood, AdjustOwn
  <1>7. SameAt(s2, e, t)
    <2>1. PICK n : e = [s2 EXCEPT !.renames[t] = n]
      BY DEF Renamed
    <2>2. QED BY <1>1, <1>6, <2>1, RenamesSame DEF Good
  <1>8. QED BY <1>6, <1>7, SettlesSame

\* The others learn nothing.
LEMMA LearnsApart ==
  ASSUME RestPart, NEW s, NEW al, NEW st, Good(s, al, st), NEW t \in alive, NEW b \in BOOLEAN,
         NEW s0, s0 = UpdateStatus(s, t), NEW s1, s1 = [s0 EXCEPT !.seedStatus[t] = b],
         NEW s2, s2 = Adjust(s1, t), NEW e \in Renamed(s2, t)
  PROVE  Good(e, al, st) /\ \A x \in Torrent \ {t} : SameAt(s, e, x)
  <1>1. s \in States /\ t \in Torrent
    BY Alive DEF Good
  <1>2. Good(s0, al, st) /\ Apart(s, s0, t)
    BY <1>1, UpdatedGood, UpdatedApart
  <1>3. Good(s1, al, st) /\ \A x \in Torrent \ {t} : SameAt(s0, s1, x)
    <2>1. Good(s1, al, st)
      BY <1>1, <1>2, SeedStatusGood
    <2>2. \A x \in Torrent \ {t} : SameAt(s0, s1, x)
      BY <1>1, <1>2, SeedStatusIs DEF Good
    <2>3. QED BY <2>1, <2>2
  <1>4. Good(s2, al, st) /\ Apart(s1, s2, t)
    BY <1>3, AdjustGood, AdjustApart
  <1>5. Good(e, al, st) /\ \A x : SameAt(s2, e, x)
    <2>1. PICK n : e = [s2 EXCEPT !.renames[t] = n]
      BY DEF Renamed
    <2>2. \A x : SameAt(s2, e, x)
      BY <1>1, <1>4, <2>1, RenamesSame DEF Good
    <2>3. QED BY <1>1, <1>4, <2>2, RenamedGood
  <1>6. ASSUME NEW x \in Torrent \ {t} PROVE SameAt(s, e, x)
    <2>1. SameAt(s, s0, x) /\ SameAt(s0, s1, x) /\ SameAt(s1, s2, x) /\ SameAt(s2, e, x)
      BY <1>2, <1>3, <1>4, <1>5 DEF Apart
    <2>2. SameAt(s, s1, x)
      BY <2>1, SameTransitive
    <2>3. SameAt(s, s2, x)
      BY <2>1, <2>2, SameTransitive
    <2>4. QED BY <2>1, <2>3, SameTransitive
  <1>7. QED BY <1>5, <1>6

LEMMA HandleTorrentFinishedSettles ==
  ASSUME Inv, SettleInv, NEW recheck \in BOOLEAN, HandleTorrentFinished(recheck)
  PROVE  SettleInv'
  <1>1. PICK t : t = Head(alerts).torrent
    OBVIOUS
  <1>2. PICK al : al = Tail(alerts)
    OBVIOUS
  <1>3. AlertIs("finished") /\ alerts' = al /\ Head(alerts).type = "finished"
    BY <1>2 DEF HandleTorrentFinished, AlertIs
  <1>4. alerts # << >> /\ ~IsAnswer(Head(alerts)) /\ t \in Torrent
    BY <1>1, <1>3, HeadIsOther
  <1>5. Good(Current, al, stalled) /\ RestPart /\ Current \in States
    BY <1>2, <1>4, OtherTakenGood, InvFacts
  <1>6. UNCHANGED <<alive, handle, noMetadata, place, complete, failures>>
    BY DEF HandleTorrentFinished, bounds
  <1>7. CASE t \notin alive \/ seedStatus[t]
    <2>1. UNCHANGED current
      BY <1>1, <1>7 DEF HandleTorrentFinished
    <2>2. Current = Current'
      BY <1>5, <2>1, CurrentStays, BecomesIs
    <2>3. PICK c : c = Current
      OBVIOUS
    <2>4. \A x \in Torrent : SameAt(Current, c, x)
      BY <2>3 DEF SameAt
    <2>5. c = Current' /\ alerts' = Tail(alerts)
      BY <1>2, <1>3, <2>2, <2>3
    <2>6. Head(alerts).type \in {"finished", "checked"} => Head(alerts).torrent = t
      BY <1>1
    <2>7. t \in alive \ noMetadata => seedStatus[t] /\ Head(alerts).type = "finished"
      BY <1>3, <1>7
    <2>8. QED BY <1>4, <1>6, <2>4, <2>5, <2>6, <2>7, TakenSettles
  <1>8. CASE t \in alive /\ ~seedStatus[t]
    <2>1. PICK work : work = IF recheck THEN <<"recheck", "finished">> ELSE <<"finished">>
      OBVIOUS
    <2>2. work \in Seq(Trigger) /\ Calm(work)
      <3>1. <<"recheck", "finished">> \in Seq(Trigger) /\ <<"finished">> \in Seq(Trigger)
        BY DEF Trigger
      <3>2. CASE recheck
        BY <2>1, <3>1, <3>2 DEF Calm
      <3>3. CASE ~recheck
        BY <2>1, <3>1, <3>3 DEF Calm
      <3>4. QED BY <3>2, <3>3
    <2>3. PICK s0 : s0 = UpdateStatus(Current, t)
      OBVIOUS
    <2>4. PICK s1 : s1 = [s0 EXCEPT !.seedStatus[t] = TRUE]
      OBVIOUS
    <2>5. PICK s2 : s2 = Adjust(s1, t)
      OBVIOUS
    <2>6. PICK s \in Renamed(s2, t) :
             Becomes(IF s.moving[t] \/ s.renames[t] > 0 THEN [s EXCEPT !.triggers[t] = @ \o work] ELSE s)
      BY <1>1, <1>8, <2>1, <2>3, <2>4, <2>5 DEF HandleTorrentFinished
    <2>7. PICK b \in BOOLEAN : b = TRUE
      OBVIOUS
    <2>8. s1 = [s0 EXCEPT !.seedStatus[t] = b]
      BY <2>4, <2>7
    <2>9. Good(s, al, stalled) /\ \A x \in Torrent \ {t} : SameAt(Current, s, x)
      BY <1>5, <1>8, <2>3, <2>5, <2>6, <2>8, LearnsApart
    <2>10. ASSUME t \notin noMetadata, Watched(t, handle, failures)
           PROVE  Settles(s, al, t, FALSE, place, complete)
      <3>1. AlertsTell(alerts, t, place, complete) /\ handle[t] = 1
        BY <1>8, <2>10, SettleFacts DEF Watched
      <3>2. Told(al, t) = {} => t \in complete
        BY <1>1, <1>2, <1>3, <1>4, <3>1, FinishedTells
      <3>3. Told(al, t) = {} => (b <=> t \in complete)
        BY <2>7, <3>2
      <3>4. QED BY <1>5, <1>8, <2>3, <2>5, <2>6, <2>8, <3>1, <3>3, LearnsOwn
    <2>11. PICK all : all = s.triggers[t] \o work
      OBVIOUS
    <2>12. s \in States /\ s.triggers[t] \in Seq(Trigger)
      BY <1>4, <2>9, StateType DEF Good
    <2>13. all \in Seq(Trigger)
      BY <2>2, <2>11, <2>12, ConcatProperties
    <2>14. PICK e : e = [s EXCEPT !.triggers[t] = all]
      OBVIOUS
    <2>15. e \in States /\ Apart(s, e, t)
      BY <1>4, <2>9, <2>12, <2>13, <2>14, TriggersGood, TriggersIs DEF Good
    <2>16. \A x \in Torrent \ {t} : SameAt(Current, e, x)
      BY <2>9, <2>15, SameTransitive DEF Apart
    <2>17. ASSUME t \notin noMetadata, Watched(t, handle, failures)
           PROVE  Settles(e, al, t, FALSE, place, complete)
      <3>1. Settles(s, al, t, FALSE, place, complete)
        BY <2>10, <2>17
      <3>2. t \in Torrent /\ s \in States
        BY <1>4, <2>12
      <3>3. e = WithWork(s, t, work)
        BY <2>11, <2>14 DEF WithWork
      <3>4. QED BY <2>2, <3>1, <3>2, <3>3, WorkSettles
    <2>18. ASSUME NEW x \in alive \ noMetadata, Watched(x, handle, failures)
           PROVE  /\ AlertsTell(al, x, place, complete)
                  /\ x # t => (Told(al, x) = {} <=> Told(alerts, x) = {})
      <3>1. Head(alerts).type \in {"finished", "checked"} => Head(alerts).torrent = t
        BY <1>1
      <3>2. QED BY <1>2, <1>4, <2>18, <3>1, TakenTells
    <2>19. Becomes(e) \/ Becomes(s)
      BY <2>6, <2>11, <2>14
    <2>20. CASE Becomes(e)
      BY <1>3, <1>6, <1>8, <2>15, <2>16, <2>17, <2>18, <2>20, SettleBecomes
    <2>21. CASE Becomes(s)
      BY <1>3, <1>6, <1>8, <2>9, <2>10, <2>12, <2>18, <2>21, SettleBecomes
    <2>22. QED BY <2>19, <2>20, <2>21
  <1>9. QED BY <1>7, <1>8

LEMMA HandleTorrentCheckedSettles ==
  ASSUME Inv, SettleInv, HandleTorrentChecked
  PROVE  SettleInv'
  <1>1. PICK t : t = Head(alerts).torrent
    OBVIOUS
  <1>2. PICK al : al = Tail(alerts)
    OBVIOUS
  <1>3. AlertIs("checked") /\ alerts' = al /\ Head(alerts).type = "checked"
    BY <1>2 DEF HandleTorrentChecked, AlertIs
  <1>4. alerts # << >> /\ ~IsAnswer(Head(alerts)) /\ t \in Torrent
    BY <1>1, <1>3, HeadIsOther
  <1>5. Good(Current, al, stalled) /\ RestPart /\ Current \in States
    BY <1>2, <1>4, OtherTakenGood, InvFacts
  <1>6. UNCHANGED <<alive, handle, noMetadata, place, complete, failures>>
    BY DEF HandleTorrentChecked, bounds
  <1>7. CASE t \notin alive \ noMetadata
    <2>1. UNCHANGED current
      BY <1>1, <1>7 DEF HandleTorrentChecked
    <2>2. Current = Current'
      BY <1>5, <2>1, CurrentStays, BecomesIs
    <2>3. PICK c : c = Current
      OBVIOUS
    <2>4. \A x \in Torrent : SameAt(Current, c, x)
      BY <2>3 DEF SameAt
    <2>5. c = Current' /\ alerts' = Tail(alerts)
      BY <1>2, <1>3, <2>2, <2>3
    <2>6. Head(alerts).type \in {"finished", "checked"} => Head(alerts).torrent = t
      BY <1>1
    <2>7. QED BY <1>4, <1>6, <1>7, <2>4, <2>5, <2>6, TakenSettles
  <1>8. CASE t \in alive \ noMetadata
    <2>1. PICK b : b \in BOOLEAN /\ b = (t \in complete)
      <3>1. (t \in complete) \in BOOLEAN
        OBVIOUS
      <3>2. QED BY <3>1
    <2>2. PICK s0 : s0 = UpdateStatus(Current, t)
      OBVIOUS
    <2>3. PICK s1 : s1 = [s0 EXCEPT !.seedStatus[t] = b]
      OBVIOUS
    <2>4. PICK s2 : s2 = Adjust(s1, t)
      OBVIOUS
    <2>5. PICK s \in Renamed(s2, t) : Becomes(s)
      BY <1>1, <1>8, <2>1, <2>2, <2>3, <2>4 DEF HandleTorrentChecked
    <2>6. Good(s, al, stalled) /\ \A x \in Torrent \ {t} : SameAt(Current, s, x)
      <3>1. b \in BOOLEAN /\ t \in alive
        BY <1>8, <2>1
      <3>2. QED BY <1>5, <2>2, <2>3, <2>4, <2>5, <3>1, LearnsApart
    <2>7. ASSUME t \notin noMetadata, Watched(t, handle, failures)
          PROVE  Settles(s, al, t, FALSE, place, complete)
      <3>1. handle[t] = 1 /\ (b <=> t \in complete)
        BY <2>1, <2>7 DEF Watched
      <3>2. QED BY <1>5, <1>8, <2>1, <2>2, <2>3, <2>4, <2>5, <3>1, LearnsOwn
    <2>8. ASSUME NEW x \in alive \ noMetadata, Watched(x, handle, failures)
          PROVE  /\ AlertsTell(al, x, place, complete)
                 /\ x # t => (Told(al, x) = {} <=> Told(alerts, x) = {})
      <3>1. Head(alerts).type \in {"finished", "checked"} => Head(alerts).torrent = t
        BY <1>1
      <3>2. QED BY <1>2, <1>4, <2>8, <3>1, TakenTells
    <2>9. s \in States
      BY <2>6 DEF Good
    <2>10. QED BY <1>3, <1>6, <1>8, <2>5, <2>6, <2>7, <2>8, <2>9, SettleBecomes
  <1>9. QED BY <1>7, <1>8

\* The end of a removal is told.
LEMMA RemovingSettles ==
  ASSUME Inv, SettleInv, AlertIs("removed") \/ AlertIs("deleted"), alerts' = Tail(alerts),
         UNCHANGED <<alive, queue, temp, torrent, handle, search, native, stalled, bounds>>
  PROVE  SettleInv'
  <1>1. alerts # << >> /\ Head(alerts).type \notin {"finished", "checked"}
    BY DEF AlertIs
  <1>2. UNCHANGED <<alive, handle, noMetadata, place, complete, failures>>
    BY DEF native, bounds
  <1>3. Current' = Current
    BY DEF Current, torrent, native
  <1>4. PICK c : c = Current
    OBVIOUS
  <1>5. \A t \in Torrent : SameAt(Current, c, t)
    BY <1>4 DEF SameAt
  <1>6. c = Current'
    BY <1>3, <1>4
  <1>7. QED BY <1>1, <1>2, <1>5, <1>6, TakenSettles

\* The alerts r tell t no more than al of the end of its download or check.
Untold(al, r, t) == \A i \in DOMAIN r \ DOMAIN al : i \notin Told(r, t)

\* Alerts about u come.
AllAbout(b, u) == \A i \in DOMAIN b : ~IsAnswer(b[i]) /\ b[i].torrent = u

LEMMA SomeMoreTold ==
  ASSUME NEW al \in Seq(Alert), NEW u, NEW b \in Seq(Alert), AllAbout(b, u), NEW r, r = al \o b
  PROVE  /\ Longer(al, r)
         /\ \A t \in Torrent \ {u} : Untold(al, r, t)
         /\ \A i \in DOMAIN b : b[i].type \in {"finished", "checked"} => Told(r, u) # {}
  <1>1. \A i \in DOMAIN b : ~IsAnswer(b[i])
    BY DEF AllAbout
  <1>2. Longer(al, r)
    BY <1>1, SomeMore
  <1>3. /\ DOMAIN al = 1 .. Len(al) /\ DOMAIN b = 1 .. Len(b)
        /\ Len(al) \in Nat /\ Len(b) \in Nat
        /\ DOMAIN r = 1 .. Len(al) + Len(b)
        /\ \A i \in 1 .. Len(b) : r[Len(al) + i] = b[i]
    BY ConcatIn
  <1>4. ASSUME NEW i \in DOMAIN r \ DOMAIN al PROVE r[i].torrent = u
    <2>1. i - Len(al) \in 1 .. Len(b) /\ i = Len(al) + (i - Len(al))
      BY <1>3
    <2>2. r[i] = b[i - Len(al)] /\ i - Len(al) \in DOMAIN b
      BY <1>3, <2>1
    <2>3. QED BY <2>2 DEF AllAbout
  <1>5. ASSUME NEW t \in Torrent \ {u} PROVE Untold(al, r, t)
    <2>1. ASSUME NEW i \in DOMAIN r \ DOMAIN al PROVE i \notin Told(r, t)
      <3>1. r[i].torrent = u /\ t # u
        BY <1>4
      <3>2. QED BY <3>1 DEF Told
    <2>2. QED BY <2>1 DEF Untold
  <1>6. ASSUME NEW i \in DOMAIN b, b[i].type \in {"finished", "checked"} PROVE Told(r, u) # {}
    <2>1. Len(al) + i \in DOMAIN r /\ r[Len(al) + i] = b[i]
      BY <1>3
    <2>2. b[i].torrent = u
      BY DEF AllAbout
    <2>3. Len(al) + i \in Told(r, u)
      BY <1>6, <2>1, <2>2 DEF Told
    <2>4. QED BY <2>3
  <1>7. QED BY <1>2, <1>5, <1>6

\* One alert more about u: it tells u something, or it tells nobody of such an end. When
\* it is of a check it is the last of its kind.
LEMMA OneMoreTold ==
  ASSUME NEW al \in Seq(Alert), NEW type \in {"finished", "checked", "removed", "deleted"},
         NEW u \in Torrent, NEW r, r = Append(al, About(type, u))
  PROVE  /\ Longer(al, r)
         /\ \A t \in Torrent \ {u} : Untold(al, r, t)
         /\ type \in {"removed", "deleted"} => \A t \in Torrent : Untold(al, r, t)
         /\ type = "checked" =>
               /\ Told(r, u) # {}
               /\ \A i \in Told(r, u) : (\A j \in Told(r, u) : j <= i) => r[i].type = "checked"
  <1>1. PICK a : a = About(type, u)
    OBVIOUS
  <1>2. a \in Alert /\ a.type = type /\ a.torrent = u
    BY <1>1, AboutIsNoAnswer DEF About
  <1>3. /\ DOMAIN al = 1 .. Len(al) /\ Len(al) \in Nat
        /\ DOMAIN r = 1 .. Len(al) + 1
        /\ r[Len(al) + 1] = a
    BY <1>1, <1>2, AppendIn
  <1>4. \A i \in DOMAIN r \ DOMAIN al : i = Len(al) + 1 /\ r[i] = a
    BY <1>3
  <1>5. ASSUME NEW t \in Torrent, t # u \/ type \in {"removed", "deleted"} PROVE Untold(al, r, t)
    <2>1. ASSUME NEW i \in DOMAIN r \ DOMAIN al PROVE i \notin Told(r, t)
      <3>1. r[i] = a
        BY <1>4
      <3>2. QED BY <1>2, <1>5, <3>1 DEF Told
    <2>2. QED BY <2>1 DEF Untold
  <1>6. ASSUME type = "checked"
        PROVE  /\ Told(r, u) # {}
               /\ \A i \in Told(r, u) : (\A j \in Told(r, u) : j <= i) => r[i].type = "checked"
    <2>1. Len(al) + 1 \in Told(r, u)
      BY <1>2, <1>3, <1>6 DEF Told
    <2>2. ASSUME NEW i \in Told(r, u), \A j \in Told(r, u) : j <= i PROVE r[i].type = "checked"
      <3>1. i \in 1 .. Len(al) + 1 /\ Len(al) + 1 <= i
        BY <1>3, <2>1, <2>2 DEF Told
      <3>2. i = Len(al) + 1
        BY <1>3, <3>1
      <3>3. QED BY <1>2, <1>3, <1>6, <3>2
    <2>3. QED BY <2>1, <2>2
  <1>7. Longer(al, r)
    BY OneMore
  <1>8. QED BY <1>5, <1>6, <1>7

\* A step leaves the torrent t alone: what is known of it is the same in c, the new
\* alerts al tell it nothing, and neither its native torrent nor that one's data change.
Kept(t, c, al, ha, pl, co) ==
    /\ SameAt(Current, c, t) /\ Untold(alerts, al, t)
    /\ ha[t] = handle[t] /\ pl[t] = place[t] /\ (t \in co <=> t \in complete)

LEMMA KeptSettles ==
  ASSUME Inv, SettleInv, NEW t \in alive \ noMetadata, NEW c, NEW al, Longer(alerts, al),
         NEW ha, NEW pl, NEW co, Kept(t, c, al, ha, pl, co), Watched(t, ha, failures)
  PROVE  AlertsTell(al, t, pl, co) /\ Settles(c, al, t, FALSE, pl, co)
  <1>1. Watched(t, handle, failures)
    BY DEF Watched, Kept
  <1>2. AlertsTell(alerts, t, place, complete) /\ Settles(Current, alerts, t, FALSE, place, complete)
    BY <1>1, SettleFacts
  <1>3. \A i \in DOMAIN al \ DOMAIN alerts : i \notin Told(al, t)
    BY DEF Kept, Untold
  <1>4. SameAt(Current, c, t) /\ pl[t] = place[t] /\ (t \in co <=> t \in complete)
    BY DEF Kept
  <1>5. AlertsTell(al, t, pl, co) /\ Told(al, t) = Told(alerts, t)
    BY <1>2, <1>3, <1>4, LongerTell
  <1>6. Told(al, t) = {} <=> Told(alerts, t) = {}
    BY <1>5
  <1>7. Settles(c, al, t, FALSE, pl, co)
    BY <1>2, <1>4, <1>6, SettlesSame
  <1>8. QED BY <1>5, <1>7

\* A step of u that leaves the others alone, and in which alerts may come
LEMMA StepSettles ==
  ASSUME Inv, SettleInv, NEW u \in Torrent, NEW c, c = Current', NEW al, al = alerts',
         NEW ha, ha = handle', NEW pl, pl = place', NEW co, co = complete',
         NEW alv, alv = alive', NEW no, no = noMetadata', failures' = failures,
         alv \ {u} = alive \ {u}, no \ {u} = noMetadata \ {u},
         Longer(alerts, al), \A t \in Torrent \ {u} : Kept(t, c, al, ha, pl, co),
         u \notin alv => ~c.seedStatus[u],
         u \in alv \ no /\ Watched(u, ha, failures) =>
            AlertsTell(al, u, pl, co) /\ Settles(c, al, u, FALSE, pl, co)
  PROVE  SettleInv'
  <1>1. ASSUME NEW t \in Torrent \ alv PROVE ~c.seedStatus[t]
    <2>1. CASE t = u
      BY <1>1, <2>1
    <2>2. CASE t # u
      <3>1. t \notin alive /\ Kept(t, c, al, ha, pl, co)
        BY <1>1, <2>2
      <3>2. ~seedStatus[t] /\ SameAt(Current, c, t)
        BY <1>1, <3>1 DEF SettleInv, Kept
      <3>3. QED BY <3>2, InvFacts DEF SameAt
    <2>3. QED BY <2>1, <2>2
  <1>2. ASSUME NEW t \in alv \ no, Watched(t, ha, failures)
        PROVE  AlertsTell(al, t, pl, co) /\ Settles(c, al, t, FALSE, pl, co)
    <2>1. CASE t = u
      BY <1>2, <2>1
    <2>2. CASE t # u
      <3>1. t \in alive \ noMetadata
        BY <1>2, <2>2
      <3>2. t \in Torrent
        BY <3>1, InvFacts DEF RestPart
      <3>3. Kept(t, c, al, ha, pl, co)
        BY <2>2, <3>2
      <3>4. QED BY <1>2, <3>1, <3>3, KeptSettles
    <2>3. QED BY <2>1, <2>2
  <1>3. QED BY <1>1, <1>2, SettleAfter

\* Nothing of what is known changes.
LEMMA StaysSettled ==
  ASSUME Inv, SettleInv, UNCHANGED <<alive, noMetadata, handle, failures, alerts, place, complete>>,
         Current' = Current
  PROVE  SettleInv'
  <1>1. PICK c : c = Current
    OBVIOUS
  <1>2. c = Current' /\ c.seedStatus = seedStatus
    BY <1>1, InvFacts
  <1>3. \A t \in Torrent \ alive : ~c.seedStatus[t]
    BY <1>2 DEF SettleInv
  <1>4. \A t \in alive \ noMetadata : Watched(t, handle, failures) =>
           AlertsTell(alerts, t, place, complete) /\ Settles(c, alerts, t, FALSE, place, complete)
    BY <1>1, SettleFacts
  <1>5. QED BY <1>2, <1>3, <1>4, SettleAfter

LEMMA LookForFilesSettles ==
  ASSUME Inv, SettleInv, NEW t \in Torrent, LookForFiles(t)
  PROVE  SettleInv'
  <1>1. UNCHANGED <<session, torrent, handle, native, alerts, bounds>>
    BY DEF LookForFiles
  <1>2. Current' = Current
    BY <1>1 DEF Current, session, torrent, native
  <1>3. UNCHANGED <<alive, noMetadata, handle, failures, alerts, place, complete>>
    BY <1>1 DEF session, native, bounds
  <1>4. QED BY <1>2, <1>3, StaysSettled

LEMMA NativeDeletesSettles ==
  ASSUME Inv, SettleInv, NEW u \in Torrent, NativeDeletes(u)
  PROVE  SettleInv'
  <1>1. /\ alerts' = Append(alerts, About("deleted", u))
        /\ UNCHANGED <<session, torrent, handle, noMetadata, place, complete, moves, bounds>>
    BY DEF NativeDeletes
  <1>2. PICK c : c = Current
    OBVIOUS
  <1>3. c = Current'
    BY <1>1, <1>2 DEF Current, session, torrent
  <1>4. PICK al : al = alerts'
    OBVIOUS
  <1>5. Longer(alerts, al) /\ \A t \in Torrent : Untold(alerts, al, t)
    BY <1>1, <1>4, InvFacts, OneMoreTold
  <1>6. /\ handle' = handle /\ place' = place /\ complete' = complete /\ alive' = alive
        /\ noMetadata' = noMetadata /\ failures' = failures
    BY <1>1 DEF session, bounds
  <1>7. \A t \in Torrent : Kept(t, c, al, handle, place, complete)
    BY <1>2, <1>5 DEF Kept, SameAt
  <1>8. u \notin alive => ~c.seedStatus[u]
    BY <1>2, InvFacts DEF SettleInv
  <1>9. u \in alive \ noMetadata /\ Watched(u, handle, failures) =>
           AlertsTell(al, u, place, complete) /\ Settles(c, al, u, FALSE, place, complete)
    BY <1>5, <1>7, KeptSettles
  <1>10. QED BY <1>3, <1>4, <1>5, <1>6, <1>7, <1>8, <1>9, StepSettles

\* Libtorrent finds or loses data of u, and tells it.
LEMMA NativeChecksSettles ==
  ASSUME Inv, SettleInv, NEW u \in Torrent, NativeChecks(u)
  PROVE  SettleInv'
  <1>1. UNCHANGED <<session, torrent, handle, noMetadata, place, moves, failures>>
    BY DEF NativeChecks
  <1>2. PICK c : c = Current
    OBVIOUS
  <1>3. c = Current'
    BY <1>1, <1>2 DEF Current, session, torrent
  <1>4. PICK al : al = alerts'
    OBVIOUS
  <1>5. PICK co : co = complete'
    OBVIOUS
  <1>6. \A t \in Torrent \ {u} : t \in co <=> t \in complete
    BY <1>5 DEF NativeChecks
  <1>7. /\ Longer(alerts, al) /\ \A t \in Torrent \ {u} : Untold(alerts, al, t)
        /\ Told(al, u) # {}
        /\ \A i \in Told(al, u) : (\A j \in Told(al, u) : j <= i) => al[i].type = "checked" \/ u \in co
    <2>1. CASE al = Append(alerts, About("checked", u))
      BY <2>1, InvFacts, OneMoreTold
    <2>2. CASE u \in co /\ al = alerts \o <<About("finished", u)>>
      <3>1. PICK b : b = <<About("finished", u)>>
        OBVIOUS
      <3>2. b \in Seq(Alert)
        BY <3>1, AboutIsNoAnswer
      <3>3. AllAbout(b, u) /\ 1 \in DOMAIN b /\ b[1].type = "finished"
        BY <3>1, AboutIsNoAnswer DEF AllAbout, About
      <3>4. QED BY <2>2, <3>1, <3>2, <3>3, InvFacts, SomeMoreTold
    <2>3. CASE u \in co /\ al = alerts \o <<About("checked", u), About("finished", u)>>
      <3>1. PICK b : b = <<About("checked", u), About("finished", u)>>
        OBVIOUS
      <3>2. b \in Seq(Alert)
        BY <3>1, AboutIsNoAnswer
      <3>3. AllAbout(b, u) /\ 1 \in DOMAIN b /\ b[1].type = "checked"
        BY <3>1, AboutIsNoAnswer DEF AllAbout, About
      <3>4. QED BY <2>3, <3>1, <3>2, <3>3, InvFacts, SomeMoreTold
    <2>4. QED BY <1>4, <1>5, <2>1, <2>2, <2>3 DEF NativeChecks
  <1>8. ASSUME NEW t \in Torrent \ {u} PROVE Kept(t, c, al, handle, place, co)
    BY <1>2, <1>6, <1>7 DEF Kept, SameAt
  <1>9. u \notin alive => ~c.seedStatus[u]
    BY <1>2, InvFacts DEF SettleInv
  <1>10. ASSUME u \in alive \ noMetadata, Watched(u, handle, failures)
         PROVE  AlertsTell(al, u, place, co) /\ Settles(c, al, u, FALSE, place, co)
    <2>1. AlertsTell(alerts, u, place, complete) /\ Settles(Current, alerts, u, FALSE, place, complete)
      BY <1>10, SettleFacts
    <2>2. ASSUME NEW i \in DOMAIN al, al[i].type = "moved" PROVE i \in DOMAIN alerts /\ al[i] = alerts[i]
      BY <1>7, <2>2 DEF Longer, IsAnswer
    <2>3. AlertsTell(al, u, place, co)
      BY <1>7, <2>1, <2>2 DEF AlertsTell
    <2>4. Shown(c, al, u, place, co)
      BY <1>2, <1>7, <2>1 DEF Settles, Shown
    <2>5. Known(c, al, u) => Known(Current, alerts, u)
      BY <1>2, <1>7 DEF Known
    <2>6. Placed(c, al, u) /\ Going(c, al, u, FALSE)
      BY <1>2, <2>1, <2>5 DEF Settles, Placed, Going
    <2>7. QED BY <2>3, <2>4, <2>6 DEF Settles
  <1>11. /\ handle' = handle /\ place' = place /\ alive' = alive
         /\ noMetadata' = noMetadata /\ failures' = failures
    BY <1>1 DEF session
  <1>12. QED BY <1>3, <1>4, <1>5, <1>7, <1>8, <1>9, <1>10, <1>11, StepSettles

\* A torrent whose files are found enters libtorrent again.
LEMMA FileSearchFinishedSettles ==
  ASSUME Inv, SettleInv, NEW u \in Torrent, FileSearchFinished(u)
  PROVE  SettleInv'
  <1>1. UNCHANGED <<session, savePath, moving, renames, triggers, seedStatus, moves, bounds>>
    BY DEF FileSearchFinished
  <1>2. CASE u \notin alive
    <2>1. UNCHANGED <<handle, noMetadata, place, location, seed, complete, alerts>>
      BY <1>2 DEF FileSearchFinished
    <2>2. Current' = Current
      BY <1>1, <2>1 DEF Current, session
    <2>3. UNCHANGED <<alive, noMetadata, handle, failures, alerts, place, complete>>
      BY <1>1, <2>1 DEF session, bounds
    <2>4. QED BY <2>2, <2>3, StaysSettled
  <1>3. CASE u \in alive
    <2>1. PICK found : place' = [place EXCEPT ![u] = found] /\ location' = [location EXCEPT ![u] = found]
      BY <1>3 DEF FileSearchFinished
    <2>2. /\ noMetadata' = noMetadata \ {u} /\ complete' = complete \ {u}
          /\ seed' = [seed EXCEPT ![u] = FALSE]
          /\ alerts' = alerts \o <<About("removed", u), About("checked", u)>>
      BY <1>3 DEF FileSearchFinished
    <2>3. PICK ha : ha = [handle EXCEPT ![u] = @ + 1]
      OBVIOUS
    <2>4. handle' = ha
      BY <1>3, <2>3 DEF FileSearchFinished
    <2>5. handle \in [Torrent -> Nat] /\ handle[u] >= 1 /\ place \in [Torrent -> Path \cup {NoPath}]
      BY <1>3, InvFacts DEF RestPart
    <2>6. ha[u] = handle[u] + 1 /\ handle[u] \in Nat /\ \A t \in Torrent \ {u} : ha[t] = handle[t]
      BY <2>3, <2>5
    <2>7. ha[u] # 1
      BY <2>5, <2>6
    <2>8. PICK al : al = alerts'
      OBVIOUS
    <2>9. Longer(alerts, al) /\ \A t \in Torrent \ {u} : Untold(alerts, al, t)
      <3>1. PICK b : b = <<About("removed", u), About("checked", u)>>
        OBVIOUS
      <3>2. b \in Seq(Alert)
        BY <3>1, AboutIsNoAnswer
      <3>3. AllAbout(b, u)
        BY <3>1, AboutIsNoAnswer DEF AllAbout, About
      <3>4. QED BY <2>2, <2>8, <3>1, <3>2, <3>3, InvFacts, SomeMoreTold
    <2>10. PICK c : c = Current'
      OBVIOUS
    <2>11. /\ c.queue = queue /\ c.temp = temp /\ c.savePath = savePath /\ c.moving = moving
           /\ c.triggers = triggers /\ c.seedStatus = seedStatus /\ c.location = location' /\ c.seed = seed'
      BY <1>1, <2>10 DEF Current, session
    <2>12. \A t \in Torrent \ {u} : location'[t] = location[t] /\ seed'[t] = seed[t] /\ place'[t] = place[t]
      BY <2>1, <2>2, <2>5, TorrentType
    <2>13. PICK pl : pl = place'
      OBVIOUS
    <2>14. PICK co : co = complete'
      OBVIOUS
    <2>15. ASSUME NEW t \in Torrent \ {u} PROVE Kept(t, c, al, ha, pl, co)
      <3>1. SameAt(Current, c, t)
        BY <2>11, <2>12, InvFacts DEF SameAt
      <3>2. pl[t] = place[t] /\ (t \in co <=> t \in complete)
        BY <2>2, <2>12, <2>13, <2>14
      <3>3. QED BY <2>6, <2>9, <3>1, <3>2 DEF Kept
    <2>16. alive' = alive /\ failures' = failures
      BY <1>1 DEF session, bounds
    <2>17. ~Watched(u, ha, failures)
      BY <2>7 DEF Watched
    <2>18. PICK no : no = noMetadata'
      OBVIOUS
    <2>19. no \ {u} = noMetadata \ {u}
      BY <2>2, <2>18
    <2>20. QED BY <1>3, <2>4, <2>8, <2>9, <2>10, <2>13, <2>14, <2>15, <2>16, <2>17, <2>18, <2>19, StepSettles
  <1>4. QED BY <1>2, <1>3

\* A torrent that is added has no move, and learns from the check that follows.
LEMMA AddTorrentSettles ==
  ASSUME Inv, SettleInv, NEW u \in Torrent, NEW p \in Place, NEW hasMetadata \in BOOLEAN,
         AddTorrent(u, p, hasMetadata)
  PROVE  SettleInv'
  <1>1. /\ u \notin alive /\ alive' = alive \cup {u}
        /\ savePath' = [savePath EXCEPT ![u] = p]
        /\ noMetadata' = IF hasMetadata THEN noMetadata ELSE noMetadata \cup {u}
        /\ UNCHANGED <<queue, temp, moving, renames, triggers, seedStatus, seed, complete, moves, bounds>>
    BY DEF AddTorrent
  <1>2. PICK found : place' = [place EXCEPT ![u] = found] /\ location' = [location EXCEPT ![u] = found]
    BY DEF AddTorrent
  <1>3. PICK ha : ha = [handle EXCEPT ![u] = @ + 1]
    OBVIOUS
  <1>4. handle' = ha
    BY <1>3 DEF AddTorrent
  <1>5. handle \in [Torrent -> Nat] /\ place \in [Torrent -> Path \cup {NoPath}]
    BY InvFacts DEF RestPart
  <1>6. ha[u] = handle[u] + 1 /\ handle[u] \in Nat /\ \A t \in Torrent \ {u} : ha[t] = handle[t]
    BY <1>3, <1>5
  <1>7. PICK al : al = alerts'
    OBVIOUS
  <1>8. /\ Longer(alerts, al) /\ \A t \in Torrent \ {u} : Untold(alerts, al, t)
        /\ hasMetadata =>
              /\ Told(al, u) # {}
              /\ \A i \in Told(al, u) : (\A j \in Told(al, u) : j <= i) => al[i].type = "checked"
    <2>1. CASE hasMetadata
      <3>1. al = Append(alerts, About("checked", u))
        BY <1>7, <2>1 DEF AddTorrent
      <3>2. QED BY <2>1, <3>1, InvFacts, OneMoreTold
    <2>2. CASE ~hasMetadata
      <3>1. al = alerts
        BY <1>7, <2>2 DEF AddTorrent
      <3>2. QED BY <2>2, <3>1, InvFacts DEF Longer, Untold
    <2>3. QED BY <2>1, <2>2
  <1>9. PICK c : c = Current'
    OBVIOUS
  <1>10. /\ c.queue = queue /\ c.temp = temp /\ c.savePath = savePath' /\ c.moving = moving
         /\ c.triggers = triggers /\ c.seedStatus = seedStatus /\ c.location = location' /\ c.seed = seed
    BY <1>1, <1>9 DEF Current
  <1>11. /\ \A t \in Torrent \ {u} : location'[t] = location[t] /\ savePath'[t] = savePath[t]
         /\ \A t \in Torrent \ {u} : place'[t] = place[t]
         /\ location'[u] = found /\ place'[u] = found
    BY <1>1, <1>2, <1>5, TorrentType
  <1>12. PICK pl : pl = place'
    OBVIOUS
  <1>13. ASSUME NEW t \in Torrent \ {u} PROVE Kept(t, c, al, ha, pl, complete)
    <2>1. SameAt(Current, c, t)
      BY <1>10, <1>11, InvFacts DEF SameAt
    <2>2. pl[t] = place[t]
      BY <1>11, <1>12
    <2>3. QED BY <1>6, <1>8, <2>1, <2>2 DEF Kept
  <1>14. PICK no : no = noMetadata'
    OBVIOUS
  <1>15. no \ {u} = noMetadata \ {u}
    BY <1>1, <1>14
  <1>16. PICK alv : alv = alive'
    OBVIOUS
  <1>17. alv \ {u} = alive \ {u} /\ u \in alv
    BY <1>1, <1>16
  <1>18. ASSUME u \in alv \ no, Watched(u, ha, failures)
         PROVE  AlertsTell(al, u, pl, complete) /\ Settles(c, al, u, FALSE, pl, complete)
    <2>1. handle[u] = 0 /\ ~seedStatus[u]
      BY <1>1, <1>6, <1>18 DEF Watched, SettleInv
    <2>2. hasMetadata
      BY <1>1, <1>14, <1>18
    <2>3. ASSUME NEW i \in DOMAIN al, al[i].type = "moved" PROVE al[i].job.torrent # u
      <3>1. i \in DOMAIN alerts /\ al[i] = alerts[i]
        BY <1>8, <2>3 DEF Longer, IsAnswer
      <3>2. i \in Answers(alerts)
        BY <2>3, <3>1 DEF Answers, IsAnswer
      <3>3. queue # << >> /\ al[i].job = Head(queue)
        BY <3>1, <3>2, InvQueue DEF AlertsPart
      <3>4. 1 \in DOMAIN queue /\ al[i].job = queue[1]
        BY <3>3, InvQueue, TailIn
      <3>5. queue[1] \in Job /\ JobFine(queue[1], moving, handle, inSession, alive, removing)
        BY <3>4, InvQueue DEF JobsPart
      <3>6. queue[1].handle >= 1 /\ queue[1].handle <= handle[queue[1].torrent] /\ queue[1].handle \in Nat
        BY <3>5 DEF JobFine, Job
      <3>7. QED BY <2>1, <3>4, <3>6
    <2>4. AlertsTell(al, u, pl, complete)
      BY <1>8, <2>2, <2>3 DEF AlertsTell
    <2>5. Told(al, u) # {} /\ ~Known(c, al, u)
      BY <1>8, <1>10, <2>1, <2>2 DEF Known
    <2>6. Shown(c, al, u, pl, complete)
      BY <1>10, <1>11, <1>12, <2>5 DEF Shown
    <2>7. QED BY <2>4, <2>5, <2>6 DEF Settles, Placed, Going
  <1>19. failures' = failures /\ complete' = complete
    BY <1>1 DEF bounds
  <1>20. QED BY <1>4, <1>7, <1>8, <1>9, <1>12, <1>13, <1>14, <1>15, <1>16, <1>17, <1>18, <1>19, StepSettles

\* A torrent is deleted, and the queue of the moves is as good for the others.
LEMMA ForgottenSettles ==
  ASSUME Inv, SettleInv, NEW u \in alive, Forget(u), \A t \in Torrent \ {u} : LastIs(queue, t, Temp) => LastIs(queue', t, Temp),
         RemoveNative(u, alerts) \/ UNCHANGED <<noMetadata, place, complete, alerts>>,
         UNCHANGED <<temp, handle, failures>>
  PROVE  SettleInv'
  <1>1. u \in Torrent /\ alive' = alive \ {u} /\ place \in [Torrent -> Path \cup {NoPath}]
    BY InvFacts DEF RestPart, Forget
  <1>2. /\ \A t \in Torrent \ {u} :
              /\ savePath'[t] = savePath[t] /\ moving'[t] = moving[t] /\ triggers'[t] = triggers[t]
              /\ seedStatus'[t] = seedStatus[t] /\ location'[t] = location[t] /\ seed'[t] = seed[t]
        /\ ~seedStatus'[u]
    BY <1>1, TorrentType DEF Forget
  <1>3. PICK al : al = alerts'
    OBVIOUS
  <1>4. PICK pl : pl = place'
    OBVIOUS
  <1>5. PICK co : co = complete'
    OBVIOUS
  <1>6. PICK no : no = noMetadata'
    OBVIOUS
  <1>7. /\ Longer(alerts, al) /\ \A t \in Torrent \ {u} : Untold(alerts, al, t)
        /\ no \ {u} = noMetadata \ {u}
        /\ \A t \in Torrent \ {u} : pl[t] = place[t] /\ (t \in co <=> t \in complete)
    <2>1. CASE RemoveNative(u, alerts)
      <3>1. al = Append(alerts, About("removed", u))
        BY <1>3, <2>1 DEF RemoveNative
      <3>2. no \ {u} = noMetadata \ {u} /\ \A t \in Torrent \ {u} : t \in co <=> t \in complete
        BY <1>5, <1>6, <2>1 DEF RemoveNative
      <3>3. \A t \in Torrent \ {u} : pl[t] = place[t]
        BY <1>1, <1>4, <2>1 DEF RemoveNative
      <3>4. Longer(alerts, al) /\ \A t \in Torrent \ {u} : Untold(alerts, al, t)
        BY <1>1, <3>1, InvFacts, OneMoreTold
      <3>5. QED BY <3>2, <3>3, <3>4
    <2>2. CASE UNCHANGED <<noMetadata, place, complete, alerts>>
      BY <1>3, <1>4, <1>5, <1>6, <2>2, InvFacts DEF Longer, Untold
    <2>3. QED BY <2>1, <2>2
  <1>8. PICK c : c = Current'
    OBVIOUS
  <1>9. /\ c.queue = queue' /\ c.temp = temp /\ c.savePath = savePath' /\ c.moving = moving'
        /\ c.triggers = triggers' /\ c.seedStatus = seedStatus' /\ c.location = location' /\ c.seed = seed'
    BY <1>8 DEF Current
  <1>10. ASSUME NEW t \in Torrent \ {u} PROVE Kept(t, c, al, handle, pl, co)
    <2>1. SameAt(Current, c, t)
      BY <1>2, <1>9, InvFacts DEF SameAt
    <2>2. QED BY <1>7, <2>1 DEF Kept
  <1>11. PICK alv : alv = alive'
    OBVIOUS
  <1>12. alv \ {u} = alive \ {u} /\ u \notin alv /\ ~c.seedStatus[u]
    BY <1>1, <1>2, <1>9, <1>11
  <1>13. handle' = handle /\ failures' = failures
    OBVIOUS
  <1>14. QED BY <1>1, <1>3, <1>4, <1>5, <1>6, <1>7, <1>8, <1>10, <1>11, <1>12, <1>13, StepSettles

LEMMA DeleteTorrentSettles ==
  ASSUME Inv, SettleInv, NEW u \in Torrent, DeleteTorrent(u)
  PROVE  SettleInv'
  <1>1. u \in alive /\ Forget(u) /\ UNCHANGED <<queue, temp, handle, bounds>>
    BY DEF DeleteTorrent
  <1>2. RemoveNative(u, alerts) \/ UNCHANGED <<noMetadata, place, complete, alerts>>
    BY DEF DeleteTorrent
  <1>3. UNCHANGED <<temp, handle, failures>> /\ queue' = queue
    BY <1>1 DEF bounds
  <1>4. \A t \in Torrent \ {u} : LastIs(queue, t, Temp) => LastIs(queue', t, Temp)
    BY <1>3
  <1>5. QED BY <1>1, <1>2, <1>3, <1>4, ForgottenSettles

LEMMA DeleteTorrentAndFilesSettles ==
  ASSUME Inv, SettleInv, NEW u \in Torrent, DeleteTorrentAndFiles(u)
  PROVE  SettleInv'
  <1>1. /\ u \in alive /\ Forget(u) /\ RemoveNative(u, alerts) /\ queue' = Cancelled(queue, u)
        /\ UNCHANGED <<temp, handle, failures>>
    BY DEF DeleteTorrentAndFiles, bounds
  <1>2. PICK q : q = Cancelled(queue, u)
    OBVIOUS
  <1>3. Cancels(queue, u, q)
    BY <1>2, InvQueue, CancelledIs
  <1>4. ASSUME NEW t \in Torrent \ {u}, LastIs(queue, t, Temp) PROVE LastIs(q, t, Temp)
    BY <1>3, <1>4, CancelledLast
  <1>5. \A t \in Torrent \ {u} : LastIs(queue, t, Temp) => LastIs(queue', t, Temp)
    BY <1>1, <1>2, <1>4
  <1>6. QED BY <1>1, <1>5, ForgottenSettles

\* The data of a torrent is somewhere else, and its answer tells where.
LEMMA NativeMoveEndsSettles ==
  ASSUME Inv, SettleInv, NEW job \in moves, NEW type \in {"moved", "moveFailed"}, NativeMoveEnds(job, type)
  PROVE  SettleInv'
  <1>1. /\ alerts' = Append(alerts, [type |-> type, job |-> job])
        /\ place' = IF type = "moved" /\ IsCurrent(job) THEN [place EXCEPT ![job.torrent] = job.path]
                    ELSE place
        /\ UNCHANGED <<session, torrent, handle, noMetadata, complete>>
        /\ failures' = IF type = "moved" THEN failures ELSE failures + 1
    BY DEF NativeMoveEnds
  <1>2. PICK c : c = Current'
    OBVIOUS
  <1>3. /\ c.queue = queue /\ c.temp = temp /\ c.savePath = savePath /\ c.moving = moving
        /\ c.triggers = triggers /\ c.seedStatus = seedStatus /\ c.location = location /\ c.seed = seed
    BY <1>1, <1>2 DEF Current, session, torrent
  <1>4. alive' = alive /\ noMetadata' = noMetadata /\ handle' = handle /\ complete' = complete
    BY <1>1 DEF session
  <1>5. \A t \in Torrent \ alive : ~c.seedStatus[t]
    BY <1>3 DEF SettleInv
  <1>6. CASE type = "moveFailed"
    <2>1. failures \in Nat /\ failures' = failures + 1
      BY <1>1, <1>6, InvFacts DEF RestPart
    <2>2. failures' # 0
      BY <2>1
    <2>3. \A t : ~Watched(t, handle', failures')
      BY <2>2 DEF Watched
    <2>4. QED BY <1>2, <1>4, <1>5, <2>3, SettleAfter
  <1>7. CASE type = "moved"
    <2>1. PICK al : al = alerts'
      OBVIOUS
    <2>2. PICK a : a = [type |-> "moved", job |-> job]
      OBVIOUS
    <2>3. queue # << >> /\ job = queue[1] /\ 1 \in DOMAIN queue /\ Answers(alerts) = {}
      <3>1. queue # << >> /\ job = Head(queue) /\ Answers(alerts) = {}
        BY InvQueue DEF AlertsPart
      <3>2. QED BY <3>1, InvQueue, TailIn
    <2>4. job \in Job /\ JobFine(job, moving, handle, inSession, alive, removing)
      BY <2>3, InvQueue DEF JobsPart
    <2>5. a \in Alert /\ a.type = "moved" /\ a.job = job
      BY <2>2, <2>4 DEF Alert
    <2>6. /\ DOMAIN alerts = 1 .. Len(alerts) /\ Len(alerts) \in Nat
          /\ DOMAIN al = 1 .. Len(alerts) + 1
          /\ \A i \in 1 .. Len(alerts) : al[i] = alerts[i]
          /\ al[Len(alerts) + 1] = a
      BY <1>1, <1>7, <2>1, <2>2, <2>5, InvFacts, AppendIn
    <2>7. ASSUME NEW i \in DOMAIN al, i \notin DOMAIN alerts PROVE al[i] = a
      <3>1. i = Len(alerts) + 1
        BY <2>6, <2>7
      <3>2. QED BY <2>6, <3>1
    <2>8. DOMAIN alerts \subseteq DOMAIN al /\ \A i \in DOMAIN alerts : al[i] = alerts[i]
      BY <2>6
    <2>9. ASSUME NEW t PROVE Told(al, t) = Told(alerts, t)
      BY <2>5, <2>7, <2>8 DEF Told
    <2>10. ASSUME NEW i \in DOMAIN al, al[i].type = "moved" PROVE al[i].job = job
      <3>1. i \notin DOMAIN alerts
        BY <2>3, <2>8, <2>10 DEF Answers, IsAnswer
      <3>2. QED BY <2>5, <2>7, <3>1
    <2>11. PICK pl : pl = place'
      OBVIOUS
    <2>12. ASSUME NEW t \in alive \ noMetadata, Watched(t, handle, failures)
           PROVE  AlertsTell(al, t, pl, complete) /\ Settles(c, al, t, FALSE, pl, complete)
      <3>1. AlertsTell(alerts, t, place, complete) /\ Settles(Current, alerts, t, FALSE, place, complete)
        BY <2>12, SettleFacts
      <3>2. \A i \in Told(al, t) : i \in DOMAIN alerts /\ al[i] = alerts[i]
        BY <2>8, <2>9 DEF Told
      <3>3. t \in Torrent /\ t \in inSession /\ handle[t] = 1 /\ place \in [Torrent -> Path \cup {NoPath}]
        BY <2>12, InvFacts DEF RestPart, Watched
      <3>4. CASE job.torrent = t
        <4>1. IsCurrent(job) /\ moving[t]
          <5>1. job.handle \in Nat /\ job.handle >= 1 /\ job.handle <= 1 /\ moving[t]
            BY <2>4, <2>12, <3>3, <3>4 DEF JobFine, Job
          <5>2. job.handle = 1
            BY <5>1
          <5>3. QED BY <3>3, <3>4, <5>1, <5>2 DEF IsCurrent
        <4>2. pl[t] = job.path
          BY <1>1, <1>7, <2>11, <3>3, <3>4, <4>1
        <4>3. AlertsTell(al, t, pl, complete)
          BY <2>9, <2>10, <3>1, <3>2, <4>2 DEF AlertsTell
        <4>4. Shown(c, al, t, pl, complete)
          BY <1>3, <2>9, <3>1, <4>1, InvFacts DEF Settles, Shown
        <4>5. SameAt(Current, c, t)
          BY <1>3, InvFacts DEF SameAt
        <4>6. Placed(c, al, t) /\ Going(c, al, t, FALSE)
          <5>1. Told(al, t) = {} <=> Told(alerts, t) = {}
            BY <2>9
          <5>2. Settles(c, al, t, FALSE, place, complete)
            BY <3>1, <4>5, <5>1, SettlesSame
          <5>3. QED BY <5>2 DEF Settles
        <4>7. QED BY <4>3, <4>4, <4>6 DEF Settles
      <3>5. CASE job.torrent # t
        <4>1. pl[t] = place[t]
          BY <1>1, <2>11, <3>3, <3>5
        <4>2. AlertsTell(al, t, pl, complete)
          BY <2>9, <2>10, <3>1, <3>2, <3>5 DEF AlertsTell
        <4>3. SameAt(Current, c, t)
          BY <1>3, InvFacts DEF SameAt
        <4>4. Told(al, t) = {} <=> Told(alerts, t) = {}
          BY <2>9
        <4>5. Settles(c, al, t, FALSE, pl, complete)
          BY <3>1, <4>1, <4>3, <4>4, SettlesSame
        <4>6. QED BY <4>2, <4>5
      <3>6. QED BY <3>4, <3>5
    <2>13. failures' = failures
      BY <1>1, <1>7
    <2>14. \A t \in alive' \ noMetadata' : Watched(t, handle', failures') =>
              AlertsTell(alerts', t, place', complete') /\ Settles(c, alerts', t, FALSE, place', complete')
      BY <1>4, <2>1, <2>11, <2>12, <2>13
    <2>15. \A t \in Torrent \ alive' : ~c.seedStatus[t]
      BY <1>4, <1>5
    <2>16. QED BY <1>2, <2>14, <2>15, SettleAfter
  <1>8. QED BY <1>6, <1>7

\* An answer to a move tells nothing of the end of a download or a check.
LEMMA AnswerTells ==
  ASSUME Inv, SettleInv, NEW type \in {"moved", "moveFailed"}, AlertIs(type), NEW al, al = Tail(alerts),
         NEW t \in alive \ noMetadata, Watched(t, handle, failures)
  PROVE  AlertsTell(al, t, place, complete) /\ Settles(Current, al, t, FALSE, place, complete)
  <1>1. alerts \in Seq(Alert) /\ alerts # << >> /\ Head(alerts) = alerts[1] /\ alerts[1].type = type
    BY InvFacts, TakenIs DEF AlertIs
  <1>2. 1 \notin Told(alerts, t)
    BY <1>1 DEF Told
  <1>3. AlertsTell(alerts, t, place, complete) /\ Settles(Current, alerts, t, FALSE, place, complete)
    BY SettleFacts
  <1>4. AlertsTell(al, t, place, complete) /\ (Told(al, t) = {} <=> Told(alerts, t) = {})
    BY <1>1, <1>2, <1>3, TakenTell
  <1>5. SameAt(Current, Current, t)
    BY DEF SameAt
  <1>6. QED BY <1>3, <1>4, <1>5, SettlesSame

\* The answer is taken, and the torrents other than that of the job are left alone. A
\* torrent u that is no more may leave libtorrent.
LEMMA AnswerSettles ==
  ASSUME Inv, SettleInv, NEW type \in {"moved", "moveFailed"}, AlertIs(type),
         NEW al, al = Tail(alerts), al \in Seq(Alert), NEW u \in Torrent, NEW c, c = Current',
         UNCHANGED <<alive, handle, failures>>,
         \/ alerts' = al /\ UNCHANGED <<noMetadata, place, complete>>
         \/ u \notin alive /\ RemoveNative(u, al),
         \A t \in Torrent \ {u} : SameAt(Current, c, t),
         u \notin alive => ~c.seedStatus[u],
         u \in alive \ noMetadata /\ Watched(u, handle, failures) => Settles(c, al, u, FALSE, place, complete)
  PROVE  SettleInv'
  <1>1. ASSUME NEW t \in Torrent \ alive PROVE ~c.seedStatus[t]
    <2>1. CASE t = u
      BY <1>1, <2>1
    <2>2. CASE t # u
      <3>1. ~seedStatus[t] /\ SameAt(Current, c, t)
        BY <1>1, <2>2 DEF SettleInv
      <3>2. QED BY <3>1, InvFacts DEF SameAt
    <2>3. QED BY <2>1, <2>2
  <1>2. ASSUME NEW t \in alive \ noMetadata, Watched(t, handle, failures)
        PROVE  AlertsTell(al, t, place, complete) /\ Settles(c, al, t, FALSE, place, complete)
    <2>1. AlertsTell(al, t, place, complete) /\ Settles(Current, al, t, FALSE, place, complete)
      BY <1>2, AnswerTells
    <2>2. CASE t = u
      BY <1>2, <2>1, <2>2
    <2>3. CASE t # u
      <3>1. t \in Torrent
        BY InvFacts DEF RestPart
      <3>2. SameAt(Current, c, t)
        BY <2>3, <3>1
      <3>3. QED BY <2>1, <3>2, SettlesSame
    <2>4. QED BY <2>2, <2>3
  <1>3. alive' = alive /\ handle' = handle /\ failures' = failures
    OBVIOUS
  <1>4. CASE alerts' = al /\ UNCHANGED <<noMetadata, place, complete>>
    BY <1>1, <1>2, <1>3, <1>4, SettleAfter
  <1>5. CASE u \notin alive /\ RemoveNative(u, al)
    <2>1. PICK r : r = alerts'
      OBVIOUS
    <2>2. PICK pl : pl = place'
      OBVIOUS
    <2>3. PICK co : co = complete'
      OBVIOUS
    <2>4. r = Append(al, About("removed", u))
      BY <1>5, <2>1 DEF RemoveNative
    <2>5. Longer(al, r) /\ \A t \in Torrent : Untold(al, r, t)
      BY <2>4, OneMoreTold
    <2>6. ASSUME NEW t \in alive \ noMetadata', Watched(t, handle, failures)
          PROVE  AlertsTell(r, t, pl, co) /\ Settles(c, r, t, FALSE, pl, co)
      <3>1. t # u /\ t \in alive \ noMetadata /\ t \in Torrent
        BY <1>5, InvFacts DEF RemoveNative, RestPart
      <3>2. t \in co <=> t \in complete
        BY <1>5, <2>3, <3>1 DEF RemoveNative
      <3>3. place \in [Torrent -> Path \cup {NoPath}]
        BY InvFacts DEF RestPart
      <3>4. pl[t] = place[t]
        BY <1>5, <2>2, <3>1, <3>3 DEF RemoveNative
      <3>5. AlertsTell(al, t, place, complete) /\ Settles(c, al, t, FALSE, place, complete)
        BY <1>2, <2>6, <3>1
      <3>6. \A i \in DOMAIN r \ DOMAIN al : i \notin Told(r, t)
        BY <2>5, <3>1 DEF Untold
      <3>7. AlertsTell(r, t, pl, co) /\ Told(r, t) = Told(al, t)
        BY <2>5, <3>2, <3>4, <3>5, <3>6, LongerTell
      <3>8. SameAt(c, c, t)
        BY DEF SameAt
      <3>9. Told(r, t) = {} <=> Told(al, t) = {}
        BY <3>7
      <3>10. Settles(c, r, t, FALSE, pl, co)
        BY <3>2, <3>4, <3>5, <3>8, <3>9, SettlesSame
      <3>11. QED BY <3>7, <3>10
    <2>7. \A t \in alive' \ noMetadata' : Watched(t, handle', failures') =>
             AlertsTell(alerts', t, place', complete') /\ Settles(c, alerts', t, FALSE, place', complete')
      BY <1>3, <2>1, <2>2, <2>3, <2>6
    <2>8. \A t \in Torrent \ alive' : ~c.seedStatus[t]
      BY <1>1, <1>3
    <2>9. QED BY <2>7, <2>8, SettleAfter
  <1>6. QED BY <1>4, <1>5

\* The torrent of the job is where the answer tells.
LEMMA AnswerPlace ==
  ASSUME Inv, SettleInv, NEW type \in {"moved", "moveFailed"}, AlertIs(type),
         NEW job, NEW rest, NEW al, Answered(type, job, rest, al),
         NEW t, t = job.torrent, t \in alive \ noMetadata, Watched(t, handle, failures)
  PROVE  place[t] = job.path
  <1>1. type = "moved"
    <2>1. type = "moveFailed" => failures > 0
      BY DEF Answered
    <2>2. failures = 0
      BY DEF Watched
    <2>3. QED BY <2>1, <2>2
  <1>2. 1 \in DOMAIN alerts /\ alerts[1].type = "moved"
    BY <1>1, InvFacts, TakenIs DEF AlertIs
  <1>3. 1 \in Answers(alerts)
    BY <1>2 DEF Answers, IsAnswer
  <1>4. alerts[1].job = Head(queue)
    BY <1>3, InvQueue DEF AlertsPart
  <1>5. job = Head(queue)
    BY DEF Answered
  <1>6. AlertsTell(alerts, t, place, complete)
    BY SettleFacts
  <1>7. QED BY <1>2, <1>4, <1>5, <1>6 DEF AlertsTell

LEMMA MoveJobFinishedSettles ==
  ASSUME Inv, SettleInv, NEW type \in {"moved", "moveFailed"}, MoveJobFinished(type)
  PROVE  SettleInv'
  <1>1. PICK job : job = Head(queue)
    OBVIOUS
  <1>2. PICK rest : rest = Tail(queue)
    OBVIOUS
  <1>3. PICK al : al = Tail(alerts)
    OBVIOUS
  <1>4. PICK t : t = job.torrent
    OBVIOUS
  <1>5. PICK out : out = Outstanding(rest, job)
    OBVIOUS
  <1>6. PICK s : s = [Current EXCEPT !.queue = rest, !.moves = @ \cup Started(rest)]
    OBVIOUS
  <1>7. PICK d : d = [Current EXCEPT !.queue = rest]
    OBVIOUS
  <1>8. AlertIs(type) /\ UNCHANGED <<alive, removing, handle, search, deleting, bounds>>
    BY DEF MoveJobFinished
  <1>9. Answered(type, job, rest, al)
    BY <1>1, <1>2, <1>3, <1>8, AnsweredIs
  <1>10. /\ queue # << >> /\ rest \in Seq(Job) /\ al \in Seq(Alert) /\ t \in Torrent
         /\ queue \in Seq(Job) /\ Current \in States
    BY <1>4, <1>9, InvFacts, InvQueue DEF Answered, Job
  <1>11. UNCHANGED <<alive, handle, failures>>
    BY <1>8 DEF bounds
  <1>12. /\ s \in States /\ s.queue = rest /\ s.moves = Started(rest) /\ s.moving = moving
         /\ s.savePath = savePath /\ s.location = location /\ s.temp = temp
         /\ s.triggers = triggers /\ s.seedStatus = seedStatus /\ s.seed = seed
    <2>1. moves \cup Started(rest) = Started(rest) /\ Started(rest) \subseteq Job
      BY <1>9, NextStarted
    <2>2. PICK mv : mv = Started(rest)
      OBVIOUS
    <2>3. s = [Current EXCEPT !.queue = rest, !.moves = mv]
      BY <1>6, <2>1, <2>2, InvFacts
    <2>4. /\ s \in States /\ s.queue = rest /\ s.moves = mv /\ s.moving = Current.moving
          /\ s.savePath = Current.savePath /\ s.location = Current.location /\ s.temp = Current.temp
          /\ s.triggers = Current.triggers
          /\ s.seedStatus = Current.seedStatus /\ s.seed = Current.seed
      BY <1>10, <2>1, <2>2, <2>3 DEF States
    <2>5. QED BY <2>2, <2>4, InvFacts
  <1>13. /\ d \in States /\ d.queue = rest /\ d.moving = moving
         /\ d.savePath = savePath /\ d.location = location /\ d.temp = temp
         /\ d.triggers = triggers /\ d.seedStatus = seedStatus /\ d.seed = seed
    <2>1. /\ d \in States /\ d.queue = rest /\ d.moving = Current.moving
          /\ d.savePath = Current.savePath /\ d.location = Current.location /\ d.temp = Current.temp
          /\ d.triggers = Current.triggers
          /\ d.seedStatus = Current.seedStatus /\ d.seed = Current.seed
      BY <1>7, <1>10 DEF States
    <2>2. QED BY <2>1, InvFacts
  <1>14. ASSUME NEW x \in Torrent PROVE LastIs(queue, x, Temp) => LastIs(rest, x, Temp)
    BY <1>2, <1>10, RestLast
  <1>15. \A x \in Torrent : SameAt(Current, s, x) /\ SameAt(Current, d, x) /\ SameAt(Current, Current, x)
    BY <1>12, <1>13, <1>14, InvFacts DEF SameAt
  <1>16. CASE t \in alive /\ Becomes(JobFinished(s, t, out)) /\ alerts' = al /\ UNCHANGED <<noMetadata, place, complete>>
    <2>1. PICK e : e = JobFinished(s, t, out)
      OBVIOUS
    <2>2. out \in BOOLEAN
      BY <1>5 DEF Outstanding
    <2>3. Good(s, al, stalled)
      <3>1. AlertsPart(rest, Started(rest), al, stalled, failures)
        BY <1>9, NextStarted
      <3>2. OnePart(rest) /\ JobsPart(rest, moving, handle, inSession, alive, removing)
        BY <1>9 DEF Answered
      <3>3. PathsPart(s, alive)
        BY <1>12, InvQueue DEF PathsPart
      <3>4. QED BY <1>12, <3>1, <3>2, <3>3 DEF Good
    <2>4. s.queue = rest /\ s.moving = moving /\ t \in alive
      BY <1>12, <1>16
    <2>5. Good(e, al, stalled) /\ Apart(s, e, t)
      BY <1>4, <1>5, <1>9, <2>1, <2>2, <2>3, <2>4, JobFinishedGood
    <2>6. e = Current'
      <3>1. e \in States /\ Becomes(e)
        BY <1>16, <2>1, <2>5 DEF Good
      <3>2. QED BY <3>1, BecomesIs
    <2>7. \A x \in Torrent \ {t} : SameAt(Current, e, x)
      BY <1>15, <2>5, SameTransitive DEF Apart
    <2>8. ASSUME t \in alive \ noMetadata, Watched(t, handle, failures)
          PROVE  Settles(e, al, t, FALSE, place, complete)
      <3>1. place[t] = job.path
        BY <1>4, <1>8, <1>9, <2>8, AnswerPlace
      <3>2. Settles(Current, al, t, FALSE, place, complete)
        BY <1>3, <1>8, <2>8, AnswerTells
      <3>3. handle[t] = 1
        BY <2>8 DEF Watched
      <3>4. s.temp = temp /\ s.seedStatus = seedStatus /\ s.triggers = triggers
        BY <1>12
      <3>5. QED BY <1>4, <1>5, <1>9, <2>1, <2>2, <2>3, <2>4, <3>1, <3>2, <3>3, <3>4, JobFinishedOwn
    <2>9. QED BY <1>3, <1>8, <1>10, <1>11, <1>16, <2>6, <2>7, <2>8, AnswerSettles
  <1>17. ASSUME NEW c \in States, Becomes(c), \A x \in Torrent : SameAt(Current, c, x),
                \/ alerts' = al /\ UNCHANGED <<noMetadata, place, complete>>
                \/ t \notin alive /\ RemoveNative(t, al)
         PROVE  SettleInv'
    <2>1. c = Current'
      BY <1>17, BecomesIs
    <2>2. t \notin alive => ~c.seedStatus[t]
      <3>1. t \notin alive => ~seedStatus[t]
        BY <1>10 DEF SettleInv
      <3>2. QED BY <1>10, <1>17, <3>1, InvFacts DEF SameAt
    <2>3. ASSUME t \in alive \ noMetadata, Watched(t, handle, failures)
          PROVE  Settles(c, al, t, FALSE, place, complete)
      <3>1. Settles(Current, al, t, FALSE, place, complete)
        BY <1>3, <1>8, <2>3, AnswerTells
      <3>2. SameAt(Current, c, t)
        BY <1>10, <1>17
      <3>3. QED BY <3>1, <3>2, SettlesSame
    <2>4. QED BY <1>3, <1>8, <1>10, <1>11, <1>17, <2>1, <2>2, <2>3, AnswerSettles
  <1> DEFINE Handled ==
                /\ Becomes(IF t \in alive THEN JobFinished(s, t, out) ELSE s)
                /\ IF t \notin alive /\ ~out /\ removing[t] = "keepFiles" THEN RemoveNative(t, al)
                   ELSE alerts' = al /\ UNCHANGED <<inSession, noMetadata, place, complete>>
                /\ UNCHANGED stalled
             Left ==
                /\ Becomes(s) \/ Becomes(Current) \/ Becomes(d)
                /\ alerts' = al /\ UNCHANGED <<noMetadata, place, complete>>
  <1>18. Handled \/ Left
    BY <1>1, <1>2, <1>3, <1>4, <1>5, <1>6, <1>7 DEF MoveJobFinished
  <1>19. CASE Handled
    <2>1. CASE t \in alive
      BY <1>16, <1>19, <2>1
    <2>2. CASE t \notin alive
      <3>1. Becomes(s)
        BY <1>19, <2>2
      <3>2. \/ alerts' = al /\ UNCHANGED <<noMetadata, place, complete>>
            \/ t \notin alive /\ RemoveNative(t, al)
        BY <1>19, <2>2
      <3>3. s \in States /\ \A x \in Torrent : SameAt(Current, s, x)
        BY <1>12, <1>15
      <3>4. QED BY <1>17, <3>1, <3>2, <3>3
    <2>3. QED BY <2>1, <2>2
  <1>20. CASE Left
    <2>1. alerts' = al /\ UNCHANGED <<noMetadata, place, complete>>
      BY <1>20
    <2>2. CASE Becomes(s)
      BY <1>12, <1>15, <1>17, <2>1, <2>2
    <2>3. CASE Becomes(Current)
      BY <1>10, <1>15, <1>17, <2>1, <2>3
    <2>4. CASE Becomes(d)
      BY <1>13, <1>15, <1>17, <2>1, <2>4
    <2>5. QED BY <1>20, <2>2, <2>3, <2>4
  <1>21. QED BY <1>18, <1>19, <1>20

-----------------------------------------------------------------------------
(* The specification *)

LEMMA InitInv ==
  ASSUME Init
  PROVE  Inv
  <1>1. RestPart
    <2>1. << >> \in Seq(Alert)
      OBVIOUS
    <2>2. QED BY <2>1 DEF Init, RestPart
  <1>2. Current \in States
    <2>1. << >> \in Seq(Job) /\ << >> \in Seq(Trigger)
      OBVIOUS
    <2>2. temp \in BOOLEAN /\ queue \in Seq(Job) /\ moves \subseteq Job
      BY <2>1 DEF Init
    <2>3. /\ savePath \in [Torrent -> Path \cup {NoPath}] /\ location \in [Torrent -> Path \cup {NoPath}]
          /\ moving \in [Torrent -> BOOLEAN] /\ renames \in [Torrent -> Nat]
          /\ seedStatus \in [Torrent -> BOOLEAN] /\ seed \in [Torrent -> BOOLEAN]
      BY DEF Init
    <2>4. triggers \in [Torrent -> Seq(Trigger)]
      BY <2>1 DEF Init
    <2>5. QED BY <2>2, <2>3, <2>4 DEF Current, States
  <1>3. /\ Current.queue = << >> /\ Current.moves = {} /\ alerts = << >> /\ alive = {}
    BY DEF Init, Current
  <1>4. AlertsPart(Current.queue, Current.moves, alerts, stalled, failures)
    BY <1>3 DEF AlertsPart, Answers
  <1>5. OnePart(Current.queue) /\ JobsPart(Current.queue, Current.moving, handle, inSession, alive, removing)
    BY <1>3 DEF OnePart, JobsPart
  <1>6. PathsPart(Current, alive)
    BY <1>3 DEF PathsPart
  <1>7. QED BY <1>1, <1>2, <1>4, <1>5, <1>6 DEF Inv, Good

LEMMA NextInv ==
  ASSUME Inv, [Next]_vars
  PROVE  Inv'
  <1>1. CASE UserStep
    <2>1. PICK t \in Torrent :
             \/ \E p \in Place, hasMetadata \in {TRUE, t \notin Magnet} : AddTorrent(t, p, hasMetadata)
             \/ \E p \in Place : SetLocation(t, p)
             \/ RenameFile(t) \/ DeleteTorrent(t) \/ DeleteTorrentAndFiles(t)
      BY <1>1 DEF UserStep
    <2>2. ASSUME NEW p \in Place, NEW hasMetadata \in {TRUE, t \notin Magnet}, AddTorrent(t, p, hasMetadata)
          PROVE  Inv'
      <3>1. hasMetadata \in BOOLEAN
        OBVIOUS
      <3>2. QED BY <2>2, <3>1, AddTorrentStep
    <2>3. QED
      BY <2>1, <2>2, SetLocationStep, RenameFileStep, DeleteTorrentStep, DeleteTorrentAndFilesStep
  <1>2. CASE TempPathStep
    BY <1>2, SetTempPathEnabledStep DEF TempPathStep
  <1>3. CASE AlertStep
    <2>1. CASE HandleStorageMoved
      BY <2>1, MoveJobFinishedStep DEF HandleStorageMoved
    <2>2. CASE HandleStorageMovedFailed
      BY <2>2, MoveJobFinishedStep DEF HandleStorageMovedFailed
    <2>3. CASE \E recheck \in BOOLEAN : HandleTorrentFinished(recheck)
      BY <2>3, HandleTorrentFinishedStep
    <2>4. CASE HandleTorrentChecked \/ HandleTorrentRemoved \/ HandleTorrentDeleted
      BY <2>4, HandleTorrentCheckedStep, HandleTorrentRemovedStep, HandleTorrentDeletedStep
    <2>5. QED BY <1>3, <2>1, <2>2, <2>3, <2>4 DEF AlertStep
  <1>4. CASE OtherAlertStep
    BY <1>4, HandleFileRenamedStep, HandleStateUpdateStep DEF OtherAlertStep
  <1>5. CASE MetadataStep
    BY <1>5, LookForFilesStep, FileSearchFinishedStep DEF MetadataStep
  <1>6. CASE MoveEnds
    BY <1>6, NativeMoveEndsStep DEF MoveEnds
  <1>7. CASE NativeStep
    BY <1>7, NativeChecksStep, NativeDeletesStep DEF NativeStep
  <1>8. CASE UNCHANGED vars
    <2>1. /\ UNCHANGED <<alive, removing, queue, temp, savePath, moving, renames, triggers, seedStatus>>
          /\ UNCHANGED <<location, seed, handle, search, inSession, noMetadata, place, complete>>
          /\ UNCHANGED <<moves, deleting, alerts, stalled, toggles, checks, failures>>
      BY <1>8 DEF vars, session, torrent, native, bounds
    <2>2. RestPart'
      BY <2>1, InvFacts DEF RestPart
    <2>3. Longer(alerts, alerts')
      BY <2>1, InvFacts DEF Longer
    <2>4. QED BY <2>1, <2>2, <2>3, NativeInv DEF torrent
  <1>9. QED BY <1>1, <1>2, <1>3, <1>4, <1>5, <1>6, <1>7, <1>8 DEF Next

\* The queue, the alerts and the torrents fit together in every reachable state
\* (Inv), whatever users, moves, failures and metadata do to them.
THEOREM InvHolds == Spec => []Inv
  <1>1. Init => Inv
    BY InitInv
  <1>2. Inv /\ [Next]_vars => Inv'
    BY NextInv
  <1>3. QED BY <1>1, <1>2, PTL DEF Spec

LEMMA QueueOfInv ==
  ASSUME Inv
  PROVE  QueueHolds
  <1>1. TypeOK
    BY InvFacts, InvQueue, TorrentType DEF TypeOK, RestPart
  <1>2. queue # << >> => 1 \in DOMAIN queue
    BY InvQueue, TailIn
  <1>3. MoveAlerts = Answers(alerts)
    BY DEF MoveAlerts, Answers, IsAnswer
  <1>4. AlertsPart(queue, moves, alerts, stalled, failures)
    BY InvQueue
  <1>5. AnswersAreForTheHead
    <2>1. moves \subseteq {Head(queue) : x \in {1} \cap DOMAIN queue}
      BY <1>2, <1>4 DEF AlertsPart
    <2>2. QED BY <1>3, <1>4, <2>1 DEF AnswersAreForTheHead, AlertsPart
  <1>6. QueueIsServed
    BY <1>3, <1>4, InvFacts DEF QueueIsServed, AlertsPart, RestPart
  <1>7. OneWaitingMove
    <2>1. DOMAIN queue = 1 .. Len(queue) /\ Len(queue) \in Nat
      BY InvQueue, LenProperties
    <2>2. \A i \in 2 .. Len(queue) : i \in DOMAIN queue \ {1}
      BY <2>1
    <2>3. QED BY <2>2, InvQueue DEF OneWaitingMove, OnePart
  <1>8. QED BY <1>1, <1>5, <1>6, <1>7 DEF QueueHolds

\* libtorrent is given one move at a time, that of the head of the queue, and its
\* answer finds the job there (handleStorageMovedAlert and its assertions); no torrent
\* waits for two moves; and a queue with jobs is being worked at.
THEOREM QueueHoldsAlways == Spec => []QueueHolds
  <1>1. Inv => QueueHolds
    BY QueueOfInv
  <1>2. QED BY <1>1, InvHolds, PTL

\* deleteTorrent keeps the native torrent until its moves are done.
THEOREM KeptUntilMovedAlways == Spec => []KeptUntilMoved
  <1>1. Inv => KeptUntilMoved
    <2> SUFFICES ASSUME Inv, NEW t \in Torrent \ alive, removing[t] = "keepFiles",
                        handle[t] = 1, HasJob(queue, t)
                 PROVE  t \in inSession
      BY DEF KeptUntilMoved
    <2>1. PICK i \in DOMAIN queue : IsJobOf(queue[i], t)
      BY DEF HasJob
    <2>2. JobFine(queue[i], moving, handle, inSession, alive, removing)
      BY InvQueue DEF JobsPart
    <2>3. QED BY <2>1, <2>2 DEF JobFine, IsJobOf
  <1>2. QED BY <1>1, InvHolds, PTL

\* m_storageIsMoving stays set until the last move of the torrent is done.
THEOREM MovesAreShownAlways == Spec => []MovesAreShown
  <1>1. Inv => MovesAreShown
    <2> SUFFICES ASSUME Inv, NEW t \in alive, handle[t] = 1, HasJob(queue, t)
                 PROVE  moving[t]
      BY DEF MovesAreShown
    <2>1. PICK i \in DOMAIN queue : IsJobOf(queue[i], t)
      BY DEF HasJob
    <2>2. JobFine(queue[i], moving, handle, inSession, alive, removing)
      BY InvQueue DEF JobsPart
    <2>3. QED BY <2>1, <2>2 DEF JobFine, IsJobOf
  <1>2. QED BY <1>1, InvHolds, PTL

-----------------------------------------------------------------------------
(* What settles, in every reachable state *)

LEMMA InitSettles ==
  ASSUME Init
  PROVE  SettleInv
  <1>1. alive = {} /\ \A t \in Torrent : ~seedStatus[t]
    BY DEF Init
  <1>2. QED BY <1>1 DEF SettleInv

LEMMA NextSettles ==
  ASSUME Inv, SettleInv, [Next]_vars
  PROVE  SettleInv'
  <1>1. CASE UserStep
    <2>1. PICK t \in Torrent :
             \/ \E p \in Place, hasMetadata \in {TRUE, t \notin Magnet} : AddTorrent(t, p, hasMetadata)
             \/ \E p \in Place : SetLocation(t, p)
             \/ RenameFile(t) \/ DeleteTorrent(t) \/ DeleteTorrentAndFiles(t)
      BY <1>1 DEF UserStep
    <2>2. ASSUME NEW p \in Place, NEW hasMetadata \in {TRUE, t \notin Magnet}, AddTorrent(t, p, hasMetadata)
          PROVE  SettleInv'
      <3>1. hasMetadata \in BOOLEAN
        OBVIOUS
      <3>2. QED BY <2>2, <3>1, AddTorrentSettles
    <2>3. QED
      BY <2>1, <2>2, SetLocationSettles, RenameFileSettles, DeleteTorrentSettles, DeleteTorrentAndFilesSettles
  <1>2. CASE TempPathStep
    BY <1>2, SetTempPathEnabledSettles DEF TempPathStep
  <1>3. CASE AlertStep
    <2>1. CASE HandleStorageMoved
      BY <2>1, MoveJobFinishedSettles DEF HandleStorageMoved
    <2>2. CASE HandleStorageMovedFailed
      BY <2>2, MoveJobFinishedSettles DEF HandleStorageMovedFailed
    <2>3. CASE \E recheck \in BOOLEAN : HandleTorrentFinished(recheck)
      BY <2>3, HandleTorrentFinishedSettles
    <2>4. CASE HandleTorrentChecked
      BY <2>4, HandleTorrentCheckedSettles
    <2>5. CASE HandleTorrentRemoved
      BY <2>5, RemovingSettles DEF HandleTorrentRemoved
    <2>6. CASE HandleTorrentDeleted
      BY <2>6, RemovingSettles DEF HandleTorrentDeleted
    <2>7. QED BY <1>3, <2>1, <2>2, <2>3, <2>4, <2>5, <2>6 DEF AlertStep
  <1>4. CASE OtherAlertStep
    BY <1>4, HandleFileRenamedSettles, HandleStateUpdateSettles DEF OtherAlertStep
  <1>5. CASE MetadataStep
    BY <1>5, LookForFilesSettles, FileSearchFinishedSettles DEF MetadataStep
  <1>6. CASE MoveEnds
    BY <1>6, NativeMoveEndsSettles DEF MoveEnds
  <1>7. CASE NativeStep
    BY <1>7, NativeChecksSettles, NativeDeletesSettles DEF NativeStep
  <1>8. CASE UNCHANGED vars
    <2>1. /\ UNCHANGED <<alive, queue, temp, savePath, moving, renames, triggers, seedStatus>>
          /\ UNCHANGED <<location, seed, handle, noMetadata, place, complete, moves, alerts, failures>>
      BY <1>8 DEF vars, session, torrent, native, bounds
    <2>2. Current' = Current
      BY <2>1 DEF Current
    <2>3. QED BY <2>1, <2>2, StaysSettled
  <1>9. QED BY <1>1, <1>2, <1>3, <1>4, <1>5, <1>6, <1>7, <1>8 DEF Next

\* What a torrent that has entered libtorrent once takes for true is, it is where it
\* belongs or on its way there, or work waits that sends it there (SettleInv), while no
\* move fails.
THEOREM SettleHolds == Spec => []SettleInv
  <1>1. Init => Inv /\ SettleInv
    BY InitInv, InitSettles
  <1>2. (Inv /\ SettleInv) /\ [Next]_vars => (Inv /\ SettleInv)'
    BY NextInv, NextSettles
  <1>3. Spec => [](Inv /\ SettleInv)
    BY <1>1, <1>2, PTL DEF Spec
  <1>4. QED BY <1>3, PTL

\* adjustActualSavePath and the triggers lose no change: when all is quiet the data of the
\* torrent is in the temporary folder or at the save path, whichever it belongs to.
THEOREM IdleIsSettledAlways == Spec => []IdleIsSettled
  <1>1. Inv /\ SettleInv => IdleIsSettled
    <2> SUFFICES ASSUME Inv, SettleInv, NEW t \in alive \ noMetadata,
                        Idle(t), handle[t] = 1, failures = 0
                 PROVE  place[t] = IF UseTempPath(Current, t) THEN Temp ELSE savePath[t]
      BY DEF IdleIsSettled
    <2>1. PICK c : c = Current
      OBVIOUS
    <2>2. /\ c.temp = temp /\ c.savePath = savePath /\ c.moving = moving /\ c.triggers = triggers
          /\ c.seedStatus = seedStatus /\ c.location = location /\ c.seed = seed
      BY <2>1, InvFacts
    <2>3. Settles(c, alerts, t, FALSE, place, complete)
      BY <2>1, SettleFacts DEF Watched
    <2>4. ~moving[t] /\ triggers[t] = << >> /\ alerts = << >>
      BY DEF Idle
    <2>5. Told(alerts, t) = {} /\ ~Adjusts(c, t)
      BY <2>2, <2>4 DEF Told, Adjusts
    <2>6. Known(c, alerts, t) /\ Shown(c, alerts, t, place, complete) /\ Placed(c, alerts, t)
      BY <2>3, <2>5 DEF Settles, Known
    <2>7. UseTempPath(c, t) <=> ToTemp(c, t)
      BY <2>6, UsesTemp
    <2>8. location[t] = place[t] /\ location[t] = IF ToTemp(c, t) THEN Temp ELSE savePath[t]
      BY <2>2, <2>4, <2>5, <2>6 DEF Shown, Placed
    <2>9. QED BY <2>1, <2>7, <2>8
  <1>2. Spec => []Inv
    BY InvHolds
  <1>3. QED BY <1>1, <1>2, SettleHolds, PTL

=============================================================================
