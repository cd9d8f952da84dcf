------------------------ MODULE TorrentLifecycleProofs ------------------------
(* Proofs about TorrentLifecycle, for any torrents and any number of alerts,    *)
(* jobs and requests under way: what its steps do to the queues, its types, and *)
(* its safety. The queues are described by positions: what the I/O thread will  *)
(* have done is said of the last job of a torrent and those before it. The       *)
(* invariant of the safety properties is one for each torrent; a step that does *)
(* not concern a torrent leaves it "kept" (KeptSafe), and the steps that do are *)
(* looked at one by one.                                                        *)
EXTENDS TorrentLifecycle, QueueFacts, FiniteSetTheorems, TLAPS

-----------------------------------------------------------------------------
(* Alerts and jobs *)

SearchJob == [op : {"search"}, torrent : Torrent, old : BOOLEAN]

LEMMA AboutType ==
  ASSUME NEW t \in Torrent,
         NEW type \in {"added", "refused", "resume", "metadata", "checked"}
  PROVE  /\ About(type, t) \in Alert
         /\ About(type, t).type = type /\ About(type, t).torrent = t
         /\ ~About(type, t).old /\ About(type, t).current
  BY DEF About, Alert

\* What a sequence of requests asks for
Resumes(order) == [i \in DOMAIN order |-> About("resume", order[i])]

LEMMA ResumesType ==
  ASSUME NEW order \in Seq(Torrent)
  PROVE  /\ Resumes(order) \in Seq(Alert)
         /\ Len(Resumes(order)) = Len(order)
         /\ DOMAIN Resumes(order) = 1 .. Len(order)
         /\ \A i \in 1 .. Len(order) : Resumes(order)[i] = About("resume", order[i])
  <1>1. DOMAIN order = 1 .. Len(order) /\ Len(order) \in Nat
    BY LenProperties
  <1>2. \A i \in 1 .. Len(order) : order[i] \in Torrent
    BY ElementOfSeq
  <1>3. Resumes(order) \in [1 .. Len(order) -> Alert]
    BY <1>1, <1>2, AboutType DEF Resumes
  <1>4. Resumes(order) \in Seq(Alert)
    BY <1>1, <1>3, SeqDef
  <1>5. QED
    BY <1>1, <1>3, <1>4, LenProperties DEF Resumes

LEMMA MarkedType ==
  ASSUME NEW q \in Seq(Alert), NEW t
  PROVE  /\ Marked(q, t, OldAlert) \in Seq(Alert)
         /\ DOMAIN Marked(q, t, OldAlert) = DOMAIN q
         /\ \A i \in DOMAIN q :
               LET a == Marked(q, t, OldAlert)[i] IN
               /\ a.type = q[i].type /\ a.torrent = q[i].torrent /\ a.current = q[i].current
               /\ a.old <=> (q[i].old \/ q[i].torrent = t)
         /\ Marked(q, t, OutdatedAlert) \in Seq(Alert)
         /\ DOMAIN Marked(q, t, OutdatedAlert) = DOMAIN q
         /\ \A i \in DOMAIN q :
               LET a == Marked(q, t, OutdatedAlert)[i] IN
               /\ a.type = q[i].type /\ a.torrent = q[i].torrent /\ a.old = q[i].old
               /\ a.current <=> (q[i].current /\ q[i].torrent # t)
  <1>1. Len(q) \in Nat /\ DOMAIN q = 1 .. Len(q) /\ \A i \in DOMAIN q : q[i] \in Alert
    BY LenProperties, ElementOfSeq
  <1>2. ASSUME NEW a \in Alert
        PROVE  /\ OldAlert(a) \in Alert /\ OutdatedAlert(a) \in Alert
               /\ OldAlert(a).type = a.type /\ OldAlert(a).torrent = a.torrent
               /\ OldAlert(a).current = a.current /\ OldAlert(a).old
               /\ OutdatedAlert(a).type = a.type /\ OutdatedAlert(a).torrent = a.torrent
               /\ OutdatedAlert(a).old = a.old /\ ~OutdatedAlert(a).current
    BY DEF OldAlert, OutdatedAlert, Alert
  <1>3. \A a \in Alert : a.old \in BOOLEAN /\ a.current \in BOOLEAN
    BY DEF Alert
  <1>4. /\ Marked(q, t, OldAlert) \in [1 .. Len(q) -> Alert]
        /\ \A i \in DOMAIN q :
              Marked(q, t, OldAlert)[i] = IF q[i].torrent = t THEN OldAlert(q[i]) ELSE q[i]
    BY <1>1, <1>2 DEF Marked
  <1>5. /\ Marked(q, t, OutdatedAlert) \in [1 .. Len(q) -> Alert]
        /\ \A i \in DOMAIN q :
              Marked(q, t, OutdatedAlert)[i] = IF q[i].torrent = t THEN OutdatedAlert(q[i]) ELSE q[i]
    BY <1>1, <1>2 DEF Marked
  <1>6. Marked(q, t, OldAlert) \in Seq(Alert) /\ Marked(q, t, OutdatedAlert) \in Seq(Alert)
    BY <1>1, <1>4, <1>5, SeqDef
  <1>7. DOMAIN Marked(q, t, OldAlert) = DOMAIN q /\ DOMAIN Marked(q, t, OutdatedAlert) = DOMAIN q
    BY DEF Marked
  <1>8. ASSUME NEW i \in DOMAIN q
        PROVE  LET a == Marked(q, t, OldAlert)[i] IN
               /\ a.type = q[i].type /\ a.torrent = q[i].torrent /\ a.current = q[i].current
               /\ a.old <=> (q[i].old \/ q[i].torrent = t)
    <2>1. CASE q[i].torrent = t
      <3>1. Marked(q, t, OldAlert)[i] = OldAlert(q[i])  BY <1>4, <2>1
      <3>2. QED BY <3>1, <1>1, <1>2, <2>1
    <2>2. CASE q[i].torrent # t
      <3>1. Marked(q, t, OldAlert)[i] = q[i]  BY <1>4, <2>2
      <3>2. QED BY <3>1, <1>1, <1>3, <2>2
    <2>3. QED BY <2>1, <2>2
  <1>9. ASSUME NEW i \in DOMAIN q
        PROVE  LET a == Marked(q, t, OutdatedAlert)[i] IN
               /\ a.type = q[i].type /\ a.torrent = q[i].torrent /\ a.old = q[i].old
               /\ a.current <=> (q[i].current /\ q[i].torrent # t)
    <2>1. CASE q[i].torrent = t
      <3>1. Marked(q, t, OutdatedAlert)[i] = OutdatedAlert(q[i])  BY <1>5, <2>1
      <3>2. QED BY <3>1, <1>1, <1>2, <2>1
    <2>2. CASE q[i].torrent # t
      <3>1. Marked(q, t, OutdatedAlert)[i] = q[i]  BY <1>5, <2>2
      <3>2. QED BY <3>1, <1>1, <1>3, <2>2
    <2>3. QED BY <2>1, <2>2
  <1>10. QED
    BY <1>6, <1>7, <1>8, <1>9

\* What a job does to a torrent
Writes(j, t)  == j.op = "resume" /\ j.torrent = t
Removes(j, t) == j.op = "removeTorrentFile" /\ j.torrent = t
Fresh(j, t)   == j.op = "search" /\ j.torrent = t /\ ~j.old

LEMMA JobTypes ==
  ASSUME NEW t \in Torrent
  PROVE  /\ \A d \in Data, m \in BOOLEAN :
               /\ ResumeJob(t, d, m) \in Job
               /\ ResumeJob(t, d, m).data = d /\ ResumeJob(t, d, m).meta = m
               /\ \A u : Writes(ResumeJob(t, d, m), u) <=> u = t
               /\ \A u : ~Removes(ResumeJob(t, d, m), u) /\ ~Fresh(ResumeJob(t, d, m), u)
         /\ RemoveTorrentFile(t) \in Job
         /\ \A u : Removes(RemoveTorrentFile(t), u) <=> u = t
         /\ \A u : ~Writes(RemoveTorrentFile(t), u) /\ ~Fresh(RemoveTorrentFile(t), u)
         /\ Search(t) \in Job
         /\ \A u : Fresh(Search(t), u) <=> u = t
         /\ \A u : ~Writes(Search(t), u) /\ ~Removes(Search(t), u)
  BY DEF ResumeJob, RemoveTorrentFile, Search, Job, Writes, Removes, Fresh

\* What the two marks make of a job
LEMMA MarkedJob ==
  ASSUME NEW j \in Job
  PROVE  /\ OldJob(j) \in Job /\ OldJob(j).torrent = j.torrent /\ OldJob(j).op = j.op
         /\ \A u : Writes(OldJob(j), u) <=> Writes(j, u)
         /\ j.op = "resume" => OldJob(j) = j
         /\ \A u : Removes(OldJob(j), u) <=> Removes(j, u)
         /\ \A u : ~Fresh(OldJob(j), u)
         /\ OutdatedJob(j) \in Job /\ OutdatedJob(j).torrent = j.torrent /\ OutdatedJob(j).op = j.op
         /\ \A u : Writes(OutdatedJob(j), u) <=> Writes(j, u)
         /\ j.op = "resume" => /\ OutdatedJob(j).meta = j.meta
                               /\ OutdatedJob(j).data = "none" <=> j.data = "none"
                               /\ j.data = "none" => OutdatedJob(j) = j
         /\ \A u : Removes(OutdatedJob(j), u) <=> Removes(j, u)
         /\ \A u : Fresh(OutdatedJob(j), u) <=> Fresh(j, u)
         /\ j.op = "search" => j \in SearchJob /\ OldJob(j) \in SearchJob
  <1>1. CASE j \in [op : {"resume"}, torrent : Torrent, data : Data, meta : BOOLEAN]
    BY <1>1 DEF Job, Data, OldJob, OutdatedJob, Writes, Removes, Fresh
  <1>2. CASE j \in [op : {"removeTorrentFile"}, torrent : Torrent]
    BY <1>2 DEF Job, OldJob, OutdatedJob, Writes, Removes, Fresh
  <1>3. CASE j \in [op : {"search"}, torrent : Torrent, old : BOOLEAN]
    BY <1>3 DEF Job, OldJob, OutdatedJob, Writes, Removes, Fresh, SearchJob
  <1>4. QED
    BY <1>1, <1>2, <1>3 DEF Job

\* The same for the jobs of a torrent in a queue
LEMMA MarkedJobs ==
  ASSUME NEW q \in Seq(Job), NEW t
  PROVE  Marked(q, t, OldJob) \in Seq(Job) /\ Marked(q, t, OutdatedJob) \in Seq(Job)
  <1>1. Len(q) \in Nat /\ DOMAIN q = 1 .. Len(q) /\ \A i \in DOMAIN q : q[i] \in Job
    BY LenProperties, ElementOfSeq
  <1>2. \A j \in Job : OldJob(j) \in Job /\ OutdatedJob(j) \in Job
    BY MarkedJob
  <1>3. /\ Marked(q, t, OldJob) \in [1 .. Len(q) -> Job]
        /\ Marked(q, t, OutdatedJob) \in [1 .. Len(q) -> Job]
    BY <1>1, <1>2 DEF Marked
  <1>4. QED
    BY <1>1, <1>3, SeqDef

LEMMA MarkedResults ==
  ASSUME NEW q \in Seq(SearchJob), NEW t
  PROVE  Marked(q, t, OldJob) \in Seq(SearchJob)
  <1>1. Len(q) \in Nat /\ DOMAIN q = 1 .. Len(q) /\ \A i \in DOMAIN q : q[i] \in SearchJob
    BY LenProperties, ElementOfSeq
  <1>2. \A j \in SearchJob : OldJob(j) \in SearchJob
    BY DEF SearchJob, OldJob
  <1>3. Marked(q, t, OldJob) \in [1 .. Len(q) -> SearchJob]
    BY <1>1, <1>2 DEF Marked
  <1>4. QED
    BY <1>1, <1>3, SeqDef

-----------------------------------------------------------------------------
(* What the queue of alerts tells of a torrent *)

\* An alert of a native torrent that is still there
Is(a, type, t) == a.type = type /\ a.torrent = t /\ ~a.old

Told(q, type, t) == \E i \in DOMAIN q : Is(q[i], type, t)

\* The answer that will save the last settings
Good(a, t) == Is(a, "resume", t) /\ a.current

\* An answer that will save other settings, or may
Bad(a, t) == a.type = "resume" /\ a.torrent = t /\ ~Good(a, t)

AnsweredWell(q, t) == \E i \in DOMAIN q : Good(q[i], t)

\* After each bad answer comes a good one.
EndsWell(q, t) == \A i \in DOMAIN q : Bad(q[i], t) => \E j \in DOMAIN q : j > i /\ Good(q[j], t)

NotAsked(q, t) == \A i \in DOMAIN q : q[i].type = "resume" => q[i].torrent # t

CheckAwaited(q, t) == \E i \in DOMAIN q : Is(q[i], "checked", t) /\ q[i].current

LEMMA NothingTold ==
  ASSUME NEW t
  PROVE  /\ \A type : ~Told(<< >>, type, t)
         /\ EndsWell(<< >>, t) /\ ~AnsweredWell(<< >>, t) /\ NotAsked(<< >>, t)
         /\ ~CheckAwaited(<< >>, t)
  BY EmptySeq DEF Told, EndsWell, AnsweredWell, NotAsked, CheckAwaited

\* The head is taken.
LEMMA TailTold ==
  ASSUME NEW q \in Seq(Alert), q # << >>, NEW t
  PROVE  /\ \A type : Told(Tail(q), type, t) => Told(q, type, t)
         /\ EndsWell(q, t) => EndsWell(Tail(q), t)
         /\ EndsWell(q, t) /\ Bad(Head(q), t) => AnsweredWell(Tail(q), t)
         /\ AnsweredWell(q, t) /\ ~Good(Head(q), t) => AnsweredWell(Tail(q), t)
         /\ NotAsked(q, t) => NotAsked(Tail(q), t)
         /\ CheckAwaited(q, t) /\ ~Is(Head(q), "checked", t) => CheckAwaited(Tail(q), t)
  <1> DEFINE p == Tail(q)
  <1>1. /\ Len(q) \in Nat \ {0} /\ DOMAIN q = 1 .. Len(q) /\ DOMAIN p = 1 .. Len(q) - 1
        /\ \A i \in DOMAIN p : p[i] = q[i + 1]
        /\ Head(q) = q[1]
    BY TailIn
  <1> HIDE DEF p
  <1>2. \A i \in DOMAIN p : i + 1 \in DOMAIN q /\ p[i] = q[i + 1]
    BY <1>1
  <1>3. \A i \in DOMAIN q : i # 1 => i - 1 \in DOMAIN p /\ p[i - 1] = q[i]
    BY <1>1
  <1>4. \A type : Told(p, type, t) => Told(q, type, t)
    BY <1>2 DEF Told
  <1>5. ASSUME NEW i \in DOMAIN q, NEW j \in DOMAIN q, j > i, Good(q[j], t)
        PROVE  j - 1 \in DOMAIN p /\ Good(p[j - 1], t)
    BY <1>1, <1>3, <1>5
  <1>6. ASSUME EndsWell(q, t) PROVE EndsWell(p, t)
    <2> SUFFICES ASSUME NEW i \in DOMAIN p, Bad(p[i], t)
                 PROVE  \E j \in DOMAIN p : j > i /\ Good(p[j], t)
      BY DEF EndsWell
    <2>1. i + 1 \in DOMAIN q /\ Bad(q[i + 1], t)
      BY <1>2
    <2>2. PICK j \in DOMAIN q : j > i + 1 /\ Good(q[j], t)
      BY <1>6, <2>1 DEF EndsWell
    <2>3. j - 1 \in DOMAIN p /\ Good(p[j - 1], t) /\ j - 1 > i
      BY <1>1, <1>5, <2>1, <2>2
    <2>4. QED BY <2>3
  <1>7. ASSUME EndsWell(q, t), Bad(Head(q), t) PROVE AnsweredWell(p, t)
    <2>1. PICK j \in DOMAIN q : j > 1 /\ Good(q[j], t)
      BY <1>1, <1>7 DEF EndsWell
    <2>2. QED BY <1>1, <1>5, <2>1 DEF AnsweredWell
  <1>8. ASSUME AnsweredWell(q, t), ~Good(Head(q), t) PROVE AnsweredWell(p, t)
    BY <1>1, <1>3, <1>8 DEF AnsweredWell
  <1>9. NotAsked(q, t) => NotAsked(p, t)
    BY <1>2 DEF NotAsked
  <1>10. ASSUME CheckAwaited(q, t), ~Is(Head(q), "checked", t) PROVE CheckAwaited(p, t)
    BY <1>1, <1>3, <1>10 DEF CheckAwaited
  <1>11. QED
    BY <1>4, <1>6, <1>7, <1>8, <1>9, <1>10 DEF p

\* An alert is added that is no answer for the resume data.
LEMMA AppendTold ==
  ASSUME NEW q \in Seq(Alert), NEW u \in Torrent,
         NEW type \in {"added", "refused", "metadata", "checked"}, NEW t
  PROVE  LET p == Append(q, About(type, u)) IN
         /\ p \in Seq(Alert)
         /\ \A y : Told(p, y, t) <=> Told(q, y, t) \/ (y = type /\ t = u)
         /\ EndsWell(p, t) <=> EndsWell(q, t)
         /\ AnsweredWell(p, t) <=> AnsweredWell(q, t)
         /\ NotAsked(p, t) <=> NotAsked(q, t)
         /\ CheckAwaited(q, t) => CheckAwaited(p, t)
         /\ type = "checked" => CheckAwaited(p, u)
  <1> DEFINE x == About(type, u)
             p == Append(q, x)
  <1>1. /\ x \in Alert /\ x.type = type /\ x.torrent = u /\ ~x.old /\ x.current
    BY AboutType
  <1> HIDE DEF x
  <1>2. /\ p \in Seq(Alert)
        /\ DOMAIN q = 1 .. Len(q) /\ Len(q) \in Nat /\ DOMAIN p = 1 .. Len(q) + 1
        /\ \A i \in 1 .. Len(q) : p[i] = q[i]
        /\ p[Len(q) + 1] = x
    BY <1>1, AppendIn
  <1> HIDE DEF p
  <1>3. ~Good(x, t) /\ ~Bad(x, t) /\ x.type # "resume"
    BY <1>1 DEF Good, Bad, Is
  <1>4. /\ \A i \in DOMAIN q : i \in DOMAIN p /\ p[i] = q[i]
        /\ \A i \in DOMAIN p : i \in DOMAIN q \/ p[i] = x
        /\ Len(q) + 1 \in DOMAIN p
    BY <1>2
  <1>5. \A y : Is(x, y, t) <=> y = type /\ t = u
    BY <1>1 DEF Is
  <1>6. \A y : Told(p, y, t) <=> Told(q, y, t) \/ (y = type /\ t = u)
    BY <1>2, <1>4, <1>5 DEF Told
  <1>7. EndsWell(p, t) <=> EndsWell(q, t)
    BY <1>3, <1>4 DEF EndsWell
  <1>8. AnsweredWell(p, t) <=> AnsweredWell(q, t)
    BY <1>3, <1>4 DEF AnsweredWell
  <1>9. NotAsked(p, t) <=> NotAsked(q, t)
    BY <1>3, <1>4 DEF NotAsked
  <1>10. CheckAwaited(q, t) => CheckAwaited(p, t)
    BY <1>4 DEF CheckAwaited
  <1>11. type = "checked" => CheckAwaited(p, u)
    BY <1>1, <1>2, <1>4 DEF CheckAwaited, Is
  <1>12. QED
    BY <1>2, <1>6, <1>7, <1>8, <1>9, <1>10, <1>11 DEF p, x

\* The native torrent of u is gone.
LEMMA OldTold ==
  ASSUME NEW q \in Seq(Alert), NEW u, NEW t
  PROVE  LET p == Marked(q, u, OldAlert) IN
         /\ p \in Seq(Alert)
         /\ \A y : Told(p, y, t) <=> Told(q, y, t) /\ t # u
         /\ t # u => /\ EndsWell(p, t) <=> EndsWell(q, t)
                     /\ AnsweredWell(p, t) <=> AnsweredWell(q, t)
                     /\ CheckAwaited(p, t) <=> CheckAwaited(q, t)
         /\ NotAsked(p, t) <=> NotAsked(q, t)
  <1> DEFINE p == Marked(q, u, OldAlert)
  <1>1. /\ p \in Seq(Alert) /\ DOMAIN p = DOMAIN q
        /\ \A i \in DOMAIN q :
              /\ p[i].type = q[i].type /\ p[i].torrent = q[i].torrent /\ p[i].current = q[i].current
              /\ p[i].old <=> (q[i].old \/ q[i].torrent = u)
    BY MarkedType
  <1> HIDE DEF p
  <1>2. \A i \in DOMAIN q : \A y : Is(p[i], y, t) <=> Is(q[i], y, t) /\ t # u
    BY <1>1 DEF Is
  <1>3. ASSUME t # u, NEW i \in DOMAIN q
        PROVE  (Good(p[i], t) <=> Good(q[i], t)) /\ (Bad(p[i], t) <=> Bad(q[i], t))
    BY <1>1, <1>2, <1>3 DEF Good, Bad
  <1>4. \A y : Told(p, y, t) <=> Told(q, y, t) /\ t # u
    BY <1>1, <1>2 DEF Told
  <1>5. ASSUME t # u
        PROVE  /\ EndsWell(p, t) <=> EndsWell(q, t)
               /\ AnsweredWell(p, t) <=> AnsweredWell(q, t)
               /\ CheckAwaited(p, t) <=> CheckAwaited(q, t)
    BY <1>1, <1>2, <1>3, <1>5 DEF EndsWell, AnsweredWell, CheckAwaited
  <1>6. NotAsked(p, t) <=> NotAsked(q, t)
    BY <1>1 DEF NotAsked
  <1>7. QED
    BY <1>1, <1>4, <1>5, <1>6 DEF p

\* The settings of u have changed.
LEMMA OutdatedTold ==
  ASSUME NEW q \in Seq(Alert), NEW u, NEW t
  PROVE  LET p == Marked(q, u, OutdatedAlert) IN
         /\ p \in Seq(Alert)
         /\ \A y : Told(p, y, t) <=> Told(q, y, t)
         /\ t # u => /\ EndsWell(p, t) <=> EndsWell(q, t)
                     /\ AnsweredWell(p, t) <=> AnsweredWell(q, t)
                     /\ CheckAwaited(p, t) <=> CheckAwaited(q, t)
         /\ NotAsked(p, t) <=> NotAsked(q, t)
  <1> DEFINE p == Marked(q, u, OutdatedAlert)
  <1>1. /\ p \in Seq(Alert) /\ DOMAIN p = DOMAIN q
        /\ \A i \in DOMAIN q :
              /\ p[i].type = q[i].type /\ p[i].torrent = q[i].torrent /\ p[i].old = q[i].old
              /\ p[i].current <=> (q[i].current /\ q[i].torrent # u)
    BY MarkedType
  <1> HIDE DEF p
  <1>2. \A i \in DOMAIN q : \A y : Is(p[i], y, t) <=> Is(q[i], y, t)
    BY <1>1 DEF Is
  <1>3. ASSUME t # u, NEW i \in DOMAIN q
        PROVE  (Good(p[i], t) <=> Good(q[i], t)) /\ (Bad(p[i], t) <=> Bad(q[i], t))
    BY <1>1, <1>2, <1>3 DEF Good, Bad, Is
  <1>4. \A y : Told(p, y, t) <=> Told(q, y, t)
    BY <1>1, <1>2 DEF Told
  <1>5. ASSUME t # u
        PROVE  /\ EndsWell(p, t) <=> EndsWell(q, t)
               /\ AnsweredWell(p, t) <=> AnsweredWell(q, t)
    BY <1>1, <1>2, <1>3, <1>5 DEF EndsWell, AnsweredWell
  <1>6. ASSUME t # u PROVE CheckAwaited(p, t) <=> CheckAwaited(q, t)
    BY <1>1, <1>2, <1>6 DEF CheckAwaited, Is
  <1>7. NotAsked(p, t) <=> NotAsked(q, t)
    BY <1>1 DEF NotAsked
  <1>8. QED
    BY <1>1, <1>4, <1>5, <1>6, <1>7 DEF p

\* Resume data is asked for.
LEMMA ResumesTold ==
  ASSUME NEW q \in Seq(Alert), NEW order \in Seq(Torrent), NEW t
  PROVE  LET p == q \o Resumes(order) IN
         /\ p \in Seq(Alert)
         /\ \A y : y # "resume" => (Told(p, y, t) <=> Told(q, y, t))
         /\ EndsWell(q, t) => EndsWell(p, t)
         /\ AnsweredWell(q, t) => AnsweredWell(p, t)
         /\ (\E i \in DOMAIN order : order[i] = t) => EndsWell(p, t) /\ AnsweredWell(p, t)
         /\ NotAsked(q, t) /\ (\A i \in DOMAIN order : order[i] # t) => NotAsked(p, t)
         /\ CheckAwaited(q, t) => CheckAwaited(p, t)
  <1> DEFINE r == Resumes(order)
             p == q \o r
  <1>1. /\ r \in Seq(Alert) /\ Len(r) = Len(order)
        /\ \A i \in 1 .. Len(order) : r[i] = About("resume", order[i])
    BY ResumesType
  <1>2. /\ DOMAIN order = 1 .. Len(order) /\ Len(order) \in Nat
        /\ \A i \in 1 .. Len(order) : order[i] \in Torrent
    BY LenProperties, ElementOfSeq
  <1>3. \A i \in 1 .. Len(order) :
           r[i].type = "resume" /\ r[i].torrent = order[i] /\ ~r[i].old /\ r[i].current
    BY <1>1, <1>2, AboutType
  <1> HIDE DEF r
  <1>4. /\ p \in Seq(Alert)
        /\ DOMAIN q = 1 .. Len(q) /\ Len(q) \in Nat
        /\ DOMAIN p = 1 .. Len(q) + Len(order)
        /\ \A i \in 1 .. Len(q) : p[i] = q[i]
        /\ \A i \in 1 .. Len(order) : p[Len(q) + i] = r[i]
    <2>a. r \in Seq(Alert)
      BY <1>1
    <2>1. /\ q \o r \in Seq(Alert)
          /\ DOMAIN q = 1 .. Len(q) /\ Len(q) \in Nat
          /\ DOMAIN (q \o r) = 1 .. Len(q) + Len(r)
          /\ \A i \in 1 .. Len(q) : (q \o r)[i] = q[i]
          /\ \A i \in 1 .. Len(r) : (q \o r)[Len(q) + i] = r[i]
      BY <2>a, ConcatIn
    <2>2. QED BY <2>1, <1>1 DEF p
  <1> HIDE DEF p
  <1>5. \A i \in 1 .. Len(order) :
           (Good(r[i], t) <=> order[i] = t) /\ ~Bad(r[i], t)
    BY <1>3 DEF Good, Bad, Is
  <1>6. /\ \A i \in DOMAIN q : i \in DOMAIN p /\ p[i] = q[i]
        /\ \A i \in 1 .. Len(order) : Len(q) + i \in DOMAIN p /\ p[Len(q) + i] = r[i]
    BY <1>2, <1>4
  <1>7. ASSUME NEW i \in DOMAIN p, i \notin DOMAIN q
        PROVE  i - Len(q) \in 1 .. Len(order) /\ p[i] = r[i - Len(q)]
    <2>1. i - Len(q) \in 1 .. Len(order) /\ Len(q) + (i - Len(q)) = i
      BY <1>2, <1>4, <1>7
    <2>2. QED BY <2>1, <1>4
  <1>8. ASSUME NEW y, y # "resume" PROVE Told(p, y, t) <=> Told(q, y, t)
    BY <1>3, <1>6, <1>7, <1>8 DEF Told, Is
  <1>9. EndsWell(q, t) => EndsWell(p, t)
    BY <1>5, <1>6, <1>7 DEF EndsWell
  <1>10. AnsweredWell(q, t) => AnsweredWell(p, t)
    BY <1>6 DEF AnsweredWell
  <1>11. ASSUME NEW k \in DOMAIN order, order[k] = t
         PROVE  EndsWell(p, t) /\ AnsweredWell(p, t)
    <2>1. Len(q) + k \in DOMAIN p /\ Good(p[Len(q) + k], t)
      BY <1>2, <1>5, <1>6, <1>11
    <2>2. ASSUME NEW i \in DOMAIN p, Bad(p[i], t) PROVE i \in DOMAIN q
      BY <1>5, <1>7, <2>2
    <2>3. \A i \in DOMAIN q : Len(q) + k > i
      BY <1>2, <1>4
    <2>4. QED BY <2>1, <2>2, <2>3 DEF EndsWell, AnsweredWell
  <1>12. NotAsked(q, t) /\ (\A i \in DOMAIN order : order[i] # t) => NotAsked(p, t)
    BY <1>2, <1>3, <1>6, <1>7 DEF NotAsked
  <1>13. CheckAwaited(q, t) => CheckAwaited(p, t)
    BY <1>6 DEF CheckAwaited
  <1>14. QED
    BY <1>4, <1>8, <1>9, <1>10, <1>11, <1>12, <1>13 DEF p, r

-----------------------------------------------------------------------------
(* What the queue of jobs will do to a torrent *)

\* <id>.fastresume will be d when the jobs q are done, and is r[t] now.
LastIs(q, r, t, d) ==
    \/ r[t] = d /\ \A i \in DOMAIN q : ~Writes(q[i], t)
    \/ \E i \in DOMAIN q :
          /\ Writes(q[i], t) /\ q[i].data = d
          /\ \A j \in DOMAIN q : j > i => ~Writes(q[j], t)

WillRemove(q, t) == \E i \in DOMAIN q : Removes(q[i], t)

WillSearch(q, t) == \E i \in DOMAIN q : Fresh(q[i], t)

\* Resume data with metadata will be written.
WillWriteMeta(q, t) == \E i \in DOMAIN q : Writes(q[i], t) /\ q[i].meta

\* ... and not after the removal of <id>.torrent,
WritesFirst(q, t) ==
    \A i, j \in DOMAIN q : Writes(q[i], t) /\ q[i].meta /\ j < i => ~Removes(q[j], t)

\* ... and a torrent that is there searches for its files after it.
RemovesFirst(q, t) == \A i, j \in DOMAIN q : Fresh(q[i], t) /\ j > i => ~Removes(q[j], t)

\* Before <id>.torrent is removed, <id>.fastresume is; M: those who have it.
InPairs(q, t, M) ==
    \A i \in DOMAIN q : Removes(q[i], t) =>
        IF i = 1 THEN t \notin M ELSE q[i - 1] = ResumeJob(t, "none", FALSE)

NoDataNoMeta(q) == \A i \in DOMAIN q : q[i].op = "resume" /\ q[i].data = "none" => ~q[i].meta

LEMMA NothingToDo ==
  ASSUME NEW r, NEW t
  PROVE  /\ \A d : LastIs(<< >>, r, t, d) <=> r[t] = d
         /\ ~WillRemove(<< >>, t) /\ ~WillSearch(<< >>, t) /\ ~WillWriteMeta(<< >>, t)
         /\ WritesFirst(<< >>, t) /\ RemovesFirst(<< >>, t)
         /\ \A M : InPairs(<< >>, t, M)
         /\ NoDataNoMeta(<< >>)
  <1>1. DOMAIN << >> = {}
    OBVIOUS
  <1>2. QED
    BY <1>1 DEF LastIs, WillRemove, WillSearch, WillWriteMeta, WritesFirst, RemovesFirst, InPairs,
                NoDataNoMeta

\* The data of the last write is what Final says.
LEMMA LastIsFinal ==
  ASSUME NEW t, NEW d, jobs \in Seq(Job), LastIs(jobs, resume, t, d)
  PROVE  Final(t) = d
  <1> DEFINE writes == {i \in DOMAIN jobs : jobs[i].op = "resume" /\ jobs[i].torrent = t}
  <1>1. DOMAIN jobs \subseteq Nat
    BY LenProperties
  <1>2. Final(t) = IF writes = {} THEN resume[t] ELSE jobs[Max(writes)].data
    BY DEF Final
  <1>3. CASE resume[t] = d /\ \A i \in DOMAIN jobs : ~Writes(jobs[i], t)
    BY <1>2, <1>3 DEF Writes
  <1>4. ASSUME NEW i \in DOMAIN jobs, Writes(jobs[i], t), jobs[i].data = d,
               \A j \in DOMAIN jobs : j > i => ~Writes(jobs[j], t)
        PROVE  Final(t) = d
    <2>1. i \in writes
      BY <1>4 DEF Writes
    <2>2. \A j \in writes : j <= i
      BY <1>1, <1>4 DEF Writes
    <2>3. writes \subseteq Nat
      BY <1>1
    <2> HIDE DEF writes
    <2>4. i >= i /\ \A j \in writes : i >= j
      BY <2>1, <2>2, <2>3
    <2>5. Max(writes) \in writes /\ \A j \in writes : Max(writes) >= j
      BY <2>1, <2>4 DEF Max
    <2>6. Max(writes) = i
      BY <2>1, <2>2, <2>3, <2>5
    <2>7. QED BY <1>2, <1>4, <2>1, <2>6
  <1>5. QED
    BY <1>3, <1>4 DEF LastIs

\* A job is posted.
LEMMA Posted ==
  ASSUME NEW q \in Seq(Job), NEW x \in Job, NEW t
  PROVE  LET p == Append(q, x) IN
         /\ p \in Seq(Job)
         /\ \A r, d : LastIs(q, r, t, d) /\ ~Writes(x, t) => LastIs(p, r, t, d)
         /\ \A r : Writes(x, t) => LastIs(p, r, t, x.data)
         /\ WillRemove(p, t) <=> WillRemove(q, t) \/ Removes(x, t)
         /\ WillSearch(p, t) <=> WillSearch(q, t) \/ Fresh(x, t)
         /\ WillWriteMeta(p, t) <=> WillWriteMeta(q, t) \/ (Writes(x, t) /\ x.meta)
         /\ WritesFirst(q, t) /\ ~(Writes(x, t) /\ x.meta) => WritesFirst(p, t)
         /\ WritesFirst(q, t) /\ ~WillRemove(q, t) /\ ~Removes(x, t) => WritesFirst(p, t)
         /\ RemovesFirst(q, t) /\ ~Removes(x, t) => RemovesFirst(p, t)
         /\ RemovesFirst(q, t) /\ ~WillSearch(q, t) => RemovesFirst(p, t)
         /\ \A M : InPairs(q, t, M) /\ ~Removes(x, t) => InPairs(p, t, M)
         /\ NoDataNoMeta(q) /\ (x.op = "resume" /\ x.data = "none" => ~x.meta) => NoDataNoMeta(p)
  <1> DEFINE p == Append(q, x)
             n == Len(q)
  <1>1. /\ p \in Seq(Job)
        /\ DOMAIN q = 1 .. n /\ n \in Nat /\ DOMAIN p = 1 .. n + 1
        /\ \A i \in 1 .. n : p[i] = q[i]
        /\ p[n + 1] = x
    BY AppendIn
  <1> HIDE DEF p, n
  <1>2. /\ \A i \in DOMAIN q : i \in DOMAIN p /\ p[i] = q[i] /\ i < n + 1
        /\ \A i \in DOMAIN p : i \in DOMAIN q \/ (i = n + 1 /\ p[i] = x)
        /\ n + 1 \in DOMAIN p /\ n + 1 \notin DOMAIN q
        /\ \A i \in DOMAIN p : ~(i > n + 1)
        /\ DOMAIN p \subseteq Nat
    BY <1>1
  <1>3. ASSUME NEW r, NEW d, LastIs(q, r, t, d), ~Writes(x, t) PROVE LastIs(p, r, t, d)
    BY <1>1, <1>2, <1>3 DEF LastIs
  <1>4. ASSUME NEW r, Writes(x, t) PROVE LastIs(p, r, t, x.data)
    BY <1>1, <1>2, <1>4 DEF LastIs
  <1>5. /\ WillRemove(p, t) <=> WillRemove(q, t) \/ Removes(x, t)
        /\ WillSearch(p, t) <=> WillSearch(q, t) \/ Fresh(x, t)
        /\ WillWriteMeta(p, t) <=> WillWriteMeta(q, t) \/ (Writes(x, t) /\ x.meta)
    BY <1>1, <1>2 DEF WillRemove, WillSearch, WillWriteMeta
  <1>6. /\ WritesFirst(q, t) /\ ~(Writes(x, t) /\ x.meta) => WritesFirst(p, t)
        /\ WritesFirst(q, t) /\ ~WillRemove(q, t) /\ ~Removes(x, t) => WritesFirst(p, t)
    BY <1>1, <1>2 DEF WritesFirst, WillRemove
  <1>7. /\ RemovesFirst(q, t) /\ ~Removes(x, t) => RemovesFirst(p, t)
        /\ RemovesFirst(q, t) /\ ~WillSearch(q, t) => RemovesFirst(p, t)
    BY <1>1, <1>2 DEF RemovesFirst, WillSearch
  <1>8. ASSUME NEW M, InPairs(q, t, M), ~Removes(x, t) PROVE InPairs(p, t, M)
    <2> SUFFICES ASSUME NEW i \in DOMAIN p, Removes(p[i], t)
                 PROVE  IF i = 1 THEN t \notin M ELSE p[i - 1] = ResumeJob(t, "none", FALSE)
      BY DEF InPairs
    <2>1. i \in DOMAIN q /\ Removes(q[i], t)
      BY <1>2, <1>8
    <2>2. i # 1 => i - 1 \in DOMAIN q /\ p[i - 1] = q[i - 1]
      BY <1>1, <2>1
    <2>3. QED BY <1>8, <2>1, <2>2 DEF InPairs
  <1>9. NoDataNoMeta(q) /\ (x.op = "resume" /\ x.data = "none" => ~x.meta) => NoDataNoMeta(p)
    BY <1>1, <1>2 DEF NoDataNoMeta
  <1>10. QED
    BY <1>1, <1>3, <1>4, <1>5, <1>6, <1>7, <1>8, <1>9 DEF p

\* The first job is done.
LEMMA Done ==
  ASSUME NEW q \in Seq(Job), q # << >>, NEW t
  PROVE  LET p == Tail(q)
             x == Head(q) IN
         /\ x \in Job /\ p \in Seq(Job)
         /\ \A r, d : LastIs(q, r, t, d) /\ ~Writes(x, t) => LastIs(p, r, t, d)
         /\ \A r, s, d : LastIs(q, r, t, d) /\ Writes(x, t) /\ s[t] = x.data => LastIs(p, s, t, d)
         /\ WillRemove(p, t) => WillRemove(q, t)
         /\ WillSearch(p, t) => WillSearch(q, t)
         /\ WillWriteMeta(p, t) => WillWriteMeta(q, t)
         /\ Writes(x, t) /\ x.meta => WillWriteMeta(q, t)
         /\ Removes(x, t) => WillRemove(q, t)
         /\ Fresh(x, t) => WillSearch(q, t)
         /\ WritesFirst(q, t) => WritesFirst(p, t)
         /\ WritesFirst(q, t) /\ Removes(x, t) => ~WillWriteMeta(p, t)
         /\ RemovesFirst(q, t) => RemovesFirst(p, t)
         /\ RemovesFirst(q, t) /\ Fresh(x, t) => ~WillRemove(p, t)
         /\ \A M : InPairs(q, t, M) /\ Removes(x, t) => t \notin M
         /\ \A M, N : /\ InPairs(q, t, M)
                      /\ x = ResumeJob(t, "none", FALSE) => t \notin N
                      => InPairs(p, t, N)
         /\ NoDataNoMeta(q) => /\ NoDataNoMeta(p)
                               /\ x.op = "resume" /\ x.data = "none" => ~x.meta
  <1> DEFINE p == Tail(q)
             x == Head(q)
             n == Len(q)
  <1>1. /\ x \in Job /\ p \in Seq(Job)
        /\ n \in Nat \ {0} /\ DOMAIN q = 1 .. n /\ DOMAIN p = 1 .. n - 1
        /\ \A i \in DOMAIN p : p[i] = q[i + 1]
        /\ x = q[1]
    BY TailIn
  <1> HIDE DEF p, x, n
  <1>2. /\ \A i \in DOMAIN p : i + 1 \in DOMAIN q /\ p[i] = q[i + 1]
        /\ \A i \in DOMAIN q : i = 1 \/ (i - 1 \in DOMAIN p /\ p[i - 1] = q[i])
        /\ 1 \in DOMAIN q /\ q[1] = x
        /\ DOMAIN p \subseteq Nat \ {0} /\ DOMAIN q \subseteq Nat \ {0}
    BY <1>1
  <1>3. ASSUME NEW i \in DOMAIN q, Writes(q[i], t), NEW d, q[i].data = d, i # 1,
               \A j \in DOMAIN q : j > i => ~Writes(q[j], t), NEW r
        PROVE  LastIs(p, r, t, d)
    <2>1. i - 1 \in DOMAIN p /\ p[i - 1] = q[i]
      BY <1>2, <1>3
    <2>2. ASSUME NEW j \in DOMAIN p, j > i - 1 PROVE ~Writes(p[j], t)
      <3>1. j + 1 \in DOMAIN q /\ j + 1 > i /\ p[j] = q[j + 1]
        BY <1>2, <2>2
      <3>2. QED BY <1>3, <3>1
    <2>3. QED BY <1>3, <2>1, <2>2 DEF LastIs
  <1>4. ASSUME \A j \in DOMAIN q : j > 1 => ~Writes(q[j], t)
        PROVE  \A j \in DOMAIN p : ~Writes(p[j], t)
    BY <1>2, <1>4
  <1>5. ASSUME NEW r, NEW d, LastIs(q, r, t, d), ~Writes(x, t) PROVE LastIs(p, r, t, d)
    <2>1. CASE r[t] = d /\ \A i \in DOMAIN q : ~Writes(q[i], t)
      BY <1>2, <2>1 DEF LastIs
    <2>2. CASE ~(r[t] = d /\ \A i \in DOMAIN q : ~Writes(q[i], t))
      <3>1. PICK i \in DOMAIN q : /\ Writes(q[i], t) /\ q[i].data = d
                                  /\ \A j \in DOMAIN q : j > i => ~Writes(q[j], t)
        BY <1>5, <2>2 DEF LastIs
      <3>2. i # 1
        BY <1>2, <1>5, <3>1
      <3>3. QED BY <1>3, <3>1, <3>2
    <2>3. QED BY <2>1, <2>2
  <1>6. ASSUME NEW r, NEW s, NEW d, LastIs(q, r, t, d), Writes(x, t), s[t] = x.data
        PROVE  LastIs(p, s, t, d)
    <2>1. PICK i \in DOMAIN q : /\ Writes(q[i], t) /\ q[i].data = d
                                /\ \A j \in DOMAIN q : j > i => ~Writes(q[j], t)
      BY <1>2, <1>6 DEF LastIs
    <2>2. CASE i = 1
      <3>1. \A j \in DOMAIN p : ~Writes(p[j], t)
        BY <1>4, <2>1, <2>2
      <3>2. s[t] = d
        BY <1>2, <1>6, <2>1, <2>2
      <3>3. QED BY <3>1, <3>2 DEF LastIs
    <2>3. CASE i # 1
      BY <1>3, <2>1, <2>3
    <2>4. QED BY <2>2, <2>3
  <1>7. /\ WillRemove(p, t) => WillRemove(q, t)
        /\ WillSearch(p, t) => WillSearch(q, t)
        /\ WillWriteMeta(p, t) => WillWriteMeta(q, t)
        /\ Writes(x, t) /\ x.meta => WillWriteMeta(q, t)
        /\ Removes(x, t) => WillRemove(q, t)
        /\ Fresh(x, t) => WillSearch(q, t)
    BY <1>2 DEF WillRemove, WillSearch, WillWriteMeta
  <1>8. ASSUME NEW i \in DOMAIN p, NEW j \in DOMAIN p
        PROVE  /\ i + 1 \in DOMAIN q /\ j + 1 \in DOMAIN q
               /\ p[i] = q[i + 1] /\ p[j] = q[j + 1]
               /\ j < i => j + 1 < i + 1
               /\ j > i => j + 1 > i + 1
               /\ 1 < i + 1 /\ j + 1 > 1
    BY <1>2
  <1>9. /\ WritesFirst(q, t) => WritesFirst(p, t)
        /\ RemovesFirst(q, t) => RemovesFirst(p, t)
    BY <1>8 DEF WritesFirst, RemovesFirst
  <1>10. WritesFirst(q, t) /\ Removes(x, t) => ~WillWriteMeta(p, t)
    BY <1>2, <1>8 DEF WritesFirst, WillWriteMeta
  <1>11. RemovesFirst(q, t) /\ Fresh(x, t) => ~WillRemove(p, t)
    BY <1>2, <1>8 DEF RemovesFirst, WillRemove
  <1>12. ASSUME NEW M, InPairs(q, t, M), Removes(x, t) PROVE t \notin M
    BY <1>2, <1>12 DEF InPairs
  <1>13. ASSUME NEW M, NEW N, InPairs(q, t, M), x = ResumeJob(t, "none", FALSE) => t \notin N
         PROVE  InPairs(p, t, N)
    <2> SUFFICES ASSUME NEW i \in DOMAIN p, Removes(p[i], t)
                 PROVE  IF i = 1 THEN t \notin N ELSE p[i - 1] = ResumeJob(t, "none", FALSE)
      BY DEF InPairs
    <2>1. i + 1 \in DOMAIN q /\ p[i] = q[i + 1] /\ i + 1 # 1 /\ (i + 1) - 1 = i
      BY <1>2
    <2>2. q[i] = ResumeJob(t, "none", FALSE)
      BY <1>13, <2>1 DEF InPairs
    <2>3. i # 1 => p[i - 1] = q[i]
      BY <1>1, <2>1
    <2>4. i = 1 => x = ResumeJob(t, "none", FALSE)
      BY <1>1, <2>2
    <2>5. QED BY <1>13, <2>2, <2>3, <2>4
  <1>14. NoDataNoMeta(q) => NoDataNoMeta(p) /\ (x.op = "resume" /\ x.data = "none" => ~x.meta)
    BY <1>2 DEF NoDataNoMeta
  <1>15. QED
    BY <1>1, <1>5, <1>6, <1>7, <1>9, <1>10, <1>11, <1>12, <1>13, <1>14 DEF p, x

\* What two queues have in common that differ in other respects only
LEMMA SameWrites ==
  ASSUME NEW q \in Seq(Job), NEW p \in Seq(Job), DOMAIN p = DOMAIN q, NEW t,
         \A i \in DOMAIN q : /\ Writes(p[i], t) <=> Writes(q[i], t)
                             /\ Writes(q[i], t) => p[i] = q[i]
  PROVE  /\ \A r, d : LastIs(q, r, t, d) => LastIs(p, r, t, d)
  BY DEF LastIs

\* Searches for u are those of an earlier torrent.
LEMMA OldJobs ==
  ASSUME NEW q \in Seq(Job), NEW u, NEW t
  PROVE  LET p == Marked(q, u, OldJob) IN
         /\ p \in Seq(Job)
         /\ \A r, d : LastIs(q, r, t, d) => LastIs(p, r, t, d)
         /\ WillRemove(p, t) <=> WillRemove(q, t)
         /\ WillSearch(p, t) <=> WillSearch(q, t) /\ t # u
         /\ WillWriteMeta(p, t) <=> WillWriteMeta(q, t)
         /\ WritesFirst(q, t) => WritesFirst(p, t)
         /\ RemovesFirst(q, t) => RemovesFirst(p, t)
         /\ \A M : InPairs(q, t, M) => InPairs(p, t, M)
         /\ NoDataNoMeta(q) => NoDataNoMeta(p)
  <1> DEFINE p == Marked(q, u, OldJob)
  <1>0. p \in Seq(Job)
    BY MarkedJobs
  <1>1. /\ p \in Seq(Job) /\ DOMAIN p = DOMAIN q
        /\ \A i \in DOMAIN q : p[i] = IF q[i].torrent = u THEN OldJob(q[i]) ELSE q[i]
    <2> HIDE DEF p
    <2>1. p = [i \in DOMAIN q |-> IF q[i].torrent = u THEN OldJob(q[i]) ELSE q[i]]
      BY DEF p, Marked
    <2>2. QED BY <1>0, <2>1
  <1> HIDE DEF p
  <1>2. DOMAIN q \subseteq Nat /\ (\A i \in DOMAIN q : q[i] \in Job) /\ DOMAIN q = 1 .. Len(q)
    BY LenProperties, ElementOfSeq
  <1>3. ASSUME NEW i \in DOMAIN q
        PROVE  /\ Writes(p[i], t) <=> Writes(q[i], t)
               /\ q[i].op = "resume" => p[i] = q[i]
               /\ p[i].op = q[i].op
               /\ Removes(p[i], t) <=> Removes(q[i], t)
    BY <1>1, <1>2, MarkedJob
  <1>4. ASSUME NEW i \in DOMAIN q
        PROVE  Fresh(p[i], t) <=> Fresh(q[i], t) /\ t # u
    <2>1. CASE q[i].torrent = u
      BY <1>1, <1>2, <2>1, MarkedJob DEF Fresh
    <2>2. CASE q[i].torrent # u
      BY <1>1, <2>2 DEF Fresh
    <2>3. QED BY <2>1, <2>2
  <1>5. ASSUME NEW i \in DOMAIN q, Writes(q[i], t) PROVE p[i] = q[i]
    BY <1>3, <1>5 DEF Writes
  <1>6. \A r, d : LastIs(q, r, t, d) => LastIs(p, r, t, d)
    BY <1>1, <1>3, <1>5, SameWrites
  <1>7. /\ WillRemove(p, t) <=> WillRemove(q, t)
        /\ WillSearch(p, t) <=> WillSearch(q, t) /\ t # u
        /\ WillWriteMeta(p, t) <=> WillWriteMeta(q, t)
    BY <1>1, <1>3, <1>4, <1>5 DEF WillRemove, WillSearch, WillWriteMeta
  <1>8. WritesFirst(q, t) => WritesFirst(p, t)
    BY <1>1, <1>3, <1>5 DEF WritesFirst
  <1>9. RemovesFirst(q, t) => RemovesFirst(p, t)
    BY <1>1, <1>3, <1>4 DEF RemovesFirst
  <1>10. ASSUME NEW M, InPairs(q, t, M) PROVE InPairs(p, t, M)
    <2> SUFFICES ASSUME NEW i \in DOMAIN q, Removes(q[i], t), i # 1
                 PROVE  p[i - 1] = ResumeJob(t, "none", FALSE)
      BY <1>1, <1>3, <1>10 DEF InPairs
    <2>0. i - 1 \in DOMAIN q
      BY <1>2
    <2>1. q[i - 1] = ResumeJob(t, "none", FALSE) /\ i - 1 \in DOMAIN q
      BY <2>0, <1>10 DEF InPairs
    <2>2. q[i - 1].op = "resume"
      BY <2>1 DEF ResumeJob
    <2>3. QED BY <1>3, <2>1, <2>2
  <1>11. NoDataNoMeta(q) => NoDataNoMeta(p)
    BY <1>1, <1>3 DEF NoDataNoMeta
  <1>12. QED
    BY <1>1, <1>6, <1>7, <1>8, <1>9, <1>10, <1>11 DEF p

\* The settings of u have changed.
LEMMA OutdatedJobs ==
  ASSUME NEW q \in Seq(Job), NEW u, NEW t
  PROVE  LET p == Marked(q, u, OutdatedJob) IN
         /\ p \in Seq(Job)
         /\ \A r, s, d : LastIs(q, r, t, d) /\ t # u /\ s[t] = r[t] => LastIs(p, s, t, d)
         /\ WillRemove(p, t) <=> WillRemove(q, t)
         /\ WillSearch(p, t) <=> WillSearch(q, t)
         /\ WillWriteMeta(p, t) <=> WillWriteMeta(q, t)
         /\ WritesFirst(q, t) => WritesFirst(p, t)
         /\ RemovesFirst(q, t) => RemovesFirst(p, t)
         /\ \A M : InPairs(q, t, M) => InPairs(p, t, M)
         /\ NoDataNoMeta(q) => NoDataNoMeta(p)
  <1> DEFINE p == Marked(q, u, OutdatedJob)
  <1>0. p \in Seq(Job)
    BY MarkedJobs
  <1>1. /\ p \in Seq(Job) /\ DOMAIN p = DOMAIN q
        /\ \A i \in DOMAIN q : p[i] = IF q[i].torrent = u THEN OutdatedJob(q[i]) ELSE q[i]
    <2> HIDE DEF p
    <2>1. p = [i \in DOMAIN q |-> IF q[i].torrent = u THEN OutdatedJob(q[i]) ELSE q[i]]
      BY DEF p, Marked
    <2>2. QED BY <1>0, <2>1
  <1> HIDE DEF p
  <1>2. DOMAIN q \subseteq Nat /\ (\A i \in DOMAIN q : q[i] \in Job) /\ DOMAIN q = 1 .. Len(q)
    BY LenProperties, ElementOfSeq
  <1>3. ASSUME NEW i \in DOMAIN q
        PROVE  /\ Writes(p[i], t) <=> Writes(q[i], t)
               /\ Removes(p[i], t) <=> Removes(q[i], t)
               /\ Fresh(p[i], t) <=> Fresh(q[i], t)
               /\ p[i].op = q[i].op
               /\ q[i].op = "resume" => /\ p[i].meta = q[i].meta
                                        /\ p[i].data = "none" <=> q[i].data = "none"
                                        /\ q[i].data = "none" => p[i] = q[i]
    BY <1>1, <1>2, MarkedJob
  <1>4. ASSUME NEW i \in DOMAIN q, Writes(q[i], t)
        PROVE  /\ p[i].meta = q[i].meta
               /\ t # u => p[i] = q[i]
    BY <1>1, <1>3, <1>4 DEF Writes
  <1>5. ASSUME NEW r, NEW s, NEW d, LastIs(q, r, t, d), t # u, s[t] = r[t] PROVE LastIs(p, s, t, d)
    BY <1>1, <1>3, <1>4, <1>5 DEF LastIs
  <1>6. /\ WillRemove(p, t) <=> WillRemove(q, t)
        /\ WillSearch(p, t) <=> WillSearch(q, t)
        /\ WillWriteMeta(p, t) <=> WillWriteMeta(q, t)
    BY <1>1, <1>3, <1>4 DEF WillRemove, WillSearch, WillWriteMeta
  <1>7. WritesFirst(q, t) => WritesFirst(p, t)
    BY <1>1, <1>3, <1>4 DEF WritesFirst
  <1>8. RemovesFirst(q, t) => RemovesFirst(p, t)
    BY <1>1, <1>3 DEF RemovesFirst
  <1>9. ASSUME NEW M, InPairs(q, t, M) PROVE InPairs(p, t, M)
    <2> SUFFICES ASSUME NEW i \in DOMAIN q, Removes(q[i], t), i # 1
                 PROVE  p[i - 1] = ResumeJob(t, "none", FALSE)
      BY <1>1, <1>3, <1>9 DEF InPairs
    <2>0. i - 1 \in DOMAIN q
      BY <1>2
    <2>1. q[i - 1] = ResumeJob(t, "none", FALSE) /\ i - 1 \in DOMAIN q
      BY <2>0, <1>9 DEF InPairs
    <2>2. q[i - 1].op = "resume" /\ q[i - 1].data = "none"
      BY <2>1 DEF ResumeJob
    <2>3. QED BY <1>3, <2>1, <2>2
  <1>10. NoDataNoMeta(q) => NoDataNoMeta(p)
    BY <1>1, <1>3 DEF NoDataNoMeta
  <1>11. QED
    BY <1>1, <1>5, <1>6, <1>7, <1>8, <1>9, <1>10 DEF p

-----------------------------------------------------------------------------
(* How many answers are to come *)

\* The answers to requests for resume data that wait
Answers(q) == {i \in DOMAIN q : q[i].type = "resume"}

LEMMA AnswersFinite ==
  ASSUME NEW q \in Seq(Alert)
  PROVE  IsFiniteSet(Answers(q)) /\ Cardinality(Answers(q)) \in Nat
  <1>1. DOMAIN q = 1 .. Len(q) /\ Len(q) \in Nat
    BY LenProperties
  <1>2. IsFiniteSet(DOMAIN q)
    BY <1>1, FS_Interval
  <1>3. Answers(q) \in SUBSET DOMAIN q
    BY DEF Answers
  <1>4. IsFiniteSet(Answers(q))
    BY <1>2, <1>3, FS_Subset
  <1>5. QED BY <1>4, FS_CardinalityType

LEMMA NoAnswers == Cardinality(Answers(<< >>)) = 0
  <1>1. Answers(<< >>) = {}
    BY EmptySeq DEF Answers
  <1>2. QED BY <1>1, FS_EmptySet

\* The head is handled.
LEMMA TailAnswers ==
  ASSUME NEW q \in Seq(Alert), q # << >>
  PROVE  LET n == Cardinality(Answers(q)) IN
         /\ Cardinality(Answers(Tail(q))) <= n
         /\ Head(q).type = "resume" => n > 0 /\ Cardinality(Answers(Tail(q))) <= n - 1
  <1> DEFINE p == Tail(q)
             S == Answers(p)
             T == Answers(q) \ {1}
             f == [i \in S |-> i + 1]
  <1>1. /\ Len(q) \in Nat \ {0} /\ DOMAIN q = 1 .. Len(q) /\ DOMAIN p = 1 .. Len(q) - 1
        /\ \A i \in DOMAIN p : p[i] = q[i + 1]
        /\ Head(q) = q[1] /\ p \in Seq(Alert)
    BY TailIn
  <1> HIDE DEF p
  <1>2. IsFiniteSet(Answers(q)) /\ Cardinality(Answers(q)) \in Nat
    BY AnswersFinite
  <1>3. IsFiniteSet(T) /\ Cardinality(T) =
           IF 1 \in Answers(q) THEN Cardinality(Answers(q)) - 1 ELSE Cardinality(Answers(q))
    BY <1>2, FS_RemoveElement
  <1>4. f \in Injection(S, T)
    <2>1. \A i \in S : i \in Nat /\ i + 1 \in T
      BY <1>1 DEF Answers
    <2>2. \A i, j \in S : i # j => i + 1 # j + 1
      BY <2>1
    <2> HIDE DEF S, T
    <2>3. f \in [S -> T] /\ \A i, j \in S : f[i] = f[j] => i = j
      BY <2>1, <2>2
    <2>4. QED BY <2>3 DEF Injection, IsInjective
  <1>5. Cardinality(S) <= Cardinality(T)
    BY <1>3, <1>4, FS_Injection
  <1>6. Cardinality(S) \in Nat
    BY <1>1, AnswersFinite
  <1>7. Head(q).type = "resume" => 1 \in Answers(q)
    BY <1>1 DEF Answers
  <1>8. 1 \in Answers(q) => Cardinality(Answers(q)) > 0
    BY <1>2, FS_EmptySet
  <1> HIDE DEF S, T
  <1>9. QED
    BY <1>2, <1>3, <1>5, <1>6, <1>7, <1>8 DEF S, p

\* Something else is added.
LEMMA AppendAnswers ==
  ASSUME NEW q \in Seq(Alert), NEW u \in Torrent,
         NEW type \in {"added", "refused", "metadata", "checked"}
  PROVE  Answers(Append(q, About(type, u))) = Answers(q)
  <1> DEFINE x == About(type, u)
             p == Append(q, x)
  <1>1. x \in Alert /\ x.type # "resume"
    BY AboutType
  <1> HIDE DEF x
  <1>2. /\ DOMAIN q = 1 .. Len(q) /\ Len(q) \in Nat /\ DOMAIN p = 1 .. Len(q) + 1
        /\ \A i \in 1 .. Len(q) : p[i] = q[i]
        /\ p[Len(q) + 1] = x
    BY <1>1, AppendIn
  <1> HIDE DEF p
  <1>3. Answers(p) = Answers(q)
    BY <1>1, <1>2 DEF Answers
  <1>4. QED BY <1>3 DEF p, x

LEMMA MarkedAnswers ==
  ASSUME NEW q \in Seq(Alert), NEW u
  PROVE  /\ Answers(Marked(q, u, OldAlert)) = Answers(q)
         /\ Answers(Marked(q, u, OutdatedAlert)) = Answers(q)
  <1> DEFINE p == Marked(q, u, OldAlert)
             r == Marked(q, u, OutdatedAlert)
  <1>1. /\ DOMAIN p = DOMAIN q /\ \A i \in DOMAIN q : p[i].type = q[i].type
        /\ DOMAIN r = DOMAIN q /\ \A i \in DOMAIN q : r[i].type = q[i].type
    BY MarkedType
  <1> HIDE DEF p, r
  <1>2. Answers(p) = Answers(q) /\ Answers(r) = Answers(q)
    BY <1>1 DEF Answers
  <1>3. QED BY <1>2 DEF p, r

\* Resume data is asked for: as many answers as requests are to come.
LEMMA ResumesAnswers ==
  ASSUME NEW q \in Seq(Alert), NEW order \in Seq(Torrent)
  PROVE  /\ Cardinality(Answers(q \o Resumes(order))) <= Cardinality(Answers(q)) + Len(order)
         /\ Len(order) \in Nat
  <1> DEFINE r == Resumes(order)
             p == q \o r
             more == Len(q) + 1 .. Len(q) + Len(order)
  <1>1. r \in Seq(Alert) /\ Len(r) = Len(order)
    BY ResumesType
  <1>2. Len(order) \in Nat
    BY LenProperties
  <1> HIDE DEF r
  <1>3. /\ p \in Seq(Alert)
        /\ DOMAIN q = 1 .. Len(q) /\ Len(q) \in Nat
        /\ DOMAIN p = 1 .. Len(q) + Len(order)
        /\ \A i \in 1 .. Len(q) : p[i] = q[i]
    <2>1. /\ q \o r \in Seq(Alert)
          /\ DOMAIN q = 1 .. Len(q) /\ Len(q) \in Nat
          /\ DOMAIN (q \o r) = 1 .. Len(q) + Len(r)
          /\ \A i \in 1 .. Len(q) : (q \o r)[i] = q[i]
      BY <1>1, ConcatIn
    <2>2. QED BY <2>1, <1>1
  <1> HIDE DEF p
  <1>4. Answers(p) \in SUBSET (Answers(q) \cup more)
    BY <1>2, <1>3 DEF Answers
  <1>5. IsFiniteSet(more) /\ Cardinality(more) = Len(order)
    <2> DEFINE a == Len(q) + 1
               b == Len(q) + Len(order)
    <2>1. a \in Int /\ b \in Int /\ (a > b <=> Len(order) = 0) /\ b - a + 1 = Len(order)
      BY <1>2, <1>3
    <2> HIDE DEF a, b
    <2>2. IsFiniteSet(a .. b) /\ Cardinality(a .. b) = IF a > b THEN 0 ELSE b - a + 1
      BY <2>1, FS_Interval
    <2>3. IsFiniteSet(a .. b) /\ Cardinality(a .. b) = Len(order)
      BY <2>1, <2>2
    <2>4. QED BY <2>3 DEF a, b
  <1> HIDE DEF more
  <1>6. IsFiniteSet(Answers(q)) /\ Cardinality(Answers(q)) \in Nat
    BY AnswersFinite
  <1>7. /\ IsFiniteSet(Answers(q) \cup more)
        /\ Cardinality(Answers(q) \cup more)
             = Cardinality(Answers(q)) + Cardinality(more) - Cardinality(Answers(q) \cap more)
    BY <1>5, <1>6, FS_Union
  <1>8. IsFiniteSet(Answers(q) \cap more) /\ Cardinality(Answers(q) \cap more) \in Nat
    <2>1. Answers(q) \cap more \in SUBSET more
      OBVIOUS
    <2>2. IsFiniteSet(Answers(q) \cap more)
      BY <2>1, <1>5, FS_Subset
    <2>3. QED BY <2>2, FS_CardinalityType
  <1>9. /\ Cardinality(Answers(p)) <= Cardinality(Answers(q) \cup more)
        /\ Cardinality(Answers(p)) \in Nat
    <2>1. Cardinality(Answers(p)) <= Cardinality(Answers(q) \cup more)
      BY <1>4, <1>7, FS_Subset
    <2>2. QED BY <2>1, <1>3, AnswersFinite
  <1>10. Cardinality(Answers(p)) <= Cardinality(Answers(q)) + Len(order)
    BY <1>2, <1>5, <1>6, <1>7, <1>8, <1>9
  <1>11. QED BY <1>2, <1>10 DEF p, r

\* What the requests of a set of torrents are
LEMMA OrderType ==
  ASSUME NEW S \in SUBSET Torrent, NEW order \in SetToSeqs(S)
  PROVE  /\ order \in Seq(Torrent)
         /\ \A i \in DOMAIN order : order[i] \in S
         /\ \A t \in S : \E i \in DOMAIN order : order[i] = t
  <1> DEFINE D == 1 .. Cardinality(S)
  <1>1. IsFiniteSet(S)
    BY TorrentAssumption, FS_Subset
  <1>2. Cardinality(S) \in Nat
    BY <1>1, FS_CardinalityType
  <1>3. order \in [D -> S] /\ \A i, j \in D : i # j => order[i] # order[j]
    BY DEF SetToSeqs
  <1>4. order \in Seq(Torrent)
    <2>1. order \in [1 .. Cardinality(S) -> Torrent]
      BY <1>3
    <2>2. QED BY <2>1, <1>2, SeqDef
  <1>5. order \in Surjection(D, S)
    <2>1. order \in Injection(D, S)
      BY <1>3 DEF Injection, IsInjective
    <2>2. IsFiniteSet(D) /\ Cardinality(D) = Cardinality(S)
      BY <1>2, FS_Interval
    <2> HIDE DEF D
    <2>3. QED BY <1>1, <2>1, <2>2, FS_Injection
  <1>6. \A t \in S : \E i \in D : order[i] = t
    BY <1>5 DEF Surjection
  <1>7. DOMAIN order = D
    BY <1>3
  <1> HIDE DEF D
  <1>8. QED BY <1>3, <1>4, <1>6, <1>7

-----------------------------------------------------------------------------
(* The types *)

SetsOK ==
    /\ phase \in {"running", "exiting", "stopping", "down"}
    /\ torrents \subseteq Torrent /\ loading \subseteq Torrent \ torrents
    /\ params \in [Torrent -> Params]
    /\ preview \subseteq Torrent \ (torrents \cup loading)
    /\ hasMetadata \subseteq torrents /\ maintenance \subseteq torrents
    /\ torrentFile \subseteq Torrent
    /\ torrents \subseteq inSession /\ inSession \subseteq Torrent
    /\ nativeMeta \subseteq inSession /\ unchecked \subseteq nativeMeta
    /\ failed \subseteq Torrent /\ mixed \subseteq Torrent /\ reloaded \subseteq Torrent

DiskOK ==
    /\ resume \in [Torrent -> Data]
    /\ resumeMeta \subseteq {t \in Torrent : resume[t] # "none"}

\* Nothing runs between a stop and the next start.
NothingWhenDown ==
    phase = "down" =>
        /\ torrents = {} /\ preview = {} /\ hasMetadata = {} /\ maintenance = {}
        /\ inSession = {} /\ jobs = << >> /\ results = << >> /\ alerts = << >>

\* No more answers are to come than were asked for, and what was added to
\* libtorrent is there when its alert is handled.
AlertsOK(q, n, S) ==
    /\ q \in Seq(Alert) /\ n \in Nat
    /\ Cardinality(Answers(q)) <= n
    /\ \A t \in Torrent : Told(q, "added", t) => t \in S

JobsOK(q) == q \in Seq(Job) /\ NoDataNoMeta(q)

TypeInv ==
    /\ SetsOK /\ DiskOK /\ NothingWhenDown
    /\ AlertsOK(alerts, numResumeData, inSession)
    /\ JobsOK(jobs) /\ results \in Seq(SearchJob)

LEMMA TypeInvType == TypeInv => TypeOK
  <1> SUFFICES ASSUME TypeInv PROVE TypeOK
    OBVIOUS
  <1>1. /\ numResumeData \in Nat /\ alerts \in Seq(Alert) /\ jobs \in Seq(Job)
        /\ results \in Seq([op : {"search"}, torrent : Torrent, old : BOOLEAN])
    BY DEF TypeInv, AlertsOK, JobsOK, SearchJob
  <1>2. QED BY <1>1 DEF TypeInv, TypeOK, SetsOK, DiskOK

-----------------------------------------------------------------------------
(* What the steps of the queues preserve of it *)

LEMMA NoAlerts ==
  ASSUME NEW S, NEW n \in Nat
  PROVE  AlertsOK(<< >>, n, S)
  <1>1. << >> \in Seq(Alert)
    OBVIOUS
  <1>2. Cardinality(Answers(<< >>)) <= n
    BY NoAnswers
  <1>3. \A t \in Torrent : ~Told(<< >>, "added", t)
    BY EmptySeq DEF Told
  <1>4. QED BY <1>1, <1>2, <1>3 DEF AlertsOK

LEMMA AlertAdded ==
  ASSUME NEW q, NEW n, NEW S, AlertsOK(q, n, S), NEW R, S \subseteq R, NEW u \in Torrent,
         NEW type \in {"added", "refused", "metadata", "checked"}, type = "added" => u \in R
  PROVE  AlertsOK(Append(q, About(type, u)), n, R)
  <1>1. q \in Seq(Alert)
    BY DEF AlertsOK
  <1> DEFINE p == Append(q, About(type, u))
  <1>2. p \in Seq(Alert) /\ \A t \in Torrent : Told(p, "added", t) => Told(q, "added", t) \/ ("added" = type /\ t = u)
    BY <1>1, AppendTold
  <1>3. Answers(p) = Answers(q)
    BY <1>1, AppendAnswers
  <1> HIDE DEF p
  <1>4. AlertsOK(p, n, R)
    BY <1>2, <1>3 DEF AlertsOK
  <1>5. QED BY <1>4 DEF p

LEMMA AlertHandled ==
  ASSUME NEW q, NEW n, NEW S, AlertsOK(q, n, S), q # << >>
  PROVE  /\ Head(q) \in Alert /\ Head(q).torrent \in Torrent
         /\ AlertsOK(Tail(q), n, S)
         /\ Head(q).type = "resume" => AlertsOK(Tail(q), n - 1, S)
         /\ Head(q).type = "added" /\ ~Head(q).old => Head(q).torrent \in S
  <1>1. q \in Seq(Alert) /\ n \in Nat /\ Cardinality(Answers(q)) <= n
    BY DEF AlertsOK
  <1>2. Head(q) \in Alert /\ Tail(q) \in Seq(Alert) /\ 1 \in DOMAIN q /\ Head(q) = q[1]
    BY <1>1, TailIn
  <1>3. Head(q).torrent \in Torrent
    BY <1>2 DEF Alert
  <1>4. \A t \in Torrent : Told(Tail(q), "added", t) => Told(q, "added", t)
    BY <1>1, TailTold
  <1>5. /\ Cardinality(Answers(q)) \in Nat /\ Cardinality(Answers(Tail(q))) \in Nat
        /\ Cardinality(Answers(Tail(q))) <= Cardinality(Answers(q))
        /\ Head(q).type = "resume" => /\ Cardinality(Answers(q)) > 0
                                      /\ Cardinality(Answers(Tail(q))) <= Cardinality(Answers(q)) - 1
    BY <1>1, <1>2, TailAnswers, AnswersFinite
  <1>6. /\ Cardinality(Answers(Tail(q))) <= n
        /\ Head(q).type = "resume" => n - 1 \in Nat /\ Cardinality(Answers(Tail(q))) <= n - 1
    BY <1>1, <1>5
  <1>7. AlertsOK(Tail(q), n, S)
    BY <1>1, <1>2, <1>4, <1>6 DEF AlertsOK
  <1>8. ASSUME Head(q).type = "resume" PROVE AlertsOK(Tail(q), n - 1, S)
    BY <1>2, <1>4, <1>6, <1>8 DEF AlertsOK
  <1>9. ASSUME Head(q).type = "added", ~Head(q).old PROVE Head(q).torrent \in S
    <2>1. Told(q, "added", Head(q).torrent)
      BY <1>2, <1>9 DEF Told, Is
    <2>2. QED BY <1>3, <2>1 DEF AlertsOK
  <1>10. QED
    BY <1>2, <1>3, <1>7, <1>8, <1>9

LEMMA AlertsMarked ==
  ASSUME NEW q, NEW n, NEW S, AlertsOK(q, n, S), NEW u
  PROVE  /\ AlertsOK(Marked(q, u, OldAlert), n, S)
         /\ AlertsOK(Marked(q, u, OldAlert), n, S \ {u})
         /\ AlertsOK(Marked(q, u, OutdatedAlert), n, S)
  <1>1. q \in Seq(Alert)
    BY DEF AlertsOK
  <1>2. CASE TRUE
    <2> DEFINE p == Marked(q, u, OldAlert)
    <2>1. p \in Seq(Alert) /\ \A t \in Torrent : Told(p, "added", t) => Told(q, "added", t) /\ t # u
      BY <1>1, OldTold
    <2>2. Answers(p) = Answers(q)
      BY <1>1, MarkedAnswers
    <2> HIDE DEF p
    <2>3. AlertsOK(p, n, S) /\ AlertsOK(p, n, S \ {u})
      BY <2>1, <2>2 DEF AlertsOK
    <2> DEFINE r == Marked(q, u, OutdatedAlert)
    <2>4. r \in Seq(Alert) /\ \A t \in Torrent : Told(r, "added", t) => Told(q, "added", t)
      BY <1>1, OutdatedTold
    <2>5. Answers(r) = Answers(q)
      BY <1>1, MarkedAnswers
    <2> HIDE DEF r
    <2>6. AlertsOK(r, n, S)
      BY <2>4, <2>5 DEF AlertsOK
    <2>7. QED BY <2>3, <2>6 DEF p, r
  <1>3. QED BY <1>2

LEMMA AlertsRequested ==
  ASSUME NEW q, NEW S, AlertsOK(q, numResumeData, S), NEW order \in Seq(Torrent),
         Requested(order, q)
  PROVE  /\ AlertsOK(alerts', numResumeData', S)
         /\ alerts' = q \o Resumes(order)
  <1>1. q \in Seq(Alert) /\ numResumeData \in Nat /\ Cardinality(Answers(q)) <= numResumeData
    BY DEF AlertsOK
  <1>2. alerts' = q \o Resumes(order) /\ numResumeData' = numResumeData + Len(order)
    BY DEF Requested, Resumes
  <1>3. /\ Cardinality(Answers(alerts')) <= Cardinality(Answers(q)) + Len(order)
        /\ Len(order) \in Nat
    BY <1>1, <1>2, ResumesAnswers
  <1>4. alerts' \in Seq(Alert) /\ \A t \in Torrent : Told(alerts', "added", t) => Told(q, "added", t)
    BY <1>1, <1>2, ResumesTold
  <1>5. Cardinality(Answers(q)) \in Nat /\ Cardinality(Answers(alerts')) \in Nat
    BY <1>1, <1>4, AnswersFinite
  <1>6. Cardinality(Answers(alerts')) <= numResumeData' /\ numResumeData' \in Nat
    BY <1>1, <1>2, <1>3, <1>5
  <1>7. QED
    BY <1>2, <1>4, <1>6 DEF AlertsOK

LEMMA JobsPosted ==
  ASSUME NEW q, JobsOK(q), NEW u \in Torrent
  PROVE  /\ \A d \in Data, m \in BOOLEAN :
               (d = "none" => ~m) => JobsOK(Append(q, ResumeJob(u, d, m)))
         /\ JobsOK(Append(q, RemoveTorrentFile(u)))
         /\ JobsOK(Append(q, Search(u)))
  <1>1. q \in Seq(Job) /\ NoDataNoMeta(q)
    BY DEF JobsOK
  <1>2. ASSUME NEW x \in Job, x.op = "resume" /\ x.data = "none" => ~x.meta
        PROVE  JobsOK(Append(q, x))
    BY <1>1, <1>2, Posted DEF JobsOK
  <1>3. ASSUME NEW d \in Data, NEW m \in BOOLEAN, d = "none" => ~m
        PROVE  JobsOK(Append(q, ResumeJob(u, d, m)))
    <2>1. /\ ResumeJob(u, d, m) \in Job
          /\ ResumeJob(u, d, m).data = d /\ ResumeJob(u, d, m).meta = m
      BY JobTypes
    <2>2. QED BY <1>2, <1>3, <2>1
  <1>4. /\ RemoveTorrentFile(u) \in Job /\ RemoveTorrentFile(u).op # "resume"
        /\ Search(u) \in Job /\ Search(u).op # "resume"
    BY JobTypes DEF RemoveTorrentFile, Search
  <1>5. QED BY <1>2, <1>3, <1>4

LEMMA JobDone ==
  ASSUME NEW q, JobsOK(q), q # << >>
  PROVE  /\ Head(q) \in Job /\ JobsOK(Tail(q))
         /\ Head(q).op = "resume" /\ Head(q).data = "none" => ~Head(q).meta
  BY Done DEF JobsOK

LEMMA JobsMarked ==
  ASSUME NEW q, JobsOK(q), NEW u
  PROVE  JobsOK(Marked(q, u, OldJob)) /\ JobsOK(Marked(q, u, OutdatedJob))
  <1>1. JobsOK(Marked(q, u, OldJob))
    BY OldJobs DEF JobsOK
  <1>2. JobsOK(Marked(q, u, OutdatedJob))
    BY OutdatedJobs DEF JobsOK
  <1>3. QED BY <1>1, <1>2

\* The jobs of the removal are posted one after the other, and so are the search
\* and the resume data of an answer.
LEMMA TwoPosted ==
  ASSUME NEW q \in Seq(Job), NEW x \in Job, NEW y \in Job
  PROVE  /\ q \o <<x, y>> = Append(Append(q, x), y)
         /\ q \o << >> \o <<x>> = Append(q, x)
         /\ q \o <<x>> \o <<y>> = Append(Append(q, x), y)
  <1>1. q \o <<x>> = Append(q, x) /\ Append(q, x) \in Seq(Job)
    BY AppendIsConcat, AppendProperties
  <1>2. Append(q, x) \o <<y>> = Append(Append(q, x), y)
    BY <1>1, AppendIsConcat
  <1>4. q \o <<x, y>> = Append(Append(q, x), y)
    <2> DEFINE two == <<x, y>>
               p == Append(q, x)
               r == Append(p, y)
               s == q \o two
    <2>1. two \in Seq(Job) /\ Len(two) = 2 /\ two[1] = x /\ two[2] = y
      OBVIOUS
    <2> HIDE DEF two
    <2>2. /\ Len(q) \in Nat /\ s \in Seq(Job) /\ Len(s) = Len(q) + 2
          /\ \A i \in 1 .. Len(q) : s[i] = q[i]
          /\ \A i \in 1 .. 2 : s[Len(q) + i] = two[i]
      <3>0. two \in Seq(Job)
        BY <2>1
      <3>1. /\ q \o two \in Seq(Job) /\ Len(q) \in Nat
            /\ \A i \in 1 .. Len(q) : (q \o two)[i] = q[i]
            /\ \A i \in 1 .. Len(two) : (q \o two)[Len(q) + i] = two[i]
        BY <3>0, ConcatIn
      <3>2. Len(s) = Len(q) + Len(two)
        BY <2>1, ConcatProperties
      <3>3. QED BY <2>1, <3>1, <3>2
    <2> HIDE DEF s
    <2>3. /\ p \in Seq(Job) /\ Len(p) = Len(q) + 1
          /\ \A i \in 1 .. Len(q) : p[i] = q[i]
          /\ p[Len(q) + 1] = x
      BY AppendProperties
    <2> HIDE DEF p
    <2>4. /\ r \in Seq(Job) /\ Len(r) = Len(p) + 1
          /\ \A i \in 1 .. Len(p) : r[i] = p[i]
          /\ r[Len(p) + 1] = y
      BY <2>3, AppendProperties
    <2> HIDE DEF r
    <2>5. Len(s) = Len(r)
      BY <2>2, <2>3, <2>4
    <2>6. ASSUME NEW i \in 1 .. Len(s) PROVE s[i] = r[i]
      <3>1. CASE i \in 1 .. Len(q)
        BY <2>2, <2>3, <2>4, <3>1
      <3>2. CASE i = Len(q) + 1
        BY <2>1, <2>2, <2>3, <2>4, <3>2
      <3>3. CASE i = Len(q) + 2
        <4>1. Len(p) + 1 = Len(q) + 2 /\ 2 \in 1 .. 2
          BY <2>2, <2>3
        <4>2. QED BY <2>1, <2>2, <2>4, <3>3, <4>1
      <3>4. QED BY <2>2, <3>1, <3>2, <3>3
    <2>7. s = r
      BY <2>2, <2>4, <2>5, <2>6, SeqEqual
    <2>8. QED BY <2>7 DEF s, r, p, two
  <1>5. q \o << >> = q
    BY ConcatEmptySeq
  <1>6. QED BY <1>1, <1>2, <1>4, <1>5

LEMMA JobsRemoval ==
  ASSUME NEW q, JobsOK(q), NEW u \in Torrent
  PROVE  /\ q \o Removal(u) = Append(Append(q, ResumeJob(u, "none", FALSE)), RemoveTorrentFile(u))
         /\ JobsOK(q \o Removal(u))
  <1>1. ResumeJob(u, "none", FALSE) \in Job /\ RemoveTorrentFile(u) \in Job /\ "none" \in Data
    BY JobTypes DEF Data
  <1>2. q \in Seq(Job)
    BY DEF JobsOK
  <1>3. q \o Removal(u) = Append(Append(q, ResumeJob(u, "none", FALSE)), RemoveTorrentFile(u))
    BY <1>1, <1>2, TwoPosted DEF Removal
  <1>4. JobsOK(Append(q, ResumeJob(u, "none", FALSE)))
    BY <1>1, JobsPosted
  <1>5. QED BY <1>3, <1>4, JobsPosted

\* What an answer posts
LEMMA AnswerPosts ==
  ASSUME TypeInv, NEW a \in Alert, a.torrent \in torrents, SaveResumeData(a)
  PROVE  /\ numResumeData' = numResumeData - 1
         /\ JobsOK(jobs')
         /\ \E d \in Data \ {"none"} :
               /\ d = "current" <=> a.current /\ ~a.old
               /\ LET x == ResumeJob(a.torrent, d, a.torrent \in hasMetadata) IN
                  \/ jobs' = Append(jobs, x)
                  \/ /\ a.torrent \in nativeMeta
                     /\ jobs' = Append(Append(jobs, Search(a.torrent)), x)
  <1> DEFINE t == a.torrent
             d == IF a.current /\ ~a.old THEN "current" ELSE "stale"
             m == t \in hasMetadata
             x == ResumeJob(t, d, m)
  <1>1. t \in Torrent /\ JobsOK(jobs) /\ jobs \in Seq(Job)
    BY DEF TypeInv, SetsOK, JobsOK
  <1>2. d \in Data \ {"none"} /\ m \in BOOLEAN /\ (d = "current" <=> a.current /\ ~a.old)
    BY DEF Data
  <1>3. /\ numResumeData' = numResumeData - 1
        /\ jobs' = jobs \o Searched(t) \o <<x>>
    BY DEF SaveResumeData
  <1> HIDE DEF t, d, m
  <1>4. x \in Job /\ Search(t) \in Job
    BY <1>1, <1>2, JobTypes
  <1>5. \/ jobs' = Append(jobs, x)
        \/ t \in nativeMeta /\ jobs' = Append(Append(jobs, Search(t)), x)
    <2> HIDE DEF x
    <2>1. CASE t \in maintenance \cap nativeMeta
      <3>1. Searched(t) = <<Search(t)>>
        BY <2>1 DEF Searched
      <3>2. QED BY <3>1, <1>1, <1>3, <1>4, <2>1, TwoPosted
    <2>2. CASE t \notin maintenance \cap nativeMeta
      <3>1. Searched(t) = << >>
        BY <2>2 DEF Searched
      <3>2. QED BY <3>1, <1>1, <1>3, <1>4, TwoPosted
    <2>3. QED BY <2>1, <2>2
  <1>6. JobsOK(Append(jobs, x)) /\ JobsOK(Append(Append(jobs, Search(t)), x))
    <2>1. JobsOK(Append(jobs, Search(t)))
      BY <1>1, JobsPosted
    <2>2. QED BY <2>1, <1>1, <1>2, JobsPosted
  <1>7. QED
    BY <1>2, <1>3, <1>5, <1>6 DEF t, m

-----------------------------------------------------------------------------
(* One lemma for each step *)

LEMMA InitTypes == Init => TypeInv
  <1> SUFFICES ASSUME Init PROVE TypeInv
    OBVIOUS
  <1>1. SetsOK
    BY DEF Init, SetsOK, Params
  <1>2. DiskOK
    BY DEF Init, DiskOK, Data
  <1>3. NothingWhenDown
    BY DEF Init, NothingWhenDown
  <1>4. alerts = << >> /\ numResumeData = 0 /\ jobs = << >> /\ results = << >>
    BY DEF Init
  <1>5. AlertsOK(alerts, numResumeData, inSession)
    BY <1>4, NoAlerts
  <1>6. JobsOK(jobs) /\ results \in Seq(SearchJob)
    BY <1>4, NothingToDo DEF JobsOK
  <1>7. QED BY <1>1, <1>2, <1>3, <1>5, <1>6 DEF TypeInv

LEMMA GenerateResumeDataTypes ==
  ASSUME TypeInv, GenerateResumeData
  PROVE  AlertsOK(alerts', numResumeData', inSession)
  <1>0. PICK needed \in SUBSET torrents : \E order \in SetToSeqs(needed) : Requested(order, alerts)
    BY DEF GenerateResumeData
  <1>1. PICK order \in SetToSeqs(needed) : Requested(order, alerts)
    BY <1>0
  <1>2. order \in Seq(Torrent)
    <2>1. needed \in SUBSET Torrent
      BY DEF TypeInv, SetsOK
    <2>2. QED BY <2>1, OrderType
  <1>3. QED
    BY <1>1, <1>2, AlertsRequested DEF TypeInv

LEMMA SaveByTimerTypes == TypeInv /\ SaveByTimer => TypeInv'
  <1> SUFFICES ASSUME TypeInv, SaveByTimer PROVE TypeInv'
    OBVIOUS
  <1>1. SetsOK'
    BY DEF TypeInv, SetsOK, SaveByTimer, disk, native, history
  <1>2. DiskOK' /\ NothingWhenDown'
    BY DEF TypeInv, DiskOK, NothingWhenDown, SaveByTimer, disk
  <1>3. AlertsOK(alerts', numResumeData', inSession')
    <2>1. inSession' = inSession /\ GenerateResumeData
      BY DEF SaveByTimer, native
    <2>2. QED BY <2>1, GenerateResumeDataTypes
  <1>4. JobsOK(jobs') /\ results' \in Seq(SearchJob)
    BY DEF TypeInv, SaveByTimer
  <1>5. QED BY <1>1, <1>2, <1>3, <1>4 DEF TypeInv

LEMMA DownloadMetadataTypes ==
  ASSUME TypeInv, NEW t \in Torrent, DownloadMetadata(t) PROVE TypeInv'
  <1>1. SetsOK'
    BY DEF TypeInv, SetsOK, DownloadMetadata, NativeAdd, disk, history
  <1>2. DiskOK' /\ NothingWhenDown'
    BY DEF TypeInv, DiskOK, NothingWhenDown, DownloadMetadata, disk
  <1>3. AlertsOK(alerts', numResumeData', inSession')
    BY DEF TypeInv, AlertsOK, DownloadMetadata, NativeAdd
  <1>4. JobsOK(jobs') /\ results' \in Seq(SearchJob)
    BY DEF TypeInv, DownloadMetadata
  <1>5. QED BY <1>1, <1>2, <1>3, <1>4 DEF TypeInv

LEMMA CancelDownloadMetadataTypes ==
  ASSUME TypeInv, NEW t \in Torrent, CancelDownloadMetadata(t) PROVE TypeInv'
  <1>1. SetsOK'
    BY DEF TypeInv, SetsOK, CancelDownloadMetadata, NativeRemoved, disk, history
  <1>2. DiskOK' /\ NothingWhenDown'
    BY DEF TypeInv, DiskOK, NothingWhenDown, CancelDownloadMetadata, disk
  <1>3. AlertsOK(alerts', numResumeData', inSession')
    <2>1. /\ alerts' = Marked(alerts, t, OldAlert) /\ numResumeData' = numResumeData
          /\ inSession' = inSession \ {t}
      BY DEF CancelDownloadMetadata, NativeRemoved
    <2>2. AlertsOK(Marked(alerts, t, OldAlert), numResumeData, inSession \ {t})
      BY AlertsMarked DEF TypeInv
    <2>3. QED BY <2>1, <2>2
  <1>4. JobsOK(jobs') /\ results' \in Seq(SearchJob)
    BY DEF TypeInv, CancelDownloadMetadata
  <1>5. QED BY <1>1, <1>2, <1>3, <1>4 DEF TypeInv

LEMMA DeleteTorrentTypes ==
  ASSUME TypeInv, NEW t \in Torrent, DeleteTorrent(t) PROVE TypeInv'
  <1>1. SetsOK'
    BY DEF TypeInv, SetsOK, DeleteTorrent, NativeRemoved, disk, history
  <1>2. DiskOK' /\ NothingWhenDown'
    BY DEF TypeInv, DiskOK, NothingWhenDown, DeleteTorrent, disk
  <1>3. AlertsOK(alerts', numResumeData', inSession')
    <2>1. /\ alerts' = Marked(alerts, t, OldAlert) /\ numResumeData' = numResumeData
          /\ inSession' = inSession \ {t}
      BY DEF DeleteTorrent, NativeRemoved
    <2>2. AlertsOK(Marked(alerts, t, OldAlert), numResumeData, inSession \ {t})
      BY AlertsMarked DEF TypeInv
    <2>3. QED BY <2>1, <2>2
  <1>4. JobsOK(jobs')
    <2>1. jobs' = Marked(jobs, t, OldJob) \o Removal(t) /\ JobsOK(jobs)
      BY DEF TypeInv, DeleteTorrent
    <2>2. JobsOK(Marked(jobs, t, OldJob))
      BY <2>1, JobsMarked
    <2>3. QED BY <2>1, <2>2, JobsRemoval
  <1>5. results' \in Seq(SearchJob)
    <2>1. results' = Marked(results, t, OldJob) /\ results \in Seq(SearchJob)
      BY DEF TypeInv, DeleteTorrent
    <2>2. QED BY <2>1, MarkedResults
  <1>6. QED BY <1>1, <1>2, <1>3, <1>4, <1>5 DEF TypeInv

\* One torrent asks for its resume data.
LEMMA OneRequested ==
  ASSUME NEW q, NEW S, AlertsOK(q, numResumeData, S), NEW t \in Torrent, Requested(<<t>>, q)
  PROVE  AlertsOK(alerts', numResumeData', S) /\ alerts' = q \o Resumes(<<t>>)
  <1>1. <<t>> \in Seq(Torrent)
    OBVIOUS
  <1>2. QED BY <1>1, AlertsRequested

LEMMA EditTorrentTypes ==
  ASSUME TypeInv, NEW t \in Torrent, EditTorrent(t) PROVE TypeInv'
  <1>1. SetsOK'
    BY DEF TypeInv, SetsOK, EditTorrent, native, history
  <1>2. DiskOK' /\ NothingWhenDown'
    BY DEF TypeInv, DiskOK, Data, NothingWhenDown, EditTorrent, Outdated
  <1>3. AlertsOK(alerts', numResumeData', inSession')
    <2>1. Requested(<<t>>, Marked(alerts, t, OutdatedAlert)) /\ inSession' = inSession
      BY DEF EditTorrent, Edited, native
    <2>2. AlertsOK(Marked(alerts, t, OutdatedAlert), numResumeData, inSession)
      BY AlertsMarked DEF TypeInv
    <2>3. QED BY <2>1, <2>2, OneRequested
  <1>4. JobsOK(jobs')
    <2>1. jobs' = Marked(jobs, t, OutdatedJob) /\ JobsOK(jobs)
      BY DEF TypeInv, EditTorrent, Outdated
    <2>2. QED BY <2>1, JobsMarked
  <1>5. results' \in Seq(SearchJob)
    BY DEF TypeInv, EditTorrent
  <1>6. QED BY <1>1, <1>2, <1>3, <1>4, <1>5 DEF TypeInv

LEMMA NativeAddLaterTypes ==
  ASSUME NEW t \in Torrent, NEW meta \in BOOLEAN, NEW before \in SUBSET Torrent, NEW q,
         NativeAddLater(t, meta, before, q), AlertsOK(q, numResumeData, before),
         unchecked \subseteq nativeMeta, failed \subseteq Torrent
  PROVE  /\ AlertsOK(alerts', numResumeData, inSession')
         /\ before \subseteq inSession' /\ inSession' \subseteq Torrent
         /\ nativeMeta' \subseteq inSession' /\ unchecked' \subseteq nativeMeta'
         /\ failed' \subseteq Torrent
  <1>1. CASE NativeAdd(t, meta, before) /\ alerts' = Append(q, About("added", t)) /\ UNCHANGED failed
    <2>1. AlertsOK(alerts', numResumeData, inSession')
      <3>1. before \subseteq inSession' /\ t \in inSession'
        BY <1>1 DEF NativeAdd
      <3>2. QED BY <1>1, <3>1, AlertAdded
    <2>2. QED BY <1>1, <2>1 DEF NativeAdd
  <1>2. CASE ~(NativeAdd(t, meta, before) /\ alerts' = Append(q, About("added", t)) /\ UNCHANGED failed)
    <2>1. /\ inSession' = before
          /\ nativeMeta' = nativeMeta \cap before
          /\ unchecked' = unchecked \cap before
          /\ alerts' = Append(q, About("refused", t))
          /\ failed' = failed \cup {t}
      BY <1>2 DEF NativeAddLater
    <2>2. AlertsOK(alerts', numResumeData, inSession')
      BY <2>1, AlertAdded
    <2>3. QED BY <2>1, <2>2
  <1>3. QED BY <1>1, <1>2

LEMMA AddTorrentTypes ==
  ASSUME TypeInv, NEW t \in Torrent, NEW meta \in BOOLEAN, NEW skip \in BOOLEAN,
         AddTorrent(t, meta, skip)
  PROVE  TypeInv'
  <1> DEFINE before == inSession \ (preview \cap {t})
             q == IF t \in preview THEN Marked(alerts, t, OldAlert) ELSE alerts
  <1>1. AlertsOK(q, numResumeData, before)
    <2>1. AlertsOK(alerts, numResumeData, inSession)
      BY DEF TypeInv
    <2>2. CASE t \in preview
      <3>1. q = Marked(alerts, t, OldAlert) /\ before = inSession \ {t}
        BY <2>2
      <3>2. QED BY <2>1, <3>1, AlertsMarked
    <2>3. CASE t \notin preview
      <3>1. q = alerts /\ before = inSession
        BY <2>3
      <3>2. QED BY <2>1, <3>1
    <2>4. QED BY <2>2, <2>3
  <1>2. /\ phase' = phase /\ phase = "running" /\ t \notin torrents \cup loading
        /\ preview' = preview \ {t} /\ loading' = loading \cup {t}
        /\ params' = [params EXCEPT ![t] = [meta |-> meta, restored |-> FALSE]]
        /\ reloaded' = reloaded \ {t} /\ torrents' = torrents /\ numResumeData' = numResumeData
        /\ hasMetadata' = hasMetadata /\ maintenance' = maintenance /\ results' = results
        /\ resume' = resume /\ resumeMeta' = resumeMeta /\ torrentFile' = torrentFile
        /\ mixed' = mixed
    BY DEF AddTorrent, disk
  <1>3. \/ /\ jobs' = Append(jobs, Search(t))
           /\ inSession' = before
           /\ nativeMeta' = nativeMeta \cap before
           /\ unchecked' = unchecked \cap before
           /\ alerts' = q
           /\ failed' = failed \ {t}
        \/ NativeAddLater(t, meta, before, q) /\ jobs' = jobs
    BY DEF AddTorrent
  <1>4. before \in SUBSET Torrent /\ torrents \subseteq before /\ unchecked \subseteq nativeMeta
        /\ failed \subseteq Torrent /\ nativeMeta \subseteq inSession
    BY DEF TypeInv, SetsOK
  <1> HIDE DEF before, q
  <1>5. /\ AlertsOK(alerts', numResumeData, inSession')
        /\ before \subseteq inSession' /\ inSession' \subseteq Torrent
        /\ nativeMeta' \subseteq inSession' /\ unchecked' \subseteq nativeMeta'
        /\ failed' \subseteq Torrent
    <2>1. CASE NativeAddLater(t, meta, before, q)
      BY <1>1, <1>4, <2>1, NativeAddLaterTypes
    <2>2. CASE ~NativeAddLater(t, meta, before, q)
      BY <1>1, <1>3, <1>4, <2>2
    <2>3. QED BY <2>1, <2>2
  <1>6. SetsOK'
    <2>1. params' \in [Torrent -> Params]
      <3>1. params \in [Torrent -> Params] /\ [meta |-> meta, restored |-> FALSE] \in Params
        BY DEF TypeInv, SetsOK, Params
      <3>2. QED BY <1>2, <3>1
    <2>2. /\ phase' \in {"running", "exiting", "stopping", "down"}
          /\ torrents' \subseteq Torrent /\ loading' \subseteq Torrent \ torrents'
          /\ preview' \subseteq Torrent \ (torrents' \cup loading')
      BY <1>2 DEF TypeInv, SetsOK
    <2>3. /\ hasMetadata' \subseteq torrents' /\ maintenance' \subseteq torrents'
          /\ torrentFile' \subseteq Torrent
          /\ mixed' \subseteq Torrent /\ reloaded' \subseteq Torrent
      BY <1>2 DEF TypeInv, SetsOK
    <2>4. torrents' \subseteq inSession'
      BY <1>2, <1>4, <1>5
    <2>5. QED BY <1>5, <2>1, <2>2, <2>3, <2>4 DEF SetsOK
  <1>7. DiskOK' /\ NothingWhenDown'
    BY <1>2 DEF TypeInv, DiskOK, NothingWhenDown
  <1>8. JobsOK(jobs') /\ results' \in Seq(SearchJob)
    <2>1. JobsOK(jobs) /\ results \in Seq(SearchJob)
      BY DEF TypeInv
    <2>2. JobsOK(Append(jobs, Search(t)))
      BY <2>1, JobsPosted
    <2>3. jobs' = Append(jobs, Search(t)) \/ jobs' = jobs
      BY <1>3
    <2>4. QED BY <1>2, <2>1, <2>2, <2>3
  <1>9. QED BY <1>2, <1>5, <1>6, <1>7, <1>8 DEF TypeInv

\* The first alert is handled, by whichever loop.
LEMMA HeadTypes ==
  ASSUME TypeInv, alerts # << >>
  PROVE  /\ Head(alerts) \in Alert /\ Head(alerts).torrent \in Torrent
         /\ AlertsOK(Tail(alerts), numResumeData, inSession)
         /\ Head(alerts).type = "resume" => AlertsOK(Tail(alerts), numResumeData - 1, inSession)
         /\ Head(alerts).type = "added" /\ ~Head(alerts).old => Head(alerts).torrent \in inSession
  BY AlertHandled DEF TypeInv

LEMMA HandleAddTorrentTypes == TypeInv /\ HandleAddTorrent => TypeInv'
  <1> SUFFICES ASSUME TypeInv, HandleAddTorrent PROVE TypeInv'
    OBVIOUS
  <1> DEFINE t == Head(alerts).torrent
  <1>1. /\ alerts # << >> /\ Head(alerts).type = "added" /\ phase = "running"
        /\ phase' = phase /\ results' = results
        /\ inSession' = inSession /\ nativeMeta' = nativeMeta /\ unchecked' = unchecked
        /\ failed' = failed /\ mixed' = mixed /\ reloaded' = reloaded
    BY DEF HandleAddTorrent, Handles, native, history
  <1>2. /\ t \in Torrent
        /\ AlertsOK(Tail(alerts), numResumeData, inSession)
        /\ ~Head(alerts).old => t \in inSession
    BY <1>1, HeadTypes
  <1>3. CASE ~Head(alerts).old /\ t \in loading
    <2>1. CreateTorrent(t)
      BY <1>3 DEF HandleAddTorrent
    <2>2. t \in inSession
      BY <1>2, <1>3
    <2> HIDE DEF t
    <2>3. SetsOK'
      <3>1. torrentFile' \subseteq Torrent
        BY <1>2, <2>1 DEF CreateTorrent, TypeInv, SetsOK
      <3>2. QED BY <1>1, <1>2, <1>3, <2>1, <2>2, <3>1 DEF CreateTorrent, TypeInv, SetsOK
    <2>4. DiskOK'
      BY <1>2, <2>1 DEF CreateTorrent, Outdated, TypeInv, DiskOK, Data
    <2>5. NothingWhenDown'
      BY <1>1 DEF NothingWhenDown
    <2>6. AlertsOK(alerts', numResumeData', inSession') /\ JobsOK(jobs')
      <3>1. CASE params[t].restored
        BY <1>1, <1>2, <2>1, <3>1 DEF CreateTorrent, TypeInv
      <3>2. CASE ~params[t].restored
        <4>1. Requested(<<t>>, Tail(alerts)) /\ jobs' = Marked(jobs, t, OutdatedJob)
          BY <2>1, <3>2 DEF CreateTorrent, Outdated
        <4>2. JobsOK(jobs)
          BY DEF TypeInv
        <4>3. AlertsOK(alerts', numResumeData', inSession)
          BY <1>2, <4>1, OneRequested
        <4>4. QED BY <1>1, <4>1, <4>2, <4>3, JobsMarked
      <3>3. QED BY <3>1, <3>2
    <2>7. QED BY <1>1, <2>3, <2>4, <2>5, <2>6 DEF TypeInv
  <1>4. CASE ~(~Head(alerts).old /\ t \in loading)
    <2>1. alerts' = Tail(alerts) /\ UNCHANGED <<session, jobs, disk>>
      BY <1>4 DEF HandleAddTorrent
    <2>2. SetsOK' /\ DiskOK' /\ NothingWhenDown'
      BY <1>1, <2>1 DEF TypeInv, SetsOK, DiskOK, NothingWhenDown, session, disk
    <2>3. AlertsOK(alerts', numResumeData', inSession')
      BY <1>1, <1>2, <2>1 DEF session
    <2>4. QED BY <1>1, <2>1, <2>2, <2>3 DEF TypeInv
  <1>5. QED BY <1>3, <1>4

LEMMA HandleAddTorrentErrorTypes == TypeInv /\ HandleAddTorrentError => TypeInv'
  <1> SUFFICES ASSUME TypeInv, HandleAddTorrentError PROVE TypeInv'
    OBVIOUS
  <1>1. /\ alerts # << >> /\ alerts' = Tail(alerts) /\ phase = "running"
        /\ UNCHANGED <<phase, session, jobs, results, disk, native, history>>
    BY DEF HandleAddTorrentError, Handles
  <1>2. SetsOK' /\ DiskOK' /\ NothingWhenDown'
    BY <1>1 DEF TypeInv, SetsOK, DiskOK, NothingWhenDown, session, disk, native, history
  <1>3. AlertsOK(alerts', numResumeData', inSession')
    <2>1. AlertsOK(Tail(alerts), numResumeData, inSession)
      BY <1>1, HeadTypes
    <2>2. QED BY <1>1, <2>1 DEF session, native
  <1>4. QED BY <1>1, <1>2, <1>3 DEF TypeInv

LEMMA DispatchResumeDataTypes ==
  ASSUME TypeInv, alerts # << >>, Head(alerts).type = "resume", UNCHANGED phase,
         NEW found \in BOOLEAN, DispatchResumeData(found)
  PROVE  TypeInv'
  <1> DEFINE a == Head(alerts)
  <1>1. UNCHANGED <<torrents, loading, params, preview, hasMetadata, maintenance, results, disk,
                    native, history>>
    BY DEF DispatchResumeData
  <1>2. SetsOK' /\ DiskOK'
    BY <1>1 DEF TypeInv, SetsOK, DiskOK, disk, native, history
  <1>3. NothingWhenDown'
    BY DEF TypeInv, NothingWhenDown
  <1>4. AlertsOK(Tail(alerts), numResumeData, inSession)
        /\ AlertsOK(Tail(alerts), numResumeData - 1, inSession) /\ a \in Alert
    BY HeadTypes
  <1>5. AlertsOK(alerts', numResumeData', inSession') /\ JobsOK(jobs')
    <2>1. alerts' = Tail(alerts) /\ inSession' = inSession
      BY <1>1 DEF DispatchResumeData, native
    <2>2. CASE found /\ a.torrent \in torrents
      <3>1. SaveResumeData(a)
        BY <2>2 DEF DispatchResumeData
      <3>2. numResumeData' = numResumeData - 1 /\ JobsOK(jobs')
        BY <1>4, <2>2, <3>1, AnswerPosts
      <3>3. QED BY <1>4, <2>1, <3>2
    <2>3. CASE ~(found /\ a.torrent \in torrents)
      <3>1. numResumeData' = numResumeData /\ jobs' = jobs
        BY <2>3 DEF DispatchResumeData
      <3>2. QED BY <1>4, <2>1, <3>1 DEF TypeInv
    <2>4. QED BY <2>2, <2>3
  <1>6. QED BY <1>1, <1>2, <1>3, <1>5 DEF TypeInv

LEMMA HandleSaveResumeDataTypes ==
  ASSUME TypeInv, NEW found \in BOOLEAN, HandleSaveResumeData(found) PROVE TypeInv'
  <1>1. /\ alerts # << >> /\ Head(alerts).type = "resume" /\ UNCHANGED phase
        /\ DispatchResumeData(found)
    BY DEF HandleSaveResumeData, Handles
  <1>2. QED BY <1>1, DispatchResumeDataTypes

LEMMA HandleMetadataReceivedTypes ==
  ASSUME TypeInv, NEW found \in BOOLEAN, HandleMetadataReceived(found) PROVE TypeInv'
  <1> DEFINE t == Head(alerts).torrent
  <1>1. /\ alerts # << >> /\ phase = "running"
        /\ UNCHANGED <<phase, torrents, loading, params, hasMetadata, jobs, results, disk, history>>
    BY DEF HandleMetadataReceived, Handles
  <1>2. t \in Torrent /\ AlertsOK(Tail(alerts), numResumeData, inSession)
    BY <1>1, HeadTypes
  <1>3. \/ /\ found /\ t \in torrents
           /\ maintenance' = maintenance \cup {t}
           /\ Requested(<<t>>, Tail(alerts))
           /\ UNCHANGED <<preview, native>>
        \/ /\ found /\ t \in preview
           /\ preview' = preview \ {t}
           /\ IF Head(alerts).old THEN alerts' = Tail(alerts) /\ UNCHANGED native
              ELSE alerts' = Marked(Tail(alerts), t, OldAlert) /\ NativeRemoved(t)
           /\ UNCHANGED <<maintenance, numResumeData>>
        \/ /\ alerts' = Tail(alerts)
           /\ UNCHANGED <<preview, maintenance, numResumeData, native>>
    BY DEF HandleMetadataReceived
  <1> HIDE DEF t
  <1>4. AlertsOK(Marked(Tail(alerts), t, OldAlert), numResumeData, inSession \ {t})
    BY <1>2, AlertsMarked
  <1>5. DiskOK' /\ NothingWhenDown'
    BY <1>1 DEF TypeInv, DiskOK, NothingWhenDown, disk
  <1>6. CASE t \in torrents /\ maintenance' = maintenance \cup {t}
             /\ Requested(<<t>>, Tail(alerts)) /\ UNCHANGED <<preview, native>>
    <2>1. SetsOK'
      BY <1>1, <1>6 DEF TypeInv, SetsOK, disk, history, native
    <2>2. AlertsOK(alerts', numResumeData', inSession')
      <3>1. AlertsOK(alerts', numResumeData', inSession)
        BY <1>2, <1>6, OneRequested
      <3>2. QED BY <3>1, <1>6 DEF native
    <2>3. QED BY <1>1, <1>5, <2>1, <2>2 DEF TypeInv
  <1>7. CASE /\ t \in preview
             /\ preview' = preview \ {t}
             /\ alerts' = Marked(Tail(alerts), t, OldAlert) /\ NativeRemoved(t)
             /\ UNCHANGED <<maintenance, numResumeData>>
    <2>1. SetsOK'
      BY <1>1, <1>7 DEF TypeInv, SetsOK, disk, history, NativeRemoved
    <2>2. AlertsOK(alerts', numResumeData', inSession')
      BY <1>4, <1>7 DEF NativeRemoved
    <2>3. QED BY <1>1, <1>5, <2>1, <2>2 DEF TypeInv
  <1>8. CASE /\ preview' \subseteq preview
             /\ alerts' = Tail(alerts)
             /\ UNCHANGED <<maintenance, numResumeData, native>>
    <2>1. SetsOK'
      BY <1>1, <1>8 DEF TypeInv, SetsOK, disk, history, native
    <2>2. AlertsOK(alerts', numResumeData', inSession')
      BY <1>2, <1>8 DEF native
    <2>3. QED BY <1>1, <1>5, <2>1, <2>2 DEF TypeInv
  <1>9. QED BY <1>3, <1>6, <1>7, <1>8

LEMMA HandleTorrentCheckedTypes ==
  ASSUME TypeInv, NEW found \in BOOLEAN, HandleTorrentChecked(found) PROVE TypeInv'
  <1> DEFINE t == Head(alerts).torrent
  <1>1. /\ alerts # << >> /\ phase = "running"
        /\ UNCHANGED <<phase, torrents, loading, params, preview, hasMetadata, maintenance, jobs,
                       results, disk, native, history>>
    BY DEF HandleTorrentChecked, Handles
  <1>2. t \in Torrent /\ AlertsOK(Tail(alerts), numResumeData, inSession)
    BY <1>1, HeadTypes
  <1>3. SetsOK' /\ DiskOK' /\ NothingWhenDown'
    BY <1>1 DEF TypeInv, SetsOK, DiskOK, NothingWhenDown, disk, native, history
  <1>4. AlertsOK(alerts', numResumeData', inSession)
    <2>1. \/ Requested(<<t>>, Tail(alerts))
          \/ alerts' = Tail(alerts) /\ UNCHANGED numResumeData
      BY DEF HandleTorrentChecked
    <2> HIDE DEF t
    <2>2. CASE Requested(<<t>>, Tail(alerts))
      BY <1>2, <2>2, OneRequested
    <2>3. CASE alerts' = Tail(alerts) /\ UNCHANGED numResumeData
      BY <1>2, <2>3
    <2>4. QED BY <2>1, <2>2, <2>3
  <1>5. QED BY <1>1, <1>3, <1>4 DEF TypeInv, native

LEMMA FileSearchFinishedTypes == TypeInv /\ FileSearchFinished => TypeInv'
  <1> SUFFICES ASSUME TypeInv, FileSearchFinished PROVE TypeInv'
    OBVIOUS
  <1> DEFINE t == Head(results).torrent
  <1>1. /\ phase = "running" /\ results # << >> /\ results' = Tail(results)
        /\ UNCHANGED <<phase, torrents, params, preview, numResumeData, jobs, resume, resumeMeta>>
        /\ mixed' = IF Head(results).old THEN mixed \cup ({t} \cap (torrents \cup loading))
                    ELSE mixed
    BY DEF FileSearchFinished
  <1>2. t \in Torrent /\ results' \in Seq(SearchJob)
    <2>1. Head(results) \in SearchJob /\ Tail(results) \in Seq(SearchJob)
      BY <1>1, TailIn DEF TypeInv
    <2>2. QED BY <1>1, <2>1 DEF SearchJob
  <1>3. \/ t \in torrents /\ EndReceivedMetadataHandling(t)
        \/ /\ t \in loading /\ Loaded(t)
           /\ UNCHANGED <<loading, hasMetadata, maintenance, torrentFile, reloaded>>
        \/ UNCHANGED <<loading, hasMetadata, maintenance, torrentFile, native, alerts,
                       failed, reloaded>>
    BY DEF FileSearchFinished
  <1> HIDE DEF t
  <1>4. mixed' \subseteq Torrent
    BY <1>1, <1>2 DEF TypeInv, SetsOK
  <1>5. DiskOK' /\ NothingWhenDown'
    BY <1>1 DEF TypeInv, DiskOK, NothingWhenDown
  <1>6. AlertsOK(alerts, numResumeData, inSession)
    BY DEF TypeInv
  <1>7. CASE t \in torrents /\ EndReceivedMetadataHandling(t)
    <2>1. SetsOK'
      BY <1>1, <1>2, <1>4, <1>7 DEF TypeInv, SetsOK, EndReceivedMetadataHandling
    <2>2. AlertsOK(alerts', numResumeData', inSession')
      <3>1. AlertsOK(Marked(alerts, t, OldAlert), numResumeData, inSession)
        BY <1>6, AlertsMarked
      <3>2. QED BY <1>1, <1>7, <3>1 DEF EndReceivedMetadataHandling
    <2>3. QED BY <1>1, <1>2, <1>5, <2>1, <2>2 DEF TypeInv
  <1>8. CASE /\ t \in loading /\ Loaded(t)
             /\ UNCHANGED <<loading, hasMetadata, maintenance, torrentFile, reloaded>>
    <2>1. /\ AlertsOK(alerts', numResumeData, inSession')
          /\ inSession \subseteq inSession' /\ inSession' \subseteq Torrent
          /\ nativeMeta' \subseteq inSession' /\ unchecked' \subseteq nativeMeta'
          /\ failed' \subseteq Torrent
      <3>1. /\ params[t].meta \in BOOLEAN /\ inSession \in SUBSET Torrent
            /\ unchecked \subseteq nativeMeta /\ failed \subseteq Torrent
        BY <1>2 DEF TypeInv, SetsOK, Params
      <3>2. NativeAddLater(t, params[t].meta, inSession, alerts)
        BY <1>8 DEF Loaded
      <3>3. QED BY <1>2, <1>6, <3>1, <3>2, NativeAddLaterTypes
    <2>2. SetsOK'
      BY <1>1, <1>4, <1>8, <2>1 DEF TypeInv, SetsOK
    <2>3. QED BY <1>1, <1>2, <1>5, <2>1, <2>2 DEF TypeInv
  <1>9. CASE UNCHANGED <<loading, hasMetadata, maintenance, torrentFile, native, alerts,
                         failed, reloaded>>
    <2>1. SetsOK'
      BY <1>1, <1>4, <1>9 DEF TypeInv, SetsOK, native
    <2>2. QED BY <1>1, <1>2, <1>5, <1>6, <1>9, <2>1 DEF TypeInv, native
  <1>10. QED BY <1>3, <1>7, <1>8, <1>9

LEMMA RunJobTypes == TypeInv /\ RunJob => TypeInv'
  <1> SUFFICES ASSUME TypeInv, RunJob PROVE TypeInv'
    OBVIOUS
  <1> DEFINE job == Head(jobs)
             t   == job.torrent
  <1>1. /\ phase # "down" /\ jobs # << >> /\ jobs' = Tail(jobs)
        /\ UNCHANGED <<phase, session, native, alerts, history>>
    BY DEF RunJob
  <1>2. /\ job \in Job /\ JobsOK(Tail(jobs))
        /\ job.op = "resume" /\ job.data = "none" => ~job.meta
    BY <1>1, JobDone DEF TypeInv
  <1>3. \/ /\ job.op = "resume"
           /\ resume' = [resume EXCEPT ![t] = job.data]
           /\ resumeMeta' = IF job.meta THEN resumeMeta \cup {t} ELSE resumeMeta \ {t}
           /\ UNCHANGED <<torrentFile, results>>
        \/ /\ job.op = "removeTorrentFile"
           /\ torrentFile' = torrentFile \ {t}
           /\ UNCHANGED <<resume, resumeMeta, results>>
        \/ /\ job.op = "search"
           /\ results' = Append(results, job)
           /\ UNCHANGED disk
    BY DEF RunJob
  <1> HIDE DEF job
  <1>4. t \in Torrent /\ (job.op = "search" => job \in SearchJob)
        /\ (job.op = "resume" => job.data \in Data /\ job.meta \in BOOLEAN)
    BY <1>2 DEF Job, SearchJob
  <1> HIDE DEF t
  <1>5. SetsOK'
    BY <1>1, <1>3 DEF TypeInv, SetsOK, session, native, history, disk
  <1>6. DiskOK'
    BY <1>2, <1>3, <1>4 DEF TypeInv, DiskOK, disk
  <1>7. NothingWhenDown'
    BY <1>1 DEF NothingWhenDown
  <1>8. results' \in Seq(SearchJob)
    <2>1. results \in Seq(SearchJob)
      BY DEF TypeInv
    <2>2. job \in SearchJob => Append(results, job) \in Seq(SearchJob)
      BY <2>1, AppendProperties
    <2>3. QED BY <1>3, <1>4, <2>1, <2>2
  <1>9. AlertsOK(alerts', numResumeData', inSession')
    BY <1>1 DEF TypeInv, session, native
  <1>10. QED BY <1>1, <1>2, <1>5, <1>6, <1>7, <1>8, <1>9 DEF TypeInv

LEMMA NativeMetadataTypes ==
  ASSUME TypeInv, NEW t \in Torrent, NativeMetadata(t) PROVE TypeInv'
  <1>1. /\ t \in inSession \ nativeMeta
        /\ nativeMeta' = nativeMeta \cup {t}
        /\ unchecked' = unchecked \cup {t}
        /\ alerts' = Append(alerts, About("metadata", t))
        /\ UNCHANGED <<phase, session, jobs, results, disk, inSession, history>>
    BY DEF NativeMetadata
  <1>2. SetsOK' /\ DiskOK' /\ NothingWhenDown'
    BY <1>1 DEF TypeInv, SetsOK, DiskOK, NothingWhenDown, session, disk, history
  <1>3. AlertsOK(alerts', numResumeData', inSession')
    <2>1. AlertsOK(Append(alerts, About("metadata", t)), numResumeData, inSession)
      BY AlertAdded DEF TypeInv
    <2>2. QED BY <1>1, <2>1 DEF session
  <1>4. QED BY <1>1, <1>2, <1>3 DEF TypeInv

LEMMA NativeChecksTypes ==
  ASSUME TypeInv, NEW t \in Torrent, NativeChecks(t) PROVE TypeInv'
  <1>1. /\ t \in unchecked
        /\ unchecked' = unchecked \ {t}
        /\ alerts' = Append(alerts, About("checked", t))
        /\ UNCHANGED <<phase, session, jobs, results, disk, inSession, nativeMeta, history>>
    BY DEF NativeChecks
  <1>2. SetsOK' /\ DiskOK' /\ NothingWhenDown'
    BY <1>1 DEF TypeInv, SetsOK, DiskOK, NothingWhenDown, session, disk, history
  <1>3. AlertsOK(alerts', numResumeData', inSession')
    <2>1. AlertsOK(Append(alerts, About("checked", t)), numResumeData, inSession)
      BY AlertAdded DEF TypeInv
    <2>2. QED BY <1>1, <2>1 DEF session
  <1>4. QED BY <1>1, <1>2, <1>3 DEF TypeInv

LEMMA BeginExitTypes == TypeInv /\ BeginExit => TypeInv'
  <1> SUFFICES ASSUME TypeInv, BeginExit PROVE TypeInv'
    OBVIOUS
  <1>1. SetsOK'
    BY DEF TypeInv, SetsOK, BeginExit, disk, native, history
  <1>2. DiskOK' /\ NothingWhenDown'
    BY DEF TypeInv, DiskOK, NothingWhenDown, BeginExit, disk
  <1>3. AlertsOK(alerts', numResumeData', inSession')
    <2>1. inSession' = inSession /\ GenerateResumeData
      BY DEF BeginExit, native
    <2>2. QED BY <2>1, GenerateResumeDataTypes
  <1>4. JobsOK(jobs') /\ results' \in Seq(SearchJob)
    BY DEF TypeInv, BeginExit
  <1>5. QED BY <1>1, <1>2, <1>3, <1>4 DEF TypeInv

LEMMA ExitHandlesTypes ==
  ASSUME TypeInv, NEW found \in BOOLEAN, ExitHandles(found) PROVE TypeInv'
  <1>1. alerts # << >> /\ phase = "exiting" /\ UNCHANGED phase
    BY DEF ExitHandles
  <1>2. CASE Head(alerts).type = "resume" /\ DispatchResumeData(found)
    BY <1>1, <1>2, DispatchResumeDataTypes
  <1>3. CASE /\ alerts' = Tail(alerts)
             /\ UNCHANGED <<session, jobs, results, disk, native, history>>
    <2>1. SetsOK' /\ DiskOK' /\ NothingWhenDown'
      BY <1>1, <1>3 DEF TypeInv, SetsOK, DiskOK, NothingWhenDown, session, disk, native, history
    <2>2. AlertsOK(alerts', numResumeData', inSession')
      <3>1. AlertsOK(Tail(alerts), numResumeData, inSession)
        BY <1>1, HeadTypes
      <3>2. QED BY <1>3, <3>1 DEF session, native
    <2>3. QED BY <1>3, <2>1, <2>2 DEF TypeInv
  <1>4. QED BY <1>2, <1>3 DEF ExitHandles

LEMMA EndExitTypes == TypeInv /\ EndExit => TypeInv'
  <1> SUFFICES ASSUME TypeInv, EndExit PROVE TypeInv'
    OBVIOUS
  <1>1. /\ phase' = "stopping" /\ alerts' = << >> /\ results' = << >>
        /\ UNCHANGED <<session, jobs, disk, native, history>>
    BY DEF EndExit
  <1>2. SetsOK' /\ DiskOK' /\ NothingWhenDown'
    BY <1>1 DEF TypeInv, SetsOK, DiskOK, NothingWhenDown, session, disk, native, history
  <1>3. AlertsOK(alerts', numResumeData', inSession')
    <2>1. numResumeData' = numResumeData /\ numResumeData \in Nat
      BY <1>1 DEF TypeInv, AlertsOK, session
    <2>2. QED BY <1>1, <2>1, NoAlerts
  <1>4. results' \in Seq(SearchJob)
    BY <1>1
  <1>5. QED BY <1>1, <1>2, <1>3, <1>4 DEF TypeInv

LEMMA DownTypes == TypeInv /\ Down => TypeInv'
  <1> SUFFICES ASSUME TypeInv, Down PROVE TypeInv'
    OBVIOUS
  <1>1. SetsOK' /\ DiskOK' /\ NothingWhenDown'
    BY DEF TypeInv, SetsOK, DiskOK, NothingWhenDown, Down, disk
  <1>2. alerts' = << >> /\ numResumeData' = 0 /\ jobs' = << >> /\ results' = << >>
    BY DEF Down
  <1>3. AlertsOK(alerts', numResumeData', inSession')
    BY <1>2, NoAlerts
  <1>4. JobsOK(jobs') /\ results' \in Seq(SearchJob)
    BY <1>2, NothingToDo DEF JobsOK
  <1>5. QED BY <1>1, <1>3, <1>4 DEF TypeInv

\* What libtorrent answers to the start
LEMMA StartAlerts ==
  ASSUME NEW order \in Seq(Torrent), NEW refused, NEW q,
         q = [i \in DOMAIN order |-> About(IF order[i] \in refused THEN "refused" ELSE "added", order[i])]
  PROVE  /\ q \in Seq(Alert) /\ DOMAIN q = DOMAIN order
         /\ \A i \in DOMAIN order : /\ q[i].type \in {"refused", "added"}
                                    /\ q[i].type = "added" => order[i] \notin refused
                                    /\ q[i].torrent = order[i]
  <1>1. DOMAIN order = 1 .. Len(order) /\ Len(order) \in Nat
    BY LenProperties
  <1>2. \A i \in DOMAIN order : order[i] \in Torrent
    BY <1>1, ElementOfSeq
  <1>3. ASSUME NEW i \in DOMAIN order
        PROVE  /\ q[i] \in Alert /\ q[i].type \in {"refused", "added"}
               /\ q[i].type = "added" => order[i] \notin refused
               /\ q[i].torrent = order[i]
    <2>1. q[i] = About(IF order[i] \in refused THEN "refused" ELSE "added", order[i])
      BY <1>3
    <2>2. CASE order[i] \in refused
      BY <1>2, <2>1, <2>2, AboutType
    <2>3. CASE order[i] \notin refused
      BY <1>2, <2>1, <2>3, AboutType
    <2>4. QED BY <2>2, <2>3
  <1>4. q \in [1 .. Len(order) -> Alert]
    BY <1>1, <1>3
  <1>5. QED BY <1>1, <1>3, <1>4, SeqDef

LEMMA StartUpTorrentsTypes == TypeInv /\ StartUpTorrents => TypeInv'
  <1> SUFFICES ASSUME TypeInv, StartUpTorrents PROVE TypeInv'
    OBVIOUS
  <1> DEFINE saved == {t \in Torrent : resume[t] # "none"}
  <1>1. /\ phase = "down" /\ phase' = "running" /\ loading' = saved
        /\ params' = [t \in Torrent |-> [meta |-> t \in torrentFile, restored |-> TRUE]]
        /\ resume' = [t \in Torrent |-> IF t \in saved THEN "current" ELSE "none"]
        /\ UNCHANGED <<torrents, preview, numResumeData, hasMetadata, maintenance, jobs, results,
                       resumeMeta, torrentFile, mixed, reloaded>>
    BY DEF StartUpTorrents
  <1>2. PICK refused \in SUBSET saved : \E order \in SetToSeqs(saved) :
           /\ alerts' = [i \in DOMAIN order |->
                           About(IF order[i] \in refused THEN "refused" ELSE "added", order[i])]
           /\ inSession' = saved \ refused
           /\ nativeMeta' = (saved \ refused) \cap torrentFile
           /\ unchecked' = (saved \ refused) \cap torrentFile
           /\ failed' = refused
    BY DEF StartUpTorrents
  <1>3. PICK order \in SetToSeqs(saved) :
           /\ alerts' = [i \in DOMAIN order |->
                           About(IF order[i] \in refused THEN "refused" ELSE "added", order[i])]
           /\ inSession' = saved \ refused
           /\ nativeMeta' = (saved \ refused) \cap torrentFile
           /\ unchecked' = (saved \ refused) \cap torrentFile
           /\ failed' = refused
    BY <1>2
  <1>4. saved \in SUBSET Torrent
    OBVIOUS
  <1>5. order \in Seq(Torrent) /\ \A i \in DOMAIN order : order[i] \in saved
    BY <1>4, OrderType
  <1>6. /\ torrents = {} /\ preview = {} /\ hasMetadata = {} /\ maintenance = {}
        /\ JobsOK(jobs) /\ results \in Seq(SearchJob) /\ numResumeData \in Nat
    BY <1>1 DEF TypeInv, NothingWhenDown, AlertsOK
  <1>7. DiskOK'
    BY <1>1 DEF TypeInv, DiskOK, Data
  <1> HIDE DEF saved
  <1>8. SetsOK'
    BY <1>1, <1>3, <1>4, <1>6 DEF TypeInv, SetsOK, Params
  <1>9. NothingWhenDown'
    BY <1>1 DEF NothingWhenDown
  <1>10. AlertsOK(alerts', numResumeData, inSession')
    <2> DEFINE q == alerts'
    <2>1. /\ q \in Seq(Alert) /\ DOMAIN q = DOMAIN order
          /\ \A i \in DOMAIN order : /\ q[i].type \in {"refused", "added"}
                                     /\ q[i].type = "added" => order[i] \notin refused
                                     /\ q[i].torrent = order[i]
      BY <1>3, <1>5, StartAlerts
    <2> HIDE DEF q
    <2>2. Answers(q) = {}
      BY <2>1 DEF Answers
    <2>3. Cardinality(Answers(q)) = 0
      BY <2>2, FS_EmptySet
    <2>4. \A t \in Torrent : Told(q, "added", t) => t \in inSession'
      BY <1>3, <1>5, <2>1 DEF Told, Is
    <2>5. AlertsOK(q, numResumeData, inSession')
      BY <1>6, <2>1, <2>3, <2>4 DEF AlertsOK
    <2>6. QED BY <2>5 DEF q
  <1>11. QED BY <1>1, <1>6, <1>7, <1>8, <1>9, <1>10 DEF TypeInv

LEMMA NextTypes == TypeInv /\ [Next]_vars => TypeInv'
  <1> SUFFICES ASSUME TypeInv, [Next]_vars PROVE TypeInv'
    OBVIOUS
  <1>1. CASE UserStep
    BY <1>1, SaveByTimerTypes, DownloadMetadataTypes, CancelDownloadMetadataTypes,
       DeleteTorrentTypes, EditTorrentTypes, AddTorrentTypes DEF UserStep
  <1>2. CASE AlertStep
    BY <1>2, HandleAddTorrentTypes, HandleAddTorrentErrorTypes, HandleSaveResumeDataTypes,
       HandleMetadataReceivedTypes, HandleTorrentCheckedTypes DEF AlertStep
  <1>3. CASE FileSearchFinished
    BY <1>3, FileSearchFinishedTypes
  <1>4. CASE RunJob
    BY <1>4, RunJobTypes
  <1>5. CASE NativeStep
    BY <1>5, NativeMetadataTypes, NativeChecksTypes DEF NativeStep
  <1>6. CASE BeginExit
    BY <1>6, BeginExitTypes
  <1>7. CASE ExitStep
    BY <1>7, EndExitTypes, DownTypes, ExitHandlesTypes DEF ExitStep, Stop
  <1>8. CASE Crash
    BY <1>8, DownTypes DEF Crash
  <1>9. CASE StartUpTorrents
    BY <1>9, StartUpTorrentsTypes
  <1>10. CASE UNCHANGED vars
    <2>1. SetsOK' /\ DiskOK' /\ NothingWhenDown'
      BY <1>10 DEF TypeInv, SetsOK, DiskOK, NothingWhenDown, vars, session, disk, native, history
    <2>2. AlertsOK(alerts', numResumeData', inSession') /\ JobsOK(jobs') /\ results' \in Seq(SearchJob)
      BY <1>10 DEF TypeInv, vars, session, native
    <2>3. QED BY <2>1, <2>2 DEF TypeInv
  <1>11. QED
    BY <1>1, <1>2, <1>3, <1>4, <1>5, <1>6, <1>7, <1>8, <1>9, <1>10 DEF Next

(* The types hold, and what is always together stays together: there are never
   fewer answers counted than come, and a torrent of the session is one of
   libtorrent. *)
THEOREM TypeCorrect == Spec => []TypeOK
  <1>1. Init => TypeInv
    BY InitTypes
  <1>2. TypeInv /\ [Next]_vars => TypeInv'
    BY NextTypes
  <1>3. TypeInv => TypeOK
    BY TypeInvType
  <1>4. QED
    BY <1>1, <1>2, <1>3, PTL DEF Spec

-----------------------------------------------------------------------------
(* What holds of a torrent                                                     *)

\* The resume data of a deleted torrent is removed, or will be, last.
Deleted(t) ==
    phase # "down" /\ t \notin torrents \cup loading => LastIs(jobs, resume, t, "none")

\* A torrent that was added to libtorrent is waited for, with its metadata.
AddedIsKnown(t) ==
    Told(alerts, "added", t) =>
        /\ t \in torrents \cup loading
        /\ t \in loading /\ params[t].meta => t \in nativeMeta

\* The files of a torrent that is there are searched for
Searching(t) == WillSearch(jobs, t) \/ WillSearch(results, t)

\* ... when its metadata is known.
SearchedIsKnown(t) ==
    Searching(t) =>
        /\ t \in torrents \cup loading
        /\ t \in torrents \ mixed => t \in nativeMeta
        /\ t \in loading \ mixed => params[t].meta

\* What a torrent is restored from is its last state.
LoadedIsSaved(t) ==
    phase = "running" /\ t \in loading /\ params[t].restored =>
        LastIs(jobs, resume, t, "current") /\ NotAsked(alerts, t)

\* The last state is posted or asked for, and no earlier one comes after it.
IsSaved(t) ==
    /\ LastIs(jobs, resume, t, "current") \/ AnsweredWell(alerts, t)
    /\ EndsWell(alerts, t)

\* The end of the check will ask.
Rechecked(t) == t \in unchecked \/ CheckAwaited(alerts, t)

WillBeSaved(t) ==
    t \in torrents \ mixed =>
        /\ phase = "running" => IsSaved(t) \/ (t \in reloaded \cap hasMetadata /\ Rechecked(t))
        /\ phase = "exiting" => IsSaved(t) \/ t \in reloaded
        /\ phase = "stopping" => LastIs(jobs, resume, t, "current") \/ t \in reloaded

\* <id>.torrent is there, and stays.
Stays(t) == t \in torrentFile /\ ~WillRemove(jobs, t)

\* What is written with metadata, or will be, has its metadata on disk.
Backed(t) ==
    /\ WillWriteMeta(jobs, t) => t \in torrentFile
    /\ WritesFirst(jobs, t) /\ RemovesFirst(jobs, t)
    /\ t \in hasMetadata => Stays(t)
    /\ WillSearch(results, t) => ~WillRemove(jobs, t)
    /\ t \in loading /\ params[t].meta =>
          /\ params[t].restored => Stays(t)
          /\ Told(alerts, "added", t) => ~WillRemove(jobs, t)
    /\ t \in resumeMeta => t \in torrentFile

SafeFor(t) ==
    /\ Deleted(t) /\ AddedIsKnown(t) /\ SearchedIsKnown(t) /\ LoadedIsSaved(t) /\ WillBeSaved(t)
    /\ InPairs(jobs, t, resumeMeta)
    /\ t \notin mixed \cup SkipChecking => Backed(t)

-----------------------------------------------------------------------------
(* A step that leaves all this as it is *)

JobsKept(t) ==
    /\ t \notin torrents \/ phase' = "stopping" =>
          \A d \in Data : LastIs(jobs, resume, t, d) => LastIs(jobs', resume', t, d)
    /\ WillRemove(jobs', t) => WillRemove(jobs, t)
    /\ WillSearch(jobs', t) => WillSearch(jobs, t)
    /\ WillWriteMeta(jobs', t) => WillWriteMeta(jobs, t)
    /\ WritesFirst(jobs, t) => WritesFirst(jobs', t)
    /\ RemovesFirst(jobs, t) => RemovesFirst(jobs', t)
    /\ InPairs(jobs, t, resumeMeta) => InPairs(jobs', t, resumeMeta')

AlertsKept(t) ==
    /\ Told(alerts', "added", t) => Told(alerts, "added", t)
    /\ t \in loading /\ NotAsked(alerts, t) => NotAsked(alerts', t)
    /\ t \in torrents /\ IsSaved(t) => IsSaved(t)'
    /\ t \in torrents /\ phase' = "running" /\ t \in hasMetadata /\ Rechecked(t) =>
          Rechecked(t)' \/ IsSaved(t)'

SetsKept(t) ==
    /\ phase' = phase \/ (phase = "running" /\ phase' = "exiting")
    /\ (t \in torrents' <=> t \in torrents) /\ (t \in loading' <=> t \in loading)
    /\ (t \in hasMetadata' <=> t \in hasMetadata)
    /\ params'[t] = params[t]
    /\ t \in mixed => t \in mixed'
    /\ t \in reloaded => t \in reloaded'
    /\ t \in torrentFile => t \in torrentFile'
    /\ t \in resumeMeta' => t \in resumeMeta
    /\ t \in torrents \cup loading /\ t \in nativeMeta => t \in nativeMeta'
    /\ WillSearch(results', t) => WillSearch(results, t)

Kept(t) == SetsKept(t) /\ JobsKept(t) /\ AlertsKept(t)

LEMMA KeptSafe ==
  ASSUME TypeInv, NEW t \in Torrent, SafeFor(t), Kept(t)
  PROVE  SafeFor(t)'
  <1>0. t \in loading => t \notin torrents
    BY DEF TypeInv, SetsOK
  <1>1. Deleted(t)'
    BY DEF Kept, SetsKept, JobsKept, SafeFor, Deleted, Data
  <1>2. AddedIsKnown(t)'
    BY DEF Kept, SetsKept, AlertsKept, SafeFor, AddedIsKnown
  <1>3. SearchedIsKnown(t)'
    BY DEF Kept, SetsKept, JobsKept, SafeFor, SearchedIsKnown, Searching
  <1>4. LoadedIsSaved(t)'
    BY <1>0 DEF Kept, SetsKept, JobsKept, AlertsKept, SafeFor, LoadedIsSaved, Data
  <1>5. WillBeSaved(t)'
    <2> SUFFICES ASSUME t \in torrents' \ mixed'
                 PROVE  /\ phase' = "running" => IsSaved(t)' \/ (t \in reloaded' \cap hasMetadata' /\ Rechecked(t)')
                        /\ phase' = "exiting" => IsSaved(t)' \/ t \in reloaded'
                        /\ phase' = "stopping" => LastIs(jobs', resume', t, "current") \/ t \in reloaded'
      BY DEF WillBeSaved
    <2>1. /\ t \in torrents \ mixed /\ (t \in reloaded => t \in reloaded')
          /\ (t \in hasMetadata <=> t \in hasMetadata')
          /\ phase' = phase \/ (phase = "running" /\ phase' = "exiting")
      BY DEF Kept, SetsKept
    <2>2. /\ IsSaved(t) => IsSaved(t)'
          /\ phase' = "running" /\ t \in hasMetadata /\ Rechecked(t) => Rechecked(t)' \/ IsSaved(t)'
      BY <2>1 DEF Kept, AlertsKept
    <2>3. phase' = "stopping" /\ LastIs(jobs, resume, t, "current") => LastIs(jobs', resume', t, "current")
      BY DEF Kept, JobsKept, Data
    <2>4. /\ phase = "running" => IsSaved(t) \/ (t \in reloaded \cap hasMetadata /\ Rechecked(t))
          /\ phase = "exiting" => IsSaved(t) \/ t \in reloaded
          /\ phase = "stopping" => LastIs(jobs, resume, t, "current") \/ t \in reloaded
      BY <2>1 DEF SafeFor, WillBeSaved
    <2>5. QED BY <2>1, <2>2, <2>3, <2>4
  <1>6. InPairs(jobs', t, resumeMeta')
    BY DEF Kept, JobsKept, SafeFor
  <1>7. ASSUME t \notin mixed' \cup SkipChecking PROVE Backed(t)'
    <2>1. Backed(t)
      BY <1>7 DEF Kept, SetsKept, SafeFor
    <2>2. QED BY <2>1 DEF Kept, SetsKept, JobsKept, AlertsKept, Backed, Stays
  <1>8. QED BY <1>1, <1>2, <1>3, <1>4, <1>5, <1>6, <1>7 DEF SafeFor

\* Nothing is posted.
LEMMA SameJobs ==
  ASSUME NEW t, UNCHANGED <<jobs, resume, resumeMeta>> PROVE JobsKept(t)
  BY DEF JobsKept

\* The alerts stay, but for those that come.
LEMMA SameSaved ==
  ASSUME NEW t, UNCHANGED <<jobs, resume>>,
         EndsWell(alerts, t) => EndsWell(alerts', t),
         AnsweredWell(alerts, t) => AnsweredWell(alerts', t)
  PROVE  IsSaved(t) => IsSaved(t)'
  BY DEF IsSaved

LEMMA AlertsQueues ==
  ASSUME TypeInv PROVE alerts \in Seq(Alert) /\ jobs \in Seq(Job) /\ results \in Seq(Job)
  <1>1. SearchJob \subseteq Job
    BY DEF SearchJob, Job
  <1>2. results \in Seq(SearchJob)
    BY DEF TypeInv
  <1>3. results \in Seq(Job)
    BY <1>1, <1>2, SeqMonotonic
  <1>4. QED BY <1>3 DEF TypeInv, AlertsOK, JobsOK

\* Requests for resume data are made of torrents that are there.
LEMMA RequestedKept ==
  ASSUME NEW q \in Seq(Alert), NEW order \in Seq(Torrent), NEW t,
         alerts' = q \o Resumes(order)
  PROVE  /\ Told(alerts', "added", t) => Told(q, "added", t)
         /\ NotAsked(q, t) /\ (\A i \in DOMAIN order : order[i] # t) => NotAsked(alerts', t)
         /\ EndsWell(q, t) => EndsWell(alerts', t)
         /\ AnsweredWell(q, t) => AnsweredWell(alerts', t)
         /\ CheckAwaited(q, t) => CheckAwaited(alerts', t)
         /\ (\E i \in DOMAIN order : order[i] = t) => IsSaved(t)'
  BY ResumesTold DEF IsSaved

LEMMA GenerateKept ==
  ASSUME TypeInv, NEW t \in Torrent, GenerateResumeData,
         UNCHANGED <<jobs, resume, unchecked>>
  PROVE  AlertsKept(t)
  <1>0. PICK needed \in SUBSET torrents : \E order \in SetToSeqs(needed) : Requested(order, alerts)
    BY DEF GenerateResumeData
  <1>1. PICK order \in SetToSeqs(needed) : Requested(order, alerts)
    BY <1>0
  <1>2. order \in Seq(Torrent) /\ \A i \in DOMAIN order : order[i] \in needed
    <2>1. needed \in SUBSET Torrent
      BY DEF TypeInv, SetsOK
    <2>2. QED BY <2>1, OrderType
  <1>3. alerts' = alerts \o Resumes(order)
    BY <1>1, <1>2, AlertsRequested DEF TypeInv
  <1>4. t \in loading => \A i \in DOMAIN order : order[i] # t
    BY <1>2 DEF TypeInv, SetsOK
  <1>5. alerts \in Seq(Alert)
    BY AlertsQueues
  <1>6. /\ Told(alerts', "added", t) => Told(alerts, "added", t)
        /\ NotAsked(alerts, t) /\ (\A i \in DOMAIN order : order[i] # t) => NotAsked(alerts', t)
        /\ EndsWell(alerts, t) => EndsWell(alerts', t)
        /\ AnsweredWell(alerts, t) => AnsweredWell(alerts', t)
        /\ CheckAwaited(alerts, t) => CheckAwaited(alerts', t)
    BY <1>2, <1>3, <1>5, RequestedKept
  <1>7. IsSaved(t) => IsSaved(t)'
    BY <1>6, SameSaved
  <1>8. Rechecked(t) => Rechecked(t)'
    BY <1>6 DEF Rechecked
  <1>9. QED BY <1>4, <1>6, <1>7, <1>8 DEF AlertsKept

LEMMA SaveByTimerKept ==
  ASSUME TypeInv, NEW t \in Torrent, SaveByTimer \/ BeginExit PROVE Kept(t)
  <1>1. /\ phase' = phase \/ (phase = "running" /\ phase' = "exiting")
        /\ GenerateResumeData
        /\ UNCHANGED <<torrents, loading, params, preview, hasMetadata, maintenance, jobs,
                       results, disk, native, history>>
    BY DEF SaveByTimer, BeginExit
  <1>2. SetsKept(t) /\ JobsKept(t)
    BY <1>1, SameJobs DEF SetsKept, disk, native, history
  <1>3. AlertsKept(t)
    BY <1>1, GenerateKept DEF disk, native
  <1>4. QED BY <1>2, <1>3 DEF Kept

LEMMA DownloadMetadataKept ==
  ASSUME TypeInv, NEW u \in Torrent, DownloadMetadata(u), NEW t \in Torrent PROVE Kept(t)
  <1>1. /\ UNCHANGED <<phase, torrents, loading, params, numResumeData, hasMetadata, maintenance,
                       jobs, results, disk, alerts, history>>
        /\ nativeMeta \subseteq nativeMeta' /\ unchecked \subseteq unchecked'
    BY DEF DownloadMetadata, NativeAdd, TypeInv, SetsOK
  <1>2. SetsKept(t) /\ JobsKept(t)
    BY <1>1, SameJobs DEF SetsKept, disk, history
  <1>3. AlertsKept(t)
    BY <1>1 DEF AlertsKept, IsSaved, Rechecked, disk
  <1>4. QED BY <1>2, <1>3 DEF Kept

\* The native torrent of u is taken away, and the alerts with it.
LEMMA MarkedKept ==
  ASSUME NEW q \in Seq(Alert), NEW u, NEW t, alerts' = Marked(q, u, OldAlert)
  PROVE  /\ Told(alerts', "added", t) => Told(q, "added", t) /\ t # u
         /\ NotAsked(q, t) => NotAsked(alerts', t)
         /\ t # u => /\ EndsWell(q, t) => EndsWell(alerts', t)
                     /\ AnsweredWell(q, t) => AnsweredWell(alerts', t)
                     /\ CheckAwaited(q, t) => CheckAwaited(alerts', t)
  BY OldTold

LEMMA CancelDownloadMetadataKept ==
  ASSUME TypeInv, NEW u \in Torrent, CancelDownloadMetadata(u), NEW t \in Torrent PROVE Kept(t)
  <1>1. /\ u \in preview
        /\ UNCHANGED <<phase, torrents, loading, params, numResumeData, hasMetadata, maintenance,
                       jobs, results, disk, history>>
        /\ nativeMeta' = nativeMeta \ {u} /\ unchecked' = unchecked \ {u}
        /\ alerts' = Marked(alerts, u, OldAlert)
    BY DEF CancelDownloadMetadata, NativeRemoved
  <1>2. t \in torrents \cup loading => t # u
    BY <1>1 DEF TypeInv, SetsOK
  <1>3. SetsKept(t) /\ JobsKept(t)
    BY <1>1, <1>2, SameJobs DEF SetsKept, disk, history
  <1>4. /\ Told(alerts', "added", t) => Told(alerts, "added", t)
        /\ NotAsked(alerts, t) => NotAsked(alerts', t)
        /\ t # u => /\ EndsWell(alerts, t) => EndsWell(alerts', t)
                    /\ AnsweredWell(alerts, t) => AnsweredWell(alerts', t)
                    /\ CheckAwaited(alerts, t) => CheckAwaited(alerts', t)
    BY <1>1, AlertsQueues, MarkedKept
  <1>5. AlertsKept(t)
    BY <1>1, <1>2, <1>4 DEF AlertsKept, IsSaved, Rechecked, disk
  <1>6. QED BY <1>3, <1>5 DEF Kept

\* A torrent has changed, and asks for its resume data.
LEMMA EditTorrentKept ==
  ASSUME TypeInv, NEW u \in Torrent, EditTorrent(u), NEW t \in Torrent PROVE Kept(t)
  <1> DEFINE q == Marked(alerts, u, OutdatedAlert)
  <1>1. /\ u \in torrents /\ phase = "running"
        /\ Requested(<<u>>, q)
        /\ jobs' = Marked(jobs, u, OutdatedJob)
        /\ resume' = [resume EXCEPT ![u] = IF @ = "none" THEN @ ELSE "stale"]
        /\ UNCHANGED <<phase, torrents, loading, params, preview, hasMetadata, maintenance, results,
                       resumeMeta, torrentFile, native, history>>
    BY DEF EditTorrent, Edited, Outdated
  <1>2. SetsKept(t)
    BY <1>1 DEF SetsKept, native, history
  <1>3. /\ alerts \in Seq(Alert) /\ jobs \in Seq(Job)
        /\ t # u => resume'[t] = resume[t]
    BY <1>1, AlertsQueues DEF TypeInv, DiskOK
  <1>4. /\ \A d : LastIs(jobs, resume, t, d) /\ t # u => LastIs(jobs', resume', t, d)
        /\ WillRemove(jobs', t) <=> WillRemove(jobs, t)
        /\ WillSearch(jobs', t) <=> WillSearch(jobs, t)
        /\ WillWriteMeta(jobs', t) <=> WillWriteMeta(jobs, t)
        /\ WritesFirst(jobs, t) => WritesFirst(jobs', t)
        /\ RemovesFirst(jobs, t) => RemovesFirst(jobs', t)
        /\ \A M : InPairs(jobs, t, M) => InPairs(jobs', t, M)
    BY <1>1, <1>3, OutdatedJobs
  <1>5. JobsKept(t)
    BY <1>1, <1>4 DEF JobsKept
  <1>6. /\ q \in Seq(Alert)
        /\ Told(q, "added", t) <=> Told(alerts, "added", t)
        /\ t # u => /\ EndsWell(q, t) <=> EndsWell(alerts, t)
                    /\ AnsweredWell(q, t) <=> AnsweredWell(alerts, t)
                    /\ CheckAwaited(q, t) <=> CheckAwaited(alerts, t)
        /\ NotAsked(q, t) <=> NotAsked(alerts, t)
    BY <1>3, OutdatedTold
  <1>7. alerts' = q \o Resumes(<<u>>) /\ <<u>> \in Seq(Torrent)
    <2>1. AlertsOK(q, numResumeData, inSession)
      BY AlertsMarked DEF TypeInv
    <2> HIDE DEF q
    <2>2. QED BY <1>1, <2>1, OneRequested
  <1> HIDE DEF q
  <1>8. /\ Told(alerts', "added", t) => Told(q, "added", t)
        /\ NotAsked(q, t) /\ t # u => NotAsked(alerts', t)
        /\ EndsWell(q, t) => EndsWell(alerts', t)
        /\ AnsweredWell(q, t) => AnsweredWell(alerts', t)
        /\ CheckAwaited(q, t) => CheckAwaited(alerts', t)
        /\ t = u => IsSaved(t)'
    <2>1. DOMAIN <<u>> = {1} /\ <<u>>[1] = u
      OBVIOUS
    <2>2. QED BY <1>6, <1>7, <2>1, RequestedKept
  <1>9. t \in loading => t # u
    BY <1>1 DEF TypeInv, SetsOK
  <1>10. ASSUME t = u PROVE AlertsKept(t)
    BY <1>6, <1>8, <1>9, <1>10 DEF AlertsKept
  <1>11. ASSUME t # u PROVE AlertsKept(t)
    <2>1. IsSaved(t) => IsSaved(t)'
      BY <1>4, <1>6, <1>8, <1>11 DEF IsSaved
    <2>2. Rechecked(t) => Rechecked(t)'
      BY <1>1, <1>6, <1>8, <1>11 DEF Rechecked, native
    <2>3. QED BY <1>6, <1>8, <1>11, <2>1, <2>2 DEF AlertsKept
  <1>12. AlertsKept(t)
    BY <1>10, <1>11
  <1>13. QED BY <1>2, <1>5, <1>12 DEF Kept

LEMMA SomeTail ==
  ASSUME TypeInv, alerts # << >>, NEW t
  PROVE  LET q == Tail(alerts) IN
         /\ q \in Seq(Alert)
         /\ Told(q, "added", t) => Told(alerts, "added", t)
         /\ NotAsked(alerts, t) => NotAsked(q, t)
         /\ EndsWell(alerts, t) => EndsWell(q, t)
         /\ AnsweredWell(alerts, t) /\ ~Good(Head(alerts), t) => AnsweredWell(q, t)
         /\ EndsWell(alerts, t) /\ Bad(Head(alerts), t) => AnsweredWell(q, t)
         /\ CheckAwaited(alerts, t) /\ ~Is(Head(alerts), "checked", t) => CheckAwaited(q, t)
  <1>1. alerts \in Seq(Alert)
    BY AlertsQueues
  <1>2. QED BY <1>1, TailTold, TailIn

\* An alert is handled that does not tell of t what t waits for.
LEMMA TailKept ==
  ASSUME TypeInv, alerts # << >>, NEW t, alerts' = Tail(alerts),
         LastIs(jobs, resume, t, "current") => LastIs(jobs', resume', t, "current"),
         t \in torrents => ~Good(Head(alerts), t),
         t \in unchecked => t \in unchecked',
         t \in torrents \cap hasMetadata /\ phase' = "running" => ~Is(Head(alerts), "checked", t)
  PROVE  AlertsKept(t)
  <1>1. /\ Told(alerts', "added", t) => Told(alerts, "added", t)
        /\ NotAsked(alerts, t) => NotAsked(alerts', t)
        /\ EndsWell(alerts, t) => EndsWell(alerts', t)
        /\ AnsweredWell(alerts, t) /\ ~Good(Head(alerts), t) => AnsweredWell(alerts', t)
        /\ CheckAwaited(alerts, t) /\ ~Is(Head(alerts), "checked", t) => CheckAwaited(alerts', t)
    BY SomeTail
  <1>2. t \in torrents /\ IsSaved(t) => IsSaved(t)'
    BY <1>1 DEF IsSaved
  <1>3. t \in torrents /\ phase' = "running" /\ t \in hasMetadata /\ Rechecked(t) => Rechecked(t)'
    BY <1>1 DEF Rechecked
  <1>4. QED BY <1>1, <1>2, <1>3 DEF AlertsKept

\* ... or one after which u asks for its resume data.
LEMMA TailRequestedKept ==
  ASSUME TypeInv, alerts # << >>, NEW u \in Torrent, NEW t, Requested(<<u>>, Tail(alerts)),
         Head(alerts).type # "resume",
         t # u /\ LastIs(jobs, resume, t, "current") => LastIs(jobs', resume', t, "current"),
         t \in unchecked => t \in unchecked',
         t # u => ~Is(Head(alerts), "checked", t)
  PROVE  /\ Told(alerts', "added", t) => Told(alerts, "added", t)
         /\ t = u => IsSaved(t)'
         /\ t # u \/ t \notin loading => AlertsKept(t)
  <1> DEFINE q == Tail(alerts)
  <1>1. /\ q \in Seq(Alert)
        /\ Told(q, "added", t) => Told(alerts, "added", t)
        /\ NotAsked(alerts, t) => NotAsked(q, t)
        /\ EndsWell(alerts, t) => EndsWell(q, t)
        /\ AnsweredWell(alerts, t) /\ ~Good(Head(alerts), t) => AnsweredWell(q, t)
        /\ CheckAwaited(alerts, t) /\ ~Is(Head(alerts), "checked", t) => CheckAwaited(q, t)
    BY SomeTail
  <1>2. ~Good(Head(alerts), t)
    BY DEF Good, Is
  <1>3. alerts' = q \o Resumes(<<u>>) /\ <<u>> \in Seq(Torrent)
    <2>1. AlertsOK(q, numResumeData, inSession) /\ Requested(<<u>>, q)
      BY HeadTypes
    <2> HIDE DEF q
    <2>2. QED BY <2>1, OneRequested
  <1> HIDE DEF q
  <1>4. /\ Told(alerts', "added", t) => Told(q, "added", t)
        /\ NotAsked(q, t) /\ t # u => NotAsked(alerts', t)
        /\ EndsWell(q, t) => EndsWell(alerts', t)
        /\ AnsweredWell(q, t) => AnsweredWell(alerts', t)
        /\ CheckAwaited(q, t) => CheckAwaited(alerts', t)
        /\ t = u => IsSaved(t)'
    <2>1. DOMAIN <<u>> = {1} /\ <<u>>[1] = u
      OBVIOUS
    <2>2. QED BY <1>1, <1>3, <2>1, RequestedKept
  <1>5. IsSaved(t) => IsSaved(t)'
    BY <1>1, <1>2, <1>4 DEF IsSaved
  <1>6. Rechecked(t) => Rechecked(t)' \/ IsSaved(t)'
    BY <1>1, <1>4 DEF Rechecked
  <1>7. QED BY <1>1, <1>4, <1>5, <1>6 DEF AlertsKept

\* An alert comes.
LEMMA AppendKept ==
  ASSUME NEW q \in Seq(Alert), NEW t, NEW u \in Torrent,
         NEW type \in {"added", "refused", "metadata", "checked"},
         alerts' = Append(q, About(type, u)),
         type = "added" => t # u,
         UNCHANGED <<jobs, resume>> \/ (\A d : LastIs(jobs, resume, t, d) => LastIs(jobs', resume', t, d)),
         t \in unchecked => t \in unchecked' \/ (t = u /\ type = "checked"),
         Told(q, "added", t) => Told(alerts, "added", t),
         NotAsked(alerts, t) => NotAsked(q, t),
         EndsWell(alerts, t) => EndsWell(q, t),
         AnsweredWell(alerts, t) => AnsweredWell(q, t),
         CheckAwaited(alerts, t) => CheckAwaited(q, t)
  PROVE  AlertsKept(t)
  <1>1. /\ Told(alerts', "added", t) <=> Told(q, "added", t) \/ ("added" = type /\ t = u)
        /\ EndsWell(alerts', t) <=> EndsWell(q, t)
        /\ AnsweredWell(alerts', t) <=> AnsweredWell(q, t)
        /\ NotAsked(alerts', t) <=> NotAsked(q, t)
        /\ CheckAwaited(q, t) => CheckAwaited(alerts', t)
        /\ type = "checked" => CheckAwaited(alerts', u)
    BY AppendTold
  <1>2. IsSaved(t) => IsSaved(t)'
    BY <1>1 DEF IsSaved
  <1>3. Rechecked(t) => Rechecked(t)'
    BY <1>1 DEF Rechecked
  <1>4. QED BY <1>1, <1>2, <1>3 DEF AlertsKept

LEMMA NativeStepKept ==
  ASSUME TypeInv, NEW u \in Torrent, NativeMetadata(u) \/ NativeChecks(u), NEW t \in Torrent
  PROVE  Kept(t)
  <1>1. /\ UNCHANGED <<phase, session, jobs, results, disk, history>>
        /\ nativeMeta \subseteq nativeMeta'
        /\ \/ alerts' = Append(alerts, About("metadata", u)) /\ unchecked \subseteq unchecked'
           \/ alerts' = Append(alerts, About("checked", u)) /\ unchecked' = unchecked \ {u}
    BY DEF NativeMetadata, NativeChecks
  <1>2. SetsKept(t) /\ JobsKept(t)
    BY <1>1, SameJobs DEF SetsKept, disk, session, history
  <1>3. alerts \in Seq(Alert)
    BY AlertsQueues
  <1>4. UNCHANGED <<jobs, resume>>
    BY <1>1 DEF disk
  <1>5. AlertsKept(t)
    <2>1. ASSUME alerts' = Append(alerts, About("metadata", u)), unchecked \subseteq unchecked'
          PROVE  AlertsKept(t)
      BY <1>3, <1>4, <2>1, AppendKept
    <2>2. ASSUME alerts' = Append(alerts, About("checked", u)), unchecked' = unchecked \ {u}
          PROVE  AlertsKept(t)
      BY <1>3, <1>4, <2>2, AppendKept
    <2>3. QED BY <1>1, <2>1, <2>2
  <1>6. QED BY <1>2, <1>5 DEF Kept

LEMMA HandleMetadataReceivedKept ==
  ASSUME TypeInv, NEW found \in BOOLEAN, HandleMetadataReceived(found), NEW t \in Torrent
  PROVE  Kept(t)
  <1> DEFINE u == Head(alerts).torrent
  <1>1. /\ alerts # << >> /\ Head(alerts).type = "metadata"
        /\ UNCHANGED <<phase, torrents, loading, params, hasMetadata, jobs, results, disk, history>>
    BY DEF HandleMetadataReceived, Handles
  <1>2. \/ u \in torrents /\ Requested(<<u>>, Tail(alerts)) /\ UNCHANGED native
        \/ u \in preview /\ alerts' = Marked(Tail(alerts), u, OldAlert) /\ NativeRemoved(u)
        \/ alerts' = Tail(alerts) /\ UNCHANGED native
    BY DEF HandleMetadataReceived
  <1>3. u \in Torrent
    BY <1>1, HeadTypes
  <1> HIDE DEF u
  <1>4. u \in preview /\ t \in torrents \cup loading => t # u
    BY DEF TypeInv, SetsOK
  <1>5. JobsKept(t)
    BY <1>1, SameJobs DEF disk
  <1>6. t \in torrents \cup loading /\ t \in nativeMeta => t \in nativeMeta'
    BY <1>2, <1>4 DEF native, NativeRemoved
  <1>7. SetsKept(t)
    BY <1>1, <1>6 DEF SetsKept, disk, history
  <1>8. ~Good(Head(alerts), t) /\ ~Is(Head(alerts), "checked", t)
    BY <1>1 DEF Good, Is
  <1>9. UNCHANGED <<jobs, resume>>
    BY <1>1 DEF disk
  <1>10. ASSUME u \in torrents, Requested(<<u>>, Tail(alerts)), UNCHANGED native PROVE AlertsKept(t)
    <2>1. t # u \/ t \notin loading
      BY <1>10 DEF TypeInv, SetsOK
    <2>2. Head(alerts).type # "resume" /\ unchecked' = unchecked
      BY <1>1, <1>10 DEF native
    <2>3. QED BY <1>1, <1>3, <1>8, <1>9, <1>10, <2>1, <2>2, TailRequestedKept
  <1>11. ASSUME u \in preview, alerts' = Marked(Tail(alerts), u, OldAlert), NativeRemoved(u)
         PROVE  AlertsKept(t)
    <2> DEFINE q == Tail(alerts)
    <2>1. /\ q \in Seq(Alert)
          /\ Told(q, "added", t) => Told(alerts, "added", t)
          /\ NotAsked(alerts, t) => NotAsked(q, t)
          /\ EndsWell(alerts, t) => EndsWell(q, t)
          /\ AnsweredWell(alerts, t) => AnsweredWell(q, t)
          /\ CheckAwaited(alerts, t) => CheckAwaited(q, t)
      BY <1>1, <1>8, SomeTail
    <2> HIDE DEF q
    <2>2. /\ Told(alerts', "added", t) => Told(q, "added", t) /\ t # u
          /\ NotAsked(q, t) => NotAsked(alerts', t)
          /\ t # u => /\ EndsWell(q, t) => EndsWell(alerts', t)
                      /\ AnsweredWell(q, t) => AnsweredWell(alerts', t)
                      /\ CheckAwaited(q, t) => CheckAwaited(alerts', t)
      <3>1. alerts' = Marked(q, u, OldAlert)
        BY <1>11 DEF q
      <3>2. QED BY <2>1, <3>1, MarkedKept
    <2>3. t # u /\ t \in unchecked => t \in unchecked'
      BY <1>11 DEF NativeRemoved
    <2>4. t \in torrents => t # u
      BY <1>4, <1>11
    <2>5. t # u /\ IsSaved(t) => IsSaved(t)'
      BY <1>9, <2>1, <2>2 DEF IsSaved
    <2>6. t # u /\ Rechecked(t) => Rechecked(t)'
      BY <2>1, <2>2, <2>3 DEF Rechecked
    <2>7. QED BY <2>1, <2>2, <2>4, <2>5, <2>6 DEF AlertsKept
  <1>12. ASSUME alerts' = Tail(alerts), UNCHANGED native PROVE AlertsKept(t)
    BY <1>1, <1>8, <1>9, <1>12, TailKept DEF native
  <1>13. QED BY <1>2, <1>5, <1>7, <1>10, <1>11, <1>12 DEF Kept

LEMMA HandleTorrentCheckedKept ==
  ASSUME TypeInv, NEW found \in BOOLEAN, HandleTorrentChecked(found), NEW t \in Torrent
  PROVE  Kept(t)
  <1> DEFINE u == Head(alerts).torrent
  <1>1. /\ alerts # << >> /\ Head(alerts).type = "checked" /\ (~found => Head(alerts).old)
        /\ UNCHANGED <<phase, torrents, loading, params, preview, hasMetadata, maintenance, jobs,
                       results, disk, native, history>>
        /\ IF found /\ u \in torrents \cap hasMetadata
           THEN Requested(<<u>>, Tail(alerts))
           ELSE alerts' = Tail(alerts)
    BY DEF HandleTorrentChecked, Handles
  <1>2. u \in Torrent
    BY <1>1, HeadTypes
  <1>3. SetsKept(t) /\ JobsKept(t)
    BY <1>1, SameJobs DEF SetsKept, disk, history, native
  <1>4. Is(Head(alerts), "checked", t) => t = u /\ found
    BY <1>1 DEF Is
  <1>5. ~Good(Head(alerts), t) /\ UNCHANGED <<jobs, resume, unchecked>>
    BY <1>1 DEF Good, Is, disk, native
  <1> HIDE DEF u
  <1>6. ASSUME found, u \in torrents \cap hasMetadata PROVE AlertsKept(t)
    <2>1. t # u \/ t \notin loading
      BY <1>6 DEF TypeInv, SetsOK
    <2>2. Head(alerts).type # "resume" /\ Requested(<<u>>, Tail(alerts))
      BY <1>1, <1>6
    <2>3. QED BY <1>1, <1>2, <1>4, <1>5, <2>1, <2>2, TailRequestedKept
  <1>7. ASSUME ~(found /\ u \in torrents \cap hasMetadata) PROVE AlertsKept(t)
    <2>1. t \in torrents \cap hasMetadata => ~Is(Head(alerts), "checked", t)
      BY <1>4, <1>7
    <2>2. alerts' = Tail(alerts)
      BY <1>1, <1>7
    <2>3. QED BY <1>1, <1>5, <2>1, <2>2, TailKept
  <1>8. QED BY <1>3, <1>6, <1>7 DEF Kept

\* The loop of the exit drops what is no answer, and an error is only shown.
LEMMA DroppedKept ==
  ASSUME TypeInv, alerts # << >>, alerts' = Tail(alerts), Head(alerts).type # "resume",
         Head(alerts).type # "checked" \/ phase # "running",
         UNCHANGED <<phase, session, jobs, results, disk, native, history>>, NEW t \in Torrent
  PROVE  Kept(t)
  <1>1. SetsKept(t) /\ JobsKept(t)
    BY SameJobs DEF SetsKept, disk, history, native, session
  <1>2. ~Good(Head(alerts), t) /\ UNCHANGED <<jobs, resume, unchecked>>
    BY DEF Good, Is, disk, native
  <1>3. phase' = "running" => ~Is(Head(alerts), "checked", t)
    BY DEF Is
  <1>4. AlertsKept(t)
    BY <1>2, <1>3, TailKept
  <1>5. QED BY <1>1, <1>4 DEF Kept

-----------------------------------------------------------------------------
(* Steps that concern a torrent *)

\* A job of another torrent, or none of these, is posted.
LEMMA OthersPosted ==
  ASSUME NEW q \in Seq(Job), NEW x \in Job, NEW t,
         ~Writes(x, t), ~Removes(x, t), ~Fresh(x, t)
  PROVE  LET p == Append(q, x) IN
         /\ p \in Seq(Job)
         /\ \A r, d : LastIs(q, r, t, d) => LastIs(p, r, t, d)
         /\ WillRemove(p, t) <=> WillRemove(q, t)
         /\ WillSearch(p, t) <=> WillSearch(q, t)
         /\ WillWriteMeta(p, t) <=> WillWriteMeta(q, t)
         /\ WritesFirst(q, t) => WritesFirst(p, t)
         /\ RemovesFirst(q, t) => RemovesFirst(p, t)
         /\ \A M : InPairs(q, t, M) => InPairs(p, t, M)
  <1> DEFINE p == Append(q, x)
  <1>1. /\ p \in Seq(Job)
        /\ \A r, d : LastIs(q, r, t, d) /\ ~Writes(x, t) => LastIs(p, r, t, d)
        /\ WillRemove(p, t) <=> WillRemove(q, t) \/ Removes(x, t)
        /\ WillSearch(p, t) <=> WillSearch(q, t) \/ Fresh(x, t)
        /\ WillWriteMeta(p, t) <=> WillWriteMeta(q, t) \/ (Writes(x, t) /\ x.meta)
        /\ WritesFirst(q, t) /\ ~(Writes(x, t) /\ x.meta) => WritesFirst(p, t)
        /\ RemovesFirst(q, t) /\ ~Removes(x, t) => RemovesFirst(p, t)
        /\ \A M : InPairs(q, t, M) /\ ~Removes(x, t) => InPairs(p, t, M)
    BY Posted
  <1> HIDE DEF p
  <1>2. QED BY <1>1 DEF p

\* The removal is posted, behind what is there.
LEMMA RemovalPosted ==
  ASSUME NEW q \in Seq(Job), NEW u \in Torrent, NEW t, ~WillSearch(q, t) \/ t # u
  PROVE  LET p == q \o Removal(u) IN
         /\ \A r, d : LastIs(q, r, t, d) /\ t # u => LastIs(p, r, t, d)
         /\ t = u => \A r : LastIs(p, r, t, "none")
         /\ t # u => (WillRemove(p, t) <=> WillRemove(q, t))
         /\ WillSearch(p, t) <=> WillSearch(q, t)
         /\ WillWriteMeta(p, t) <=> WillWriteMeta(q, t)
         /\ WritesFirst(q, t) => WritesFirst(p, t)
         /\ RemovesFirst(q, t) => RemovesFirst(p, t)
         /\ \A M : InPairs(q, t, M) => InPairs(p, t, M)
  <1> DEFINE x == ResumeJob(u, "none", FALSE)
             y == RemoveTorrentFile(u)
             o == Append(q, x)
             p == Append(o, y)
  <1>1. /\ x \in Job /\ y \in Job /\ x.data = "none" /\ ~x.meta
        /\ Writes(x, t) <=> t = u
        /\ ~Removes(x, t) /\ ~Fresh(x, t)
        /\ Removes(y, t) <=> t = u
        /\ ~Writes(y, t) /\ ~Fresh(y, t)
    BY JobTypes DEF Data
  <1>2. q \o Removal(u) = p
    BY <1>1, TwoPosted DEF Removal
  <1>3. /\ o \in Seq(Job)
        /\ \A r, d : LastIs(q, r, t, d) /\ ~Writes(x, t) => LastIs(o, r, t, d)
        /\ \A r : Writes(x, t) => LastIs(o, r, t, x.data)
        /\ WillRemove(o, t) <=> WillRemove(q, t) \/ Removes(x, t)
        /\ WillSearch(o, t) <=> WillSearch(q, t) \/ Fresh(x, t)
        /\ WillWriteMeta(o, t) <=> WillWriteMeta(q, t) \/ (Writes(x, t) /\ x.meta)
        /\ WritesFirst(q, t) /\ ~(Writes(x, t) /\ x.meta) => WritesFirst(o, t)
        /\ RemovesFirst(q, t) /\ ~Removes(x, t) => RemovesFirst(o, t)
        /\ \A M : InPairs(q, t, M) /\ ~Removes(x, t) => InPairs(o, t, M)
    BY <1>1, Posted
  <1>4. Len(q) \in Nat /\ o[Len(q) + 1] = x /\ Len(o) = Len(q) + 1
    <2>1. x \in Job
      BY <1>1
    <2> HIDE DEF x
    <2>2. QED BY <2>1, AppendProperties, LenProperties
  <1> HIDE DEF x, y, o
  <1>5. /\ \A r, d : LastIs(o, r, t, d) /\ ~Writes(y, t) => LastIs(p, r, t, d)
        /\ WillRemove(p, t) <=> WillRemove(o, t) \/ Removes(y, t)
        /\ WillSearch(p, t) <=> WillSearch(o, t) \/ Fresh(y, t)
        /\ WillWriteMeta(p, t) <=> WillWriteMeta(o, t) \/ (Writes(y, t) /\ y.meta)
        /\ WritesFirst(o, t) /\ ~(Writes(y, t) /\ y.meta) => WritesFirst(p, t)
        /\ RemovesFirst(o, t) /\ ~Removes(y, t) => RemovesFirst(p, t)
        /\ RemovesFirst(o, t) /\ ~WillSearch(o, t) => RemovesFirst(p, t)
        /\ \A M : InPairs(o, t, M) /\ ~Removes(y, t) => InPairs(p, t, M)
    BY <1>1, <1>3, Posted
  <1>6. /\ DOMAIN p = 1 .. Len(o) + 1 /\ DOMAIN o = 1 .. Len(o)
        /\ \A i \in 1 .. Len(o) : p[i] = o[i]
        /\ p[Len(o) + 1] = y
    BY <1>1, <1>3, AppendIn
  <1> HIDE DEF p
  <1>7. ASSUME NEW M, InPairs(q, t, M) PROVE InPairs(p, t, M)
    <2>1. InPairs(o, t, M)
      BY <1>1, <1>3, <1>7
    <2>2. CASE t # u
      BY <1>1, <1>5, <2>1, <2>2
    <2>3. CASE t = u
      <3> SUFFICES ASSUME NEW i \in DOMAIN p, Removes(p[i], t)
                   PROVE  IF i = 1 THEN t \notin M ELSE p[i - 1] = ResumeJob(t, "none", FALSE)
        BY DEF InPairs
      <3>1. CASE i \in DOMAIN o
        <4>1. Removes(o[i], t)
          BY <1>6, <3>1
        <4>2. i # 1 => i - 1 \in 1 .. Len(o) /\ p[i - 1] = o[i - 1]
          BY <1>4, <1>6, <3>1
        <4>3. QED BY <2>1, <3>1, <4>1, <4>2 DEF InPairs
      <3>2. CASE i \notin DOMAIN o
        <4>1. i = Len(q) + 2 /\ i - 1 = Len(q) + 1 /\ i # 1 /\ Len(q) + 1 \in 1 .. Len(o)
          BY <1>4, <1>6, <3>2
        <4>2. p[i - 1] = x
          BY <1>4, <1>6, <4>1
        <4>3. QED BY <2>3, <4>1, <4>2 DEF x
      <3>3. QED BY <3>1, <3>2
    <2>4. QED BY <2>2, <2>3
  <1>8. \A r, d : LastIs(q, r, t, d) /\ t # u => LastIs(p, r, t, d)
    BY <1>1, <1>3, <1>5
  <1>9. t = u => \A r : LastIs(p, r, t, "none")
    BY <1>1, <1>3, <1>5
  <1>10. /\ t # u => (WillRemove(p, t) <=> WillRemove(q, t))
         /\ WillSearch(p, t) <=> WillSearch(q, t)
         /\ WillWriteMeta(p, t) <=> WillWriteMeta(q, t)
         /\ WritesFirst(q, t) => WritesFirst(p, t)
         /\ RemovesFirst(q, t) => RemovesFirst(p, t)
    BY <1>1, <1>3, <1>5
  <1>11. QED BY <1>2, <1>7, <1>8, <1>9, <1>10

LEMMA OtherResults ==
  ASSUME NEW q \in Seq(Job), NEW u, NEW t
  PROVE  WillSearch(Marked(q, u, OldJob), t) <=> WillSearch(q, t) /\ t # u
  BY OldJobs

LEMMA DeleteTorrentSafe ==
  ASSUME TypeInv, NEW u \in Torrent, DeleteTorrent(u), NEW t \in Torrent, SafeFor(t)
  PROVE  SafeFor(t)'
  <1> DEFINE q == Marked(jobs, u, OldJob)
  <1>1. /\ u \in torrents /\ phase = "running" /\ phase' = phase
        /\ torrents' = torrents \ {u} /\ hasMetadata' = hasMetadata \ {u}
        /\ inSession' = inSession \ {u} /\ nativeMeta' = nativeMeta \ {u}
        /\ unchecked' = unchecked \ {u}
        /\ alerts' = Marked(alerts, u, OldAlert)
        /\ jobs' = q \o Removal(u)
        /\ results' = Marked(results, u, OldJob)
        /\ loading' = loading /\ params' = params
        /\ resume' = resume /\ resumeMeta' = resumeMeta /\ torrentFile' = torrentFile
        /\ mixed' = mixed /\ reloaded' = reloaded
    BY DEF DeleteTorrent, NativeRemoved, disk, history
  <1>2. alerts \in Seq(Alert) /\ jobs \in Seq(Job) /\ results \in Seq(Job)
    BY AlertsQueues
  <1>3. /\ q \in Seq(Job)
        /\ \A r, d : LastIs(jobs, r, t, d) => LastIs(q, r, t, d)
        /\ WillRemove(q, t) <=> WillRemove(jobs, t)
        /\ WillSearch(q, t) <=> WillSearch(jobs, t) /\ t # u
        /\ WillWriteMeta(q, t) <=> WillWriteMeta(jobs, t)
        /\ WritesFirst(jobs, t) => WritesFirst(q, t)
        /\ RemovesFirst(jobs, t) => RemovesFirst(q, t)
        /\ \A M : InPairs(jobs, t, M) => InPairs(q, t, M)
    BY <1>2, OldJobs
  <1> HIDE DEF q
  <1>4. /\ \A r, d : LastIs(q, r, t, d) /\ t # u => LastIs(jobs', r, t, d)
        /\ t = u => \A r : LastIs(jobs', r, t, "none")
        /\ t # u => (WillRemove(jobs', t) <=> WillRemove(q, t))
        /\ WillSearch(jobs', t) <=> WillSearch(q, t)
        /\ WillWriteMeta(jobs', t) <=> WillWriteMeta(q, t)
        /\ WritesFirst(q, t) => WritesFirst(jobs', t)
        /\ RemovesFirst(q, t) => RemovesFirst(jobs', t)
        /\ \A M : InPairs(q, t, M) => InPairs(jobs', t, M)
    BY <1>1, <1>3, RemovalPosted
  <1>5. WillSearch(results', t) <=> WillSearch(results, t) /\ t # u
    BY <1>1, <1>2, OtherResults
  <1>6. /\ Told(alerts', "added", t) => Told(alerts, "added", t) /\ t # u
        /\ NotAsked(alerts, t) => NotAsked(alerts', t)
        /\ t # u => /\ EndsWell(alerts, t) => EndsWell(alerts', t)
                    /\ AnsweredWell(alerts, t) => AnsweredWell(alerts', t)
                    /\ CheckAwaited(alerts, t) => CheckAwaited(alerts', t)
    BY <1>1, <1>2, MarkedKept
  <1>7. ASSUME t # u PROVE SafeFor(t)'
    <2>1. SetsKept(t)
      BY <1>1, <1>5, <1>7 DEF SetsKept
    <2>2. JobsKept(t)
      BY <1>1, <1>3, <1>4, <1>7 DEF JobsKept
    <2>3. IsSaved(t) => IsSaved(t)'
      BY <1>1, <1>3, <1>4, <1>6, <1>7 DEF IsSaved
    <2>4. Rechecked(t) => Rechecked(t)'
      BY <1>1, <1>6, <1>7 DEF Rechecked
    <2>5. AlertsKept(t)
      BY <1>6, <2>3, <2>4 DEF AlertsKept
    <2>6. QED BY <2>1, <2>2, <2>5, KeptSafe DEF Kept
  <1>8. ASSUME t = u PROVE SafeFor(t)'
    <2>1. t \notin torrents' /\ t \notin loading' /\ t \notin hasMetadata'
      BY <1>1, <1>8 DEF TypeInv, SetsOK
    <2>2. Deleted(t)'
      BY <1>4, <1>8 DEF Deleted
    <2>3. AddedIsKnown(t)' /\ SearchedIsKnown(t)'
      BY <1>3, <1>4, <1>5, <1>6, <1>8 DEF AddedIsKnown, SearchedIsKnown, Searching
    <2>4. LoadedIsSaved(t)' /\ WillBeSaved(t)'
      BY <2>1 DEF LoadedIsSaved, WillBeSaved
    <2>5. InPairs(jobs', t, resumeMeta')
      BY <1>1, <1>3, <1>4 DEF SafeFor
    <2>6. ASSUME t \notin mixed' \cup SkipChecking PROVE Backed(t)'
      <3>1. Backed(t)
        BY <1>1, <2>6 DEF SafeFor
      <3>2. QED BY <1>1, <1>3, <1>4, <1>5, <1>8, <2>1, <3>1 DEF Backed
    <2>7. QED BY <2>2, <2>3, <2>4, <2>5, <2>6 DEF SafeFor
  <1>9. QED BY <1>7, <1>8

\* What the addition, to libtorrent or not, changes of another torrent
LEMMA NativeAddLaterKept ==
  ASSUME NEW u \in Torrent, NEW meta \in BOOLEAN, NEW before, NEW q \in Seq(Alert),
         NativeAddLater(u, meta, before, q)
  PROVE  /\ nativeMeta \cap before \subseteq nativeMeta'
         /\ unchecked \cap before \subseteq unchecked'
         /\ \/ alerts' = Append(q, About("added", u)) /\ (meta => u \in nativeMeta')
            \/ alerts' = Append(q, About("refused", u))
  BY DEF NativeAddLater, NativeAdd

LEMMA AddTorrentSafe ==
  ASSUME TypeInv, NEW u \in Torrent, NEW meta \in BOOLEAN, NEW skip \in BOOLEAN,
         AddTorrent(u, meta, skip), NEW t \in Torrent, SafeFor(t)
  PROVE  SafeFor(t)'
  <1> DEFINE before == inSession \ (preview \cap {u})
             q == IF u \in preview THEN Marked(alerts, u, OldAlert) ELSE alerts
  <1>1. /\ phase = "running" /\ phase' = phase
        /\ u \notin torrents \cup loading
        /\ skip => meta /\ u \in SkipChecking
        /\ loading' = loading \cup {u}
        /\ params' = [params EXCEPT ![u] = [meta |-> meta, restored |-> FALSE]]
        /\ reloaded' = reloaded \ {u}
        /\ torrents' = torrents /\ hasMetadata' = hasMetadata /\ results' = results
        /\ resume' = resume /\ resumeMeta' = resumeMeta /\ torrentFile' = torrentFile
        /\ mixed' = mixed
    BY DEF AddTorrent, disk
  <1>2. \/ /\ meta /\ ~skip
           /\ jobs' = Append(jobs, Search(u))
           /\ nativeMeta' = nativeMeta \cap before
           /\ unchecked' = unchecked \cap before
           /\ alerts' = q
        \/ ~(meta /\ ~skip) /\ NativeAddLater(u, meta, before, q) /\ jobs' = jobs
    BY DEF AddTorrent
  <1>3. alerts \in Seq(Alert) /\ jobs \in Seq(Job) /\ results \in Seq(Job)
    BY AlertsQueues
  <1>4. /\ q \in Seq(Alert)
        /\ Told(q, "added", t) => Told(alerts, "added", t)
        /\ NotAsked(alerts, t) => NotAsked(q, t)
        /\ t # u => /\ EndsWell(alerts, t) => EndsWell(q, t)
                    /\ AnsweredWell(alerts, t) => AnsweredWell(q, t)
                    /\ CheckAwaited(alerts, t) => CheckAwaited(q, t)
    <2>1. CASE u \in preview
      BY <1>3, <2>1, OldTold
    <2>2. CASE u \notin preview
      BY <1>3, <2>2
    <2>3. QED BY <2>1, <2>2
  <1>5. t # u => params'[t] = params[t]
    BY <1>1 DEF TypeInv, SetsOK
  <1>6. params'[u] = [meta |-> meta, restored |-> FALSE]
    BY <1>1 DEF TypeInv, SetsOK
  <1>7. /\ t # u /\ t \in nativeMeta => t \in nativeMeta \cap before
        /\ t # u /\ t \in unchecked => t \in unchecked \cap before
    BY DEF TypeInv, SetsOK
  <1> HIDE DEF before, q
  <1>8. /\ nativeMeta \cap before \subseteq nativeMeta'
        /\ unchecked \cap before \subseteq unchecked'
        /\ \/ meta /\ ~skip /\ jobs' = Append(jobs, Search(u)) /\ alerts' = q
           \/ /\ ~(meta /\ ~skip) /\ jobs' = jobs
              /\ \/ alerts' = Append(q, About("added", u)) /\ (meta => u \in nativeMeta')
                 \/ alerts' = Append(q, About("refused", u))
    BY <1>2, <1>4, NativeAddLaterKept
  <1>9. /\ Search(u) \in Job /\ ~Writes(Search(u), t) /\ ~Removes(Search(u), t)
        /\ Fresh(Search(u), t) <=> t = u
    BY JobTypes
  <1>10. ASSUME t # u PROVE SafeFor(t)'
    <2>1. SetsKept(t)
      <3>1. /\ t \in torrents \cup loading /\ t \in nativeMeta => t \in nativeMeta'
            /\ (t \in loading' <=> t \in loading) /\ (t \in reloaded => t \in reloaded')
        BY <1>1, <1>7, <1>8, <1>10
      <3>2. QED BY <1>1, <1>5, <1>10, <3>1 DEF SetsKept
    <2>2. JobsKept(t) /\ \A d : LastIs(jobs, resume, t, d) => LastIs(jobs', resume', t, d)
      <3>1. CASE jobs' = Append(jobs, Search(u))
        <4> DEFINE p == Append(jobs, Search(u))
        <4>1. /\ \A r, d : LastIs(jobs, r, t, d) => LastIs(p, r, t, d)
              /\ WillRemove(p, t) <=> WillRemove(jobs, t)
              /\ WillSearch(p, t) <=> WillSearch(jobs, t)
              /\ WillWriteMeta(p, t) <=> WillWriteMeta(jobs, t)
              /\ WritesFirst(jobs, t) => WritesFirst(p, t)
              /\ RemovesFirst(jobs, t) => RemovesFirst(p, t)
              /\ \A M : InPairs(jobs, t, M) => InPairs(p, t, M)
          BY <1>3, <1>9, <1>10, OthersPosted
        <4>2. QED BY <1>1, <3>1, <4>1 DEF JobsKept
      <3>2. CASE jobs' = jobs
        BY <1>1, <3>2 DEF JobsKept
      <3>3. QED BY <1>8, <3>1, <3>2
    <2>3. t \in unchecked => t \in unchecked'
      BY <1>7, <1>8, <1>10
    <2>4. AlertsKept(t)
      <3>1. ASSUME alerts' = q PROVE AlertsKept(t)
        <4>1. IsSaved(t) => IsSaved(t)'
          BY <1>4, <1>10, <2>2, <3>1 DEF IsSaved
        <4>2. Rechecked(t) => Rechecked(t)'
          BY <1>4, <1>10, <2>3, <3>1 DEF Rechecked
        <4>3. QED BY <1>4, <3>1, <4>1, <4>2 DEF AlertsKept
      <3>2. ASSUME NEW type \in {"added", "refused"}, alerts' = Append(q, About(type, u))
            PROVE  AlertsKept(t)
        BY <1>4, <1>10, <2>2, <2>3, <3>2, AppendKept
      <3>3. QED BY <1>8, <3>1, <3>2
    <2>5. QED BY <2>1, <2>2, <2>4, KeptSafe DEF Kept
  <1>11. ASSUME t = u PROVE SafeFor(t)'
    <2>1. /\ ~Searching(t) /\ ~Told(alerts, "added", t)
          /\ t \notin torrents' /\ t \in loading' /\ t \notin hasMetadata'
          /\ params'[t].meta = meta /\ params'[t].restored = FALSE
      <3>1. ~Searching(t) /\ ~Told(alerts, "added", t)
        BY <1>1, <1>11 DEF SafeFor, SearchedIsKnown, AddedIsKnown
      <3>2. t \notin torrents' /\ t \in loading' /\ t \notin hasMetadata'
        BY <1>1, <1>11 DEF TypeInv, SetsOK
      <3>3. QED BY <1>6, <1>11, <3>1, <3>2
    <2>2. ~Told(q, "added", t)
      BY <1>4, <2>1
    <2>3. Told(alerts', "added", t) => (meta => t \in nativeMeta') /\ ~(meta /\ ~skip)
      <3>1. CASE alerts' = q
        BY <2>2, <3>1
      <3>2. CASE ~(meta /\ ~skip) /\ alerts' = Append(q, About("added", u)) /\ (meta => u \in nativeMeta')
        BY <1>11, <3>2
      <3>3. CASE alerts' = Append(q, About("refused", u))
        <4>1. Told(Append(q, About("refused", u)), "added", t)
                <=> Told(q, "added", t) \/ ("added" = "refused" /\ t = u)
          BY <1>4, AppendTold
        <4>2. QED BY <2>2, <3>3, <4>1
      <3>4. QED BY <1>8, <3>1, <3>2, <3>3
    <2>4. /\ WillRemove(jobs', t) <=> WillRemove(jobs, t)
          /\ WillSearch(jobs', t) => meta
          /\ WillWriteMeta(jobs', t) <=> WillWriteMeta(jobs, t)
          /\ WritesFirst(jobs, t) => WritesFirst(jobs', t)
          /\ RemovesFirst(jobs, t) => RemovesFirst(jobs', t)
          /\ \A M : InPairs(jobs, t, M) => InPairs(jobs', t, M)
      <3>1. CASE jobs' = Append(jobs, Search(u)) /\ meta
        <4> DEFINE p == Append(jobs, Search(u))
        <4>1. /\ WillRemove(p, t) <=> WillRemove(jobs, t) \/ Removes(Search(u), t)
              /\ WillWriteMeta(p, t) <=> WillWriteMeta(jobs, t) \/ (Writes(Search(u), t) /\ Search(u).meta)
              /\ WritesFirst(jobs, t) /\ ~(Writes(Search(u), t) /\ Search(u).meta) => WritesFirst(p, t)
              /\ RemovesFirst(jobs, t) /\ ~Removes(Search(u), t) => RemovesFirst(p, t)
              /\ \A M : InPairs(jobs, t, M) /\ ~Removes(Search(u), t) => InPairs(p, t, M)
          BY <1>3, <1>9, Posted
        <4>2. QED BY <1>9, <3>1, <4>1
      <3>2. CASE jobs' = jobs
        BY <2>1, <3>2 DEF Searching
      <3>3. QED BY <1>8, <3>1, <3>2
    <2>5. Deleted(t)' /\ LoadedIsSaved(t)' /\ WillBeSaved(t)'
      BY <2>1 DEF Deleted, LoadedIsSaved, WillBeSaved
    <2>6. AddedIsKnown(t)'
      BY <2>1, <2>3 DEF AddedIsKnown
    <2>7. SearchedIsKnown(t)'
      <3>1. ~WillSearch(results', t)
        BY <1>1, <2>1 DEF Searching
      <3>2. QED BY <2>1, <2>4, <3>1 DEF SearchedIsKnown, Searching
    <2>8. InPairs(jobs', t, resumeMeta')
      BY <1>1, <2>4 DEF SafeFor
    <2>9. ASSUME t \notin mixed' \cup SkipChecking PROVE Backed(t)'
      <3>1. Backed(t)
        BY <1>1, <2>9 DEF SafeFor
      <3>2. ~skip
        BY <1>1, <1>11, <2>9
      <3>3. ~WillSearch(results', t)
        BY <1>1, <2>1 DEF Searching
      <3>4. QED BY <1>1, <2>1, <2>3, <2>4, <3>1, <3>2, <3>3 DEF Backed
    <2>10. QED BY <2>5, <2>6, <2>7, <2>8, <2>9 DEF SafeFor
  <1>12. QED BY <1>10, <1>11

\* Who is not asked for does not answer badly.
LEMMA NotAskedWell ==
  ASSUME NEW q, NEW t, NotAsked(q, t) PROVE EndsWell(q, t)
  BY DEF NotAsked, EndsWell, Bad

LEMMA CreateTorrentSafe ==
  ASSUME TypeInv, alerts # << >>, Head(alerts).type = "added", ~Head(alerts).old,
         phase = "running", UNCHANGED <<phase, results, native, history>>,
         NEW u \in loading, u = Head(alerts).torrent, CreateTorrent(u),
         NEW t \in Torrent, SafeFor(t)
  PROVE  SafeFor(t)'
  <1>1. /\ torrents' = torrents \cup {u} /\ loading' = loading \ {u}
        /\ hasMetadata' = IF params[u].meta THEN hasMetadata \cup {u} ELSE hasMetadata
        /\ params' = params /\ resumeMeta' = resumeMeta /\ results' = results
        /\ inSession' = inSession /\ nativeMeta' = nativeMeta /\ unchecked' = unchecked
        /\ mixed' = mixed /\ reloaded' = reloaded /\ phase' = phase
    BY DEF CreateTorrent, native, history
  <1>2. \/ /\ params[u].restored /\ alerts' = Tail(alerts)
           /\ jobs' = jobs /\ resume' = resume /\ torrentFile' = torrentFile
        \/ /\ ~params[u].restored
           /\ torrentFile' = IF params[u].meta THEN torrentFile \cup {u} ELSE torrentFile
           /\ Requested(<<u>>, Tail(alerts))
           /\ jobs' = Marked(jobs, u, OutdatedJob)
           /\ resume' = [resume EXCEPT ![u] = IF @ = "none" THEN @ ELSE "stale"]
    BY DEF CreateTorrent, Outdated
  <1>3. /\ u \in Torrent /\ u \notin torrents
        /\ t \in loading => t \notin torrents
        /\ torrentFile \subseteq torrentFile'
    BY <1>2 DEF TypeInv, SetsOK
  <1>4. alerts \in Seq(Alert) /\ jobs \in Seq(Job)
    BY AlertsQueues
  <1>5. ~Good(Head(alerts), t) /\ ~Is(Head(alerts), "checked", t)
    BY DEF Good, Is
  <1>6. t # u => resume'[t] = resume[t]
    BY <1>2 DEF TypeInv, DiskOK
  <1>7. /\ \A d : LastIs(jobs, resume, t, d) /\ t # u => LastIs(jobs', resume', t, d)
        /\ WillRemove(jobs', t) <=> WillRemove(jobs, t)
        /\ WillSearch(jobs', t) <=> WillSearch(jobs, t)
        /\ WillWriteMeta(jobs', t) <=> WillWriteMeta(jobs, t)
        /\ WritesFirst(jobs, t) => WritesFirst(jobs', t)
        /\ RemovesFirst(jobs, t) => RemovesFirst(jobs', t)
        /\ \A M : InPairs(jobs, t, M) => InPairs(jobs', t, M)
    <2>1. CASE jobs' = jobs /\ resume' = resume
      BY <2>1
    <2>2. CASE jobs' = Marked(jobs, u, OutdatedJob)
      BY <1>4, <1>6, <2>2, OutdatedJobs
    <2>3. QED BY <1>2, <2>1, <2>2
  <1>8. ASSUME Requested(<<u>>, Tail(alerts))
        PROVE  /\ Told(alerts', "added", t) => Told(alerts, "added", t)
               /\ t = u => IsSaved(t)'
               /\ t # u => AlertsKept(t)
    <2>1. Head(alerts).type # "resume" /\ (t \in unchecked => t \in unchecked')
      BY <1>1
    <2>2. t # u /\ LastIs(jobs, resume, t, "current") => LastIs(jobs', resume', t, "current")
      BY <1>7
    <2>3. QED BY <1>3, <1>5, <1>8, <2>1, <2>2, TailRequestedKept
  <1>9. ASSUME t # u PROVE SafeFor(t)'
    <2>1. SetsKept(t)
      BY <1>1, <1>3, <1>9 DEF SetsKept
    <2>2. JobsKept(t)
      BY <1>1, <1>7, <1>9 DEF JobsKept
    <2>3. AlertsKept(t)
      <3>1. ASSUME alerts' = Tail(alerts) PROVE AlertsKept(t)
        BY <1>1, <1>5, <1>7, <1>9, <3>1, TailKept
      <3>2. QED BY <1>2, <1>8, <1>9, <3>1
    <2>4. QED BY <2>1, <2>2, <2>3, KeptSafe DEF Kept
  <1>10. ASSUME t = u PROVE SafeFor(t)'
    <2>1. t \in loading /\ t \notin torrents /\ t \in torrents' /\ t \notin loading' /\ t \notin hasMetadata
      BY <1>1, <1>3, <1>10 DEF TypeInv, SetsOK
    <2>2. Told(alerts, "added", t)
      <3>1. 1 \in DOMAIN alerts /\ Head(alerts) = alerts[1]
        BY <1>4, TailIn
      <3>2. QED BY <1>10, <3>1 DEF Told, Is
    <2>3. params[t].meta => t \in nativeMeta
      BY <2>1, <2>2 DEF SafeFor, AddedIsKnown
    <2>4. Deleted(t)' /\ AddedIsKnown(t)' /\ LoadedIsSaved(t)'
      BY <2>1 DEF Deleted, AddedIsKnown, LoadedIsSaved
    <2>5. SearchedIsKnown(t)'
      <3>1. Searching(t)' => Searching(t)
        BY <1>1, <1>7 DEF Searching
      <3>2. Searching(t) /\ t \notin mixed => params[t].meta
        BY <2>1 DEF SafeFor, SearchedIsKnown
      <3>3. QED BY <1>1, <2>1, <2>3, <3>1, <3>2 DEF SearchedIsKnown
    <2>6. WillBeSaved(t)'
      <3>1. IsSaved(t)'
        <4>1. CASE ~params[u].restored
          BY <1>2, <1>8, <1>10, <4>1
        <4>2. CASE params[u].restored
          <5>1. LastIs(jobs, resume, t, "current") /\ NotAsked(alerts, t)
            BY <1>10, <2>1, <4>2 DEF SafeFor, LoadedIsSaved
          <5>2. NotAsked(Tail(alerts), t)
            BY <5>1, SomeTail
          <5>3. EndsWell(alerts', t)
            BY <1>2, <4>2, <5>2, NotAskedWell
          <5>4. QED BY <1>2, <4>2, <5>1, <5>3 DEF IsSaved
        <4>3. QED BY <4>1, <4>2
      <3>2. QED BY <1>1, <3>1 DEF WillBeSaved
    <2>7. InPairs(jobs', t, resumeMeta')
      BY <1>1, <1>7 DEF SafeFor
    <2>8. ASSUME t \notin mixed' \cup SkipChecking PROVE Backed(t)'
      <3>1. Backed(t)
        BY <1>1, <2>8 DEF SafeFor
      <3>2. t \in hasMetadata' => t \in torrentFile' /\ ~WillRemove(jobs, t)
        <4>1. t \in hasMetadata' => params[t].meta
          BY <1>1, <1>10, <2>1
        <4>2. params[t].meta => ~WillRemove(jobs, t)
          BY <2>1, <2>2, <3>1 DEF Backed
        <4>3. params[t].meta => t \in torrentFile'
          BY <1>2, <1>10, <2>1, <3>1 DEF Backed, Stays
        <4>4. QED BY <4>1, <4>2, <4>3
      <3>3. t \in torrentFile => t \in torrentFile'
        BY <1>3
      <3>4. QED BY <1>1, <1>7, <2>1, <3>1, <3>2, <3>3 DEF Backed, Stays
    <2>9. QED BY <2>4, <2>5, <2>6, <2>7, <2>8 DEF SafeFor
  <1>11. QED BY <1>9, <1>10

LEMMA HandleAddTorrentSafe ==
  ASSUME TypeInv, HandleAddTorrent, NEW t \in Torrent, SafeFor(t) PROVE SafeFor(t)'
  <1>1. /\ alerts # << >> /\ Head(alerts).type = "added" /\ phase = "running"
        /\ UNCHANGED <<phase, results, native, history>>
    BY DEF HandleAddTorrent, Handles
  <1>2. CASE ~Head(alerts).old /\ Head(alerts).torrent \in loading
    <2>1. CreateTorrent(Head(alerts).torrent)
      BY <1>2 DEF HandleAddTorrent
    <2>2. QED BY <1>1, <1>2, <2>1, CreateTorrentSafe
  <1>3. CASE ~(~Head(alerts).old /\ Head(alerts).torrent \in loading)
    <2>1. alerts' = Tail(alerts) /\ UNCHANGED <<session, jobs, disk>>
      BY <1>3 DEF HandleAddTorrent
    <2>2. Kept(t)
      BY <1>1, <2>1, DroppedKept
    <2>3. QED BY <2>2, KeptSafe
  <1>4. QED BY <1>2, <1>3

\* What an answer that is handled posts
LEMMA DispatchSafe ==
  ASSUME TypeInv, alerts # << >>, Head(alerts).type = "resume", UNCHANGED phase,
         phase \in {"running", "exiting"},
         NEW found \in BOOLEAN, ~found => Head(alerts).old, DispatchResumeData(found),
         NEW t \in Torrent, SafeFor(t)
  PROVE  SafeFor(t)'
  <1> DEFINE a == Head(alerts)
             u == a.torrent
  <1>1. /\ alerts' = Tail(alerts)
        /\ UNCHANGED <<torrents, loading, params, preview, hasMetadata, maintenance, results, disk,
                       native, history>>
    BY DEF DispatchResumeData
  <1>2. a \in Alert /\ u \in Torrent
    BY HeadTypes
  <1>3. alerts \in Seq(Alert) /\ jobs \in Seq(Job)
    BY AlertsQueues
  <1>4. SetsKept(t)
    BY <1>1 DEF SetsKept, disk, native, history
  <1>5. ~Is(a, "checked", t)
    BY DEF Is
  <1>6. UNCHANGED <<resume, resumeMeta, unchecked, nativeMeta, hasMetadata, torrents, loading, params,
                    results, torrentFile, mixed, reloaded>>
    BY <1>1 DEF disk, native, history
  <1>7. CASE ~(found /\ u \in torrents)
    <2>1. jobs' = jobs
      BY <1>7 DEF DispatchResumeData
    <2>2. t \in torrents => ~Good(a, t)
      BY <1>7 DEF Good, Is
    <2>3. JobsKept(t)
      BY <1>6, <2>1, SameJobs
    <2>4. AlertsKept(t)
      BY <1>1, <1>5, <1>6, <2>1, <2>2, TailKept
    <2>5. QED BY <1>4, <2>3, <2>4, KeptSafe DEF Kept
  <1>8. CASE found /\ u \in torrents
    <2>1. SaveResumeData(a)
      BY <1>8 DEF DispatchResumeData
    <2>2. PICK d \in Data \ {"none"} :
             /\ d = "current" <=> a.current /\ ~a.old
             /\ LET x == ResumeJob(u, d, u \in hasMetadata) IN
                \/ jobs' = Append(jobs, x)
                \/ u \in nativeMeta /\ jobs' = Append(Append(jobs, Search(u)), x)
      BY <1>2, <1>8, <2>1, AnswerPosts
    <2> DEFINE m == u \in hasMetadata
               x == ResumeJob(u, d, m)
               s == Append(jobs, Search(u))
    <2>3. /\ x \in Job /\ x.data = d /\ x.meta = m
          /\ Writes(x, t) <=> t = u
          /\ ~Removes(x, t) /\ ~Fresh(x, t)
          /\ Search(u) \in Job /\ ~Writes(Search(u), t) /\ ~Removes(Search(u), t)
          /\ Fresh(Search(u), t) <=> t = u
      <3>1. m \in BOOLEAN
        OBVIOUS
      <3> HIDE DEF m
      <3>2. QED BY <1>2, <3>1, JobTypes
    <2>4. \E q \in {jobs, s} : jobs' = Append(q, x) /\ (q = s => u \in nativeMeta)
      BY <2>2
    <2>5. PICK q \in {jobs, s} : jobs' = Append(q, x) /\ (q = s => u \in nativeMeta)
      BY <2>4
    <2>6. /\ q \in Seq(Job)
          /\ \A r, e : LastIs(jobs, r, t, e) => LastIs(q, r, t, e)
          /\ WillRemove(q, t) <=> WillRemove(jobs, t)
          /\ WillSearch(q, t) => WillSearch(jobs, t) \/ (t = u /\ u \in nativeMeta)
          /\ WillWriteMeta(q, t) <=> WillWriteMeta(jobs, t)
          /\ WritesFirst(jobs, t) => WritesFirst(q, t)
          /\ RemovesFirst(jobs, t) => RemovesFirst(q, t)
          /\ \A M : InPairs(jobs, t, M) => InPairs(q, t, M)
      <3>1. CASE q = jobs
        BY <1>3, <3>1
      <3>2. CASE q = s
        <4>1. /\ s \in Seq(Job)
              /\ \A r, e : LastIs(jobs, r, t, e) /\ ~Writes(Search(u), t) => LastIs(s, r, t, e)
              /\ WillRemove(s, t) <=> WillRemove(jobs, t) \/ Removes(Search(u), t)
              /\ WillSearch(s, t) <=> WillSearch(jobs, t) \/ Fresh(Search(u), t)
              /\ WillWriteMeta(s, t) <=> WillWriteMeta(jobs, t) \/ (Writes(Search(u), t) /\ Search(u).meta)
              /\ WritesFirst(jobs, t) /\ ~(Writes(Search(u), t) /\ Search(u).meta) => WritesFirst(s, t)
              /\ RemovesFirst(jobs, t) /\ ~Removes(Search(u), t) => RemovesFirst(s, t)
              /\ \A M : InPairs(jobs, t, M) /\ ~Removes(Search(u), t) => InPairs(s, t, M)
          BY <1>3, <2>3, Posted
        <4> HIDE DEF s
        <4>2. QED BY <2>3, <2>5, <3>2, <4>1
      <3>3. QED BY <3>1, <3>2
    <2> HIDE DEF x, s, m
    <2>7. /\ \A r, e : LastIs(q, r, t, e) /\ ~Writes(x, t) => LastIs(jobs', r, t, e)
          /\ \A r : Writes(x, t) => LastIs(jobs', r, t, x.data)
          /\ WillRemove(jobs', t) <=> WillRemove(q, t) \/ Removes(x, t)
          /\ WillSearch(jobs', t) <=> WillSearch(q, t) \/ Fresh(x, t)
          /\ WillWriteMeta(jobs', t) <=> WillWriteMeta(q, t) \/ (Writes(x, t) /\ x.meta)
          /\ WritesFirst(q, t) /\ ~(Writes(x, t) /\ x.meta) => WritesFirst(jobs', t)
          /\ WritesFirst(q, t) /\ ~WillRemove(q, t) /\ ~Removes(x, t) => WritesFirst(jobs', t)
          /\ RemovesFirst(q, t) /\ ~Removes(x, t) => RemovesFirst(jobs', t)
          /\ \A M : InPairs(q, t, M) /\ ~Removes(x, t) => InPairs(jobs', t, M)
      BY <2>3, <2>5, <2>6, Posted
    <2>8. ASSUME t # u PROVE SafeFor(t)'
      <3>1. JobsKept(t)
        BY <1>6, <2>3, <2>6, <2>7, <2>8 DEF JobsKept
      <3>2. ~Good(a, t)
        BY <2>8 DEF Good, Is
      <3>3. LastIs(jobs, resume, t, "current") => LastIs(jobs', resume', t, "current")
        BY <1>6, <2>3, <2>6, <2>7, <2>8
      <3>4. AlertsKept(t)
        BY <1>1, <1>5, <1>6, <3>2, <3>3, TailKept
      <3>5. QED BY <1>4, <3>1, <3>4, KeptSafe DEF Kept
    <2>9. ASSUME t = u PROVE SafeFor(t)'
      <3>1. t \in torrents' /\ t \notin loading' /\ t \in torrents
        BY <1>6, <1>8, <2>9 DEF TypeInv, SetsOK
      <3>2. /\ WillRemove(jobs', t) <=> WillRemove(jobs, t)
            /\ WillSearch(jobs', t) => WillSearch(jobs, t) \/ t \in nativeMeta
            /\ WillWriteMeta(jobs', t) => WillWriteMeta(jobs, t) \/ m
            /\ WritesFirst(jobs, t) /\ (m => ~WillRemove(jobs, t)) => WritesFirst(jobs', t)
            /\ RemovesFirst(jobs, t) => RemovesFirst(jobs', t)
            /\ \A M : InPairs(jobs, t, M) => InPairs(jobs', t, M)
            /\ LastIs(jobs', resume', t, d)
        BY <1>6, <2>3, <2>6, <2>7, <2>9
      <3>3. m <=> t \in hasMetadata
        BY <2>9 DEF m
      <3>4. /\ Told(alerts', "added", t) => Told(alerts, "added", t)
            /\ EndsWell(alerts, t) => EndsWell(alerts', t)
            /\ EndsWell(alerts, t) /\ Bad(a, t) => AnsweredWell(alerts', t)
            /\ CheckAwaited(alerts, t) => CheckAwaited(alerts', t)
        BY <1>1, <1>5, SomeTail
      <3>5. Deleted(t)' /\ LoadedIsSaved(t)'
        BY <3>1 DEF Deleted, LoadedIsSaved
      <3>6. AddedIsKnown(t)'
        BY <3>1 DEF AddedIsKnown
      <3>7. SearchedIsKnown(t)'
        <4>1. Searching(t)' => Searching(t) \/ t \in nativeMeta
          BY <1>6, <3>2 DEF Searching
        <4>2. Searching(t) /\ t \notin mixed => t \in nativeMeta
          BY <3>1 DEF SafeFor, SearchedIsKnown
        <4>3. QED BY <1>6, <3>1, <4>1, <4>2 DEF SearchedIsKnown
      <3>8. IsSaved(t) => IsSaved(t)'
        <4>1. CASE Good(a, t)
          <5>1. d = "current"
            BY <2>2, <4>1 DEF Good, Is
          <5>2. QED BY <3>2, <3>4, <5>1 DEF IsSaved
        <4>2. CASE ~Good(a, t)
          <5>1. Bad(a, t)
            BY <2>9, <4>2 DEF Bad
          <5>2. QED BY <3>4, <5>1 DEF IsSaved
        <4>3. QED BY <4>1, <4>2
      <3>9. Rechecked(t) => Rechecked(t)'
        BY <1>6, <3>4 DEF Rechecked
      <3>10. WillBeSaved(t)'
        <4>1. WillBeSaved(t)
          BY DEF SafeFor
        <4>2. QED BY <1>6, <3>1, <3>8, <3>9, <4>1 DEF WillBeSaved
      <3>11. InPairs(jobs', t, resumeMeta')
        BY <1>6, <3>2 DEF SafeFor
      <3>12. ASSUME t \notin mixed' \cup SkipChecking PROVE Backed(t)'
        <4>1. Backed(t)
          BY <1>6, <3>12 DEF SafeFor
        <4>2. QED BY <1>6, <3>1, <3>2, <3>3, <4>1 DEF Backed, Stays
      <3>13. QED BY <3>5, <3>6, <3>7, <3>10, <3>11, <3>12 DEF SafeFor
    <2>10. QED BY <2>8, <2>9
  <1>9. QED BY <1>7, <1>8

LEMMA HandleSaveResumeDataSafe ==
  ASSUME TypeInv, NEW found \in BOOLEAN, HandleSaveResumeData(found), NEW t \in Torrent, SafeFor(t)
  PROVE  SafeFor(t)'
  <1>1. /\ alerts # << >> /\ Head(alerts).type = "resume" /\ UNCHANGED phase /\ phase = "running"
        /\ DispatchResumeData(found) /\ (~found => Head(alerts).old)
    BY DEF HandleSaveResumeData, Handles
  <1>2. QED BY <1>1, DispatchSafe

LEMMA ExitHandlesSafe ==
  ASSUME TypeInv, NEW found \in BOOLEAN, ExitHandles(found), NEW t \in Torrent, SafeFor(t)
  PROVE  SafeFor(t)'
  <1>1. /\ alerts # << >> /\ UNCHANGED phase /\ phase = "exiting" /\ (~found => Head(alerts).old)
    BY DEF ExitHandles
  <1>2. CASE Head(alerts).type = "resume" /\ DispatchResumeData(found)
    BY <1>1, <1>2, DispatchSafe
  <1>3. CASE /\ Head(alerts).type # "resume" /\ alerts' = Tail(alerts)
             /\ UNCHANGED <<session, jobs, results, disk, native, history>>
    <2>1. Kept(t)
      BY <1>1, <1>3, DroppedKept
    <2>2. QED BY <2>1, KeptSafe
  <1>4. QED BY <1>2, <1>3 DEF ExitHandles

LEMMA HandleAddTorrentErrorKept ==
  ASSUME TypeInv, HandleAddTorrentError, NEW t \in Torrent PROVE Kept(t)
  <1>1. /\ alerts # << >> /\ Head(alerts).type = "refused" /\ alerts' = Tail(alerts)
        /\ UNCHANGED <<phase, session, jobs, results, disk, native, history>>
    BY DEF HandleAddTorrentError, Handles
  <1>2. QED BY <1>1, DroppedKept

\* The files of u were found, and its metadata is taken over.
LEMMA ReloadSafe ==
  ASSUME TypeInv, phase = "running", NEW u \in torrents, EndReceivedMetadataHandling(u),
         UNCHANGED <<phase, torrents, params, jobs, resume, resumeMeta>>,
         NEW t \in Torrent, SafeFor(t),
         t \in mixed => t \in mixed',
         t = u /\ t \notin mixed' => WillSearch(results, t),
         WillSearch(results', t) => WillSearch(results, t)
  PROVE  SafeFor(t)'
  <1> DEFINE known == {u} \cap nativeMeta
  <1>1. /\ alerts' = Marked(alerts, u, OldAlert)
        /\ unchecked' = unchecked \cup known
        /\ hasMetadata' = (hasMetadata \ {u}) \cup known
        /\ torrentFile' = torrentFile \cup known
        /\ reloaded' = reloaded \cup {u}
        /\ loading' = loading /\ nativeMeta' = nativeMeta
    BY DEF EndReceivedMetadataHandling
  <1>2. alerts \in Seq(Alert)
    BY AlertsQueues
  <1>3. /\ Told(alerts', "added", t) => Told(alerts, "added", t) /\ t # u
        /\ NotAsked(alerts, t) => NotAsked(alerts', t)
        /\ t # u => /\ EndsWell(alerts, t) => EndsWell(alerts', t)
                    /\ AnsweredWell(alerts, t) => AnsweredWell(alerts', t)
                    /\ CheckAwaited(alerts, t) => CheckAwaited(alerts', t)
    BY <1>1, <1>2, MarkedKept
  <1>4. ASSUME t # u PROVE SafeFor(t)'
    <2>1. SetsKept(t)
      BY <1>1, <1>4 DEF SetsKept
    <2>2. JobsKept(t)
      BY SameJobs
    <2>3. IsSaved(t) => IsSaved(t)'
      BY <1>3, <1>4 DEF IsSaved
    <2>4. Rechecked(t) => Rechecked(t)'
      BY <1>1, <1>3, <1>4 DEF Rechecked
    <2>5. AlertsKept(t)
      BY <1>3, <2>3, <2>4 DEF AlertsKept
    <2>6. QED BY <2>1, <2>2, <2>5, KeptSafe DEF Kept
  <1>5. ASSUME t = u PROVE SafeFor(t)'
    <2>1. t \in torrents /\ t \in torrents' /\ t \notin loading'
      BY <1>1, <1>5 DEF TypeInv, SetsOK
    <2>2. Deleted(t)' /\ LoadedIsSaved(t)' /\ AddedIsKnown(t)'
      BY <1>3, <1>5, <2>1 DEF Deleted, LoadedIsSaved, AddedIsKnown
    <2>3. ASSUME t \notin mixed' PROVE t \in nativeMeta /\ t \notin mixed
      BY <1>5, <2>1, <2>3 DEF SafeFor, SearchedIsKnown, Searching
    <2>4. SearchedIsKnown(t)'
      BY <1>1, <2>1, <2>3 DEF SearchedIsKnown
    <2>5. WillBeSaved(t)'
      <3>1. ASSUME t \notin mixed' PROVE t \in hasMetadata' /\ t \in unchecked' /\ t \in reloaded'
        BY <1>1, <1>5, <2>3, <3>1
      <3>2. QED BY <3>1 DEF WillBeSaved, Rechecked
    <2>6. InPairs(jobs', t, resumeMeta')
      BY DEF SafeFor
    <2>7. ASSUME t \notin mixed' \cup SkipChecking PROVE Backed(t)'
      <3>1. Backed(t) /\ t \in torrentFile' /\ ~WillRemove(jobs, t)
        BY <1>1, <1>5, <2>3, <2>7 DEF SafeFor, Backed
      <3>2. QED BY <2>1, <3>1 DEF Backed, Stays
    <2>8. QED BY <2>2, <2>4, <2>5, <2>6, <2>7 DEF SafeFor
  <1>6. QED BY <1>4, <1>5

\* The files of u were found, and it is added to libtorrent.
LEMMA LoadedSafe ==
  ASSUME TypeInv, phase = "running", NEW u \in loading, Loaded(u),
         UNCHANGED <<phase, torrents, params, jobs, resume, resumeMeta, loading, hasMetadata,
                     torrentFile, reloaded>>,
         NEW t \in Torrent, SafeFor(t),
         t \in mixed => t \in mixed',
         t = u /\ t \notin mixed' => WillSearch(results, t),
         WillSearch(results', t) => WillSearch(results, t)
  PROVE  SafeFor(t)'
  <1>1. /\ alerts \in Seq(Alert) /\ u \in Torrent /\ params[u].meta \in BOOLEAN
        /\ nativeMeta \subseteq inSession /\ unchecked \subseteq inSession
        /\ u \notin torrents
    BY AlertsQueues DEF TypeInv, SetsOK, Params
  <1>2. /\ nativeMeta \subseteq nativeMeta' /\ unchecked \subseteq unchecked'
        /\ \/ alerts' = Append(alerts, About("added", u)) /\ (params[u].meta => u \in nativeMeta')
           \/ alerts' = Append(alerts, About("refused", u))
    <2> DEFINE m == params[u].meta
    <2>1. NativeAddLater(u, m, inSession, alerts) /\ m \in BOOLEAN
      BY <1>1 DEF Loaded
    <2> HIDE DEF m
    <2>2. /\ nativeMeta \cap inSession \subseteq nativeMeta'
          /\ unchecked \cap inSession \subseteq unchecked'
          /\ \/ alerts' = Append(alerts, About("added", u)) /\ (m => u \in nativeMeta')
             \/ alerts' = Append(alerts, About("refused", u))
      BY <1>1, <2>1, NativeAddLaterKept
    <2>3. QED BY <1>1, <2>2 DEF m
  <1>3. PICK type \in {"added", "refused"} :
           /\ alerts' = Append(alerts, About(type, u))
           /\ type = "added" /\ params[u].meta => u \in nativeMeta'
    BY <1>2
  <1>4. ASSUME t # u PROVE SafeFor(t)'
    <2>1. SetsKept(t)
      BY <1>2 DEF SetsKept
    <2>2. JobsKept(t)
      BY SameJobs
    <2>3. AlertsKept(t)
      BY <1>1, <1>2, <1>3, <1>4, AppendKept
    <2>4. QED BY <2>1, <2>2, <2>3, KeptSafe DEF Kept
  <1>5. ASSUME t = u PROVE SafeFor(t)'
    <2>1. /\ Told(alerts', "added", t) => Told(alerts, "added", t) \/ type = "added"
          /\ NotAsked(alerts, t) => NotAsked(alerts', t)
      BY <1>1, <1>3, AppendTold
    <2>2. t \notin torrents' /\ t \in loading' /\ t \in loading /\ t \notin torrents /\ t \notin hasMetadata'
      BY <1>1, <1>5 DEF TypeInv, SetsOK
    <2>3. Deleted(t)' /\ WillBeSaved(t)'
      BY <2>2 DEF Deleted, WillBeSaved
    <2>4. AddedIsKnown(t)'
      <3>1. Told(alerts, "added", t) /\ params[t].meta => t \in nativeMeta
        BY <2>2 DEF SafeFor, AddedIsKnown
      <3>2. QED BY <1>2, <1>3, <1>5, <2>1, <2>2, <3>1 DEF AddedIsKnown
    <2>5. SearchedIsKnown(t)'
      <3>1. Searching(t)' => Searching(t)
        BY DEF Searching
      <3>2. Searching(t) /\ t \notin mixed => params[t].meta
        BY <2>2 DEF SafeFor, SearchedIsKnown
      <3>3. QED BY <2>2, <3>1, <3>2 DEF SearchedIsKnown
    <2>6. LoadedIsSaved(t)'
      BY <2>1, <2>2 DEF SafeFor, LoadedIsSaved
    <2>7. InPairs(jobs', t, resumeMeta')
      BY DEF SafeFor
    <2>8. ASSUME t \notin mixed' \cup SkipChecking PROVE Backed(t)'
      <3>1. Backed(t) /\ ~WillRemove(jobs, t)
        BY <1>5, <2>8 DEF SafeFor, Backed
      <3>2. QED BY <2>2, <3>1 DEF Backed, Stays
    <2>9. QED BY <2>3, <2>4, <2>5, <2>6, <2>7, <2>8 DEF SafeFor
  <1>6. QED BY <1>4, <1>5

LEMMA FileSearchFinishedSafe ==
  ASSUME TypeInv, FileSearchFinished, NEW t \in Torrent, SafeFor(t) PROVE SafeFor(t)'
  <1> DEFINE a == Head(results)
             u == a.torrent
  <1>1. /\ phase = "running" /\ results # << >> /\ results' = Tail(results)
        /\ UNCHANGED <<phase, torrents, params, preview, numResumeData, jobs, resume, resumeMeta>>
        /\ mixed' = IF a.old THEN mixed \cup ({u} \cap (torrents \cup loading)) ELSE mixed
    BY DEF FileSearchFinished
  <1>2. \/ u \in torrents /\ EndReceivedMetadataHandling(u)
        \/ /\ u \in loading \ torrents /\ Loaded(u)
           /\ UNCHANGED <<loading, hasMetadata, maintenance, torrentFile, reloaded>>
        \/ /\ u \notin torrents \cup loading
           /\ UNCHANGED <<loading, hasMetadata, maintenance, torrentFile, native, alerts,
                          failed, reloaded>>
    BY DEF FileSearchFinished
  <1>3. a \in SearchJob
    <2>1. results \in Seq(SearchJob)
      BY DEF TypeInv
    <2>2. QED BY <1>1, <2>1, TailIn
  <1>4. /\ WillSearch(results', t) => WillSearch(results, t)
        /\ Fresh(a, t) => WillSearch(results, t)
    BY <1>1, AlertsQueues, Done
  <1>5. t = u /\ ~a.old => Fresh(a, t)
    BY <1>3 DEF Fresh, SearchJob
  <1> HIDE DEF a, u
  <1>6. t \in mixed => t \in mixed'
    BY <1>1
  <1>7. CASE u \in torrents /\ EndReceivedMetadataHandling(u)
    <2>1. t = u /\ t \notin mixed' => WillSearch(results, t)
      BY <1>1, <1>4, <1>5, <1>7
    <2>2. QED BY <1>1, <1>4, <1>6, <1>7, <2>1, ReloadSafe
  <1>8. CASE /\ u \in loading \ torrents /\ Loaded(u)
             /\ UNCHANGED <<loading, hasMetadata, maintenance, torrentFile, reloaded>>
    <2>1. t = u /\ t \notin mixed' => WillSearch(results, t)
      BY <1>1, <1>4, <1>5, <1>8
    <2>2. QED BY <1>1, <1>4, <1>6, <1>8, <2>1, LoadedSafe
  <1>9. CASE UNCHANGED <<loading, hasMetadata, maintenance, torrentFile, native, alerts,
                         failed, reloaded>>
    <2>1. SetsKept(t) /\ JobsKept(t)
      BY <1>1, <1>4, <1>6, <1>9, SameJobs DEF SetsKept, native
    <2>2. AlertsKept(t)
      BY <1>1, <1>9 DEF AlertsKept, IsSaved, Rechecked, native
    <2>3. QED BY <2>1, <2>2, KeptSafe DEF Kept
  <1>10. QED BY <1>2, <1>7, <1>8, <1>9

\* The I/O thread does a job.
LEMMA RunJobSafe ==
  ASSUME TypeInv, RunJob, NEW t \in Torrent, SafeFor(t) PROVE SafeFor(t)'
  <1> DEFINE x == Head(jobs)
             u == x.torrent
  <1>1. /\ jobs # << >> /\ jobs' = Tail(jobs)
        /\ UNCHANGED <<phase, session, native, alerts, history>>
    BY DEF RunJob
  <1>2. \/ /\ x.op = "resume"
           /\ resume' = [resume EXCEPT ![u] = x.data]
           /\ resumeMeta' = IF x.meta THEN resumeMeta \cup {u} ELSE resumeMeta \ {u}
           /\ torrentFile' = torrentFile /\ results' = results
        \/ /\ x.op = "removeTorrentFile"
           /\ torrentFile' = torrentFile \ {u}
           /\ resume' = resume /\ resumeMeta' = resumeMeta /\ results' = results
        \/ /\ x.op = "search"
           /\ results' = Append(results, x)
           /\ resume' = resume /\ resumeMeta' = resumeMeta /\ torrentFile' = torrentFile
    BY DEF RunJob, disk
  <1>3. jobs \in Seq(Job) /\ results \in Seq(Job)
    BY AlertsQueues
  <1>4. /\ x \in Job
        /\ \A r, d : LastIs(jobs, r, t, d) /\ ~Writes(x, t) => LastIs(jobs', r, t, d)
        /\ \A r, s, d : LastIs(jobs, r, t, d) /\ Writes(x, t) /\ s[t] = x.data => LastIs(jobs', s, t, d)
        /\ WillRemove(jobs', t) => WillRemove(jobs, t)
        /\ WillSearch(jobs', t) => WillSearch(jobs, t)
        /\ WillWriteMeta(jobs', t) => WillWriteMeta(jobs, t)
        /\ Writes(x, t) /\ x.meta => WillWriteMeta(jobs, t)
        /\ Removes(x, t) => WillRemove(jobs, t)
        /\ Fresh(x, t) => WillSearch(jobs, t)
        /\ WritesFirst(jobs, t) => WritesFirst(jobs', t)
        /\ WritesFirst(jobs, t) /\ Removes(x, t) => ~WillWriteMeta(jobs', t)
        /\ RemovesFirst(jobs, t) => RemovesFirst(jobs', t)
        /\ RemovesFirst(jobs, t) /\ Fresh(x, t) => ~WillRemove(jobs', t)
        /\ \A M : InPairs(jobs, t, M) /\ Removes(x, t) => t \notin M
        /\ \A M, N : /\ InPairs(jobs, t, M)
                     /\ x = ResumeJob(t, "none", FALSE) => t \notin N
                     => InPairs(jobs', t, N)
    BY <1>1, <1>3, Done
  <1>5. x.op = "resume" => x.meta \in BOOLEAN
    BY <1>4 DEF Job
  <1> HIDE DEF x
  <1>6. /\ Writes(x, t) <=> x.op = "resume" /\ t = u
        /\ Removes(x, t) <=> x.op = "removeTorrentFile" /\ t = u
    BY DEF Writes, Removes
  <1>7. resume \in [Torrent -> Data]
    BY DEF TypeInv, DiskOK
  <1> HIDE DEF u
  <1>8. /\ Writes(x, t) => resume'[t] = x.data
        /\ ~Writes(x, t) => resume'[t] = resume[t]
    BY <1>2, <1>6, <1>7
  <1>9. /\ t \in torrentFile /\ ~Removes(x, t) => t \in torrentFile'
        /\ t \in resumeMeta' => t \in resumeMeta \/ (Writes(x, t) /\ x.meta)
        /\ Removes(x, t) => resumeMeta' = resumeMeta
        /\ Writes(x, t) /\ ~x.meta => t \notin resumeMeta'
    BY <1>2, <1>6
  <1>10. WillSearch(results', t) => WillSearch(results, t) \/ Fresh(x, t)
    <2>1. x \in Job => (WillSearch(Append(results, x), t) <=> WillSearch(results, t) \/ Fresh(x, t))
      BY <1>3, Posted
    <2>2. QED BY <1>2, <1>4, <2>1
  <1>11. ASSUME NEW d, LastIs(jobs, resume, t, d) PROVE LastIs(jobs', resume', t, d)
    <2>1. CASE Writes(x, t)
      BY <1>4, <1>8, <1>11, <2>1
    <2>2. CASE ~Writes(x, t)
      <3>1. LastIs(jobs', resume, t, d)
        BY <1>4, <1>11, <2>2
      <3>2. QED BY <1>8, <2>2, <3>1 DEF LastIs
    <2>3. QED BY <2>1, <2>2
  <1>12. InPairs(jobs', t, resumeMeta')
    <2>1. x = ResumeJob(t, "none", FALSE) => Writes(x, t) /\ ~x.meta
      BY DEF ResumeJob, Writes
    <2>2. InPairs(jobs, t, resumeMeta)
      BY DEF SafeFor
    <2>3. QED BY <1>4, <1>9, <2>1, <2>2
  <1>13. /\ UNCHANGED <<phase, torrents, loading, params, hasMetadata, nativeMeta, unchecked,
                        alerts, mixed, reloaded>>
    BY <1>1 DEF session, native, history
  <1>14. Deleted(t)'
    BY <1>11, <1>13 DEF SafeFor, Deleted
  <1>15. AddedIsKnown(t)'
    BY <1>13 DEF SafeFor, AddedIsKnown
  <1>16. SearchedIsKnown(t)'
    <2>1. Searching(t)' => Searching(t)
      BY <1>4, <1>10 DEF Searching
    <2>2. QED BY <1>13, <2>1 DEF SafeFor, SearchedIsKnown
  <1>17. LoadedIsSaved(t)'
    BY <1>11, <1>13 DEF SafeFor, LoadedIsSaved
  <1>18. WillBeSaved(t)'
    <2>1. IsSaved(t) => IsSaved(t)'
      BY <1>11, <1>13 DEF IsSaved
    <2>2. Rechecked(t) => Rechecked(t)'
      BY <1>13 DEF Rechecked
    <2>3. LastIs(jobs, resume, t, "current") => LastIs(jobs', resume', t, "current")
      BY <1>11
    <2>4. QED BY <1>13, <2>1, <2>2, <2>3 DEF SafeFor, WillBeSaved
  <1>19. ASSUME t \notin mixed' \cup SkipChecking PROVE Backed(t)'
    <2>1. Backed(t) /\ InPairs(jobs, t, resumeMeta)
      BY <1>13, <1>19 DEF SafeFor
    <2>2. WillWriteMeta(jobs', t) => t \in torrentFile'
      BY <1>4, <1>9, <2>1 DEF Backed
    <2>3. WritesFirst(jobs', t) /\ RemovesFirst(jobs', t)
      BY <1>4, <2>1 DEF Backed
    <2>4. Stays(t) => Stays(t)'
      BY <1>4, <1>9 DEF Stays
    <2>5. t \in hasMetadata' => Stays(t)'
      BY <1>13, <2>1, <2>4 DEF Backed
    <2>6. WillSearch(results', t) => ~WillRemove(jobs', t)
      BY <1>4, <1>10, <2>1 DEF Backed
    <2>7. t \in loading' /\ params'[t].meta =>
             /\ params'[t].restored => Stays(t)'
             /\ Told(alerts', "added", t) => ~WillRemove(jobs', t)
      BY <1>4, <1>13, <2>1, <2>4 DEF Backed
    <2>8. t \in resumeMeta' => t \in torrentFile'
      <3>1. CASE Removes(x, t)
        <4>1. t \notin resumeMeta
          BY <1>4, <2>1, <3>1
        <4>2. QED BY <1>9, <3>1, <4>1
      <3>2. CASE ~Removes(x, t)
        BY <1>4, <1>9, <2>1, <3>2 DEF Backed
      <3>3. QED BY <3>1, <3>2
    <2>9. QED BY <2>2, <2>3, <2>5, <2>6, <2>7, <2>8 DEF Backed
  <1>20. QED BY <1>12, <1>14, <1>15, <1>16, <1>17, <1>18, <1>19 DEF SafeFor

\* The exit does not wait any more: no answer is left.
LEMMA EndExitSafe ==
  ASSUME TypeInv, EndExit, NEW t \in Torrent, SafeFor(t) PROVE SafeFor(t)'
  <1>1. /\ phase = "exiting" /\ phase' = "stopping" /\ alerts' = << >> /\ results' = << >>
        /\ Answered
        /\ UNCHANGED <<session, jobs, disk, native, history>>
    BY DEF EndExit
  <1>2. UNCHANGED <<torrents, loading, params, hasMetadata, nativeMeta, mixed, reloaded, jobs,
                    resume, resumeMeta, torrentFile>>
    BY <1>1 DEF session, disk, native, history
  <1>3. ~Told(alerts', "added", t) /\ ~WillSearch(results', t)
    BY <1>1, NothingTold, NothingToDo
  <1>4. ~AnsweredWell(alerts, t)
    <2>1. CASE alerts = << >>
      BY <2>1, NothingTold
    <2>2. CASE alerts # << >>
      <3>1. numResumeData = 0 /\ alerts \in Seq(Alert) /\ Cardinality(Answers(alerts)) <= numResumeData
        BY <1>1, <2>2 DEF Answered, TypeInv, AlertsOK
      <3>2. IsFiniteSet(Answers(alerts)) /\ Cardinality(Answers(alerts)) \in Nat
        BY <3>1, AnswersFinite
      <3>3. Cardinality(Answers(alerts)) = 0
        BY <3>1, <3>2
      <3>4. Answers(alerts) = {}
        BY <3>2, <3>3, FS_EmptySet
      <3>5. QED BY <3>4 DEF AnsweredWell, Answers, Good, Is
    <2>3. QED BY <2>1, <2>2
  <1>5. Deleted(t)' /\ AddedIsKnown(t)' /\ SearchedIsKnown(t)' /\ LoadedIsSaved(t)'
    BY <1>1, <1>2, <1>3 DEF SafeFor, Deleted, AddedIsKnown, SearchedIsKnown, Searching, LoadedIsSaved
  <1>6. WillBeSaved(t)'
    BY <1>1, <1>2, <1>4 DEF SafeFor, WillBeSaved, IsSaved
  <1>7. InPairs(jobs', t, resumeMeta')
    BY <1>2 DEF SafeFor
  <1>8. ASSUME t \notin mixed' \cup SkipChecking PROVE Backed(t)'
    BY <1>2, <1>3, <1>8 DEF SafeFor, Backed, Stays
  <1>9. QED BY <1>5, <1>6, <1>7, <1>8 DEF SafeFor

\* Nothing is left but the disk.
LEMMA DownSafe ==
  ASSUME TypeInv, Down, NEW t \in Torrent, SafeFor(t) PROVE SafeFor(t)'
  <1>1. /\ phase' = "down" /\ torrents' = {} /\ loading' = {} /\ hasMetadata' = {}
        /\ jobs' = << >> /\ results' = << >> /\ alerts' = << >>
        /\ resume' = resume /\ resumeMeta' = resumeMeta /\ torrentFile' = torrentFile
        /\ mixed' = mixed
    BY DEF Down, disk
  <1>2. /\ ~WillRemove(jobs', t) /\ ~WillSearch(jobs', t) /\ ~WillWriteMeta(jobs', t)
        /\ WritesFirst(jobs', t) /\ RemovesFirst(jobs', t)
        /\ InPairs(jobs', t, resumeMeta')
        /\ ~WillSearch(results', t) /\ ~Told(alerts', "added", t)
    BY <1>1, NothingToDo, NothingTold
  <1>3. Deleted(t)' /\ AddedIsKnown(t)' /\ SearchedIsKnown(t)' /\ LoadedIsSaved(t)' /\ WillBeSaved(t)'
    BY <1>1, <1>2 DEF Deleted, AddedIsKnown, SearchedIsKnown, Searching, LoadedIsSaved, WillBeSaved
  <1>4. ASSUME t \notin mixed' \cup SkipChecking PROVE Backed(t)'
    BY <1>1, <1>2, <1>4 DEF SafeFor, Backed
  <1>5. QED BY <1>2, <1>3, <1>4 DEF SafeFor

\* What is on disk is restored, as it is there.
LEMMA StartUpTorrentsSafe ==
  ASSUME TypeInv, StartUpTorrents, NEW t \in Torrent, SafeFor(t) PROVE SafeFor(t)'
  <1> DEFINE saved == {u \in Torrent : resume[u] # "none"}
  <1>1. /\ phase = "down" /\ phase' = "running" /\ loading' = saved
        /\ params' = [u \in Torrent |-> [meta |-> u \in torrentFile, restored |-> TRUE]]
        /\ resume' = [u \in Torrent |-> IF u \in saved THEN "current" ELSE "none"]
        /\ UNCHANGED <<torrents, hasMetadata, jobs, results, resumeMeta, torrentFile, mixed>>
    BY DEF StartUpTorrents
  <1>2. PICK refused \in SUBSET saved : \E order \in SetToSeqs(saved) :
           /\ alerts' = [i \in DOMAIN order |->
                           About(IF order[i] \in refused THEN "refused" ELSE "added", order[i])]
           /\ nativeMeta' = (saved \ refused) \cap torrentFile
    BY DEF StartUpTorrents
  <1>3. PICK order \in SetToSeqs(saved) :
           /\ alerts' = [i \in DOMAIN order |->
                           About(IF order[i] \in refused THEN "refused" ELSE "added", order[i])]
           /\ nativeMeta' = (saved \ refused) \cap torrentFile
    BY <1>2
  <1>4. order \in Seq(Torrent) /\ \A i \in DOMAIN order : order[i] \in saved
    <2>1. saved \in SUBSET Torrent
      OBVIOUS
    <2>2. QED BY <2>1, OrderType
  <1>5. /\ DOMAIN alerts' = DOMAIN order
        /\ \A i \in DOMAIN order : /\ alerts'[i].type \in {"refused", "added"}
                                   /\ alerts'[i].type = "added" => order[i] \notin refused
                                   /\ alerts'[i].torrent = order[i]
    BY <1>3, <1>4, StartAlerts
  <1>6. torrents' = {} /\ hasMetadata' = {} /\ jobs' = << >> /\ results' = << >>
    BY <1>1 DEF TypeInv, NothingWhenDown
  <1>7. /\ ~WillRemove(jobs', t) /\ ~WillSearch(jobs', t) /\ ~WillWriteMeta(jobs', t)
        /\ WritesFirst(jobs', t) /\ RemovesFirst(jobs', t)
        /\ InPairs(jobs', t, resumeMeta')
        /\ ~WillSearch(results', t)
        /\ \A d : LastIs(jobs', resume', t, d) <=> resume'[t] = d
    BY <1>6, NothingToDo
  <1>8. /\ params'[t].meta <=> t \in torrentFile
        /\ t \in saved => resume'[t] = "current"
        /\ t \notin saved => resume'[t] = "none"
    BY <1>1
  <1> HIDE DEF saved
  <1>9. Told(alerts', "added", t) => t \in saved \ refused
    BY <1>4, <1>5 DEF Told, Is
  <1>10. NotAsked(alerts', t)
    BY <1>5 DEF NotAsked
  <1>11. Deleted(t)' /\ LoadedIsSaved(t)'
    <2>1. LastIs(jobs', resume', t, resume'[t])
      BY <1>7
    <2>2. t \in loading' <=> t \in saved
      BY <1>1
    <2>3. QED BY <1>8, <1>10, <2>1, <2>2 DEF Deleted, LoadedIsSaved
  <1>14. SearchedIsKnown(t)' /\ WillBeSaved(t)'
    BY <1>6, <1>7 DEF SearchedIsKnown, Searching, WillBeSaved
  <1>12. AddedIsKnown(t)'
    BY <1>1, <1>3, <1>8, <1>9 DEF AddedIsKnown
  <1>13. ASSUME t \notin mixed' \cup SkipChecking PROVE Backed(t)'
    <2>1. t \in resumeMeta' => t \in torrentFile'
      BY <1>1, <1>13 DEF SafeFor, Backed
    <2>2. QED BY <1>1, <1>6, <1>7, <1>8, <2>1 DEF Backed, Stays
  <1>15. QED BY <1>7, <1>11, <1>12, <1>13, <1>14 DEF SafeFor

-----------------------------------------------------------------------------
Safe == \A t \in Torrent : SafeFor(t)

LEMMA InitSafe == Init => Safe
  <1> SUFFICES ASSUME Init, NEW t \in Torrent PROVE SafeFor(t)
    BY DEF Safe
  <1>1. /\ ~WillRemove(jobs, t) /\ ~WillSearch(jobs, t) /\ ~WillWriteMeta(jobs, t)
        /\ WritesFirst(jobs, t) /\ RemovesFirst(jobs, t)
        /\ InPairs(jobs, t, resumeMeta)
        /\ ~WillSearch(results, t) /\ ~Told(alerts, "added", t)
        /\ LastIs(jobs, resume, t, "none")
    <2>1. jobs = << >> /\ results = << >> /\ alerts = << >> /\ resume[t] = "none"
      BY DEF Init
    <2>2. QED BY <2>1, NothingToDo, NothingTold
  <1>2. torrents = {} /\ loading = {} /\ hasMetadata = {} /\ resumeMeta = {}
    BY DEF Init
  <1>3. Deleted(t) /\ AddedIsKnown(t) /\ SearchedIsKnown(t) /\ LoadedIsSaved(t) /\ WillBeSaved(t)
    BY <1>1, <1>2 DEF Deleted, AddedIsKnown, SearchedIsKnown, Searching, LoadedIsSaved, WillBeSaved
  <1>4. Backed(t)
    BY <1>1, <1>2 DEF Backed
  <1>5. QED BY <1>1, <1>3, <1>4 DEF SafeFor

LEMMA StutterKept ==
  ASSUME UNCHANGED vars, NEW t PROVE Kept(t)
  <1>1. UNCHANGED <<phase, torrents, loading, params, hasMetadata, mixed, reloaded, torrentFile,
                    resume, resumeMeta, nativeMeta, unchecked, jobs, results, alerts>>
    BY DEF vars, session, disk, native, history
  <1>2. SetsKept(t)
    BY <1>1 DEF SetsKept
  <1>3. JobsKept(t)
    BY <1>1, SameJobs
  <1>4. AlertsKept(t)
    BY <1>1 DEF AlertsKept, IsSaved, Rechecked
  <1>5. QED BY <1>2, <1>3, <1>4 DEF Kept

LEMMA NextSafe == TypeInv /\ Safe /\ [Next]_vars => Safe'
  <1> SUFFICES ASSUME TypeInv, Safe, [Next]_vars, NEW t \in Torrent PROVE SafeFor(t)'
    BY DEF Safe
  <1>0. SafeFor(t) /\ (Kept(t) => SafeFor(t)')
    BY KeptSafe DEF Safe
  <1>1. CASE UserStep
    <2>1. CASE SaveByTimer
      BY <1>0, <2>1, SaveByTimerKept
    <2>2. CASE \E u \in Torrent :
                  \/ DownloadMetadata(u)
                  \/ CancelDownloadMetadata(u)
                  \/ DeleteTorrent(u)
                  \/ EditTorrent(u)
                  \/ \E meta, skip \in BOOLEAN : AddTorrent(u, meta, skip)
      BY <1>0, <2>2, DownloadMetadataKept, CancelDownloadMetadataKept, DeleteTorrentSafe,
         EditTorrentKept, AddTorrentSafe
    <2>3. QED BY <1>1, <2>1, <2>2 DEF UserStep
  <1>2. CASE AlertStep
    BY <1>0, <1>2, HandleAddTorrentSafe, HandleAddTorrentErrorKept, HandleSaveResumeDataSafe,
       HandleMetadataReceivedKept, HandleTorrentCheckedKept DEF AlertStep
  <1>3. CASE FileSearchFinished
    BY <1>0, <1>3, FileSearchFinishedSafe
  <1>4. CASE RunJob
    BY <1>0, <1>4, RunJobSafe
  <1>5. CASE NativeStep
    BY <1>0, <1>5, NativeStepKept DEF NativeStep
  <1>6. CASE BeginExit
    BY <1>0, <1>6, SaveByTimerKept
  <1>7. CASE ExitStep
    BY <1>0, <1>7, EndExitSafe, DownSafe, ExitHandlesSafe DEF ExitStep, Stop
  <1>8. CASE Crash
    BY <1>0, <1>8, DownSafe DEF Crash
  <1>9. CASE StartUpTorrents
    BY <1>0, <1>9, StartUpTorrentsSafe
  <1>10. CASE UNCHANGED vars
    BY <1>0, <1>10, StutterKept
  <1>11. QED
    BY <1>1, <1>2, <1>3, <1>4, <1>5, <1>6, <1>7, <1>8, <1>9, <1>10 DEF Next

LEMMA SafeAlways == Spec => [](TypeInv /\ Safe)
  <1>1. Init => TypeInv /\ Safe
    BY InitTypes, InitSafe
  <1>2. TypeInv /\ Safe /\ [Next]_vars => TypeInv' /\ Safe'
    BY NextTypes, NextSafe
  <1>3. QED BY <1>1, <1>2, PTL DEF Spec

\* What is said of the queues says what the last write is, and what is awaited.
LEMMA SafeMeans ==
  ASSUME TypeInv, NEW t \in Torrent
  PROVE  /\ \A d : LastIs(jobs, resume, t, d) => Final(t) = d
         /\ AnsweredWell(alerts, t) => Awaits("resume", t)
         /\ CheckAwaited(alerts, t) => Awaits("checked", t)
  <1>1. jobs \in Seq(Job)
    BY AlertsQueues
  <1>2. \A d : LastIs(jobs, resume, t, d) => Final(t) = d
    BY <1>1, LastIsFinal
  <1>3. QED BY <1>2 DEF AnsweredWell, CheckAwaited, Awaits, Good, Is

(* Resume data that is written late does not bring a deleted torrent back: its
   removal is the last job of the torrent that the I/O thread has. *)
THEOREM DeletedStayDeletedAlways == Spec => []DeletedStayDeleted
  <1>1. TypeInv /\ Safe => DeletedStayDeleted
    BY SafeMeans DEF Safe, SafeFor, Deleted, DeletedStayDeleted
  <1>2. QED BY <1>1, SafeAlways, PTL

(* No change of a torrent is forgotten, whatever is handled in between. *)
THEOREM ChangesWillBeSavedAlways == Spec => []ChangesWillBeSaved
  <1>1. ASSUME TypeInv, Safe PROVE ChangesWillBeSaved
    <2> SUFFICES ASSUME phase = "running", NEW t \in torrents \ mixed
                 PROVE  \/ Final(t) = "current"
                        \/ Awaits("resume", t)
                        \/ t \in reloaded \cap hasMetadata /\ (t \in unchecked \/ Awaits("checked", t))
      BY DEF ChangesWillBeSaved
    <2>1. t \in Torrent
      BY <1>1 DEF TypeInv, SetsOK
    <2>2. IsSaved(t) \/ (t \in reloaded \cap hasMetadata /\ Rechecked(t))
      BY <1>1, <2>1 DEF Safe, SafeFor, WillBeSaved
    <2>3. QED BY <1>1, <2>1, <2>2, SafeMeans DEF IsSaved, Rechecked
  <1>2. QED BY <1>1, SafeAlways, PTL

(* The exit has everything saved or posted when it goes on. *)
THEOREM ExitSavesAlways == Spec => []ExitSaves
  <1>1. ASSUME TypeInv, Safe PROVE ExitSaves
    <2> SUFFICES ASSUME phase = "stopping", NEW t \in torrents \ (mixed \cup reloaded)
                 PROVE  Final(t) = "current"
      BY DEF ExitSaves
    <2>1. t \in Torrent
      BY <1>1 DEF TypeInv, SetsOK
    <2>2. LastIs(jobs, resume, t, "current")
      BY <1>1, <2>1 DEF Safe, SafeFor, WillBeSaved
    <2>3. QED BY <1>1, <2>1, <2>2, SafeMeans
  <1>2. QED BY <1>1, SafeAlways, PTL

(* A torrent that was saved with its metadata finds it again, whenever the
   application stops, if it was never added without the check of its files. *)
THEOREM CheckedTorrentsAreBackedUp ==
  Spec => [](resumeMeta \ (mixed \cup SkipChecking) \subseteq torrentFile)
  <1>1. TypeInv /\ Safe => resumeMeta \ (mixed \cup SkipChecking) \subseteq torrentFile
    BY DEF TypeInv, DiskOK, Safe, SafeFor, Backed
  <1>2. QED BY <1>1, SafeAlways, PTL

(* The same of all torrents, where nobody skips the check. *)
THEOREM BackedUpAlways ==
  ASSUME SkipChecking = {} PROVE Spec => []BackedUp
  <1>1. (resumeMeta \ (mixed \cup SkipChecking) \subseteq torrentFile) => BackedUp
    BY DEF BackedUp
  <1>2. QED BY <1>1, CheckedTorrentsAreBackedUp, PTL

=============================================================================
