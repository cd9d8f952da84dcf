------------------------- MODULE RssDownloaderProofs -------------------------
(* Proofs about DownloadManager and RssDownloader, for any feeds, articles,     *)
(* URLs and hosts and any number of downloads. The functions on the manager are *)
(* looked at first, each by the manager that it is given and the one that it    *)
(* returns (Sound, Keeps); the steps of the downloader only compose them.        *)
EXTENDS RssDownloader, QueueFacts, FiniteSetTheorems, TLAPS

\* r is q without one x.
Lacks(q, x, r) ==
    /\ \A n \in DOMAIN r : \E m \in DOMAIN q : r[n] = q[m]
    /\ \A m \in DOMAIN q : q[m] # x => \E n \in DOMAIN r : r[n] = q[m]
    /\ (\A m, n \in DOMAIN q : q[m] = q[n] => m = n) =>
          /\ \A n \in DOMAIN r : r[n] # x
          /\ \A m, n \in DOMAIN r : r[m] = r[n] => m = n

LEMMA RemovedFirst ==
  ASSUME NEW S, NEW q \in Seq(S), NEW x, NEW r, r = RemoveFirst(q, x)
  PROVE  r \in Seq(S) /\ Lacks(q, x, r)
  <1>0. Len(q) \in Nat /\ DOMAIN q = 1 .. Len(q) /\ \A j \in 1 .. Len(q) : q[j] \in S
    BY LenProperties, ElementOfSeq
  <1>1. CASE ~\E k \in 1 .. Len(q) : q[k] = x
    <2>1. r = q
      BY <1>1 DEF RemoveFirst
    <2>2. QED BY <1>0, <1>1, <2>1 DEF Lacks
  <1>2. CASE \E k \in 1 .. Len(q) : q[k] = x
    <2>1. PICK i \in 1 .. Len(q) : q[i] = x /\ r = RemovedFrom(q, i)
      <3> DEFINE I == {k \in 1 .. Len(q) : q[k] = x}
      <3>1. r = RemovedFrom(q, Min(I))
        BY <1>2 DEF RemoveFirst, RemoveAt, SelectInSeq, RemovedFrom
      <3>2. I \in SUBSET Nat /\ I # {}
        BY <1>2
      <3>3. \E k \in I : \A y \in I : k <= y
        BY <3>2, Least
      <3>4. Min(I) \in I
        BY <3>3 DEF Min
      <3>5. QED BY <3>1, <3>4
    <2>4. /\ r \in Seq(S) /\ DOMAIN r = 1 .. Len(q) - 1
          /\ \A j \in 1 .. Len(q) - 1 : r[j] = IF j < i THEN q[j] ELSE q[j + 1]
      <3>1. r \in Seq(S) /\ ClosesUp(q, i, r)
        BY <2>1, RemovedAt
      <3>2. QED BY <3>1 DEF ClosesUp
    <2>5. ASSUME NEW n \in DOMAIN r PROVE \E m \in DOMAIN q : r[n] = q[m]
      <3>1. n \in 1 .. Len(q) - 1 /\ n \in DOMAIN q /\ n + 1 \in DOMAIN q
        BY <1>0, <2>4
      <3>2. QED BY <2>4, <3>1
    <2>6. ASSUME NEW m \in DOMAIN q, q[m] # x PROVE \E n \in DOMAIN r : r[n] = q[m]
      <3>1. CASE m < i
        <4>1. m \in 1 .. Len(q) - 1 /\ r[m] = q[m]
          BY <1>0, <2>1, <2>4, <3>1
        <4>2. QED BY <2>4, <4>1
      <3>2. CASE ~(m < i)
        <4>1. m - 1 \in 1 .. Len(q) - 1 /\ ~(m - 1 < i) /\ m - 1 + 1 = m
          <5>1. m # i
            BY <2>1, <2>6
          <5>2. QED BY <1>0, <2>1, <3>2, <5>1
        <4>2. r[m - 1] = q[m]
          BY <2>4, <4>1
        <4>3. QED BY <2>4, <4>1, <4>2
      <3>3. QED BY <3>1, <3>2
    <2>7. ASSUME \A m, n \in DOMAIN q : q[m] = q[n] => m = n
          PROVE  /\ \A n \in DOMAIN r : r[n] # x
                 /\ \A m, n \in DOMAIN r : r[m] = r[n] => m = n
      <3> DEFINE at(n) == IF n < i THEN n ELSE n + 1
      <3>1. ASSUME NEW n \in DOMAIN r
            PROVE  n \in Nat /\ at(n) \in DOMAIN q /\ r[n] = q[at(n)] /\ at(n) # i
        BY <1>0, <2>1, <2>4
      <3>2. ASSUME NEW n \in DOMAIN r PROVE r[n] # x
        BY <1>0, <2>1, <2>7, <3>1
      <3>3. ASSUME NEW m \in DOMAIN r, NEW n \in DOMAIN r, r[m] = r[n] PROVE m = n
        <4>1. at(m) = at(n)
          BY <2>7, <3>1, <3>3
        <4>2. QED BY <2>1, <3>1, <4>1
      <3>4. QED BY <3>2, <3>3
    <2>8. QED BY <2>4, <2>5, <2>6, <2>7 DEF Lacks
  <1>3. QED BY <1>1, <1>2

-----------------------------------------------------------------------------
(* The manager                                                                *)

Record == [state: State, owner: Owner, service: Service, redirections: 0..MaxRedirections]

Managers ==
    [handler: UNION {[D -> Record] : D \in SUBSET Handler}, waiting: [Service -> Seq(Handler)],
     busy: SUBSET Service, sequential: SUBSET Service, orphaned: SUBSET Service]

\* i is in the queue of service s.
InQueue(d, i, s) == \E n \in DOMAIN d.waiting[s] : d.waiting[s][n] = i

\* A request of service s is under way, of a handler other than those of X.
Replies(d, s, X) ==
    \E i \in DOMAIN d.handler \ X :
        d.handler[i].state \in {"running", "lost"} /\ d.handler[i].service = s

\* What is in a queue waits, or has ended there, and for that service.
QueuesHold(d) ==
    \A s \in Service : \A n \in DOMAIN d.waiting[s] :
        LET i == d.waiting[s][n]
        IN  /\ i \in DOMAIN d.handler
            /\ d.handler[i].state \in {"waiting", "ended"}
            /\ d.handler[i].service = s

NobodyTwice(d) ==
    \A s \in Service : \A m, n \in DOMAIN d.waiting[s] :
        d.waiting[s][m] = d.waiting[s][n] => m = n

\* WaitersAreServed, without counting on the handlers of X
Served(d, X) ==
    \A s \in Service \ d.orphaned :
        s \in d.busy \/ d.waiting[s] # << >> => Replies(d, s, X)

SoundBut(d, X) ==
    /\ d \in Managers
    /\ d.busy \subseteq d.sequential
    /\ QueuesHold(d)
    /\ NobodyTwice(d)
    /\ Served(d, X)

Sound(d) == SoundBut(d, {})

\* Handlers other than those of X stay what they were to their owners.
Keeps(d, e, X) ==
    /\ DOMAIN e.handler \ X = DOMAIN d.handler \ X
    /\ \A j \in DOMAIN d.handler \ X :
          /\ e.handler[j].owner = d.handler[j].owner
          /\ Live(e.handler[j]) <=> Live(d.handler[j])

LEMMA ManagerType ==
  ASSUME NEW d \in Managers
  PROVE  /\ DOMAIN d.handler \subseteq Handler
         /\ d.handler \in [DOMAIN d.handler -> Record]
         /\ \A i \in DOMAIN d.handler :
               /\ d.handler[i] \in Record
               /\ d.handler[i].state \in State /\ d.handler[i].owner \in Owner
               /\ d.handler[i].service \in Service
               /\ d.handler[i].redirections \in 0 .. MaxRedirections
         /\ d.waiting \in [Service -> Seq(Handler)]
         /\ \A s \in Service : d.waiting[s] \in Seq(Handler)
         /\ d.busy \subseteq Service /\ d.sequential \subseteq Service
         /\ d.orphaned \subseteq Service
  BY DEF Managers, Record

LEMMA ManagerIs ==
  ASSUME NEW h \in UNION {[D -> Record] : D \in SUBSET Handler}, NEW w \in [Service -> Seq(Handler)],
         NEW b \in SUBSET Service, NEW q \in SUBSET Service, NEW o \in SUBSET Service
  PROVE  [handler |-> h, waiting |-> w, busy |-> b, sequential |-> q, orphaned |-> o] \in Managers
  BY DEF Managers

LEMMA HandlersIs ==
  ASSUME NEW D \in SUBSET Handler, NEW h \in [D -> Record]
  PROVE  h \in UNION {[E -> Record] : E \in SUBSET Handler}
  OBVIOUS

\* Assigned, for a handler in any state
LEMMA AssignedIs ==
  ASSUME NEW d \in Managers, NEW i \in DOMAIN d.handler, NEW e, e = Assigned(d, i)
  PROVE  /\ e \in Managers
         /\ DOMAIN e.handler = DOMAIN d.handler
         /\ \A j \in DOMAIN d.handler : j # i => e.handler[j] = d.handler[j]
         /\ e.handler[i].state = IF d.handler[i].state = "ended" THEN "lost" ELSE "running"
         /\ e.handler[i].owner = d.handler[i].owner
         /\ e.handler[i].service = d.handler[i].service
         /\ e.handler[i].redirections = d.handler[i].redirections
         /\ e.waiting = d.waiting /\ e.busy = d.busy
         /\ e.sequential = d.sequential /\ e.orphaned = d.orphaned
  <1> DEFINE r == [d.handler[i] EXCEPT !.state = IF d.handler[i].state = "ended" THEN "lost" ELSE "running"]
             h == [d.handler EXCEPT ![i] = r]
  <1>1. r \in Record
    BY ManagerType DEF Record, State
  <1>2. h \in [DOMAIN d.handler -> Record]
    BY <1>1, ManagerType
  <1>3. h \in UNION {[E -> Record] : E \in SUBSET Handler}
    BY <1>2, ManagerType, HandlersIs
  <1>4. e = [d EXCEPT !.handler = h]
    BY DEF Assigned
  <1>5. /\ h[i] = r /\ DOMAIN h = DOMAIN d.handler
        /\ \A j \in DOMAIN d.handler : j # i => h[j] = d.handler[j]
    BY ManagerType
  <1>6. /\ r.state = IF d.handler[i].state = "ended" THEN "lost" ELSE "running"
        /\ r.owner = d.handler[i].owner /\ r.service = d.handler[i].service
        /\ r.redirections = d.handler[i].redirections
    BY ManagerType DEF Record
  <1> HIDE DEF h, r
  <1>7. e.handler = h
    BY <1>4 DEF Managers
  <1>8. /\ e.waiting = d.waiting /\ e.busy = d.busy
        /\ e.sequential = d.sequential /\ e.orphaned = d.orphaned
    BY <1>4 DEF Managers
  <1>9. e \in Managers
    BY <1>3, <1>4 DEF Managers
  <1>10. QED BY <1>5, <1>6, <1>7, <1>8, <1>9

\* Finish, of a handler that waits
LEMMA FinishWaiting ==
  ASSUME NEW d, SoundBut(d, {}), NEW i \in DOMAIN d.handler, d.handler[i].state = "waiting",
         NEW e, e = Finish(d, i)
  PROVE  /\ Sound(e) /\ Keeps(d, e, {i})
         /\ DOMAIN e.handler = DOMAIN d.handler /\ ~Live(e.handler[i])
         /\ e.handler[i].owner = d.handler[i].owner
         /\ e.sequential = d.sequential
  <1> DEFINE r == [d.handler[i] EXCEPT !.state = "ended"]
             h == [d.handler EXCEPT ![i] = r]
  <1>0. d \in Managers
    BY DEF SoundBut
  <1>1. /\ r \in Record /\ r.state = "ended" /\ r.service = d.handler[i].service
        /\ r.owner = d.handler[i].owner
    BY <1>0, ManagerType DEF Record, State
  <1>2. h \in [DOMAIN d.handler -> Record]
    BY <1>0, <1>1, ManagerType
  <1>3. h \in UNION {[E -> Record] : E \in SUBSET Handler}
    BY <1>0, <1>2, ManagerType, HandlersIs
  <1>4. e = [d EXCEPT !.handler = h]
    BY DEF Finish
  <1>5. /\ h[i] = r /\ DOMAIN h = DOMAIN d.handler
        /\ \A j \in DOMAIN d.handler : j # i => h[j] = d.handler[j]
    BY <1>0, ManagerType
  <1> HIDE DEF h, r
  <1>6. /\ e.handler = h /\ e.waiting = d.waiting /\ e.busy = d.busy
        /\ e.sequential = d.sequential /\ e.orphaned = d.orphaned
    BY <1>0, <1>4 DEF Managers
  <1>7. e \in Managers
    BY <1>0, <1>3, <1>4 DEF Managers
  <1>8. QueuesHold(e) /\ NobodyTwice(e)
    <2>1. QueuesHold(d) /\ NobodyTwice(d)
      BY DEF SoundBut
    <2>2. QueuesHold(e)
      BY <1>1, <1>5, <1>6, <2>1 DEF QueuesHold
    <2>3. QED BY <1>6, <2>1, <2>2 DEF NobodyTwice
  <1>9. Served(e, {})
    <2>1. ASSUME NEW s \in Service \ e.orphaned, s \in e.busy \/ e.waiting[s] # << >>
          PROVE  Replies(e, s, {})
      <3>1. Replies(d, s, {})
        BY <1>6, <2>1 DEF SoundBut, Served
      <3>2. PICK j \in DOMAIN d.handler : d.handler[j].state \in {"running", "lost"} /\ d.handler[j].service = s
        BY <3>1 DEF Replies
      <3>3. QED BY <1>5, <1>6, <3>2 DEF Replies
    <2>2. QED BY <2>1 DEF Served
  <1>10. Keeps(d, e, {i}) /\ ~Live(e.handler[i])
    BY <1>1, <1>5, <1>6 DEF Keeps, Live
  <1>11. e.busy \subseteq e.sequential
    BY <1>6 DEF SoundBut
  <1>12. QED BY <1>1, <1>5, <1>6, <1>7, <1>8, <1>9, <1>10, <1>11 DEF Sound, SoundBut

\* The handlers of d without i
Without(d, i) == [d EXCEPT !.handler = Restrict(@, DOMAIN @ \ {i})]

LEMMA WithoutIs ==
  ASSUME NEW d \in Managers, NEW i, NEW e, e = Without(d, i)
  PROVE  /\ e \in Managers
         /\ DOMAIN e.handler = DOMAIN d.handler \ {i}
         /\ \A j \in DOMAIN d.handler \ {i} : e.handler[j] = d.handler[j]
         /\ e.waiting = d.waiting /\ e.busy = d.busy
         /\ e.sequential = d.sequential /\ e.orphaned = d.orphaned
  <1> DEFINE D == DOMAIN d.handler \ {i}
             h == [j \in D |-> d.handler[j]]
  <1>1. h \in [D -> Record] /\ D \subseteq Handler
    BY ManagerType
  <1>2. h \in UNION {[E -> Record] : E \in SUBSET Handler}
    BY <1>1, HandlersIs
  <1>3. e = [d EXCEPT !.handler = h]
    BY DEF Without, Restrict
  <1>4. DOMAIN h = D /\ \A j \in D : h[j] = d.handler[j]
    OBVIOUS
  <1> HIDE DEF h
  <1>5. /\ e.handler = h /\ e.waiting = d.waiting /\ e.busy = d.busy
        /\ e.sequential = d.sequential /\ e.orphaned = d.orphaned
    BY <1>3 DEF Managers
  <1>6. e \in Managers
    BY <1>2, <1>3 DEF Managers
  <1>7. QED BY <1>4, <1>5, <1>6

\* Finish, of a handler whose reply has ended
LEMMA FinishRunning ==
  ASSUME NEW d, NEW i \in DOMAIN d.handler, SoundBut(d, {i}), d.handler[i].state = "running",
         NEW e, e = Finish(d, i)
  PROVE  /\ Sound(e) /\ Keeps(d, e, {i})
         /\ DOMAIN e.handler = DOMAIN d.handler \ {i}
         /\ e.sequential = d.sequential
  <1>1. d \in Managers /\ d.busy \subseteq d.sequential /\ QueuesHold(d) /\ NobodyTwice(d) /\ Served(d, {i})
    BY DEF SoundBut
  <1>2. e = Without(d, i)
    BY DEF Finish, Without
  <1>3. /\ e \in Managers
        /\ DOMAIN e.handler = DOMAIN d.handler \ {i}
        /\ \A j \in DOMAIN d.handler \ {i} : e.handler[j] = d.handler[j]
        /\ e.waiting = d.waiting /\ e.busy = d.busy
        /\ e.sequential = d.sequential /\ e.orphaned = d.orphaned
    BY <1>1, <1>2, WithoutIs
  <1>4. QueuesHold(e)
    BY <1>1, <1>3 DEF QueuesHold
  <1>5. NobodyTwice(e)
    BY <1>1, <1>3 DEF NobodyTwice
  <1>6. Served(e, {})
    BY <1>1, <1>3 DEF Served, Replies
  <1>7. Keeps(d, e, {i})
    BY <1>3 DEF Keeps
  <1>8. QED BY <1>1, <1>3, <1>4, <1>5, <1>6, <1>7 DEF Sound, SoundBut

\* The next download of the service of i starts, whose own reply has ended.
LEMMA NextStarts ==
  ASSUME NEW d, Sound(d), NEW i \in DOMAIN d.handler, d.handler[i].state = "running",
         NEW e, e = HandleReplyFinished(d, d.handler[i].service)
  PROVE  /\ SoundBut(e, {i}) /\ Keeps(d, e, {})
         /\ e.handler[i] = d.handler[i]
         /\ DOMAIN e.handler = DOMAIN d.handler
         /\ e.sequential = d.sequential
  <1> DEFINE s == d.handler[i].service
  <1>0. /\ d \in Managers /\ d.busy \subseteq d.sequential
        /\ QueuesHold(d) /\ NobodyTwice(d) /\ Served(d, {})
    BY DEF Sound, SoundBut
  <1>1. s \in Service /\ d.waiting[s] \in Seq(Handler) /\ d.waiting \in [Service -> Seq(Handler)]
    BY <1>0, ManagerType
  \* A service other than s counts on another reply than that of i.
  <1>2. ASSUME NEW z \in Service, z # s, Replies(d, z, {})
        PROVE  Replies(d, z, {i})
    BY <1>2 DEF Replies
  <1>3. CASE d.waiting[s] = << >>
    <2>1. e = [d EXCEPT !.busy = @ \ {s}, !.orphaned = @ \ {s}]
      BY <1>3 DEF HandleReplyFinished
    <2>2. /\ e.handler = d.handler /\ e.waiting = d.waiting /\ e.sequential = d.sequential
          /\ e.busy = d.busy \ {s} /\ e.orphaned = d.orphaned \ {s}
      BY <1>0, <2>1 DEF Managers
    <2>3. e \in Managers
      BY <1>0, <2>1 DEF Managers
    <2>4. QueuesHold(e) /\ NobodyTwice(e)
      <3>1. QueuesHold(e)
        BY <1>0, <2>2 DEF QueuesHold
      <3>2. NobodyTwice(e)
        BY <1>0, <2>2 DEF NobodyTwice
      <3>3. QED BY <3>1, <3>2
    <2>5. Served(e, {i})
      <3>1. ASSUME NEW z \in Service \ e.orphaned, z \in e.busy \/ e.waiting[z] # << >>
            PROVE  Replies(e, z, {i})
        <4>1. z # s /\ z \notin d.orphaned
          BY <1>3, <2>2, <3>1
        <4>2. Replies(d, z, {})
          BY <1>0, <2>2, <3>1, <4>1 DEF Served
        <4>3. Replies(d, z, {i})
          BY <1>2, <4>1, <4>2
        <4>4. QED BY <2>2, <4>3 DEF Replies
      <3>2. QED BY <3>1 DEF Served
    <2>6. Keeps(d, e, {})
      BY <2>2 DEF Keeps
    <2>7. e.busy \subseteq e.sequential
      BY <1>0, <2>2
    <2>8. QED BY <2>2, <2>3, <2>4, <2>5, <2>6, <2>7 DEF SoundBut
  <1>4. CASE d.waiting[s] # << >>
    <2> DEFINE q == d.waiting[s]
               j == Head(q)
               w == [d.waiting EXCEPT ![s] = Tail(q)]
               c == [d EXCEPT !.waiting = w, !.orphaned = @ \ {s}]
    <2>1. /\ j \in Handler /\ Tail(q) \in Seq(Handler) /\ Len(q) \in Nat \ {0} /\ DOMAIN q = 1 .. Len(q)
          /\ DOMAIN Tail(q) = 1 .. Len(q) - 1
          /\ \A n \in DOMAIN Tail(q) : Tail(q)[n] = q[n + 1]
          /\ j = q[1]
      BY <1>1, <1>4, TailIn
    <2>2. /\ j \in DOMAIN d.handler /\ d.handler[j].state \in {"waiting", "ended"}
          /\ d.handler[j].service = s /\ j # i
      <3>1. 1 \in DOMAIN d.waiting[s] /\ d.waiting[s][1] = j
        <4>1. 1 \in DOMAIN q /\ q[1] = j
          <5> HIDE DEF j, q, w, c
          <5>1. QED BY <2>1
        <4>2. QED BY <4>1
      <3> HIDE DEF j, s, w, c
      <3>2. /\ j \in DOMAIN d.handler /\ d.handler[j].state \in {"waiting", "ended"}
            /\ d.handler[j].service = s
        BY <1>0, <1>1, <3>1 DEF QueuesHold
      <3>3. QED BY <3>2
    <2>3. e = Assigned(c, j)
      BY <1>4 DEF HandleReplyFinished
    <2>4. /\ w \in [Service -> Seq(Handler)] /\ w[s] = Tail(q)
          /\ \A z \in Service : z # s => w[z] = d.waiting[z]
      BY <1>1, <2>1
    <2> HIDE DEF w
    <2>5. /\ c.handler = d.handler /\ c.waiting = w /\ c.busy = d.busy
          /\ c.sequential = d.sequential /\ c.orphaned = d.orphaned \ {s}
      BY <1>0 DEF Managers
    <2>6. c \in Managers
      BY <1>0, <2>4 DEF Managers
    <2> HIDE DEF c, j, q
    <2>7. /\ e \in Managers
          /\ DOMAIN e.handler = DOMAIN d.handler
          /\ \A k \in DOMAIN d.handler : k # j => e.handler[k] = d.handler[k]
          /\ e.handler[j].state = IF d.handler[j].state = "ended" THEN "lost" ELSE "running"
          /\ e.handler[j].owner = d.handler[j].owner
          /\ e.handler[j].service = s
          /\ e.waiting = w /\ e.busy = d.busy
          /\ e.sequential = d.sequential /\ e.orphaned = d.orphaned \ {s}
      BY <2>2, <2>3, <2>5, <2>6, AssignedIs
    <2>8. ASSUME NEW z \in Service, NEW n \in DOMAIN w[z]
          PROVE  \E m \in DOMAIN d.waiting[z] :
                    /\ w[z][n] = d.waiting[z][m]
                    /\ m = IF z = s THEN n + 1 ELSE n
      <3>1. CASE z = s
        <4>1. n \in 1 .. Len(q) - 1 /\ w[z][n] = q[n + 1]
          BY <2>1, <2>4, <3>1
        <4>2. n + 1 \in DOMAIN q
          BY <2>1, <4>1
        <4>3. d.waiting[z] = q
          BY <3>1 DEF q
        <4>4. QED BY <3>1, <4>1, <4>2, <4>3
      <3>2. CASE z # s
        BY <2>4, <3>2
      <3>3. QED BY <3>1, <3>2
    \* The head was in the queue once.
    <2>9. ASSUME NEW z \in Service, NEW n \in DOMAIN w[z] PROVE w[z][n] # j
      <3>1. PICK m \in DOMAIN d.waiting[z] : w[z][n] = d.waiting[z][m] /\ m = IF z = s THEN n + 1 ELSE n
        BY <2>8
      <3>2. ASSUME w[z][n] = j PROVE FALSE
        <4>1. z = s
          BY <1>0, <2>2, <3>1, <3>2 DEF QueuesHold
        <4>2. n \in Nat \ {0} /\ m = n + 1 /\ 1 \in DOMAIN d.waiting[s] /\ d.waiting[s][1] = j
          <5>1. n \in 1 .. Len(q) - 1 /\ m = n + 1
            BY <2>1, <2>4, <3>1, <4>1
          <5>2. 1 \in DOMAIN q /\ q[1] = j
            BY <2>1
          <5>3. QED BY <2>1, <5>1, <5>2 DEF q
        <4>3. m = 1
          BY <1>0, <1>1, <3>1, <3>2, <4>1, <4>2 DEF NobodyTwice
        <4>4. QED BY <4>2, <4>3
      <3>3. QED BY <3>2
    <2>10. QueuesHold(e)
      <3>1. ASSUME NEW z \in Service, NEW n \in DOMAIN w[z]
            PROVE  /\ w[z][n] \in DOMAIN e.handler
                   /\ e.handler[w[z][n]].state \in {"waiting", "ended"}
                   /\ e.handler[w[z][n]].service = z
        <4>1. PICK m \in DOMAIN d.waiting[z] : w[z][n] = d.waiting[z][m]
          BY <2>8
        <4>2. /\ w[z][n] \in DOMAIN d.handler /\ w[z][n] # j
              /\ d.handler[w[z][n]].state \in {"waiting", "ended"}
              /\ d.handler[w[z][n]].service = z
          BY <1>0, <2>9, <4>1 DEF QueuesHold
        <4>3. QED BY <2>7, <4>2
      <3>2. QED BY <2>7, <3>1 DEF QueuesHold
    <2>11. NobodyTwice(e)
      <3>1. ASSUME NEW z \in Service, NEW m \in DOMAIN w[z], NEW n \in DOMAIN w[z], w[z][m] = w[z][n]
            PROVE  m = n
        <4>1. PICK m1 \in DOMAIN d.waiting[z] : w[z][m] = d.waiting[z][m1] /\ m1 = IF z = s THEN m + 1 ELSE m
          BY <2>8
        <4>2. PICK n1 \in DOMAIN d.waiting[z] : w[z][n] = d.waiting[z][n1] /\ n1 = IF z = s THEN n + 1 ELSE n
          BY <2>8
        <4>3. m1 = n1
          BY <1>0, <3>1, <4>1, <4>2 DEF NobodyTwice
        <4>4. CASE z = s
          <5>1. m \in Nat /\ n \in Nat
            BY <2>1, <2>4, <4>4
          <5>2. QED BY <4>1, <4>2, <4>3, <4>4, <5>1
        <4>5. CASE z # s
          BY <4>1, <4>2, <4>3, <4>5
        <4>6. QED BY <4>4, <4>5
      <3>2. QED BY <2>7, <3>1 DEF NobodyTwice
    <2>12. Served(e, {i})
      <3>1. ASSUME NEW z \in Service \ e.orphaned, z \in e.busy \/ e.waiting[z] # << >>
            PROVE  Replies(e, z, {i})
        <4>1. CASE z = s
          BY <2>2, <2>7, <4>1 DEF Replies
        <4>2. CASE z # s
          <5>1. Replies(d, z, {})
            BY <1>0, <2>4, <2>7, <3>1, <4>2 DEF Served
          <5>2. PICK k \in DOMAIN d.handler \ {i} : d.handler[k].state \in {"running", "lost"} /\ d.handler[k].service = z
            BY <1>2, <4>2, <5>1 DEF Replies
          <5>3. QED BY <2>2, <2>7, <5>2 DEF Replies
        <4>3. QED BY <4>1, <4>2
      <3>2. QED BY <3>1 DEF Served
    <2>13. Keeps(d, e, {})
      <3>1. ASSUME NEW k \in DOMAIN d.handler
            PROVE  e.handler[k].owner = d.handler[k].owner /\ (Live(e.handler[k]) <=> Live(d.handler[k]))
        BY <2>2, <2>7 DEF Live
      <3>2. QED BY <2>7, <3>1 DEF Keeps
    <2>14. QED BY <1>0, <2>2, <2>7, <2>10, <2>11, <2>12, <2>13 DEF SoundBut
  <1>5. QED BY <1>3, <1>4

\* ReplyEnds, of a handler that has a reply
LEMMA ReplyEndsIs ==
  ASSUME NEW d, Sound(d), NEW i \in DOMAIN d.handler, d.handler[i].state = "running",
         NEW e, e = ReplyEnds(d, i)
  PROVE  /\ Sound(e) /\ Keeps(d, e, {i})
         /\ DOMAIN e.handler = DOMAIN d.handler \ {i}
         /\ e.sequential = d.sequential
  <1> DEFINE c == HandleReplyFinished(d, d.handler[i].service)
  <1>1. /\ SoundBut(c, {i}) /\ Keeps(d, c, {})
        /\ c.handler[i] = d.handler[i] /\ DOMAIN c.handler = DOMAIN d.handler
        /\ c.sequential = d.sequential
    BY NextStarts
  <1>2. e = Finish(c, i)
    BY DEF ReplyEnds
  <1> HIDE DEF c
  <1>a. i \in DOMAIN c.handler /\ c.handler[i].state = "running" /\ SoundBut(c, {i})
    BY <1>1
  <1>3. /\ Sound(e) /\ Keeps(c, e, {i})
        /\ DOMAIN e.handler = DOMAIN c.handler \ {i} /\ e.sequential = c.sequential
    BY <1>a, <1>2, FinishRunning
  <1>4. Keeps(d, e, {i})
    BY <1>1, <1>3 DEF Keeps
  <1>5. QED BY <1>1, <1>3, <1>4

\* Requested, for a handler that waits and is in no queue
LEMMA RequestedIs ==
  ASSUME NEW d, Sound(d), NEW i \in DOMAIN d.handler, d.handler[i].state = "waiting",
         \A s \in Service : ~InQueue(d, i, s),
         NEW e, e = Requested(d, i, d.handler[i].service)
  PROVE  /\ Sound(e) /\ Keeps(d, e, {})
         /\ DOMAIN e.handler = DOMAIN d.handler
         /\ e.sequential = d.sequential
  <1> DEFINE s == d.handler[i].service
  <1>0. /\ d \in Managers /\ d.busy \subseteq d.sequential
        /\ QueuesHold(d) /\ NobodyTwice(d) /\ Served(d, {})
    BY DEF Sound, SoundBut
  <1>1. /\ s \in Service /\ d.waiting[s] \in Seq(Handler) /\ d.waiting \in [Service -> Seq(Handler)]
        /\ i \in Handler
    BY <1>0, ManagerType
  <1>2. CASE s \in d.sequential /\ s \in d.busy
    <2> DEFINE q == d.waiting[s]
               w == [d.waiting EXCEPT ![s] = Append(q, i)]
    <2>1. e = [d EXCEPT !.waiting = w]
      BY <1>2 DEF Requested
    <2>2. /\ Append(q, i) \in Seq(Handler) /\ Len(q) \in Nat /\ DOMAIN q = 1 .. Len(q)
          /\ DOMAIN Append(q, i) = 1 .. Len(q) + 1
          /\ \A n \in 1 .. Len(q) : Append(q, i)[n] = q[n]
          /\ Append(q, i)[Len(q) + 1] = i
      BY <1>1, AppendIn
    <2>3. /\ w \in [Service -> Seq(Handler)] /\ w[s] = Append(q, i)
          /\ \A z \in Service : z # s => w[z] = d.waiting[z]
      BY <1>1, <2>2
    <2> HIDE DEF w
    <2>4. /\ e.handler = d.handler /\ e.waiting = w /\ e.busy = d.busy
          /\ e.sequential = d.sequential /\ e.orphaned = d.orphaned
      BY <1>0, <2>1 DEF Managers
    <2>5. e \in Managers
      BY <1>0, <2>1, <2>3 DEF Managers
    <2>6. ASSUME NEW z \in Service, NEW n \in DOMAIN w[z]
          PROVE  \/ n \in DOMAIN d.waiting[z] /\ w[z][n] = d.waiting[z][n]
                 \/ z = s /\ n = Len(q) + 1 /\ w[z][n] = i
      <3>1. CASE z = s
        <4>1. w[z] = Append(q, i) /\ n \in 1 .. Len(q) + 1
          BY <2>2, <2>3, <3>1
        <4>2. CASE n = Len(q) + 1
          BY <2>2, <3>1, <4>1, <4>2
        <4>3. CASE n \in 1 .. Len(q)
          <5>1. n \in DOMAIN q /\ w[z][n] = q[n]
            BY <2>2, <4>1, <4>3
          <5>2. QED BY <3>1, <5>1
        <4>4. n = Len(q) + 1 \/ n \in 1 .. Len(q)
          <5>1. PICK L \in Nat : L = Len(q)
            BY <2>2
          <5>2. n \in 1 .. L + 1
            BY <4>1, <5>1
          <5>3. n = L + 1 \/ n \in 1 .. L
            BY <5>2
          <5>4. QED BY <5>1, <5>3
        <4>5. QED BY <4>2, <4>3, <4>4
      <3>2. CASE z # s
        <4>1. w[z] = d.waiting[z]
          BY <2>3, <3>2
        <4>2. QED BY <4>1
      <3>3. QED BY <3>1, <3>2
    <2> HIDE DEF q
    <2>7. QueuesHold(e)
      <3>1. ASSUME NEW z \in Service, NEW n \in DOMAIN w[z]
            PROVE  /\ w[z][n] \in DOMAIN d.handler
                   /\ d.handler[w[z][n]].state \in {"waiting", "ended"}
                   /\ d.handler[w[z][n]].service = z
        BY <1>0, <2>6 DEF QueuesHold
      <3>2. QED BY <2>4, <3>1 DEF QueuesHold
    <2>8. NobodyTwice(e)
      <3>1. ASSUME NEW z \in Service, NEW m \in DOMAIN w[z], NEW n \in DOMAIN w[z], w[z][m] = w[z][n]
            PROVE  m = n
        <4>1. \A k \in DOMAIN d.waiting[z] : d.waiting[z][k] # i
          BY DEF InQueue
        <4>2. QED BY <1>0, <2>6, <3>1, <4>1 DEF NobodyTwice
      <3>2. QED BY <2>4, <3>1 DEF NobodyTwice
    <2>9. Served(e, {})
      <3>1. ASSUME NEW z \in Service \ e.orphaned, z \in e.busy \/ e.waiting[z] # << >>
            PROVE  Replies(e, z, {})
        <4>1. z \in d.busy \/ d.waiting[z] # << >>
          BY <1>2, <2>3, <2>4, <3>1
        <4>2. Replies(d, z, {})
          BY <1>0, <2>4, <3>1, <4>1 DEF Served
        <4>3. QED BY <2>4, <4>2 DEF Replies
      <3>2. QED BY <3>1 DEF Served
    <2>10. Keeps(d, e, {})
      BY <2>4 DEF Keeps
    <2>11. QED BY <1>0, <2>4, <2>5, <2>7, <2>8, <2>9, <2>10 DEF Sound, SoundBut
  <1>3. CASE ~(s \in d.sequential /\ s \in d.busy)
    <2> DEFINE c == [d EXCEPT !.busy = IF s \in d.sequential THEN d.busy \cup {s} ELSE d.busy]
    <2>1. e = Assigned(c, i)
      BY <1>3 DEF Requested
    <2>2. /\ c.handler = d.handler /\ c.waiting = d.waiting
          /\ c.sequential = d.sequential /\ c.orphaned = d.orphaned
          /\ c.busy \subseteq d.busy \cup {s} /\ c.busy \subseteq c.sequential
      BY <1>0 DEF Managers
    <2>3. c \in Managers
      BY <1>0, <1>1 DEF Managers
    <2> HIDE DEF c, s
    <2>4. /\ e \in Managers
          /\ DOMAIN e.handler = DOMAIN d.handler
          /\ \A j \in DOMAIN d.handler : j # i => e.handler[j] = d.handler[j]
          /\ e.handler[i].state = "running"
          /\ e.handler[i].owner = d.handler[i].owner
          /\ e.handler[i].service = d.handler[i].service
          /\ e.waiting = d.waiting /\ e.busy = c.busy
          /\ e.sequential = d.sequential /\ e.orphaned = d.orphaned
      BY <2>1, <2>2, <2>3, AssignedIs
    <2>5. QueuesHold(e)
      <3>1. ASSUME NEW z \in Service, NEW n \in DOMAIN d.waiting[z] PROVE d.waiting[z][n] # i
        BY DEF InQueue
      <3>2. DOMAIN e.handler = DOMAIN d.handler /\ e.waiting = d.waiting
        BY <2>4
      <3>3. ASSUME NEW z \in Service, NEW n \in DOMAIN e.waiting[z]
            PROVE  /\ e.waiting[z][n] \in DOMAIN e.handler
                   /\ e.handler[e.waiting[z][n]].state \in {"waiting", "ended"}
                   /\ e.handler[e.waiting[z][n]].service = z
        <4>1. PICK k : k = e.waiting[z][n]
          OBVIOUS
        <4>2. n \in DOMAIN d.waiting[z] /\ k = d.waiting[z][n]
          BY <3>2, <3>3, <4>1
        <4>3. /\ k \in DOMAIN d.handler
              /\ d.handler[k].state \in {"waiting", "ended"}
              /\ d.handler[k].service = z
          BY <1>0, <4>2 DEF QueuesHold
        <4>4. k # i
          BY <3>1, <4>2
        <4>5. e.handler[k] = d.handler[k]
          BY <2>4, <4>3, <4>4
        <4>6. QED BY <3>2, <4>1, <4>3, <4>5
      <3>4. QED BY <3>3 DEF QueuesHold
    <2>6. NobodyTwice(e)
      <3>1. e.waiting = d.waiting
        BY <2>4
      <3>2. NobodyTwice(d)
        BY <1>0
      <3>3. QED BY <3>1, <3>2 DEF NobodyTwice
    <2>7. Served(e, {})
      <3>1. ASSUME NEW z \in Service \ e.orphaned, z \in e.busy \/ e.waiting[z] # << >>
            PROVE  Replies(e, z, {})
        <4>1. CASE z = s
          BY <2>4, <4>1 DEF Replies, s
        <4>2. CASE z # s
          <5>1. z \in d.busy \/ d.waiting[z] # << >>
            BY <2>2, <2>4, <3>1, <4>2
          <5>2. Replies(d, z, {})
            BY <1>0, <2>4, <3>1, <5>1 DEF Served
          <5>3. PICK k \in DOMAIN d.handler : d.handler[k].state \in {"running", "lost"} /\ d.handler[k].service = z
            BY <5>2 DEF Replies
          <5>4. QED BY <2>4, <5>3 DEF Replies
        <4>3. QED BY <4>1, <4>2
      <3>2. QED BY <3>1 DEF Served
    <2>8. Keeps(d, e, {})
      BY <2>4 DEF Keeps, Live
    <2>9. QED BY <2>2, <2>4, <2>5, <2>6, <2>7, <2>8 DEF Sound, SoundBut
  <1>4. QED BY <1>2, <1>3

\* The handlers of d and i
With(d, i, owner, s) ==
    LET new == [state |-> "waiting", owner |-> owner, service |-> s, redirections |-> 0]
    IN  [d EXCEPT !.handler = [j \in DOMAIN @ \cup {i} |-> IF j = i THEN new ELSE @[j]]]

\* What With adds to d
Added(d, e, i, owner, s) ==
    /\ Sound(e) /\ Keeps(d, e, {i})
    /\ e.handler[i].state = "waiting" /\ e.handler[i].owner = owner
    /\ e.handler[i].service = s
    /\ DOMAIN e.handler = DOMAIN d.handler \cup {i}
    /\ \A z \in Service : ~InQueue(e, i, z)
    /\ e.sequential = d.sequential

LEMMA WithIs ==
  ASSUME NEW d, Sound(d), NEW i \in Handler, i \notin DOMAIN d.handler,
         NEW owner \in Owner, NEW s \in Service
  PROVE  Added(d, With(d, i, owner, s), i, owner, s)
  <1> DEFINE e == With(d, i, owner, s)
  <1> DEFINE new == [state |-> "waiting", owner |-> owner, service |-> s, redirections |-> 0]
             D == DOMAIN d.handler \cup {i}
             h == [j \in D |-> IF j = i THEN new ELSE d.handler[j]]
  <1>0. /\ d \in Managers /\ d.busy \subseteq d.sequential
        /\ QueuesHold(d) /\ NobodyTwice(d) /\ Served(d, {})
    BY DEF Sound, SoundBut
  <1>1. D \subseteq Handler
    BY <1>0, ManagerType
  <1>n. /\ new \in Record /\ new.state = "waiting"
        /\ new.owner = owner /\ new.service = s
    BY DownloadManagerAssumption DEF Record, State
  <1>2. h \in [D -> Record]
    BY <1>0, <1>n, ManagerType
  <1>3. h \in UNION {[E -> Record] : E \in SUBSET Handler}
    BY <1>1, <1>2, HandlersIs
  <1>4. e = [d EXCEPT !.handler = h]
    BY DEF With
  <1> HIDE DEF e
  <1>5. DOMAIN h = D /\ h[i] = new /\ \A j \in DOMAIN d.handler : h[j] = d.handler[j]
    OBVIOUS
  <1> HIDE DEF h, new
  <1>6. /\ e.handler = h /\ e.waiting = d.waiting /\ e.busy = d.busy
        /\ e.sequential = d.sequential /\ e.orphaned = d.orphaned
    BY <1>0, <1>4 DEF Managers
  <1>7. e \in Managers
    BY <1>0, <1>3, <1>4 DEF Managers
  <1>8. QueuesHold(e) /\ NobodyTwice(e)
    BY <1>0, <1>5, <1>6 DEF QueuesHold, NobodyTwice
  <1>9. Served(e, {})
    BY <1>0, <1>5, <1>6 DEF Served, Replies
  <1>10. Keeps(d, e, {i})
    BY <1>5, <1>6 DEF Keeps
  <1>11. \A z \in Service : ~InQueue(e, i, z)
    BY <1>0, <1>6 DEF QueuesHold, InQueue
  <1>12. Added(d, e, i, owner, s)
    BY <1>0, <1>n, <1>5, <1>6, <1>7, <1>8, <1>9, <1>10, <1>11 DEF Sound, SoundBut, Added
  <1>13. QED BY <1>12 DEF e

\* Download, when a handler is left
LEMMA DownloadIs ==
  ASSUME NEW d, Sound(d), Handler \ DOMAIN d.handler # {}, NEW owner \in Owner, NEW s \in Service,
         NEW e, e = Download(d, owner, s), NEW i, i = NextHandler(d)
  PROVE  /\ Sound(e) /\ i \in Handler \ DOMAIN d.handler
         /\ Keeps(d, e, {i}) /\ DOMAIN e.handler = DOMAIN d.handler \cup {i}
         /\ e.handler[i].owner = owner /\ Live(e.handler[i])
         /\ e.sequential = d.sequential
  <1> DEFINE c == With(d, i, owner, s)
  <1>1. i \in Handler \ DOMAIN d.handler
    <2>1. Handler \ DOMAIN d.handler \in SUBSET Nat
      BY DownloadManagerAssumption
    <2>2. \E x \in Handler \ DOMAIN d.handler : \A y \in Handler \ DOMAIN d.handler : x <= y
      BY <2>1, Least
    <2>3. QED BY <2>2 DEF NextHandler, Min
  <1>2. i \in Handler /\ i \notin DOMAIN d.handler
    BY <1>1
  <1>3. e = Requested(c, i, s)
    BY DEF Download, With
  <1>c. c = With(d, i, owner, s)
    OBVIOUS
  <1> HIDE DEF c
  <1>a. Added(d, c, i, owner, s)
    BY <1>2, <1>c, WithIs
  <1>4. /\ Sound(c) /\ Keeps(d, c, {i})
        /\ DOMAIN c.handler = DOMAIN d.handler \cup {i}
        /\ c.sequential = d.sequential
    BY <1>a DEF Added
  <1>d. /\ c.handler[i].state = "waiting" /\ c.handler[i].owner = owner /\ c.handler[i].service = s
        /\ \A z \in Service : ~InQueue(c, i, z)
    BY <1>a DEF Added
  <1>5. /\ Sound(e) /\ Keeps(c, e, {}) /\ DOMAIN e.handler = DOMAIN c.handler
        /\ e.sequential = c.sequential
    BY <1>3, <1>4, <1>d, RequestedIs
  <1>6. Live(c.handler[i])
    BY <1>d DEF Live
  <1>7. e.handler[i].owner = owner /\ Live(e.handler[i])
    BY <1>4, <1>5, <1>6, <1>d DEF Keeps
  <1>8. Keeps(d, e, {i})
    BY <1>4, <1>5 DEF Keeps
  <1>9. QED BY <1>1, <1>4, <1>5, <1>7, <1>8

\* Cancel, of a handler that a client may still hold
LEMMA CancelIs ==
  ASSUME NEW d, Sound(d), NEW i \in DOMAIN d.handler, Live(d.handler[i]),
         NEW e, e = Cancel(d, i)
  PROVE  /\ Sound(e) /\ Keeps(d, e, {i})
         /\ DOMAIN e.handler \subseteq DOMAIN d.handler
         /\ i \in DOMAIN e.handler => e.handler[i].owner = d.handler[i].owner
         /\ e.sequential = d.sequential
  <1>1. d \in Managers /\ SoundBut(d, {}) /\ d.handler[i].state \in {"waiting", "running"}
    BY DEF Sound, SoundBut, Live
  <1>2. CASE d.handler[i].redirections > 0
    <2>1. e = d
      BY <1>2 DEF Cancel
    <2>2. QED BY <2>1 DEF Keeps
  <1>3. CASE ~(d.handler[i].redirections > 0) /\ d.handler[i].state = "running"
    <2>1. e = ReplyEnds(d, i)
      BY <1>3 DEF Cancel
    <2>2. /\ Sound(e) /\ Keeps(d, e, {i})
          /\ DOMAIN e.handler = DOMAIN d.handler \ {i}
          /\ e.sequential = d.sequential
      BY <1>3, <2>1, ReplyEndsIs
    <2>3. QED BY <2>2
  <1>4. CASE ~(d.handler[i].redirections > 0) /\ d.handler[i].state = "waiting"
    <2>1. e = Finish(d, i)
      BY <1>4 DEF Cancel
    <2>2. /\ Sound(e) /\ Keeps(d, e, {i})
          /\ DOMAIN e.handler = DOMAIN d.handler
          /\ e.handler[i].owner = d.handler[i].owner
          /\ e.sequential = d.sequential
      BY <1>1, <1>4, <2>1, FinishWaiting
    <2>3. QED BY <2>2
  <1>5. QED BY <1>1, <1>2, <1>3, <1>4

\* The handler i goes to service s, where it waits.
Redirected(d, i, s) ==
    [d EXCEPT !.handler[i].state = "waiting", !.handler[i].service = s,
              !.handler[i].redirections = @ + 1]

\* What Redirected makes of d
Readied(d, e, i, s) ==
    /\ Sound(e) /\ Keeps(d, e, {})
    /\ e.handler[i].state = "waiting" /\ e.handler[i].service = s
    /\ DOMAIN e.handler = DOMAIN d.handler
    /\ \A z \in Service : ~InQueue(e, i, z)
    /\ e.sequential = d.sequential

LEMMA RedirectedIs ==
  ASSUME NEW d, NEW i \in DOMAIN d.handler, SoundBut(d, {i}), d.handler[i].state = "running",
         d.handler[i].redirections < MaxRedirections, NEW s \in Service,
         NEW e, e = Redirected(d, i, s)
  PROVE  Readied(d, e, i, s)
  <1> DEFINE r == [d.handler[i] EXCEPT !.state = "waiting", !.service = s, !.redirections = @ + 1]
             h == [d.handler EXCEPT ![i] = r]
  <1>0. /\ d \in Managers /\ d.busy \subseteq d.sequential
        /\ QueuesHold(d) /\ NobodyTwice(d) /\ Served(d, {i})
    BY DEF SoundBut
  <1>1. /\ r \in Record /\ r.state = "waiting" /\ r.service = s
        /\ r.owner = d.handler[i].owner
    <2>1. d.handler[i] \in Record /\ d.handler[i].redirections \in 0 .. MaxRedirections
      BY <1>0, ManagerType
    <2>2. d.handler[i].redirections + 1 \in 0 .. MaxRedirections
      BY <2>1, DownloadManagerAssumption
    <2>3. QED BY <2>1, <2>2 DEF Record, State
  <1>2. h \in [DOMAIN d.handler -> Record]
    BY <1>0, <1>1, ManagerType
  <1>3. h \in UNION {[E -> Record] : E \in SUBSET Handler}
    BY <1>0, <1>2, ManagerType, HandlersIs
  <1>4. e = [d EXCEPT !.handler = h]
    BY DEF Redirected
  <1>5. /\ h[i] = r /\ DOMAIN h = DOMAIN d.handler
        /\ \A j \in DOMAIN d.handler : j # i => h[j] = d.handler[j]
    BY <1>0, ManagerType
  <1> HIDE DEF h, r
  <1>6. /\ e.handler = h /\ e.waiting = d.waiting /\ e.busy = d.busy
        /\ e.sequential = d.sequential /\ e.orphaned = d.orphaned
    BY <1>0, <1>4 DEF Managers
  <1>7. e \in Managers
    BY <1>0, <1>3, <1>4 DEF Managers
  <1>8. ASSUME NEW z \in Service, NEW n \in DOMAIN d.waiting[z] PROVE d.waiting[z][n] # i
    BY <1>0 DEF QueuesHold
  <1>9. QueuesHold(e)
    BY <1>0, <1>5, <1>6, <1>8 DEF QueuesHold
  <1>10. NobodyTwice(e)
    BY <1>0, <1>6 DEF NobodyTwice
  <1>11. Served(e, {})
    <2>1. ASSUME NEW z \in Service \ e.orphaned, z \in e.busy \/ e.waiting[z] # << >>
          PROVE  Replies(e, z, {})
      <3>1. Replies(d, z, {i})
        BY <1>0, <1>6, <2>1 DEF Served
      <3>2. PICK j \in DOMAIN d.handler \ {i} : d.handler[j].state \in {"running", "lost"} /\ d.handler[j].service = z
        BY <3>1 DEF Replies
      <3>3. QED BY <1>5, <1>6, <3>2 DEF Replies
    <2>2. QED BY <2>1 DEF Served
  <1>12. Keeps(d, e, {})
    BY <1>1, <1>5, <1>6 DEF Keeps, Live
  <1>13. \A z \in Service : ~InQueue(e, i, z)
    BY <1>6, <1>8 DEF InQueue
  <1>14. QED BY <1>0, <1>1, <1>5, <1>6, <1>7, <1>9, <1>10, <1>11, <1>12, <1>13 DEF Sound, SoundBut, Readied

\* HandleRedirection, of a handler that has a reply and may be redirected once more
LEMMA RedirectionIs ==
  ASSUME NEW d, Sound(d), NEW i \in DOMAIN d.handler, d.handler[i].state = "running",
         d.handler[i].redirections < MaxRedirections, NEW s \in Service,
         NEW e, e = HandleRedirection(d, i, s)
  PROVE  /\ Sound(e) /\ Keeps(d, e, {})
         /\ DOMAIN e.handler = DOMAIN d.handler
         /\ e.sequential = d.sequential
  <1> DEFINE b == HandleReplyFinished(d, d.handler[i].service)
             c == Redirected(b, i, s)
  <1>1. d.handler[i].redirections \in 0 .. MaxRedirections /\ MaxRedirections \in Nat
    BY ManagerType, DownloadManagerAssumption DEF Sound, SoundBut
  <1>2. e = Requested(c, i, s)
    BY <1>1 DEF HandleRedirection, Redirected
  <1>3. /\ SoundBut(b, {i}) /\ Keeps(d, b, {})
        /\ b.handler[i] = d.handler[i] /\ DOMAIN b.handler = DOMAIN d.handler
        /\ b.sequential = d.sequential
    BY NextStarts
  <1> HIDE DEF b
  <1>4. /\ SoundBut(b, {i}) /\ i \in DOMAIN b.handler /\ b.handler[i].state = "running"
        /\ b.handler[i].redirections < MaxRedirections
    BY <1>3
  <1>a. Readied(b, c, i, s)
    BY <1>4, RedirectedIs
  <1>5. /\ Sound(c) /\ Keeps(b, c, {})
        /\ c.handler[i].state = "waiting" /\ c.handler[i].service = s
        /\ DOMAIN c.handler = DOMAIN b.handler
        /\ \A z \in Service : ~InQueue(c, i, z)
        /\ c.sequential = b.sequential
    <2> HIDE DEF c
    <2>1. QED BY <1>a DEF Readied
  <1> HIDE DEF c
  <1>6. i \in DOMAIN c.handler
    BY <1>3, <1>5
  <1>7. /\ Sound(e) /\ Keeps(c, e, {}) /\ DOMAIN e.handler = DOMAIN c.handler
        /\ e.sequential = c.sequential
    BY <1>2, <1>5, <1>6, RequestedIs
  <1>8. Keeps(d, e, {})
    BY <1>3, <1>5, <1>7 DEF Keeps
  <1>9. QED BY <1>3, <1>5, <1>7, <1>8

\* HandleRedirection, once too often
LEMMA RedirectionEndsIs ==
  ASSUME NEW d, Sound(d), NEW i \in DOMAIN d.handler, d.handler[i].state = "running",
         ~(d.handler[i].redirections < MaxRedirections), NEW s \in Service
  PROVE  HandleRedirection(d, i, s) = ReplyEnds(d, i)
  <1>1. d.handler[i].redirections \in 0 .. MaxRedirections /\ MaxRedirections \in Nat
    BY ManagerType, DownloadManagerAssumption DEF Sound, SoundBut
  <1>2. QED BY <1>1 DEF HandleRedirection, ReplyEnds

\* Destroyed, of a handler that has ended
LEMMA DestroyedIs ==
  ASSUME NEW d, Sound(d), NEW i \in DOMAIN d.handler, ~Live(d.handler[i]),
         NEW e, e = Destroyed(d, i)
  PROVE  /\ Sound(e) /\ Keeps(d, e, {i})
         /\ DOMAIN e.handler = DOMAIN d.handler \ {i}
         /\ e.sequential = d.sequential
  <1> DEFINE s == d.handler[i].service
             q == RemoveFirst(d.waiting[s], i)
             w == [d.waiting EXCEPT ![s] = q]
             o == IF d.handler[i].state = "lost" THEN d.orphaned \cup {s} ELSE d.orphaned
             D == DOMAIN d.handler \ {i}
             h == [j \in D |-> d.handler[j]]
  <1>0. /\ d \in Managers /\ d.busy \subseteq d.sequential
        /\ QueuesHold(d) /\ NobodyTwice(d) /\ Served(d, {})
    BY DEF Sound, SoundBut
  <1>1. /\ s \in Service /\ d.waiting[s] \in Seq(Handler) /\ d.waiting \in [Service -> Seq(Handler)]
        /\ d.handler[i].state \in {"ended", "lost"}
    BY <1>0, ManagerType DEF Live, State
  <1>2. q \in Seq(Handler) /\ Lacks(d.waiting[s], i, q)
    BY <1>1, RemovedFirst
  <1>3. /\ \A n \in DOMAIN q : \E m \in DOMAIN d.waiting[s] : q[n] = d.waiting[s][m]
        /\ \A n \in DOMAIN q : q[n] # i
        /\ \A m, n \in DOMAIN q : q[m] = q[n] => m = n
    <2>1. \A m, n \in DOMAIN d.waiting[s] : d.waiting[s][m] = d.waiting[s][n] => m = n
      BY <1>0, <1>1 DEF NobodyTwice
    <2> HIDE DEF q, s
    <2>2. QED BY <1>2, <2>1 DEF Lacks
  <1>4. h \in [D -> Record] /\ D \subseteq Handler
    BY <1>0, ManagerType
  <1>5. h \in UNION {[E -> Record] : E \in SUBSET Handler}
    BY <1>4, HandlersIs
  <1>6. e = [d EXCEPT !.handler = h, !.waiting = w, !.orphaned = o]
    BY DEF Destroyed, Restrict
  <1>7. DOMAIN h = D /\ \A j \in D : h[j] = d.handler[j]
    OBVIOUS
  <1> HIDE DEF q
  <1>8. w \in [Service -> Seq(Handler)] /\ w[s] = q /\ \A z \in Service : z # s => w[z] = d.waiting[z]
    BY <1>1, <1>2
  <1>9. o \subseteq Service /\ d.orphaned \subseteq o
    BY <1>0, <1>1, ManagerType
  <1> HIDE DEF h, w
  <1>10. /\ e.handler = h /\ e.waiting = w /\ e.busy = d.busy
         /\ e.sequential = d.sequential /\ e.orphaned = o
    BY <1>0, <1>6 DEF Managers
  <1>11. e \in Managers
    BY <1>0, <1>5, <1>6, <1>8, <1>9 DEF Managers
  <1> HIDE DEF s
  <1>12. ASSUME NEW z \in Service, NEW n \in DOMAIN w[z]
         PROVE  \E m \in DOMAIN d.waiting[z] : w[z][n] = d.waiting[z][m] /\ d.waiting[z][m] # i
    <2>1. CASE z = s
      BY <1>3, <1>8, <2>1
    <2>2. CASE z # s
      BY <1>0, <1>8, <2>2 DEF QueuesHold, s
    <2>3. QED BY <2>1, <2>2
  <1>13. QueuesHold(e)
    <2>1. ASSUME NEW z \in Service, NEW n \in DOMAIN w[z]
          PROVE  /\ w[z][n] \in DOMAIN h
                 /\ h[w[z][n]].state \in {"waiting", "ended"}
                 /\ h[w[z][n]].service = z
      BY <1>0, <1>7, <1>12 DEF QueuesHold
    <2>2. QED BY <1>10, <2>1 DEF QueuesHold
  <1>14. NobodyTwice(e)
    <2>1. ASSUME NEW z \in Service, NEW m \in DOMAIN w[z], NEW n \in DOMAIN w[z], w[z][m] = w[z][n]
          PROVE  m = n
      <3>1. CASE z = s
        BY <1>3, <1>8, <2>1, <3>1
      <3>2. CASE z # s
        BY <1>0, <1>8, <2>1, <3>2 DEF NobodyTwice
      <3>3. QED BY <3>1, <3>2
    <2>2. QED BY <1>10, <2>1 DEF NobodyTwice
  <1>15. Served(e, {})
    <2>1. ASSUME NEW z \in Service \ e.orphaned, z \in e.busy \/ e.waiting[z] # << >>
          PROVE  Replies(e, z, {})
      <3>1. z \in d.busy \/ d.waiting[z] # << >>
        <4>1. CASE z \in e.busy
          BY <1>10, <4>1
        <4>2. CASE w[z] # << >>
          <5>1. w[z] \in Seq(Handler)
            BY <1>8
          <5>2. 1 \in DOMAIN w[z]
            BY <4>2, <5>1, TailIn
          <5>3. PICK m \in DOMAIN d.waiting[z] : TRUE
            BY <1>12, <5>2
          <5>4. d.waiting[z] # << >>
            BY <5>3
          <5>5. QED BY <5>4
        <4>3. QED BY <1>10, <2>1, <4>1, <4>2
      <3>2. Replies(d, z, {})
        BY <1>0, <1>9, <1>10, <2>1, <3>1 DEF Served
      <3>3. PICK k \in DOMAIN d.handler : d.handler[k].state \in {"running", "lost"} /\ d.handler[k].service = z
        BY <3>2 DEF Replies
      <3>4. k # i
        <4>1. ASSUME k = i PROVE FALSE
          <5>1. d.handler[i].state = "lost" /\ z = s
            BY <1>1, <3>3, <4>1 DEF s
          <5>2. QED BY <1>10, <2>1, <5>1
        <4>2. QED BY <4>1
      <3>5. QED BY <1>7, <1>10, <3>3, <3>4 DEF Replies
    <2>2. QED BY <2>1 DEF Served
  <1>16. Keeps(d, e, {i})
    BY <1>7, <1>10 DEF Keeps
  <1>17. QED BY <1>0, <1>7, <1>10, <1>11, <1>13, <1>14, <1>15, <1>16 DEF Sound, SoundBut

-----------------------------------------------------------------------------
(* What the clients see of the manager                                        *)

\* The handlers with which owner o waits for a download
Downloading(d, o) == {j \in DOMAIN d.handler : d.handler[j].owner = o /\ Live(d.handler[j])}

\* Whoever is not of those of O has the downloads that it had.
Same(d, e, O) == \A p : p \notin O => Downloading(e, p) = Downloading(d, p)

LEMMA KeepsAll ==
  ASSUME NEW d, NEW e, Keeps(d, e, {})
  PROVE  Same(d, e, {})
  BY DEF Same, Keeps, Downloading

\* The handler i, if it is there, is o's.
Owns(d, i, o) == i \in DOMAIN d.handler => d.handler[i].owner = o

LEMMA KeepsOthers ==
  ASSUME NEW d, NEW e, NEW i, NEW o, Keeps(d, e, {i}), Owns(d, i, o), Owns(e, i, o)
  PROVE  Same(d, e, {o})
  <1>1. ASSUME NEW p, p # o, NEW j, j \in Downloading(e, p) PROVE j \in Downloading(d, p)
    <2>1. j \in DOMAIN e.handler /\ e.handler[j].owner = p /\ Live(e.handler[j])
      BY <1>1 DEF Downloading
    <2>2. j # i
      BY <1>1, <2>1 DEF Owns
    <2>3. j \in DOMAIN d.handler /\ d.handler[j].owner = p /\ Live(d.handler[j])
      BY <2>1, <2>2 DEF Keeps
    <2>4. QED BY <2>3 DEF Downloading
  <1>2. ASSUME NEW p, p # o, NEW j, j \in Downloading(d, p) PROVE j \in Downloading(e, p)
    <2>1. j \in DOMAIN d.handler /\ d.handler[j].owner = p /\ Live(d.handler[j])
      BY <1>2 DEF Downloading
    <2>2. j # i
      BY <1>2, <2>1 DEF Owns
    <2>3. j \in DOMAIN e.handler /\ e.handler[j].owner = p /\ Live(e.handler[j])
      BY <2>1, <2>2 DEF Keeps
    <2>4. QED BY <2>3 DEF Downloading
  <1>3. QED BY <1>1, <1>2 DEF Same

\* i is gone, and nobody waits for it any more.
Drops(d, e, i) == Keeps(d, e, {i}) /\ DOMAIN e.handler = DOMAIN d.handler \ {i}

Loses(d, e, i) == \A p : Downloading(e, p) = Downloading(d, p) \ {i}

LEMMA Ended ==
  ASSUME NEW d, NEW e, NEW i, Drops(d, e, i)
  PROVE  Loses(d, e, i)
  BY DEF Drops, Loses, Keeps, Downloading

LEMMA Rooms ==
  ASSUME NEW d \in Managers
  PROVE  /\ IsFiniteSet(DOMAIN d.handler) /\ Cardinality(DOMAIN d.handler) \in Nat
         /\ Cardinality(Handler) \in Nat
         /\ \A n \in Nat : HasRoom(d, n + 1) => Handler \ DOMAIN d.handler # {}
  <1>1. DOMAIN d.handler \in SUBSET Handler
    BY ManagerType
  <1>2. /\ IsFiniteSet(DOMAIN d.handler) /\ IsFiniteSet(Handler)
        /\ Cardinality(DOMAIN d.handler) \in Nat /\ Cardinality(Handler) \in Nat
    BY <1>1, FS_Subset, FS_CardinalityType, DownloadManagerAssumption
  <1>3. ASSUME NEW n \in Nat, HasRoom(d, n + 1) PROVE Handler \ DOMAIN d.handler # {}
    <2>1. SUFFICES ASSUME Handler = DOMAIN d.handler PROVE FALSE
      BY <1>1
    <2>2. Cardinality(Handler) + (n + 1) <= Cardinality(Handler)
      BY <1>3, <2>1 DEF HasRoom
    <2>3. QED BY <1>2, <2>2
  <1>4. QED BY <1>2, <1>3

LEMMA RoomsKept ==
  ASSUME NEW d \in Managers, NEW e \in Managers, NEW n \in Nat, HasRoom(d, n),
         DOMAIN e.handler \subseteq DOMAIN d.handler
  PROVE  HasRoom(e, n)
  <1>1. /\ IsFiniteSet(DOMAIN d.handler) /\ Cardinality(DOMAIN d.handler) \in Nat
        /\ Cardinality(DOMAIN e.handler) \in Nat /\ Cardinality(Handler) \in Nat
    BY Rooms
  <1>2. Cardinality(DOMAIN e.handler) <= Cardinality(DOMAIN d.handler)
    BY <1>1, FS_Subset
  <1>3. Cardinality(DOMAIN d.handler) + n <= Cardinality(Handler)
    BY DEF HasRoom
  <1>4. QED BY <1>1, <1>2, <1>3 DEF HasRoom

\* e is d with a download for o, by the handler i.
Begun(d, e, o, i) ==
    /\ Sound(e) /\ i \in Handler /\ i \notin DOMAIN d.handler
    /\ Downloading(e, o) = Downloading(d, o) \cup {i}
    /\ Same(d, e, {o})
    /\ e.sequential = d.sequential

LEMMA DownloadFor ==
  ASSUME NEW d, Sound(d), NEW n \in Nat, HasRoom(d, n + 1), NEW o \in Owner, NEW s \in Service,
         NEW e, e = Download(d, o, s), NEW i, i = NextHandler(d)
  PROVE  Begun(d, e, o, i) /\ HasRoom(e, n)
  <1>0. d \in Managers
    BY DEF Sound, SoundBut
  <1>1. Handler \ DOMAIN d.handler # {}
    BY <1>0, Rooms
  <1>2. /\ Sound(e) /\ i \in Handler \ DOMAIN d.handler
        /\ Keeps(d, e, {i}) /\ DOMAIN e.handler = DOMAIN d.handler \cup {i}
        /\ e.handler[i].owner = o /\ Live(e.handler[i])
        /\ e.sequential = d.sequential
    BY <1>1, DownloadIs
  <1>3. Same(d, e, {o})
    <2>1. Keeps(d, e, {i}) /\ Owns(d, i, o) /\ Owns(e, i, o)
      BY <1>2 DEF Owns
    <2>2. QED BY <2>1, KeepsOthers
  <1>4. Downloading(e, o) = Downloading(d, o) \cup {i}
    BY <1>2 DEF Keeps, Downloading
  <1>5. HasRoom(e, n)
    <2>1. /\ IsFiniteSet(DOMAIN d.handler) /\ Cardinality(DOMAIN d.handler) \in Nat
          /\ Cardinality(Handler) \in Nat
      BY <1>0, Rooms
    <2>2. Cardinality(DOMAIN e.handler) = Cardinality(DOMAIN d.handler) + 1
      BY <1>2, <2>1, FS_AddElement
    <2>3. Cardinality(DOMAIN d.handler) + (n + 1) <= Cardinality(Handler)
      BY DEF HasRoom
    <2>4. QED BY <2>1, <2>2, <2>3 DEF HasRoom
  <1>6. QED BY <1>2, <1>3, <1>4, <1>5 DEF Begun

LEMMA CancelFor ==
  ASSUME NEW d, Sound(d), NEW o, NEW i \in Downloading(d, o), NEW e, e = Cancel(d, i)
  PROVE  /\ Sound(e) /\ Same(d, e, {o}) /\ e.sequential = d.sequential
         /\ \A n \in Nat : HasRoom(d, n) => HasRoom(e, n)
  <1>1. i \in DOMAIN d.handler /\ Live(d.handler[i]) /\ d.handler[i].owner = o
    BY DEF Downloading
  <1>2. /\ Sound(e) /\ Keeps(d, e, {i})
        /\ DOMAIN e.handler \subseteq DOMAIN d.handler
        /\ i \in DOMAIN e.handler => e.handler[i].owner = d.handler[i].owner
        /\ e.sequential = d.sequential
    BY <1>1, CancelIs, Zenon
  <1>3. Same(d, e, {o})
    <2>1. Keeps(d, e, {i}) /\ Owns(d, i, o) /\ Owns(e, i, o)
      BY <1>1, <1>2 DEF Owns
    <2>2. QED BY <2>1, KeepsOthers
  <1>4. d \in Managers /\ e \in Managers
    BY <1>2 DEF Sound, SoundBut
  <1>5. QED BY <1>2, <1>3, <1>4, RoomsKept

LEMMA ReplyEndsFor ==
  ASSUME NEW d, Sound(d), NEW i \in DOMAIN d.handler, d.handler[i].state = "running",
         NEW e, e = ReplyEnds(d, i)
  PROVE  Sound(e) /\ Loses(d, e, i)
  <1>1. Sound(e) /\ Drops(d, e, i)
    BY ReplyEndsIs DEF Drops
  <1>2. QED BY <1>1, Ended

LEMMA RedirectionFor ==
  ASSUME NEW d, Sound(d), NEW i \in DOMAIN d.handler, d.handler[i].state = "running",
         d.handler[i].redirections < MaxRedirections, NEW s \in Service,
         NEW e, e = HandleRedirection(d, i, s)
  PROVE  Sound(e) /\ Same(d, e, {})
  <1>1. Sound(e) /\ Keeps(d, e, {})
    BY RedirectionIs, Zenon
  <1>2. QED BY <1>1, KeepsAll

LEMMA DestroyedFor ==
  ASSUME NEW d, Sound(d), NEW i \in DOMAIN d.handler, ~Live(d.handler[i]),
         NEW e, e = Destroyed(d, i)
  PROVE  Sound(e) /\ Same(d, e, {})
  <1>1. Sound(e) /\ Drops(d, e, i)
    BY DestroyedIs DEF Drops
  <1>2. Loses(d, e, i)
    BY <1>1, Ended
  <1>3. \A p : i \notin Downloading(d, p)
    BY DEF Downloading
  <1>4. QED BY <1>1, <1>2, <1>3 DEF Same, Loses

\* A service becomes sequential.
LEMMA RegisteredFor ==
  ASSUME NEW d, Sound(d), NEW s \in Service,
         NEW e, e = [d EXCEPT !.sequential = @ \cup {s}]
  PROVE  /\ Sound(e) /\ Same(d, e, {})
         /\ \A n \in Nat : HasRoom(d, n) => HasRoom(e, n)
  <1>0. /\ d \in Managers /\ d.busy \subseteq d.sequential
        /\ QueuesHold(d) /\ NobodyTwice(d) /\ Served(d, {})
    BY DEF Sound, SoundBut
  <1>1. /\ e.handler = d.handler /\ e.waiting = d.waiting /\ e.busy = d.busy
        /\ e.sequential = d.sequential \cup {s} /\ e.orphaned = d.orphaned
    BY <1>0 DEF Managers
  <1>2. e \in Managers
    BY <1>0 DEF Managers
  <1>3. QueuesHold(e) /\ NobodyTwice(e) /\ Served(e, {})
    BY <1>0, <1>1 DEF QueuesHold, NobodyTwice, Served, Replies
  <1>4. Same(d, e, {})
    BY <1>1 DEF Same, Downloading
  <1>5. ASSUME NEW n \in Nat, HasRoom(d, n) PROVE HasRoom(e, n)
    BY <1>1, <1>5 DEF HasRoom
  <1>6. QED BY <1>0, <1>1, <1>2, <1>3, <1>4, <1>5 DEF Sound, SoundBut

\* A feed is removed: its downloads go on for nobody.
Abandoned(d, f) ==
    [d EXCEPT !.handler = [i \in DOMAIN d.handler |->
                             IF d.handler[i].owner = <<"feed", f>>
                             THEN [d.handler[i] EXCEPT !.owner = <<"nobody">>] ELSE d.handler[i]]]

LEMMA AbandonedFor ==
  ASSUME NEW d, Sound(d), NEW f \in Feed, NEW e, e = Abandoned(d, f)
  PROVE  /\ Sound(e) /\ Same(d, e, {<<"feed", f>>, <<"nobody">>})
         /\ DOMAIN e.handler = DOMAIN d.handler
  <1> DEFINE D == DOMAIN d.handler
             r(i) == [d.handler[i] EXCEPT !.owner = <<"nobody">>]
             h == [i \in D |-> IF d.handler[i].owner = <<"feed", f>> THEN r(i) ELSE d.handler[i]]
  <1>0. /\ d \in Managers /\ d.busy \subseteq d.sequential
        /\ QueuesHold(d) /\ NobodyTwice(d) /\ Served(d, {})
    BY DEF Sound, SoundBut
  <1>1. ASSUME NEW i \in D
        PROVE  /\ r(i) \in Record /\ r(i).owner = <<"nobody">>
               /\ r(i).state = d.handler[i].state /\ r(i).service = d.handler[i].service
    <2>1. d.handler[i] \in Record
      BY <1>0, ManagerType
    <2>2. <<"nobody">> \in Owner
      BY DEF Owner
    <2>3. QED BY <2>1, <2>2 DEF Record
  <1> HIDE DEF r
  <1>2. h \in [D -> Record] /\ D \subseteq Handler
    BY <1>0, <1>1, ManagerType
  <1>3. h \in UNION {[E -> Record] : E \in SUBSET Handler}
    BY <1>2, HandlersIs
  <1>4. e = [d EXCEPT !.handler = h]
    BY DEF Abandoned, r
  <1>5. /\ DOMAIN h = D
        /\ \A i \in D : /\ h[i].state = d.handler[i].state /\ h[i].service = d.handler[i].service
                        /\ \/ h[i].owner = d.handler[i].owner
                           \/ d.handler[i].owner = <<"feed", f>> /\ h[i].owner = <<"nobody">>
    BY <1>1
  <1> HIDE DEF h
  <1>6. /\ e.handler = h /\ e.waiting = d.waiting /\ e.busy = d.busy
        /\ e.sequential = d.sequential /\ e.orphaned = d.orphaned
    BY <1>0, <1>4 DEF Managers
  <1>7. e \in Managers
    BY <1>0, <1>3, <1>4 DEF Managers
  <1>8. QueuesHold(e)
    BY <1>0, <1>5, <1>6 DEF QueuesHold
  <1>9. NobodyTwice(e)
    BY <1>0, <1>6 DEF NobodyTwice
  <1>10. Served(e, {})
    BY <1>0, <1>5, <1>6 DEF Served, Replies
  <1>11. ASSUME NEW p, p # <<"feed", f>>, p # <<"nobody">>
         PROVE  Downloading(e, p) = Downloading(d, p)
    <2>1. \A i \in D : (e.handler[i].owner = p) <=> (d.handler[i].owner = p)
      BY <1>5, <1>6, <1>11
    <2>2. \A i \in D : Live(e.handler[i]) <=> Live(d.handler[i])
      BY <1>5, <1>6 DEF Live
    <2>3. QED BY <1>5, <1>6, <2>1, <2>2 DEF Downloading
  <1>12. Same(d, e, {<<"feed", f>>, <<"nobody">>})
    BY <1>11 DEF Same
  <1>13. QED BY <1>0, <1>5, <1>6, <1>7, <1>8, <1>9, <1>10, <1>12 DEF Sound, SoundBut

-----------------------------------------------------------------------------
(* The feeds and their downloads                                              *)

Held == [Feed -> {<< >>} \cup {<<i>> : i \in Handler}]

\* The handler that a feed holds works for it.
HeldBy(d, held) ==
    \A f \in Feed : held[f] # << >> => held[f][1] \in Downloading(d, <<"feed", f>>)

SameTorrents(d, e) ==
    \A u \in Url : Downloading(e, <<"torrent", u>>) = Downloading(d, <<"torrent", u>>)

FeedsHold(r) == Sound(r.d) /\ r.held \in Held /\ HeldBy(r.d, r.held)

\* Only the feeds of F hold a handler in e that did not in r.
HeldFor(r, e, F) == \A g \in Feed : e.held[g] # << >> => g \in F \/ r.held[g] # << >>

LEMMA SameTorrentsIs ==
  ASSUME NEW d, NEW e, NEW f, Same(d, e, {<<"feed", f>>, <<"nobody">>}) \/ Same(d, e, {<<"feed", f>>})
                                \/ Same(d, e, {<<"nobody">>}) \/ Same(d, e, {})
  PROVE  SameTorrents(d, e)
  <1>1. \A u : <<"torrent", u>> # <<"feed", f>> /\ <<"torrent", u>> # <<"nobody">>
    OBVIOUS
  <1>2. QED BY <1>1 DEF Same, SameTorrents

\* Refreshed
LEMMA RefreshedIs ==
  ASSUME NEW r, FeedsHold(r), NEW f \in Feed, NEW n \in Nat, HasRoom(r.d, n + 1),
         NEW e, e = Refreshed(r, f)
  PROVE  /\ FeedsHold(e) /\ HasRoom(e.d, n)
         /\ SameTorrents(r.d, e.d) /\ HeldFor(r, e, {f})
  <1> DEFINE c == IF r.held[f] = << >> THEN r.d ELSE Cancel(r.d, Head(r.held[f]))
             i == NextHandler(c)
             b == Download(c, <<"feed", f>>, ServiceOf[f])
             h == [r.held EXCEPT ![f] = <<i>>]
             o == <<"feed", f>>
  <1>0. Sound(r.d) /\ r.held \in Held /\ HeldBy(r.d, r.held) /\ n + 1 \in Nat
    BY DEF FeedsHold
  <1>1. e = [d |-> b, held |-> h]
    BY DEF Refreshed
  <1>2. Sound(c) /\ Same(r.d, c, {o}) /\ HasRoom(c, n + 1)
    <2>1. CASE r.held[f] = << >>
      BY <1>0, <2>1 DEF Same
    <2>2. CASE r.held[f] # << >>
      <3>1. Head(r.held[f]) = r.held[f][1] /\ Head(r.held[f]) \in Downloading(r.d, o)
        BY <1>0, <2>2 DEF Held, HeldBy
      <3>2. PICK j \in Downloading(r.d, o) : j = Head(r.held[f])
        BY <3>1
      <3>3. c = Cancel(r.d, j)
        BY <2>2, <3>2
      <3> HIDE DEF c, o
      <3>4. QED BY <1>0, <3>2, <3>3, CancelFor
    <2>3. QED BY <2>1, <2>2
  <1>3. o \in Owner /\ ServiceOf[f] \in Service
    BY RssAssumption DEF Owner
  <1> HIDE DEF c
  <1>4. Begun(c, b, o, i) /\ HasRoom(b, n)
    <2>1. b = Download(c, o, ServiceOf[f]) /\ i = NextHandler(c)
      OBVIOUS
    <2> HIDE DEF b, i, o
    <2>2. QED BY <1>2, <1>3, <2>1, DownloadFor
  <1> HIDE DEF i, b
  <1>5. /\ Sound(b) /\ i \in Handler /\ i \in Downloading(b, o) /\ Same(c, b, {o})
    BY <1>4 DEF Begun
  <1>6. Same(r.d, b, {o})
    BY <1>2, <1>5 DEF Same
  <1>7. /\ h \in Held /\ h[f] = <<i>>
        /\ \A g \in Feed : g # f => h[g] = r.held[g]
    BY <1>0, <1>5 DEF Held
  <1>8. HeldBy(b, h)
    <2>1. ASSUME NEW g \in Feed, h[g] # << >> PROVE h[g][1] \in Downloading(b, <<"feed", g>>)
      <3>1. CASE g = f
        BY <1>5, <1>7, <3>1
      <3>2. CASE g # f
        <4>1. r.held[g][1] \in Downloading(r.d, <<"feed", g>>) /\ h[g] = r.held[g]
          BY <1>0, <1>7, <2>1, <3>2 DEF HeldBy
        <4>2. Downloading(b, <<"feed", g>>) = Downloading(r.d, <<"feed", g>>)
          BY <1>6, <3>2 DEF Same
        <4>3. QED BY <4>1, <4>2
      <3>3. QED BY <3>1, <3>2
    <2>2. QED BY <2>1 DEF HeldBy
  <1>9. SameTorrents(r.d, b)
    BY <1>6, SameTorrentsIs
  <1> HIDE DEF h
  <1>10. e.d = b /\ e.held = h
    BY <1>1
  <1>11. HeldFor(r, e, {f})
    BY <1>7, <1>10 DEF HeldFor
  <1>12. QED BY <1>4, <1>5, <1>7, <1>8, <1>9, <1>10, <1>11 DEF FeedsHold

\* What RefreshAll leaves of r
AllRefreshed(r, e) ==
    FeedsHold(e) /\ SameTorrents(r.d, e.d) /\ HeldFor(r, e, Present)

LEMMA RefreshAllIs ==
  ASSUME NEW r, r = [d |-> Manager, held |-> feedHandler], FeedsHold(r),
         feeds \in Seq(Feed), NEW m \in Nat, HasRoom(Manager, Len(feeds) + m)
  PROVE  AllRefreshed(r, RefreshAll) /\ HasRoom(RefreshAll.d, m)
  <1> DEFINE N == Len(feeds)
             S == [d: Managers, held: Held]
             Body(f) == [n \in 0 .. N |-> IF n = 0 THEN r ELSE Refreshed(f[n - 1], feeds[n])]
             f == CHOOSE g : g = Body(g)
             In(n, x) == AllRefreshed(r, x) /\ HasRoom(x.d, N - n + m)
             G == [n \in 0 .. N |-> {x \in S : In(n, x)}]
             step == [n \in 1 .. N |-> [x \in S |-> IF In(n - 1, x) THEN Refreshed(x, feeds[n]) ELSE x]]
  <1>0. N \in Nat /\ \A n \in 1 .. N : feeds[n] \in Feed /\ feeds[n] \in Present
    BY LenProperties, ElementOfSeq DEF Present
  <1>1. RefreshAll = f[N]
    BY DEF RefreshAll
  <1>2. r \in S /\ In(0, r)
    <2>1. r.d = Manager /\ r.held = feedHandler
      OBVIOUS
    <2>2. r.d \in Managers /\ r.held \in Held
      BY DEF FeedsHold, Sound, SoundBut
    <2>3. HasRoom(r.d, N - 0 + m)
      BY <1>0, <2>1
    <2>4. AllRefreshed(r, r)
      BY DEF AllRefreshed, SameTorrents, HeldFor
    <2>5. QED BY <2>1, <2>2, <2>3, <2>4
  <1> HIDE DEF N
  <1>3. ASSUME NEW n \in 1 .. N, NEW x, In(n - 1, x)
        PROVE  In(n, Refreshed(x, feeds[n])) /\ Refreshed(x, feeds[n]) \in S
    <2> DEFINE e == Refreshed(x, feeds[n])
               k == N - n + m
    <2>1. k \in Nat /\ N - (n - 1) + m = k + 1
      BY <1>0
    <2>2. FeedsHold(x) /\ HasRoom(x.d, k + 1) /\ SameTorrents(r.d, x.d) /\ HeldFor(r, x, Present)
      BY <1>3, <2>1 DEF AllRefreshed
    <2>3. feeds[n] \in Feed /\ feeds[n] \in Present
      BY <1>0
    <2>e. e = Refreshed(x, feeds[n])
      OBVIOUS
    <2> HIDE DEF k
    <2>4. FeedsHold(e) /\ HasRoom(e.d, k) /\ SameTorrents(x.d, e.d) /\ HeldFor(x, e, {feeds[n]})
      BY <2>1, <2>2, <2>3, RefreshedIs
    <2>5. e \in S
      <3>1. e.d \in Managers /\ e.held \in Held
        BY <2>4 DEF FeedsHold, Sound, SoundBut
      <3>2. e = [d |-> e.d, held |-> e.held]
        BY DEF Refreshed
      <3>3. QED BY <3>1, <3>2
    <2> HIDE DEF e
    <2>6. SameTorrents(r.d, e.d)
      BY <2>2, <2>4 DEF SameTorrents
    <2>7. HeldFor(r, e, Present)
      BY <2>2, <2>3, <2>4 DEF HeldFor
    <2>8. In(n, e)
      BY <2>4, <2>6, <2>7 DEF AllRefreshed, k
    <2>9. QED BY <2>5, <2>8 DEF e
  <1> HIDE DEF In, S, f
  <1>4. f = Body(f)
    <2>1. step \in [1 .. N -> [S -> S]]
      BY <1>0, <1>3
    <2>2. r \in G[0]
      BY <1>0, <1>2
    <2>3. ASSUME NEW n \in 1 .. N, NEW x \in S, x \in G[n - 1] PROVE step[n][x] \in G[n]
      <3>1. In(n - 1, x)
        BY <1>0, <2>3
      <3>2. step[n][x] = Refreshed(x, feeds[n])
        BY <3>1
      <3>3. QED BY <1>0, <1>3, <3>1, <3>2
    <2>4. PICK g \in [0 .. N -> S] : Iterates(g, N, r, step) /\ \A n \in 0 .. N : g[n] \in G[n]
      <3> HIDE DEF G, step
      <3>1. QED BY <1>0, <1>2, <2>1, <2>2, <2>3, IteratedIn
    <2>5. ASSUME NEW n \in 1 .. N PROVE g[n] = Refreshed(g[n - 1], feeds[n])
      <3>1. n - 1 \in 0 .. N
        BY <1>0
      <3>2. g[n - 1] \in S /\ In(n - 1, g[n - 1])
        BY <2>4, <3>1
      <3>3. g[n] = step[n][g[n - 1]]
        BY <2>4 DEF Iterates
      <3>4. QED BY <3>2, <3>3
    <2>6. g = Body(g)
      BY <1>0, <2>4, <2>5 DEF Iterates
    <2>7. QED BY <2>6 DEF f
  <1> DEFINE P == {n \in 0 .. N : In(n, f[n])}
  <1>5. 0 \in P
    BY <1>0, <1>2, <1>4
  <1>6. ASSUME NEW n \in 1 .. N, n - 1 \in P PROVE n \in P
    <2>1. f[n] = Refreshed(f[n - 1], feeds[n])
      <3>1. Body(f)[n] = Refreshed(f[n - 1], feeds[n])
        BY <1>0
      <3> HIDE DEF Body
      <3>2. QED BY <1>4, <3>1
    <2>2. QED BY <1>0, <1>3, <1>6, <2>1
  <1>7. \A n \in 0 .. N : n \in P
    <2> HIDE DEF P
    <2>1. QED BY <1>0, <1>5, <1>6, UpTo
  <1>8. In(N, RefreshAll)
    BY <1>0, <1>1, <1>7
  <1>9. QED BY <1>0, <1>8 DEF In

\* DownloadIcons
LEMMA DownloadIconsIs ==
  ASSUME NEW d, Sound(d), feeds \in Seq(Feed), HasRoom(d, Len(feeds)),
         NEW e, e = DownloadIcons(d)
  PROVE  Sound(e) /\ Same(d, e, {<<"nobody">>})
  <1> DEFINE N == Len(feeds)
             Body(f) == [n \in 0 .. N |->
                           IF n = 0 THEN d
                           ELSE IF feeds[n] \in iconless THEN DownloadIcon(f[n - 1], feeds[n])
                           ELSE f[n - 1]]
             f == CHOOSE g : g = Body(g)
             In(n, x) == Sound(x) /\ Same(d, x, {<<"nobody">>}) /\ HasRoom(x, N - n)
             Next1(n, x) == IF feeds[n] \in iconless THEN DownloadIcon(x, feeds[n]) ELSE x
             G == [n \in 0 .. N |-> {x \in Managers : In(n, x)}]
             step == [n \in 1 .. N |-> [x \in Managers |-> IF In(n - 1, x) THEN Next1(n, x) ELSE x]]
  <1>0. N \in Nat /\ \A n \in 1 .. N : feeds[n] \in Feed
    BY LenProperties, ElementOfSeq
  <1>1. e = f[N]
    BY DEF DownloadIcons
  <1>2. d \in Managers /\ In(0, d)
    BY <1>0 DEF Sound, SoundBut, Same
  <1> HIDE DEF N
  <1>3. ASSUME NEW n \in 1 .. N, NEW x, In(n - 1, x)
        PROVE  In(n, Next1(n, x)) /\ Next1(n, x) \in Managers
    <2> DEFINE k == N - n
    <2>1. k \in Nat /\ N - (n - 1) = k + 1
      BY <1>0
    <2>2. Sound(x) /\ Same(d, x, {<<"nobody">>}) /\ HasRoom(x, k + 1) /\ x \in Managers
      BY <1>3, <2>1 DEF Sound, SoundBut
    <2> HIDE DEF k
    <2>3. CASE feeds[n] \in iconless
      <3> DEFINE b == DownloadIcon(x, feeds[n])
                 o == <<"nobody">>
                 i == NextHandler(x)
      <3>1. o \in Owner /\ ServiceOf[feeds[n]] \in Service
        BY <1>0, RssAssumption DEF Owner
      <3>2. b = Download(x, o, ServiceOf[feeds[n]]) /\ i = NextHandler(x)
        BY DEF DownloadIcon
      <3> HIDE DEF b, o, i
      <3>3. Begun(x, b, o, i) /\ HasRoom(b, k)
        BY <2>1, <2>2, <3>1, <3>2, DownloadFor
      <3>4. Sound(b) /\ Same(x, b, {o}) /\ b \in Managers
        BY <3>3 DEF Begun, Sound, SoundBut
      <3>5. Same(d, b, {<<"nobody">>})
        BY <2>2, <3>4 DEF Same, o
      <3>6. Next1(n, x) = b
        BY <2>3 DEF b
      <3>7. QED BY <3>3, <3>4, <3>5, <3>6 DEF k
    <2>4. CASE feeds[n] \notin iconless
      <3>1. Next1(n, x) = x
        BY <2>4
      <3>2. HasRoom(x, k)
        <4>1. /\ Cardinality(DOMAIN x.handler) \in Nat /\ Cardinality(Handler) \in Nat
          BY <2>2, Rooms
        <4>2. QED BY <2>1, <2>2, <4>1 DEF HasRoom
      <3>3. QED BY <2>2, <3>1, <3>2 DEF k
    <2>5. QED BY <2>3, <2>4
  <1> HIDE DEF In, Next1, f
  <1>4. f = Body(f)
    <2>1. step \in [1 .. N -> [Managers -> Managers]]
      BY <1>0, <1>3
    <2>2. d \in G[0]
      BY <1>0, <1>2
    <2>3. ASSUME NEW n \in 1 .. N, NEW x \in Managers, x \in G[n - 1] PROVE step[n][x] \in G[n]
      <3>1. In(n - 1, x)
        BY <1>0, <2>3
      <3>2. step[n][x] = Next1(n, x)
        BY <3>1
      <3>3. QED BY <1>0, <1>3, <3>1, <3>2
    <2>4. PICK g \in [0 .. N -> Managers] : Iterates(g, N, d, step) /\ \A n \in 0 .. N : g[n] \in G[n]
      <3> HIDE DEF G, step
      <3>1. QED BY <1>0, <1>2, <2>1, <2>2, <2>3, IteratedIn
    <2>5. ASSUME NEW n \in 1 .. N PROVE g[n] = Next1(n, g[n - 1])
      <3>1. n - 1 \in 0 .. N
        BY <1>0
      <3>2. g[n - 1] \in Managers /\ In(n - 1, g[n - 1])
        BY <2>4, <3>1
      <3>3. g[n] = step[n][g[n - 1]]
        BY <2>4 DEF Iterates
      <3>4. QED BY <3>2, <3>3
    <2>6. g = Body(g)
      BY <1>0, <2>4, <2>5 DEF Iterates, Next1
    <2>7. QED BY <2>6 DEF f
  <1> DEFINE P == {n \in 0 .. N : In(n, f[n])}
  <1>5. 0 \in P
    BY <1>0, <1>2, <1>4
  <1>6. ASSUME NEW n \in 1 .. N, n - 1 \in P PROVE n \in P
    <2>1. f[n] = Next1(n, f[n - 1])
      <3>0. n \in 0 .. N /\ n # 0
        BY <1>0
      <3>1. Body(f)[n] = Next1(n, f[n - 1])
        BY <3>0 DEF Next1
      <3> HIDE DEF Body
      <3>2. QED BY <1>4, <3>1
    <2>2. QED BY <1>0, <1>3, <1>6, <2>1
  <1>7. \A n \in 0 .. N : n \in P
    <2> HIDE DEF P
    <2>1. QED BY <1>0, <1>5, <1>6, UpTo
  <1>8. In(N, e)
    BY <1>0, <1>1, <1>7
  <1>9. QED BY <1>8 DEF In

-----------------------------------------------------------------------------
(* Articles                                                                   *)

\* The sequence s has the elements of S.
Lists(s, S) == s \in Seq(S) /\ \A x \in S : \E n \in DOMAIN s : s[n] = x

Ascends(s) == \A i, j \in DOMAIN s : i < j => s[i] < s[j]

\* Numbers can be put in order.
LEMMA Ordered ==
  ASSUME NEW S \in SUBSET Nat, IsFiniteSet(S)
  PROVE  \E s \in [1 .. Cardinality(S) -> S] : Ascends(s)
  <1> DEFINE N == Cardinality(S)
             Can(T, k) == \E s \in [1 .. k -> T] : Ascends(s)
             P == {k \in 0 .. N : \A T \in SUBSET S : Cardinality(T) = k => Can(T, k)}
  <1>1. N \in Nat
    BY FS_CardinalityType
  <1>2. 0 \in P
    <2>1. ASSUME NEW T \in SUBSET S PROVE Can(T, 0)
      <3> DEFINE s == [i \in 1 .. 0 |-> i]
      <3>1. s \in [1 .. 0 -> T] /\ Ascends(s)
        BY DEF Ascends
      <3> HIDE DEF s
      <3>2. QED BY <3>1
    <2>2. QED BY <1>1, <2>1
  <1>3. ASSUME NEW k \in 1 .. N, k - 1 \in P PROVE k \in P
    <2>1. ASSUME NEW T \in SUBSET S, Cardinality(T) = k PROVE Can(T, k)
      <3>a. IsFiniteSet(T)
        BY FS_Subset
      <3>b. T # {}
        BY <2>1, FS_EmptySet
      <3>1. IsFiniteSet(T) /\ T # {}
        BY <3>a, <3>b
      <3>2. PICK m \in T : \A y \in T : m <= y
        BY <3>1, Least
      <3> DEFINE U == T \ {m}
      <3>3. Cardinality(U) = k - 1 /\ U \in SUBSET S
        BY <2>1, <3>1, FS_RemoveElement
      <3>4. PICK s \in [1 .. k - 1 -> U] : Ascends(s)
        BY <1>3, <3>3
      <3> DEFINE g == [i \in 1 .. k |-> IF i = 1 THEN m ELSE s[i - 1]]
      <3>5. g \in [1 .. k -> T]
        BY <1>1
      <3>6. ASSUME NEW i \in 1 .. k, NEW j \in 1 .. k, i < j PROVE g[i] < g[j]
        <4>1. g[j] = s[j - 1] /\ j - 1 \in 1 .. k - 1 /\ s[j - 1] \in U
          BY <1>1, <3>6
        <4>2. CASE i = 1
          <5>1. g[i] = m
            BY <4>2
          <5>2. m <= s[j - 1] /\ m # s[j - 1] /\ m \in Nat /\ s[j - 1] \in Nat
            BY <3>2, <4>1
          <5>3. QED BY <4>1, <5>1, <5>2
        <4>3. CASE i # 1
          <5>1. g[i] = s[i - 1] /\ i - 1 \in 1 .. k - 1 /\ i - 1 < j - 1
            BY <1>1, <3>6, <4>3
          <5>2. QED BY <3>4, <4>1, <5>1 DEF Ascends
        <4>4. QED BY <4>2, <4>3
      <3>7. Ascends(g)
        BY <3>6 DEF Ascends
      <3> HIDE DEF g
      <3>8. QED BY <3>5, <3>7
    <2> HIDE DEF Can
    <2>2. QED BY <1>1, <2>1
  <1>4. \A k \in 0 .. N : k \in P
    <2> HIDE DEF P, N
    <2>1. QED BY <1>1, <1>2, <1>3, UpTo
  <1>5. Can(S, N)
    BY <1>1, <1>4
  <1>6. QED BY <1>5

LEMMA OldestFirstIs ==
  ASSUME NEW S \in SUBSET Article
  PROVE  Lists(OldestFirst(S), S)
  <1> DEFINE N == Cardinality(S)
             s == OldestFirst(S)
  <1>1. S \in SUBSET Nat /\ IsFiniteSet(S)
    BY RssAssumption, FS_Subset
  <1>2. s \in [1 .. N -> S] /\ \A i, j \in DOMAIN s : i < j => s[i] < s[j]
    BY <1>1, Ordered DEF OldestFirst, Ascends
  <1>3. N \in Nat
    BY <1>1, FS_CardinalityType
  <1> HIDE DEF s, N
  <1>4. s \in Injection(1 .. N, S)
    <2>1. ASSUME NEW i \in 1 .. N, NEW j \in 1 .. N, s[i] = s[j] PROVE i = j
      <3>1. s[i] \in Nat /\ s[j] \in Nat
        BY <1>1, <1>2
      <3>2. ~(i < j) /\ ~(j < i)
        BY <1>2, <2>1, <3>1
      <3>3. QED BY <1>3, <3>2
    <2>2. QED BY <1>2, <2>1 DEF Injection, IsInjective
  <1>5. IsFiniteSet(1 .. N) /\ Cardinality(1 .. N) = N
    BY <1>3, FS_Interval
  <1>6. s \in Surjection(1 .. N, S)
    BY <1>1, <1>4, <1>5, FS_Injection DEF N
  <1>7. \A x \in S : \E n \in DOMAIN s : s[n] = x
    BY <1>2, <1>6 DEF Surjection
  <1>8. s \in Seq(S)
    BY <1>2, <1>3, IsASeq
  <1>9. QED BY <1>7, <1>8 DEF Lists, s

LEMMA RecentFirstIs ==
  ASSUME NEW S \in SUBSET Article
  PROVE  Lists(RecentFirst(S), S)
  <1> DEFINE s == OldestFirst(S)
             r == RecentFirst(S)
  <1>1. s \in Seq(S) /\ \A x \in S : \E n \in DOMAIN s : s[n] = x
    BY OldestFirstIs DEF Lists
  <1>2. r = [i \in 1 .. Len(s) |-> s[(Len(s) - i) + 1]]
    BY DEF RecentFirst, Reverse
  <1>3. Len(s) \in Nat /\ DOMAIN s = 1 .. Len(s) /\ \A i \in 1 .. Len(s) : s[i] \in S
    BY <1>1, LenProperties, ElementOfSeq
  <1> HIDE DEF s, r
  <1>4. r \in [1 .. Len(s) -> S]
    <2>1. ASSUME NEW i \in 1 .. Len(s) PROVE s[(Len(s) - i) + 1] \in S
      <3>1. (Len(s) - i) + 1 \in 1 .. Len(s)
        BY <1>3
      <3>2. QED BY <1>3, <3>1
    <2>2. QED BY <1>2, <2>1
  <1>5. ASSUME NEW x \in S PROVE \E n \in DOMAIN r : r[n] = x
    <2>1. PICK n \in 1 .. Len(s) : s[n] = x
      BY <1>1, <1>3
    <2>2. (Len(s) - n) + 1 \in 1 .. Len(s) /\ (Len(s) - ((Len(s) - n) + 1)) + 1 = n
      BY <1>3
    <2>3. r[(Len(s) - n) + 1] = x
      BY <1>2, <2>1, <2>2
    <2>4. QED BY <1>4, <2>2, <2>3
  <1>6. r \in Seq(S)
    BY <1>3, <1>4, IsASeq
  <1>7. QED BY <1>5, <1>6 DEF Lists, r

\* A feed keeps as many articles as it may.
LEMMA KeptIs ==
  ASSUME NEW S \in SUBSET Article
  PROVE  Kept(S) \subseteq S /\ IsFiniteSet(Kept(S)) /\ Cardinality(Kept(S)) <= MaxArticles
  <1> DEFINE Later(a) == {b \in S : b > a}
             K == Kept(S)
  <1>1. S \in SUBSET Nat /\ IsFiniteSet(S) /\ MaxArticles \in Nat
    BY RssAssumption, FS_Subset
  <1>2. K \subseteq S /\ \A a \in K : Cardinality(Later(a)) < MaxArticles
    BY DEF Kept
  <1>3. IsFiniteSet(K) /\ K \in SUBSET Nat
    BY <1>1, <1>2, FS_Subset
  <1> HIDE DEF K
  <1>4. CASE K = {}
    BY <1>1, <1>2, <1>3, <1>4, FS_EmptySet DEF K
  <1>5. CASE K # {}
    <2>1. PICK m \in K : \A y \in K : m <= y
      BY <1>3, <1>5, Least
    <2>2. K \subseteq Later(m) \cup {m}
      BY <1>1, <1>2, <1>3, <2>1
    <2>a. IsFiniteSet(Later(m))
      BY <1>1, FS_Subset
    <2>3. IsFiniteSet(Later(m)) /\ Cardinality(Later(m)) < MaxArticles
      BY <1>2, <2>a
    <2>4. /\ IsFiniteSet(Later(m) \cup {m}) /\ Cardinality(Later(m)) \in Nat
          /\ Cardinality(Later(m) \cup {m}) <= Cardinality(Later(m)) + 1
      <3>1. Cardinality(Later(m)) \in Nat
        <4>1. \A L : IsFiniteSet(L) => Cardinality(L) \in Nat
          BY FS_CardinalityType
        <4>2. QED BY <2>a, <4>1
      <3>2. QED BY <2>3, <3>1, FS_AddElement
    <2>5. Cardinality(K) <= Cardinality(Later(m) \cup {m}) /\ Cardinality(K) \in Nat
          /\ Cardinality(Later(m) \cup {m}) \in Nat
      BY <1>3, <2>2, <2>4, FS_Subset, FS_CardinalityType
    <2>6. QED BY <1>1, <1>2, <1>3, <2>3, <2>4, <2>5 DEF K
  <1>6. QED BY <1>4, <1>5

-----------------------------------------------------------------------------
(* The queue of the downloader                                                *)

NoJob(a) == waitingJobs[UrlOf[a]] = << >>

\* r is q with those of the articles as for whose URL no job waits.
Takes(q, as, r) ==
    /\ ToSet(q) \subseteq ToSet(r)
    /\ \A n \in DOMAIN as : NoJob(as[n]) => as[n] \in ToSet(r)
    /\ r # << >> => q # << >> \/ \E n \in DOMAIN as : NoJob(as[n])

LEMMA QueuedIs ==
  ASSUME NEW q \in Seq(Article), NEW as \in Seq(Article), NEW r, r = Queued(q, as)
  PROVE  r \in Seq(Article) /\ Takes(q, as, r)
  <1> DEFINE N == Len(as)
             S == Seq(Article)
             Next1(n, x) == IF waitingJobs[UrlOf[as[n]]] # << >> THEN x ELSE Append(x, as[n])
             Body(f) == [n \in 0 .. N |->
                           IF n = 0 THEN q
                           ELSE IF waitingJobs[UrlOf[as[n]]] # << >> THEN f[n - 1]
                           ELSE Append(f[n - 1], as[n])]
             f == CHOOSE g : g = Body(g)
             In(n, x) == /\ x \in S
                         /\ ToSet(q) \subseteq ToSet(x)
                         /\ \A k \in 1 .. n : NoJob(as[k]) => as[k] \in ToSet(x)
                         /\ x # << >> => q # << >> \/ \E k \in 1 .. n : NoJob(as[k])
             G == [n \in 0 .. N |-> {x \in S : In(n, x)}]
             step == [n \in 1 .. N |-> [x \in S |-> Next1(n, x)]]
  <1>0. N \in Nat /\ DOMAIN as = 1 .. N /\ \A n \in 1 .. N : as[n] \in Article
    BY LenProperties, ElementOfSeq
  <1>1. r = f[N]
    BY DEF Queued
  <1>2. q \in S /\ In(0, q)
    BY DEF ToSet
  <1> HIDE DEF N
  <1>3. ASSUME NEW n \in 1 .. N, NEW x \in S, In(n - 1, x)
        PROVE  In(n, Next1(n, x))
    <2>1. ASSUME NEW k \in 1 .. n PROVE k = n \/ k \in 1 .. n - 1
      BY <1>0
    <2>2. n \in 1 .. n /\ \A k \in 1 .. n - 1 : k \in 1 .. n
      BY <1>0
    <2>3. CASE ~NoJob(as[n])
      <3>1. Next1(n, x) = x
        BY <2>3 DEF NoJob
      <3>2. QED BY <1>3, <2>1, <2>2, <2>3, <3>1
    <2>4. CASE NoJob(as[n])
      <3> DEFINE y == Append(x, as[n])
      <3>1. Next1(n, x) = y
        BY <2>4 DEF NoJob
      <3>2. /\ y \in S /\ Len(x) \in Nat /\ DOMAIN x = 1 .. Len(x)
            /\ DOMAIN y = 1 .. Len(x) + 1
            /\ \A i \in 1 .. Len(x) : y[i] = x[i]
            /\ y[Len(x) + 1] = as[n]
        <4> DEFINE a == as[n]
        <4>1. x \in Seq(Article) /\ a \in Article
          BY <1>0
        <4>2. y = Append(x, a)
          OBVIOUS
        <4> HIDE DEF y, a
        <4>3. /\ y \in Seq(Article) /\ Len(x) \in Nat /\ DOMAIN x = 1 .. Len(x)
              /\ DOMAIN y = 1 .. Len(x) + 1
              /\ \A i \in 1 .. Len(x) : y[i] = x[i]
              /\ y[Len(x) + 1] = a
          BY <4>1, <4>2, AppendIn
        <4>4. QED BY <4>3 DEF a
      <3> HIDE DEF y
      <3>3. ToSet(x) \subseteq ToSet(y) /\ as[n] \in ToSet(y)
        <4>1. DOMAIN x \subseteq DOMAIN y /\ Len(x) + 1 \in DOMAIN y
          BY <3>2
        <4>2. QED BY <3>2, <4>1 DEF ToSet
      <3>4. ToSet(q) \subseteq ToSet(y)
        BY <1>3, <3>3
      <3>5. \A k \in 1 .. n : NoJob(as[k]) => as[k] \in ToSet(y)
        BY <1>3, <2>1, <3>3
      <3>6. \E k \in 1 .. n : NoJob(as[k])
        BY <2>2, <2>4
      <3>7. QED BY <3>1, <3>2, <3>4, <3>5, <3>6
    <2>5. QED BY <2>3, <2>4
  <1>n. ASSUME NEW n \in 1 .. N, NEW x \in S PROVE Next1(n, x) \in S
    BY <1>0, AppendIn
  <1>i. ASSUME NEW n, NEW x, In(n, x) PROVE x \in S
    BY <1>i
  <1> HIDE DEF In, Next1, f, S
  <1>4. f = Body(f)
    <2>1. step \in [1 .. N -> [S -> S]]
      BY <1>n
    <2>2. q \in G[0]
      BY <1>0, <1>2
    <2>3. ASSUME NEW n \in 1 .. N, NEW x \in S, x \in G[n - 1] PROVE step[n][x] \in G[n]
      <3>1. In(n - 1, x)
        BY <1>0, <2>3
      <3>2. step[n][x] = Next1(n, x)
        OBVIOUS
      <3>3. In(n, Next1(n, x)) /\ Next1(n, x) \in S
        BY <1>3, <1>n, <3>1
      <3>4. QED BY <1>0, <3>2, <3>3
    <2>4. PICK g \in [0 .. N -> S] : Iterates(g, N, q, step) /\ \A n \in 0 .. N : g[n] \in G[n]
      <3> HIDE DEF G, step
      <3>1. QED BY <1>0, <1>2, <2>1, <2>2, <2>3, IteratedIn
    <2>5. ASSUME NEW n \in 1 .. N PROVE g[n] = Next1(n, g[n - 1])
      <3>1. n - 1 \in 0 .. N
        BY <1>0
      <3>2. g[n - 1] \in S
        BY <2>4, <3>1
      <3>3. g[n] = step[n][g[n - 1]]
        BY <2>4 DEF Iterates
      <3>4. QED BY <3>2, <3>3
    <2>6. g = Body(g)
      BY <1>0, <2>4, <2>5 DEF Iterates, Next1
    <2>7. QED BY <2>6 DEF f
  <1> DEFINE P == {n \in 0 .. N : In(n, f[n])}
  <1>5. 0 \in P
    BY <1>0, <1>2, <1>4
  <1>6. ASSUME NEW n \in 1 .. N, n - 1 \in P PROVE n \in P
    <2>1. f[n] = Next1(n, f[n - 1])
      <3>0. n \in 0 .. N /\ n # 0
        BY <1>0
      <3>1. Body(f)[n] = Next1(n, f[n - 1])
        BY <3>0 DEF Next1
      <3> HIDE DEF Body
      <3>2. QED BY <1>4, <3>1
    <2>2. In(n - 1, f[n - 1]) /\ f[n - 1] \in S
      BY <1>6, <1>i
    <2>3. QED BY <1>3, <2>1, <2>2
  <1>7. \A n \in 0 .. N : n \in P
    <2> HIDE DEF P
    <2>1. QED BY <1>0, <1>5, <1>6, UpTo
  <1>8. In(N, r)
    BY <1>0, <1>1, <1>7
  <1>9. QED BY <1>0, <1>8 DEF In, S, Takes

-----------------------------------------------------------------------------
(* The inductive invariant, in four parts, each of the state that it is about.  *)

T(u) == <<"torrent", u>>

\* The manager, and the handlers that the feeds fs hold
FeedsPart(d, held, fs) ==
    /\ Sound(d) /\ held \in Held /\ HeldBy(d, held)
    /\ \A f \in Feed : held[f] # << >> => \E n \in DOMAIN fs : fs[n] = f

(* The jobs w that wait and the parameters ps: a job is for an article of its URL
   and waits for a download, if that can be; and a URL that was not downloaded
   twice at a time has one download at most, for which there are parameters. *)
JobsPart(d, w, ps, os, pl) ==
    /\ w \in [Url -> {<< >>} \cup {<<a>> : a \in Article}]
    /\ ps \subseteq Url /\ os \subseteq Url /\ pl \subseteq os
    /\ \A u \in Url : w[u] # << >> => UrlOf[w[u][1]] = u
    /\ \A u \in Downloadable : w[u] # << >> => Downloading(d, T(u)) # {}
    /\ \A u \in Url : u \notin os =>
          \A i, j \in Downloading(d, T(u)) : i = j /\ u \in ps

UnreadIn(as) == {a \in Article : a \in DOMAIN as[FeedOf[a]] /\ as[FeedOf[a]][a] = "unread"}

\* The articles as of the feeds, and the URLs ob that were obtained
ArticlesPart(as, ob) ==
    /\ as \in [Feed -> UNION {[D -> ArticleState] : D \in SUBSET Article}]
    /\ ob \subseteq Url
    /\ \A f \in Feed : /\ \A a \in DOMAIN as[f] : FeedOf[a] = f
                       /\ Cardinality(DOMAIN as[f]) <= MaxArticles
    /\ \A f \in Feed : \A a \in DOMAIN as[f] : as[f][a] = "read" => UrlOf[a] \in ob

\* The queue q of the downloader, its timer t, and what it looked at
QueuePart(as, en, q, t, h) ==
    /\ en \in BOOLEAN /\ t \in BOOLEAN /\ q \in Seq(Article) /\ h \subseteq Article
    /\ en => UnreadIn(as) \subseteq ToSet(q) \cup h
    /\ q # << >> => t

RestPart ==
    /\ processing \in BOOLEAN
    /\ feeds \in Seq(Feed)
    /\ iconless \subseteq Present /\ loading \subseteq Present
    /\ parsing \in [Feed -> Nat]
    /\ rule \in [enabled: BOOLEAN, matched: SUBSET Episode, computed: SUBSET Episode]

Inv ==
    /\ FeedsPart(Manager, feedHandler, feeds)
    /\ JobsPart(Manager, waitingJobs, params, overlapped, plain)
    /\ ArticlesPart(articles, obtained)
    /\ QueuePart(articles, enabled, queue, timer, handled)
    /\ RestPart

\* What the parts keep when others take a step

LEMMA DownloadableIs == Downloadable \subseteq Url
  BY DEF Downloadable

LEMMA FeedsKept ==
  ASSUME NEW d, NEW e, NEW held, NEW fs, FeedsPart(d, held, fs), Sound(e),
         Same(d, e, {}) \/ Same(d, e, {<<"nobody">>}) \/ \E u : Same(d, e, {T(u)})
  PROVE  FeedsPart(e, held, fs)
  <1>1. ASSUME NEW f \in Feed PROVE Downloading(e, <<"feed", f>>) = Downloading(d, <<"feed", f>>)
    <2>1. <<"feed", f>> # <<"nobody">> /\ \A u : <<"feed", f>> # T(u)
      BY DEF T
    <2>2. QED BY <2>1 DEF Same
  <1>2. HeldBy(e, held)
    BY <1>1 DEF FeedsPart, HeldBy
  <1>3. QED BY <1>2 DEF FeedsPart

LEMMA JobsKept ==
  ASSUME NEW d, NEW e, NEW w, NEW ps, NEW os, NEW pl, JobsPart(d, w, ps, os, pl),
         SameTorrents(d, e)
  PROVE  JobsPart(e, w, ps, os, pl)
  <1>1. \A u \in Url : Downloading(e, T(u)) = Downloading(d, T(u))
    BY DEF SameTorrents, T
  <1>2. QED BY <1>1, DownloadableIs DEF JobsPart

\* The reply of i ends, whose owner is told.
LEMMA FeedsAtEnd ==
  ASSUME NEW d, NEW e, NEW held, NEW fs, FeedsPart(d, held, fs), NEW i \in DOMAIN d.handler,
         Sound(e), Loses(d, e, i),
         NEW h \in Held,
         \A g \in Feed : h[g] # << >> => h[g] = held[g] /\ d.handler[i].owner # <<"feed", g>>
  PROVE  FeedsPart(e, h, fs)
  <1>1. ASSUME NEW g \in Feed, h[g] # << >> PROVE h[g][1] \in Downloading(e, <<"feed", g>>)
    <2>1. h[g] = held[g] /\ d.handler[i].owner # <<"feed", g>>
      BY <1>1
    <2>2. held[g][1] \in Downloading(d, <<"feed", g>>)
      BY <1>1, <2>1 DEF FeedsPart, HeldBy
    <2>3. i \notin Downloading(d, <<"feed", g>>)
      BY <2>1 DEF Downloading
    <2>4. QED BY <2>1, <2>2, <2>3 DEF Loses
  <1>2. HeldBy(e, h)
    BY <1>1 DEF HeldBy
  <1>3. QED BY <1>2 DEF FeedsPart

LEMMA JobsAtOtherEnd ==
  ASSUME NEW d, NEW e, NEW w, NEW ps, NEW os, NEW pl, JobsPart(d, w, ps, os, pl),
         NEW i \in DOMAIN d.handler, Loses(d, e, i),
         \A u \in Url : d.handler[i].owner # T(u)
  PROVE  JobsPart(e, w, ps, os, pl)
  <1>1. ASSUME NEW u \in Url PROVE Downloading(e, T(u)) = Downloading(d, T(u))
    <2>1. i \notin Downloading(d, T(u))
      BY DEF Downloading
    <2>2. QED BY <2>1 DEF Loses
  <1>2. SameTorrents(d, e)
    BY <1>1 DEF SameTorrents, T
  <1>3. QED BY <1>2, JobsKept

LEMMA JobsAtEnd ==
  ASSUME NEW d, NEW e, NEW w, NEW ps, NEW os, NEW pl, JobsPart(d, w, ps, os, pl),
         NEW i \in DOMAIN d.handler, Loses(d, e, i), Live(d.handler[i]),
         NEW u \in Url, d.handler[i].owner = T(u),
         NEW w2, w2 = [w EXCEPT ![u] = << >>],
         NEW ps2, ps2 = ps \/ ps2 = ps \ {u},
         NEW pl2, pl2 = pl \/ (u \notin ps /\ pl2 = pl \cup {u})
  PROVE  JobsPart(e, w2, ps2, os, pl2)
  <1>1. i \in Downloading(d, T(u))
    BY DEF Downloading
  <1>2. ASSUME NEW v \in Url, v # u PROVE Downloading(e, T(v)) = Downloading(d, T(v))
    <2>1. T(v) # T(u)
      BY <1>2 DEF T
    <2>2. i \notin Downloading(d, T(v))
      BY <2>1 DEF Downloading
    <2>3. QED BY <2>2 DEF Loses
  <1>3. u \notin os => u \in ps /\ Downloading(e, T(u)) = {}
    <2>1. ASSUME u \notin os PROVE u \in ps /\ \A j \in Downloading(d, T(u)) : j = i
      BY <1>1, <2>1 DEF JobsPart
    <2>2. QED BY <2>1 DEF Loses
  <1>4. /\ w2 \in [Url -> {<< >>} \cup {<<a>> : a \in Article}]
        /\ w2[u] = << >> /\ \A v \in Url : v # u => w2[v] = w[v]
    BY DEF JobsPart
  <1>5. ps2 \subseteq Url /\ os \subseteq Url /\ pl2 \subseteq os
    BY <1>3 DEF JobsPart
  <1>6. ASSUME NEW v \in Url, w2[v] # << >>
        PROVE  UrlOf[w2[v][1]] = v /\ (v \in Downloadable => Downloading(e, T(v)) # {})
    BY <1>2, <1>4, <1>6 DEF JobsPart
  <1>7. ASSUME NEW v \in Url, v \notin os, NEW j \in Downloading(e, T(v)), NEW k \in Downloading(e, T(v))
        PROVE  j = k /\ v \in ps2
    <2>1. v # u
      BY <1>3, <1>7
    <2>2. QED BY <1>2, <1>7, <2>1 DEF JobsPart
  <1>8. QED BY <1>4, <1>5, <1>6, <1>7, DownloadableIs DEF JobsPart

\* Someone downloads a torrent by its URL.
LEMMA JobsAtStart ==
  ASSUME NEW d, NEW e, NEW w, NEW ps, NEW os, NEW pl, JobsPart(d, w, ps, os, pl),
         NEW u \in Url, NEW i, Begun(d, e, T(u), i),
         NEW w2, w2 = w \/ \E a \in Article : UrlOf[a] = u /\ w2 = [w EXCEPT ![u] = <<a>>],
         NEW os2, os2 = IF Downloading(d, T(u)) # {} THEN os \cup {u} ELSE os
  PROVE  JobsPart(e, w2, ps \cup {u}, os2, pl)
  <1>1. Downloading(e, T(u)) = Downloading(d, T(u)) \cup {i}
    BY DEF Begun
  <1>2. ASSUME NEW v \in Url, v # u PROVE Downloading(e, T(v)) = Downloading(d, T(v))
    <2>1. T(v) # T(u)
      BY <1>2 DEF T
    <2>2. QED BY <2>1 DEF Begun, Same
  <1>3. /\ w2 \in [Url -> {<< >>} \cup {<<a>> : a \in Article}]
        /\ w2[u] # << >> => UrlOf[w2[u][1]] = u
        /\ \A v \in Url : v # u => w2[v] = w[v]
    <2>1. CASE w2 = w
      BY <2>1 DEF JobsPart
    <2>2. CASE w2 # w
      <3>1. PICK a \in Article : UrlOf[a] = u /\ w2 = [w EXCEPT ![u] = <<a>>]
        BY <2>2
      <3>2. w2[u] = <<a>>
        BY <3>1 DEF JobsPart
      <3>3. w2[u][1] = a
        BY <3>2
      <3>4. QED BY <3>1, <3>3 DEF JobsPart
    <2>3. QED BY <2>1, <2>2
  <1>4. ps \cup {u} \subseteq Url /\ os2 \subseteq Url /\ pl \subseteq os2 /\ os \subseteq os2
    BY DEF JobsPart
  <1>5. ASSUME NEW v \in Url, w2[v] # << >>
        PROVE  UrlOf[w2[v][1]] = v /\ (v \in Downloadable => Downloading(e, T(v)) # {})
    BY <1>1, <1>2, <1>3, <1>5 DEF JobsPart
  <1>6. ASSUME NEW v \in Url, v \notin os2, NEW j \in Downloading(e, T(v)), NEW k \in Downloading(e, T(v))
        PROVE  j = k /\ v \in ps \cup {u}
    <2>1. CASE v = u
      <3>1. Downloading(d, T(u)) = {}
        BY <1>6, <2>1
      <3>2. QED BY <1>1, <1>6, <2>1, <3>1
    <2>2. CASE v # u
      BY <1>2, <1>4, <1>6, <2>2 DEF JobsPart
    <2>3. QED BY <2>1, <2>2
  <1>7. QED BY <1>3, <1>4, <1>5, <1>6, DownloadableIs DEF JobsPart

\* A job begins to wait for a URL that cannot be downloaded.
LEMMA JobsWithout ==
  ASSUME NEW d, NEW w, NEW ps, NEW os, NEW pl, JobsPart(d, w, ps, os, pl),
         NEW a \in Article, UrlOf[a] \notin Downloadable,
         NEW w2, w2 = [w EXCEPT ![UrlOf[a]] = <<a>>]
  PROVE  JobsPart(d, w2, ps, os, pl)
  <1>1. PICK u \in Url : u = UrlOf[a]
    BY RssAssumption
  <1>2. /\ w2 \in [Url -> {<< >>} \cup {<<b>> : b \in Article}]
        /\ w2[u] = <<a>> /\ \A v \in Url : v # u => w2[v] = w[v]
    BY <1>1 DEF JobsPart
  <1>3. w2[u][1] = a
    BY <1>2
  <1>4. ASSUME NEW v \in Url, w2[v] # << >>
        PROVE  UrlOf[w2[v][1]] = v /\ (v \in Downloadable => Downloading(d, T(v)) # {})
    BY <1>1, <1>2, <1>3, <1>4 DEF JobsPart
  <1>5. QED BY <1>2, <1>4, DownloadableIs DEF JobsPart

\* MarkAsRead
Marked(as, S) ==
    [f \in Feed |-> [a \in DOMAIN as[f] |->
        IF a \in S /\ as[f][a] = "unread" THEN "read" ELSE as[f][a]]]

LEMMA MarkedIs ==
  ASSUME NEW as, NEW ob, ArticlesPart(as, ob), NEW S, NEW ob2 \in SUBSET Url, ob \subseteq ob2,
         \A a \in S : UrlOf[a] \in ob2,
         NEW as2, as2 = Marked(as, S)
  PROVE  ArticlesPart(as2, ob2) /\ UnreadIn(as2) \subseteq UnreadIn(as)
  <1> DEFINE Books == UNION {[D -> ArticleState] : D \in SUBSET Article}
             m(f) == [a \in DOMAIN as[f] |-> IF a \in S /\ as[f][a] = "unread" THEN "read" ELSE as[f][a]]
  <1>1. ASSUME NEW f \in Feed
        PROVE  /\ DOMAIN as[f] \subseteq Article
               /\ \A a \in DOMAIN as[f] : as[f][a] \in ArticleState
    <2>1. as[f] \in UNION {[D -> ArticleState] : D \in SUBSET Article}
      BY DEF ArticlesPart
    <2>2. PICK D \in SUBSET Article : as[f] \in [D -> ArticleState]
      BY <2>1
    <2>3. QED BY <2>2
  <1>2. ASSUME NEW f \in Feed
        PROVE  /\ m(f) \in Books /\ DOMAIN m(f) = DOMAIN as[f]
               /\ \A a \in DOMAIN as[f] :
                     m(f)[a] = IF a \in S /\ as[f][a] = "unread" THEN "read" ELSE as[f][a]
    <2>1. m(f) \in [DOMAIN as[f] -> ArticleState] /\ DOMAIN as[f] \in SUBSET Article
      BY <1>1 DEF ArticleState
    <2>2. QED BY <2>1
  <1>3. as2 = [f \in Feed |-> m(f)]
    BY DEF Marked
  <1> HIDE DEF m, Books
  <1>4. as2 \in [Feed -> Books] /\ \A f \in Feed : as2[f] = m(f)
    BY <1>2, <1>3
  <1>5. ASSUME NEW f \in Feed
        PROVE  /\ \A a \in DOMAIN as2[f] : FeedOf[a] = f
               /\ Cardinality(DOMAIN as2[f]) <= MaxArticles
               /\ \A a \in DOMAIN as2[f] : as2[f][a] = "read" => UrlOf[a] \in ob2
    <2>1. DOMAIN as2[f] = DOMAIN as[f]
      BY <1>2, <1>4
    <2>2. /\ \A a \in DOMAIN as[f] : FeedOf[a] = f
          /\ Cardinality(DOMAIN as[f]) <= MaxArticles
          /\ \A a \in DOMAIN as[f] : as[f][a] = "read" => UrlOf[a] \in ob
      BY DEF ArticlesPart
    <2>3. ASSUME NEW a \in DOMAIN as[f], as2[f][a] = "read" PROVE UrlOf[a] \in ob2
      <3>1. as2[f][a] = IF a \in S /\ as[f][a] = "unread" THEN "read" ELSE as[f][a]
        BY <1>2, <1>4
      <3>2. QED BY <2>2, <2>3, <3>1
    <2>4. QED BY <2>1, <2>2, <2>3
  <1>6. ASSUME NEW a \in UnreadIn(as2) PROVE a \in UnreadIn(as)
    <2>1. a \in Article /\ FeedOf[a] \in Feed
      BY RssAssumption DEF UnreadIn
    <2>2. a \in DOMAIN as2[FeedOf[a]] /\ as2[FeedOf[a]][a] = "unread"
      BY DEF UnreadIn
    <2>3. a \in DOMAIN as[FeedOf[a]] /\ as[FeedOf[a]][a] = "unread"
      BY <1>2, <1>4, <2>1, <2>2
    <2>4. QED BY <2>1, <2>3 DEF UnreadIn
  <1>7. ArticlesPart(as2, ob2)
    BY <1>4, <1>5 DEF ArticlesPart, Books
  <1>8. QED BY <1>6, <1>7

LEMMA QueueKept ==
  ASSUME NEW as, NEW as2, NEW en, NEW q, NEW t, NEW h, QueuePart(as, en, q, t, h),
         UnreadIn(as2) \subseteq UnreadIn(as)
  PROVE  QueuePart(as2, en, q, t, h)
  BY DEF QueuePart

LEMMA BecomesIs ==
  ASSUME NEW e \in Managers, Becomes(e)
  PROVE  Manager' = e
  <1>1. e = [handler |-> e.handler, waiting |-> e.waiting, busy |-> e.busy,
             sequential |-> e.sequential, orphaned |-> e.orphaned]
    BY DEF Managers
  <1>2. Manager' = [handler |-> handler', waiting |-> waiting', busy |-> busy',
                    sequential |-> sequential', orphaned |-> orphaned']
    BY DEF Manager
  <1>3. QED BY <1>1, <1>2 DEF Becomes

-----------------------------------------------------------------------------
(* The steps of users and of the refresh timer                                *)

AtFeeds == [d |-> Manager, held |-> feedHandler]

LEMMA InvFeeds ==
  ASSUME Inv
  PROVE  /\ AtFeeds.d = Manager /\ AtFeeds.held = feedHandler
         /\ Sound(Manager) /\ Manager \in Managers /\ FeedsHold(AtFeeds)
         /\ feeds \in Seq(Feed) /\ Len(feeds) \in Nat /\ feedHandler \in Held
         /\ \A f \in Feed : feedHandler[f] # << >> => f \in Present
  <1>1. AtFeeds.d = Manager /\ AtFeeds.held = feedHandler
    BY DEF AtFeeds
  <1>2. Sound(Manager) /\ feedHandler \in Held /\ HeldBy(Manager, feedHandler)
    BY DEF Inv, FeedsPart
  <1>3. Manager \in Managers
    BY <1>2 DEF Sound, SoundBut
  <1>4. feeds \in Seq(Feed) /\ Len(feeds) \in Nat
    BY LenProperties DEF Inv, RestPart
  <1>5. \A f \in Feed : feedHandler[f] # << >> => f \in Present
    BY DEF Inv, FeedsPart, Present
  <1>6. QED BY <1>1, <1>2, <1>3, <1>4, <1>5 DEF FeedsHold

\* What a step leaves alone that only downloads for feeds.
Elsewhere ==
    /\ waitingJobs' = waitingJobs /\ params' = params /\ overlapped' = overlapped /\ plain' = plain
    /\ articles' = articles /\ obtained' = obtained
    /\ enabled' = enabled /\ queue' = queue /\ timer' = timer /\ handled' = handled
    /\ parsing' = parsing /\ rule' = rule

LEMMA FeedsDownload ==
  ASSUME Inv, NEW e, FeedsHold(e), SameTorrents(Manager, e.d), Becomes(e.d), feedHandler' = e.held,
         \A g \in Feed : e.held[g] # << >> => g \in Present',
         processing' \in BOOLEAN, feeds' \in Seq(Feed), iconless' \subseteq Present', loading' \subseteq Present',
         Elsewhere
  PROVE  Inv'
  <1>1. Sound(e.d) /\ e.d \in Managers /\ e.held \in Held /\ HeldBy(e.d, e.held)
    BY DEF FeedsHold, Sound, SoundBut
  <1>2. Manager' = e.d
    BY <1>1, BecomesIs
  <1>3. FeedsPart(e.d, e.held, feeds')
    BY <1>1 DEF FeedsPart, Present
  <1>4. JobsPart(e.d, waitingJobs, params, overlapped, plain)
    BY JobsKept DEF Inv
  <1>5. RestPart'
    BY DEF RestPart, Inv, Elsewhere
  <1>6. QED BY <1>2, <1>3, <1>4, <1>5 DEF Inv, Elsewhere

LEMMA RefreshStep ==
  ASSUME Inv, NEW f \in Feed, Refresh(f)
  PROVE  Inv'
  <1> DEFINE e == Refreshed(AtFeeds, f)
  <1>1. /\ f \in Present /\ HasRoom(Manager, 0 + 1)
        /\ Becomes(e.d) /\ feedHandler' = e.held
        /\ loading' = loading \cup {f}
    BY DEF Refresh, AtFeeds
  <1>2. /\ processing' = processing /\ feeds' = feeds /\ iconless' = iconless
        /\ Elsewhere
    BY DEF Refresh, Elsewhere, auto, torrents
  <1>3. FeedsHold(AtFeeds) /\ HasRoom(AtFeeds.d, 0 + 1) /\ e = Refreshed(AtFeeds, f)
    BY <1>1, InvFeeds
  <1> HIDE DEF e
  <1>4. FeedsHold(e) /\ SameTorrents(AtFeeds.d, e.d) /\ HeldFor(AtFeeds, e, {f})
    BY <1>3, RefreshedIs
  <1>5. Present' = Present
    BY <1>2 DEF Present
  <1>6. \A g \in Feed : e.held[g] # << >> => g \in Present'
    BY <1>1, <1>4, <1>5, InvFeeds DEF HeldFor
  <1>7. SameTorrents(Manager, e.d)
    BY <1>4, InvFeeds
  <1>8. /\ processing' \in BOOLEAN /\ feeds' \in Seq(Feed)
        /\ iconless' \subseteq Present' /\ loading' \subseteq Present'
    BY <1>1, <1>2, <1>5 DEF Inv, RestPart
  <1>9. QED BY <1>1, <1>2, <1>4, <1>6, <1>7, <1>8, FeedsDownload

LEMMA RefreshTimerStep ==
  ASSUME Inv, RefreshTimer
  PROVE  Inv'
  <1> DEFINE e == RefreshAll
  <1>1. /\ HasRoom(Manager, Len(feeds)) /\ Becomes(e.d) /\ feedHandler' = e.held
        /\ loading' = Present
        /\ processing' = processing /\ feeds' = feeds /\ iconless' = iconless
        /\ Elsewhere
    BY DEF RefreshTimer, Elsewhere, auto, torrents
  <1>2. HasRoom(Manager, Len(feeds) + 0)
    BY <1>1, InvFeeds
  <1> HIDE DEF e
  <1>3. AllRefreshed(AtFeeds, e)
    BY <1>2, InvFeeds, RefreshAllIs DEF AtFeeds, e
  <1>4. FeedsHold(e) /\ SameTorrents(Manager, e.d) /\ HeldFor(AtFeeds, e, Present)
    BY <1>3, InvFeeds DEF AllRefreshed
  <1>5. Present' = Present
    BY <1>1 DEF Present
  <1>6. \A g \in Feed : e.held[g] # << >> => g \in Present'
    BY <1>4, <1>5, InvFeeds DEF HeldFor
  <1>7. /\ processing' \in BOOLEAN /\ feeds' \in Seq(Feed)
        /\ iconless' \subseteq Present' /\ loading' \subseteq Present'
    BY <1>1, <1>5 DEF Inv, RestPart
  <1>8. QED BY <1>1, <1>4, <1>6, <1>7, FeedsDownload

LEMMA EnableProcessingStep ==
  ASSUME Inv, EnableProcessing
  PROVE  Inv'
  <1> DEFINE r == RefreshAll
             b == DownloadIcons(r.d)
             e == [d |-> b, held |-> r.held]
             n == Len(feeds)
  <1>1. /\ HasRoom(Manager, 2 * n) /\ Becomes(b) /\ feedHandler' = r.held
        /\ loading' = Present /\ processing' = TRUE /\ feeds' = feeds /\ iconless' = {}
        /\ Elsewhere
    BY DEF EnableProcessing, Elsewhere, auto, torrents
  <1>2. HasRoom(Manager, n + n) /\ n \in Nat
    BY <1>1, InvFeeds
  <1> HIDE DEF r, b, n
  <1>3. AllRefreshed(AtFeeds, r) /\ HasRoom(r.d, n)
    BY <1>2, InvFeeds, RefreshAllIs DEF AtFeeds, r, n
  <1>4. /\ Sound(r.d) /\ r.held \in Held /\ HeldBy(r.d, r.held)
        /\ SameTorrents(Manager, r.d) /\ HeldFor(AtFeeds, r, Present)
    BY <1>3, InvFeeds DEF AllRefreshed, FeedsHold
  <1>5. Sound(b) /\ Same(r.d, b, {<<"nobody">>})
    BY <1>3, <1>4, InvFeeds, DownloadIconsIs DEF b, n
  <1>6. HeldBy(b, r.held)
    <2>1. ASSUME NEW g \in Feed PROVE Downloading(b, <<"feed", g>>) = Downloading(r.d, <<"feed", g>>)
      BY <1>5 DEF Same
    <2>2. QED BY <1>4, <2>1 DEF HeldBy
  <1>7. e.d = b /\ e.held = r.held
    OBVIOUS
  <1>8. SameTorrents(r.d, b)
    BY <1>5, SameTorrentsIs
  <1>9. FeedsHold(e) /\ SameTorrents(Manager, e.d)
    BY <1>4, <1>5, <1>6, <1>7, <1>8 DEF FeedsHold, SameTorrents
  <1>10. Present' = Present
    BY <1>1 DEF Present
  <1>11. \A g \in Feed : e.held[g] # << >> => g \in Present'
    BY <1>4, <1>7, <1>10, InvFeeds DEF HeldFor
  <1>12. /\ processing' \in BOOLEAN /\ feeds' \in Seq(Feed)
         /\ iconless' \subseteq Present' /\ loading' \subseteq Present'
    BY <1>1, <1>10 DEF Inv, RestPart
  <1> HIDE DEF e
  <1>13. Becomes(e.d) /\ feedHandler' = e.held
    BY <1>1, <1>7
  <1>14. QED BY <1>1, <1>9, <1>11, <1>12, <1>13, FeedsDownload

LEMMA AddFeedStep ==
  ASSUME Inv, NEW f \in Feed, AddFeed(f)
  PROVE  Inv'
  <1> DEFINE icon == IF processing THEN DownloadIcon(Manager, f) ELSE Manager
             reg  == [icon EXCEPT !.sequential = @ \cup {ServiceOf[f]}]
             r    == [d |-> reg, held |-> feedHandler]
             e    == IF processing THEN Refreshed(r, f) ELSE r
  <1>1. /\ HasRoom(Manager, 2) /\ feeds' = Append(feeds, f)
        /\ Becomes(e.d) /\ feedHandler' = e.held
    BY DEF AddFeed
  <1>2. /\ \/ loading' = loading \cup {f} /\ iconless' = iconless
           \/ iconless' = iconless \cup {f} /\ loading' = loading
        /\ processing' = processing /\ Elsewhere
    BY DEF AddFeed, Elsewhere, auto, torrents
  <1>3. ServiceOf[f] \in Service
    BY RssAssumption
  <1>4. /\ Sound(icon) /\ Same(Manager, icon, {<<"nobody">>})
        /\ processing => HasRoom(icon, 0 + 1)
    <2>1. CASE ~processing
      BY <2>1, InvFeeds DEF Same
    <2>2. CASE processing
      <3> DEFINE b == DownloadIcon(Manager, f)
                 o == <<"nobody">>
                 i == NextHandler(Manager)
      <3>1. HasRoom(Manager, 1 + 1) /\ o \in Owner
        BY <1>1 DEF Owner
      <3>2. b = Download(Manager, o, ServiceOf[f]) /\ i = NextHandler(Manager)
        BY DEF DownloadIcon
      <3> HIDE DEF b, o, i
      <3>3. Begun(Manager, b, o, i) /\ HasRoom(b, 1)
        BY <1>3, <3>1, <3>2, InvFeeds, DownloadFor
      <3>4. icon = b
        BY <2>2 DEF b
      <3>5. QED BY <3>3, <3>4 DEF Begun, o
    <2>3. QED BY <2>1, <2>2
  <1>r. reg = [icon EXCEPT !.sequential = @ \cup {ServiceOf[f]}]
    OBVIOUS
  <1> HIDE DEF icon, reg
  <1>5. Sound(reg) /\ Same(icon, reg, {}) /\ \A n \in Nat : HasRoom(icon, n) => HasRoom(reg, n)
    BY <1>3, <1>4, <1>r, RegisteredFor
  <1>6. Same(Manager, reg, {<<"nobody">>}) /\ (processing => HasRoom(reg, 0 + 1))
    BY <1>4, <1>5 DEF Same
  <1>7. HeldBy(reg, feedHandler)
    <2>1. ASSUME NEW g \in Feed PROVE Downloading(reg, <<"feed", g>>) = Downloading(Manager, <<"feed", g>>)
      BY <1>6 DEF Same
    <2>2. QED BY <2>1 DEF Inv, FeedsPart, HeldBy
  <1>8. r.d = reg /\ r.held = feedHandler
    OBVIOUS
  <1> HIDE DEF r
  <1>9. FeedsHold(r)
    BY <1>5, <1>7, <1>8, InvFeeds DEF FeedsHold
  <1>10. SameTorrents(Manager, reg)
    BY <1>6, SameTorrentsIs
  <1>11. FeedsHold(e) /\ SameTorrents(reg, e.d) /\ HeldFor(r, e, {f})
    <2>1. CASE processing
      <3>1. e = Refreshed(r, f) /\ HasRoom(r.d, 0 + 1)
        BY <1>6, <1>8, <2>1
      <3> HIDE DEF e
      <3>2. FeedsHold(e) /\ SameTorrents(r.d, e.d) /\ HeldFor(r, e, {f})
        BY <1>9, <3>1, RefreshedIs
      <3>3. QED BY <1>8, <3>2
    <2>2. CASE ~processing
      BY <1>8, <1>9, <2>2 DEF SameTorrents, HeldFor
    <2>3. QED BY <2>1, <2>2
  <1> HIDE DEF e
  <1>12. SameTorrents(Manager, e.d)
    BY <1>10, <1>11 DEF SameTorrents
  <1>13. feeds' \in Seq(Feed) /\ Present' = Present \cup {f}
    <2>1. /\ Append(feeds, f) \in Seq(Feed)
          /\ DOMAIN feeds = 1 .. Len(feeds) /\ Len(feeds) \in Nat
          /\ DOMAIN Append(feeds, f) = 1 .. Len(feeds) + 1
          /\ \A i \in 1 .. Len(feeds) : Append(feeds, f)[i] = feeds[i]
          /\ Append(feeds, f)[Len(feeds) + 1] = f
      BY InvFeeds, AppendIn
    <2>2. \A g : (\E i \in 1 .. Len(feeds) + 1 : feeds'[i] = g) <=> g = f \/ \E i \in 1 .. Len(feeds) : feeds[i] = g
      BY <1>1, <2>1
    <2>3. QED BY <1>1, <2>1, <2>2 DEF Present
  <1>14. \A g \in Feed : e.held[g] # << >> => g \in Present'
    BY <1>8, <1>11, <1>13, InvFeeds DEF HeldFor
  <1>15. /\ processing' \in BOOLEAN
         /\ iconless' \subseteq Present' /\ loading' \subseteq Present'
    BY <1>2, <1>13 DEF Inv, RestPart
  <1>16. QED BY <1>1, <1>2, <1>11, <1>12, <1>13, <1>14, <1>15, FeedsDownload

LEMMA ManagerSame ==
  ASSUME UNCHANGED manager
  PROVE  Manager' = Manager
  BY DEF manager, Manager

LEMMA ArticlesAre ==
  ASSUME NEW as, NEW ob, ArticlesPart(as, ob), NEW f \in Feed
  PROVE  /\ DOMAIN as[f] \in SUBSET Article
         /\ \A a \in DOMAIN as[f] : FeedOf[a] = f /\ as[f][a] \in ArticleState
         /\ \A a \in DOMAIN as[f] : as[f][a] = "read" => UrlOf[a] \in ob
  <1>1. as[f] \in UNION {[D -> ArticleState] : D \in SUBSET Article}
    BY DEF ArticlesPart
  <1>2. PICK D \in SUBSET Article : as[f] \in [D -> ArticleState]
    BY <1>1
  <1>3. QED BY <1>2 DEF ArticlesPart

\* b may be the articles of f, those of D.
Fits(b, D, f, ob) ==
    /\ D \in SUBSET Article /\ b \in [D -> ArticleState]
    /\ \A a \in D : FeedOf[a] = f
    /\ Cardinality(D) <= MaxArticles
    /\ \A a \in D : b[a] = "read" => UrlOf[a] \in ob

\* as2 is as, but the articles of f are b.
Replaced(as, as2, b, D, f, ob) ==
    /\ ArticlesPart(as2, ob)
    /\ UnreadIn(as2) \subseteq {a \in UnreadIn(as) : FeedOf[a] # f} \cup {a \in D : b[a] = "unread"}

LEMMA ArticlesOf ==
  ASSUME NEW as, NEW ob, ArticlesPart(as, ob), NEW f \in Feed, NEW D, NEW b, Fits(b, D, f, ob),
         NEW as2, as2 = [as EXCEPT ![f] = b]
  PROVE  Replaced(as, as2, b, D, f, ob)
  <1> DEFINE Books == UNION {[E -> ArticleState] : E \in SUBSET Article}
  <1>0. /\ D \in SUBSET Article /\ b \in [D -> ArticleState]
        /\ \A a \in D : FeedOf[a] = f
        /\ Cardinality(D) <= MaxArticles
        /\ \A a \in D : b[a] = "read" => UrlOf[a] \in ob
    BY DEF Fits
  <1>1. b \in Books /\ DOMAIN b = D
    BY <1>0
  <1>2. as \in [Feed -> Books]
    BY DEF ArticlesPart
  <1> HIDE DEF Books
  <1>3. as2 \in [Feed -> Books] /\ as2[f] = b /\ \A g \in Feed : g # f => as2[g] = as[g]
    BY <1>1, <1>2
  <1>4. ASSUME NEW g \in Feed
        PROVE  /\ \A a \in DOMAIN as2[g] : FeedOf[a] = g
               /\ Cardinality(DOMAIN as2[g]) <= MaxArticles
               /\ \A a \in DOMAIN as2[g] : as2[g][a] = "read" => UrlOf[a] \in ob
    <2>1. CASE g = f
      BY <1>0, <1>1, <1>3, <2>1
    <2>2. CASE g # f
      BY <1>3, <2>2 DEF ArticlesPart
    <2>3. QED BY <2>1, <2>2
  <1>5. ArticlesPart(as2, ob)
    BY <1>3, <1>4 DEF ArticlesPart, Books
  <1>6. ASSUME NEW a \in UnreadIn(as2)
        PROVE  a \in {x \in UnreadIn(as) : FeedOf[x] # f} \cup {x \in D : b[x] = "unread"}
    <2>1. a \in Article /\ FeedOf[a] \in Feed /\ a \in DOMAIN as2[FeedOf[a]] /\ as2[FeedOf[a]][a] = "unread"
      BY RssAssumption DEF UnreadIn
    <2>2. CASE FeedOf[a] = f
      BY <1>0, <1>1, <1>3, <2>1, <2>2
    <2>3. CASE FeedOf[a] # f
      BY <1>3, <2>1, <2>3 DEF UnreadIn
    <2>4. QED BY <2>2, <2>3
  <1>7. QED BY <1>5, <1>6 DEF Replaced

LEMMA RemoveFeedStep ==
  ASSUME Inv, NEW f \in Feed, RemoveFeed(f)
  PROVE  Inv'
  <1> DEFINE e == Abandoned(Manager, f)
             h == [feedHandler EXCEPT ![f] = << >>]
             none == [a \in {} |-> "unread"]
  <1>1. /\ feeds' = RemoveFirst(feeds, f) /\ feedHandler' = h
        /\ handler' = [i \in DOMAIN handler |->
                         IF handler[i].owner = <<"feed", f>>
                         THEN [handler[i] EXCEPT !.owner = <<"nobody">>] ELSE handler[i]]
        /\ iconless' = iconless \ {f} /\ loading' = loading \ {f}
        /\ parsing' = [parsing EXCEPT ![f] = 0]
        /\ articles' = [articles EXCEPT ![f] = << >>]
        /\ handled' = {a \in handled : FeedOf[a] # f}
        /\ waiting' = waiting /\ busy' = busy /\ sequential' = sequential /\ orphaned' = orphaned
    BY DEF RemoveFeed
  <1>2. /\ processing' = processing /\ enabled' = enabled /\ queue' = queue /\ timer' = timer
        /\ waitingJobs' = waitingJobs /\ rule' = rule
        /\ params' = params /\ obtained' = obtained /\ overlapped' = overlapped /\ plain' = plain
    BY DEF RemoveFeed, auto, torrents
  <1>3. Manager' = e
    BY <1>1 DEF Manager, Abandoned
  <1>e. e = Abandoned(Manager, f)
    OBVIOUS
  <1> HIDE DEF e
  <1>4. Sound(e) /\ Same(Manager, e, {<<"feed", f>>, <<"nobody">>})
    BY <1>e, InvFeeds, AbandonedFor
  <1>5. feeds' \in Seq(Feed) /\ Lacks(feeds, f, feeds')
    BY <1>1, InvFeeds, RemovedFirst
  <1>6. \A g \in Present : g # f => g \in Present'
    BY <1>5 DEF Lacks, Present
  <1>7. h \in Held /\ h[f] = << >> /\ \A g \in Feed : g # f => h[g] = feedHandler[g]
    BY InvFeeds DEF Held
  <1> HIDE DEF h
  <1>8. HeldBy(e, h)
    <2>1. ASSUME NEW g \in Feed, h[g] # << >> PROVE h[g][1] \in Downloading(e, <<"feed", g>>)
      <3>1. g # f /\ h[g] = feedHandler[g]
        BY <1>7, <2>1
      <3>2. feedHandler[g][1] \in Downloading(Manager, <<"feed", g>>)
        BY <2>1, <3>1 DEF Inv, FeedsPart, HeldBy
      <3>3. Downloading(e, <<"feed", g>>) = Downloading(Manager, <<"feed", g>>)
        BY <1>4, <3>1 DEF Same
      <3>4. QED BY <3>1, <3>2, <3>3
    <2>2. QED BY <2>1 DEF HeldBy
  <1>9. FeedsPart(e, h, feeds')
    <2>1. \A g \in Feed : h[g] # << >> => g \in Present'
      BY <1>6, <1>7, InvFeeds
    <2>2. QED BY <1>4, <1>7, <1>8, <2>1 DEF FeedsPart, Present
  <1>10. JobsPart(e, waitingJobs, params, overlapped, plain)
    <2>1. SameTorrents(Manager, e)
      BY <1>4, SameTorrentsIs
    <2>2. QED BY <2>1, JobsKept DEF Inv
  <1>11. /\ ArticlesPart(articles', obtained)
         /\ UnreadIn(articles') \subseteq {a \in UnreadIn(articles) : FeedOf[a] # f}
    <2>1. << >> = none
      OBVIOUS
    <2>2. none \in [{} -> ArticleState] /\ {} \in SUBSET Article /\ Cardinality({}) <= MaxArticles
      BY FS_EmptySet, RssAssumption
    <2>3. articles' = [articles EXCEPT ![f] = none]
      BY <1>1, <2>1
    <2>4. ArticlesPart(articles, obtained)
      BY DEF Inv
    <2> HIDE DEF none
    <2>5. Fits(none, {}, f, obtained)
      BY <2>2 DEF Fits
    <2>6. Replaced(articles, articles', none, {}, f, obtained)
      BY <2>3, <2>4, <2>5, ArticlesOf
    <2>7. QED BY <2>6 DEF Replaced
  <1>12. QueuePart(articles', enabled, queue, timer, handled')
    <2>1. QueuePart(articles, enabled, queue, timer, handled)
      BY DEF Inv
    <2>2. QED BY <1>1, <1>11, <2>1 DEF QueuePart
  <1>13. RestPart'
    <2>1. RestPart
      BY DEF Inv
    <2>2. parsing' \in [Feed -> Nat]
      BY <1>1, <2>1 DEF RestPart
    <2>3. iconless' \subseteq Present' /\ loading' \subseteq Present'
      BY <1>1, <1>6, <2>1 DEF RestPart
    <2>4. QED BY <1>2, <1>5, <2>1, <2>2, <2>3 DEF RestPart
  <1>14. QED BY <1>1, <1>2, <1>3, <1>9, <1>10, <1>11, <1>12, <1>13 DEF Inv

LEMMA EpisodesIs ==
  ASSUME NEW a \in Article
  PROVE  Episodes(a) \subseteq Episode
  BY RssAssumption DEF Episodes

\* What the steps leave alone that only concern the rule, the queue and the articles.
ManagerAside ==
    /\ manager' = manager
    /\ processing' = processing /\ feeds' = feeds /\ iconless' = iconless
    /\ feedHandler' = feedHandler
    /\ waitingJobs' = waitingJobs /\ params' = params /\ overlapped' = overlapped /\ plain' = plain

LEMMA AsideStep ==
  ASSUME Inv, ManagerAside,
         loading' \subseteq loading, parsing' \in [Feed -> Nat],
         rule' \in [enabled: BOOLEAN, matched: SUBSET Episode, computed: SUBSET Episode],
         ArticlesPart(articles', obtained'), QueuePart(articles', enabled', queue', timer', handled')
  PROVE  Inv'
  <1>1. Manager' = Manager
    BY ManagerSame DEF ManagerAside
  <1>2. Present' = Present
    BY DEF ManagerAside, Present
  <1>3. RestPart'
    BY <1>2 DEF ManagerAside, Inv, RestPart
  <1>4. FeedsPart(Manager', feedHandler', feeds')
    BY <1>1 DEF ManagerAside, Inv
  <1>5. JobsPart(Manager', waitingJobs', params', overlapped', plain')
    BY <1>1 DEF ManagerAside, Inv
  <1>6. QED BY <1>3, <1>4, <1>5 DEF Inv

LEMMA RuleIs ==
  ASSUME Inv
  PROVE  /\ rule \in [enabled: BOOLEAN, matched: SUBSET Episode, computed: SUBSET Episode]
         /\ parsing \in [Feed -> Nat]
         /\ ArticlesPart(articles, obtained)
         /\ QueuePart(articles, enabled, queue, timer, handled)
         /\ UnreadIn(articles) = Unread /\ Unread \in SUBSET Article
  BY DEF Inv, RestPart, Unread, UnreadIn

LEMMA MatchingArticlesStep ==
  ASSUME Inv, NEW f \in Feed, MatchingArticles(f)
  PROVE  Inv'
  <1> DEFINE E == UNION {Episodes(a) : a \in {b \in DOMAIN articles[f] : Matches(b)}}
  <1>1. rule' = [rule EXCEPT !.computed = @ \cup E]
    BY DEF MatchingArticles
  <1>2. /\ ManagerAside /\ articles' = articles /\ obtained' = obtained /\ parsing' = parsing
        /\ enabled' = enabled /\ queue' = queue /\ timer' = timer /\ handled' = handled
        /\ loading' = loading
    BY DEF MatchingArticles, ManagerAside, rss, torrents, manager
  <1>3. E \subseteq Episode
    <2>1. DOMAIN articles[f] \in SUBSET Article
      BY RuleIs, ArticlesAre
    <2>2. QED BY <2>1, EpisodesIs
  <1> HIDE DEF E
  <1>4. rule' \in [enabled: BOOLEAN, matched: SUBSET Episode, computed: SUBSET Episode]
    BY <1>1, <1>3, RuleIs
  <1>5. QED BY <1>2, <1>4, RuleIs, AsideStep

\* ResetProcessingQueue, once the downloader is enabled
LEMMA ResetIs ==
  ASSUME Inv, ResetProcessingQueue
  PROVE  QueuePart(articles, TRUE, queue', timer', handled')
  <1> DEFINE as == RecentFirst(Unread)
             q == << >>
  <1>1. /\ queue' = Queued(q, as)
        /\ timer' = (timer \/ \E n \in DOMAIN as : NoJob(as[n]))
        /\ handled' = {a \in Unread : ~NoJob(a)}
    BY DEF ResetProcessingQueue, AddJobs, NoJob
  <1>2. as \in Seq(Unread) /\ \A x \in Unread : \E n \in DOMAIN as : as[n] = x
    BY RuleIs, RecentFirstIs DEF Lists
  <1>3. as \in Seq(Article) /\ q \in Seq(Article)
    BY <1>2, RuleIs
  <1>q. q = << >>
    OBVIOUS
  <1> HIDE DEF as, q
  <1>4. queue' \in Seq(Article) /\ Takes(q, as, queue')
    BY <1>1, <1>3, QueuedIs
  <1>5. timer \in BOOLEAN
    BY RuleIs DEF QueuePart
  <1>6. queue' # << >> => timer'
    BY <1>1, <1>4, <1>q DEF Takes
  <1>7. ASSUME NEW a \in Unread PROVE a \in ToSet(queue') \cup handled'
    BY <1>1, <1>2, <1>4 DEF Takes
  <1>8. handled' \subseteq Article
    BY <1>1, RuleIs
  <1>9. timer' \in BOOLEAN
    BY <1>1, <1>5
  <1>10. QED BY <1>4, <1>6, <1>7, <1>8, <1>9, RuleIs DEF QueuePart

LEMMA EmptiedIs ==
  ASSUME Inv, queue' = << >>, timer' = timer, handled' = handled
  PROVE  QueuePart(articles, FALSE, queue', timer', handled')
  <1>1. << >> \in Seq(Article)
    OBVIOUS
  <1>2. QED BY <1>1, RuleIs DEF QueuePart

LEMMA DisableProcessingStep ==
  ASSUME Inv, DisableProcessing
  PROVE  Inv'
  <1>1. /\ manager' = manager /\ feeds' = feeds /\ iconless' = iconless
        /\ feedHandler' = feedHandler /\ loading' = loading /\ parsing' = parsing
        /\ articles' = articles /\ enabled' = enabled /\ queue' = queue /\ timer' = timer
        /\ waitingJobs' = waitingJobs /\ rule' = rule /\ params' = params /\ obtained' = obtained
        /\ overlapped' = overlapped /\ plain' = plain /\ handled' = handled
        /\ processing' = FALSE
    BY DEF DisableProcessing, auto, torrents
  <1>2. Manager' = Manager
    BY <1>1, ManagerSame DEF manager
  <1>3. RestPart'
    BY <1>1 DEF Inv, RestPart, Present
  <1>4. QED BY <1>1, <1>2, <1>3 DEF Inv

LEMMA SetProcessingEnabledStep ==
  ASSUME Inv, SetProcessingEnabled
  PROVE  Inv'
  <1>1. /\ ManagerAside /\ articles' = articles /\ obtained' = obtained /\ parsing' = parsing
        /\ loading' = loading /\ rule' = rule
    BY DEF SetProcessingEnabled, ManagerAside, rss, torrents, manager
  <1>2. enabled' = ~enabled /\ enabled \in BOOLEAN
    BY RuleIs DEF SetProcessingEnabled, QueuePart
  <1>3. QueuePart(articles, enabled', queue', timer', handled')
    <2>1. CASE enabled
      <3>1. queue' = << >> /\ timer' = timer /\ handled' = handled
        BY <2>1 DEF SetProcessingEnabled
      <3>2. enabled' = FALSE
        BY <1>2, <2>1
      <3>3. QED BY <3>1, <3>2, EmptiedIs
    <2>2. CASE ~enabled
      <3>1. ResetProcessingQueue
        BY <2>2 DEF SetProcessingEnabled
      <3>2. enabled' = TRUE
        BY <1>2, <2>2
      <3>3. QED BY <3>1, <3>2, ResetIs
    <2>3. QED BY <2>1, <2>2
  <1>4. QED BY <1>1, <1>3, RuleIs, AsideStep

LEMMA InsertRuleStep ==
  ASSUME Inv, InsertRule
  PROVE  Inv'
  <1>1. /\ ManagerAside /\ articles' = articles /\ obtained' = obtained /\ parsing' = parsing
        /\ loading' = loading /\ enabled' = enabled
    BY DEF InsertRule, ManagerAside, rss, torrents, manager
  <1>2. rule' \in [enabled: BOOLEAN, matched: SUBSET Episode, computed: SUBSET Episode]
    BY RuleIs DEF InsertRule
  <1>3. enabled \in BOOLEAN
    BY RuleIs DEF QueuePart
  <1>4. QueuePart(articles, enabled', queue', timer', handled')
    <2>1. CASE enabled
      <3>1. ResetProcessingQueue
        BY <2>1 DEF InsertRule
      <3>2. enabled' = TRUE
        BY <1>1, <1>3, <2>1
      <3>3. QED BY <3>1, <3>2, ResetIs
    <2>2. CASE ~enabled
      <3>1. queue' = << >> /\ timer' = timer /\ handled' = handled
        BY <2>2 DEF InsertRule
      <3>2. enabled' = FALSE
        BY <1>1, <1>3, <2>2
      <3>3. QED BY <3>1, <3>2, EmptiedIs
    <2>3. QED BY <2>1, <2>2
  <1>5. QED BY <1>1, <1>2, <1>4, RuleIs, AsideStep

LEMMA ReadArticleStep ==
  ASSUME Inv, NEW a \in Article, ReadArticle(a)
  PROVE  Inv'
  <1>1. /\ ManagerAside /\ obtained' = obtained /\ parsing' = parsing
        /\ loading' = loading /\ rule' = rule
        /\ enabled' = enabled /\ queue' = queue /\ timer' = timer /\ handled' = handled
        /\ a \in Unread
    BY DEF ReadArticle, ManagerAside, auto, torrents, manager
  <1>2. PICK f \in Feed : f = FeedOf[a] /\ a \in DOMAIN articles[f]
    BY <1>1, RssAssumption DEF Unread
  <1> DEFINE b == [articles[f] EXCEPT ![a] = "seen"]
             D == DOMAIN articles[f]
  <1>3. articles' = [articles EXCEPT ![f] = b]
    BY <1>2 DEF ReadArticle
  <1>4. /\ D \in SUBSET Article
        /\ \A x \in D : FeedOf[x] = f /\ articles[f][x] \in ArticleState
        /\ \A x \in D : articles[f][x] = "read" => UrlOf[x] \in obtained
    BY RuleIs, ArticlesAre
  <1>5. Cardinality(D) <= MaxArticles
    BY RuleIs DEF ArticlesPart
  <1>6. b \in [D -> ArticleState] /\ \A x \in D : b[x] = IF x = a THEN "seen" ELSE articles[f][x]
    <2>1. articles[f] \in UNION {[E -> ArticleState] : E \in SUBSET Article}
      BY RuleIs DEF ArticlesPart
    <2>2. PICK E \in SUBSET Article : articles[f] \in [E -> ArticleState]
      BY <2>1
    <2>3. QED BY <1>2, <2>2 DEF ArticleState
  <1>7. a \in D
    BY <1>2
  <1>8. \A x \in D : b[x] = "read" => UrlOf[x] \in obtained
    BY <1>4, <1>6
  <1>9. \A x \in D : FeedOf[x] = f
    BY <1>4
  <1>10. ASSUME NEW x \in D, b[x] = "unread" PROVE x \in UnreadIn(articles)
    BY <1>4, <1>6, <1>10 DEF UnreadIn
  <1> HIDE DEF b, D
  <1>11. Replaced(articles, articles', b, D, f, obtained)
    <2>1. Fits(b, D, f, obtained)
      BY <1>4, <1>5, <1>6, <1>8, <1>9 DEF Fits
    <2>2. QED BY <1>3, <2>1, RuleIs, ArticlesOf
  <1>12. UnreadIn(articles') \subseteq UnreadIn(articles)
    BY <1>10, <1>11 DEF Replaced
  <1>13. QueuePart(articles', enabled, queue, timer, handled)
    BY <1>12, RuleIs, QueueKept
  <1>14. ArticlesPart(articles', obtained)
    BY <1>11 DEF Replaced
  <1>15. QED BY <1>1, <1>13, <1>14, RuleIs, AsideStep

-----------------------------------------------------------------------------
(* The steps that add a torrent                                               *)

\* The URL u is downloaded, for a job or for none.
LEMMA TorrentBegins ==
  ASSUME Inv, NEW u \in Url, AddTorrentByUrl(u), NEW w,
         w = waitingJobs \/ \E a \in Article : UrlOf[a] = u /\ w = [waitingJobs EXCEPT ![u] = <<a>>]
  PROVE  /\ FeedsPart(Manager', feedHandler, feeds)
         /\ JobsPart(Manager', w, params', overlapped', plain')
         /\ obtained' = obtained
  <1>1. HasRoom(Manager, 0 + 1) /\ Sound(Manager)
    BY InvFeeds DEF AddTorrentByUrl
  <1>2. T(u) \in Owner /\ ServiceOf[u] \in Service
    BY RssAssumption DEF T, Owner
  <1>3. PICK e : e = Download(Manager, T(u), ServiceOf[u])
    OBVIOUS
  <1>4. PICK i : i = NextHandler(Manager)
    OBVIOUS
  <1>5. Begun(Manager, e, T(u), i)
    BY <1>1, <1>2, <1>3, <1>4, DownloadFor
  <1>6. Sound(e) /\ Same(Manager, e, {T(u)}) /\ e \in Managers
    BY <1>5 DEF Begun, Sound, SoundBut
  <1>7. Becomes(e)
    BY <1>3 DEF AddTorrentByUrl, T
  <1>8. Manager' = e
    BY <1>6, <1>7, BecomesIs
  <1>9. FeedsPart(e, feedHandler, feeds)
    BY <1>6, FeedsKept DEF Inv
  <1>10. /\ params' = params \cup {u}
         /\ overlapped' = IF Downloading(Manager, T(u)) # {} THEN overlapped \cup {u} ELSE overlapped
         /\ obtained' = obtained /\ plain' = plain
    <2>1. Downloading(Manager, T(u)) # {} <=>
              \E j \in DOMAIN handler : handler[j].owner = <<"torrent", u>> /\ Live(handler[j])
      BY DEF Downloading, Manager, T
    <2>2. QED BY <2>1 DEF AddTorrentByUrl
  <1>11. JobsPart(e, w, params \cup {u}, overlapped', plain)
    <2>1. JobsPart(Manager, waitingJobs, params, overlapped, plain)
      BY DEF Inv
    <2>2. PICK os : os = overlapped'
      OBVIOUS
    <2>3. JobsPart(e, w, params \cup {u}, os, plain)
      BY <1>5, <1>10, <2>1, <2>2, JobsAtStart
    <2>4. QED BY <2>2, <2>3
  <1>12. QED BY <1>8, <1>9, <1>10, <1>11

LEMMA AddTorrentStep ==
  ASSUME Inv, NEW u \in Url, AddTorrent(u)
  PROVE  Inv'
  <1>1. /\ AddTorrentByUrl(u)
        /\ processing' = processing /\ feeds' = feeds /\ iconless' = iconless
        /\ feedHandler' = feedHandler /\ loading' = loading /\ parsing' = parsing
        /\ articles' = articles /\ enabled' = enabled /\ queue' = queue /\ timer' = timer
        /\ waitingJobs' = waitingJobs /\ rule' = rule /\ handled' = handled
    BY DEF AddTorrent, rss, auto
  <1>2. /\ FeedsPart(Manager', feedHandler, feeds)
        /\ JobsPart(Manager', waitingJobs, params', overlapped', plain')
        /\ obtained' = obtained
    BY <1>1, TorrentBegins
  <1>3. RestPart'
    BY <1>1 DEF Inv, RestPart, Present
  <1>4. QED BY <1>1, <1>2, <1>3 DEF Inv

\* The head of the queue, which is taken, has been looked at.
LEMMA Taken ==
  ASSUME NEW as, NEW en, NEW q, NEW t, NEW h, QueuePart(as, en, q, t, h), q # << >>
  PROVE  /\ QueuePart(as, en, Tail(q), Tail(q) # << >>, h \cup {Head(q)})
         /\ Head(q) \in Article
  <1>1. q \in Seq(Article)
    BY DEF QueuePart
  <1>2. /\ Head(q) \in Article /\ Tail(q) \in Seq(Article)
        /\ Len(q) \in Nat \ {0} /\ DOMAIN q = 1 .. Len(q)
        /\ DOMAIN Tail(q) = 1 .. Len(q) - 1
        /\ \A i \in DOMAIN Tail(q) : Tail(q)[i] = q[i + 1]
        /\ Head(q) = q[1]
    BY <1>1, TailIn
  <1>3. ASSUME NEW i \in DOMAIN q PROVE q[i] = Head(q) \/ q[i] \in ToSet(Tail(q))
    <2>1. CASE i = 1
      BY <1>2, <2>1
    <2>2. CASE i # 1
      <3>1. i - 1 \in DOMAIN Tail(q) /\ i - 1 + 1 = i
        BY <1>2, <2>2
      <3>2. Tail(q)[i - 1] = q[i]
        BY <1>2, <3>1
      <3>3. QED BY <3>1, <3>2 DEF ToSet
    <2>3. QED BY <2>1, <2>2
  <1>4. ToSet(q) \subseteq ToSet(Tail(q)) \cup {Head(q)}
    BY <1>3 DEF ToSet
  <1>5. QED BY <1>2, <1>4 DEF QueuePart

LEMMA ProcessNothingStep ==
  ASSUME Inv, ProcessNothing
  PROVE  Inv'
  <1>1. /\ ManagerAside /\ articles' = articles /\ obtained' = obtained /\ parsing' = parsing
        /\ enabled' = enabled /\ queue' = queue /\ timer' = FALSE /\ handled' = handled
        /\ loading' = loading /\ rule' = rule /\ queue = << >>
    BY DEF ProcessNothing, ManagerAside, rss, torrents, manager
  <1>2. QueuePart(articles', enabled', queue', timer', handled')
    BY <1>1, RuleIs DEF QueuePart
  <1>3. QED BY <1>1, <1>2, RuleIs, AsideStep

LEMMA ProcessStep ==
  ASSUME Inv, Process
  PROVE  Inv'
  <1>1. /\ queue # << >> /\ QueuePart(articles, enabled, queue, timer, handled)
        /\ processing' = processing /\ feeds' = feeds /\ iconless' = iconless
        /\ feedHandler' = feedHandler /\ loading' = loading /\ parsing' = parsing
        /\ enabled' = enabled
        /\ queue' = Tail(queue) /\ timer' = (Tail(queue) # << >>) /\ handled' = handled \cup {Head(queue)}
    BY RuleIs DEF Process
  <1>2. /\ QueuePart(articles, enabled, queue', timer', handled')
        /\ Head(queue) \in Article
    BY <1>1, Taken
  <1>3. PICK a \in Article : a = Head(queue)
    BY <1>2
  <1>4. PICK u \in Url : u = UrlOf[a]
    BY RssAssumption
  <1>5. PICK accepted \in BOOLEAN : accepted = (rule.enabled /\ Matches(a))
    OBVIOUS
  <1>6. rule' \in [enabled: BOOLEAN, matched: SUBSET Episode, computed: SUBSET Episode]
    <2>1. rule' = IF accepted THEN Accepted(a) ELSE rule
      BY <1>3, <1>5 DEF Process
    <2>2. Accepted(a) \in [enabled: BOOLEAN, matched: SUBSET Episode, computed: SUBSET Episode]
      BY RuleIs, EpisodesIs DEF Accepted
    <2>3. QED BY <2>1, <2>2, RuleIs
  <1>7. RestPart'
    BY <1>1, <1>6 DEF Inv, RestPart, Present
  <1>8. CASE ~accepted
    <2>1. /\ manager' = manager /\ articles' = articles /\ waitingJobs' = waitingJobs
          /\ params' = params /\ obtained' = obtained /\ overlapped' = overlapped /\ plain' = plain
      BY <1>3, <1>4, <1>5, <1>8 DEF Process, torrents, manager
    <2>2. ManagerAside
      BY <1>1, <2>1 DEF ManagerAside
    <2>3. QED BY <1>1, <1>2, <1>6, <2>1, <2>2, RuleIs, AsideStep
  <1>9. CASE accepted /\ u \in Magnet
    <2>0. u \notin Downloadable /\ u \notin Unsupported
      BY <1>9, RssAssumption DEF Downloadable
    <2>1. /\ articles' = Marked(articles, {a}) /\ obtained' = obtained \cup {u}
          /\ manager' = manager /\ waitingJobs' = waitingJobs
          /\ params' = params /\ overlapped' = overlapped /\ plain' = plain
      BY <1>3, <1>4, <1>5, <1>9, <2>0 DEF Process, MarkAsRead, Marked, manager
    <2>2. ArticlesPart(articles, obtained) /\ obtained \cup {u} \in SUBSET Url
      BY RuleIs DEF ArticlesPart
    <2>3. PICK as2 : as2 = Marked(articles, {a})
      OBVIOUS
    <2>4. ArticlesPart(as2, obtained \cup {u}) /\ UnreadIn(as2) \subseteq UnreadIn(articles)
      BY <1>4, <2>2, <2>3, MarkedIs
    <2>5. QueuePart(as2, enabled, queue', timer', handled')
      BY <1>2, <2>4 DEF QueuePart
    <2>6. ManagerAside
      BY <1>1, <2>1 DEF ManagerAside
    <2>7. QED BY <1>1, <1>6, <2>1, <2>3, <2>4, <2>5, <2>6, RuleIs, AsideStep
  <1>10. CASE accepted /\ u \in Downloadable
    <2>0. u \notin Magnet /\ u \notin Unsupported
      BY <1>10 DEF Downloadable
    <2>1. AddTorrentByUrl(u) /\ waitingJobs' = [waitingJobs EXCEPT ![u] = <<a>>] /\ articles' = articles
      BY <1>3, <1>4, <1>5, <1>10, <2>0 DEF Process
    <2>2. PICK w : w = [waitingJobs EXCEPT ![u] = <<a>>]
      OBVIOUS
    <2>3. /\ FeedsPart(Manager', feedHandler, feeds)
          /\ JobsPart(Manager', w, params', overlapped', plain')
          /\ obtained' = obtained
      BY <1>4, <2>1, <2>2, TorrentBegins
    <2>4. ArticlesPart(articles', obtained')
      BY <2>1, <2>3, RuleIs
    <2>5. QED BY <1>1, <1>2, <1>7, <2>1, <2>2, <2>3, <2>4 DEF Inv
  <1>11. CASE accepted /\ u \in Unsupported
    <2>0. u \notin Magnet /\ u \notin Downloadable
      BY <1>11, RssAssumption DEF Downloadable
    <2>1. /\ waitingJobs' = [waitingJobs EXCEPT ![u] = <<a>>] /\ articles' = articles
          /\ manager' = manager /\ params' = params /\ obtained' = obtained
          /\ overlapped' = overlapped /\ plain' = plain
      BY <1>3, <1>4, <1>5, <1>11, <2>0 DEF Process, torrents, manager
    <2>2. PICK w : w = [waitingJobs EXCEPT ![u] = <<a>>]
      OBVIOUS
    <2>3. JobsPart(Manager, waitingJobs, params, overlapped, plain) /\ FeedsPart(Manager, feedHandler, feeds)
      BY DEF Inv
    <2>4. JobsPart(Manager, w, params, overlapped, plain)
      BY <1>4, <2>0, <2>2, <2>3, JobsWithout
    <2>5. Manager' = Manager
      BY <2>1, ManagerSame DEF manager
    <2>6. ArticlesPart(articles', obtained')
      BY <2>1, RuleIs
    <2>7. QED BY <1>1, <1>2, <1>7, <2>1, <2>2, <2>3, <2>4, <2>5, <2>6 DEF Inv
  <1>12. QED BY <1>5, <1>8, <1>9, <1>10, <1>11 DEF Downloadable

-----------------------------------------------------------------------------
(* The steps of the network                                                   *)

\* What the end of a download leaves alone, of whomever it is.
AwayFromEnds ==
    /\ processing' = processing /\ feeds' = feeds /\ iconless' = iconless
    /\ enabled' = enabled /\ queue' = queue /\ timer' = timer /\ rule' = rule /\ handled' = handled

LEMMA RestAtEnd ==
  ASSUME Inv, AwayFromEnds, loading' \subseteq loading, parsing' \in [Feed -> Nat]
  PROVE  RestPart'
  BY DEF AwayFromEnds, Inv, RestPart, Present

\* The job that waits for a URL is for an article of that URL.
LEMMA WaitersAsk ==
  ASSUME Inv, NEW u \in Url
  PROVE  \A a \in ToSet(waitingJobs[u]) : UrlOf[a] = u
  <1>1. waitingJobs[u] = << >> \/ \E a \in Article : waitingJobs[u] = <<a>>
    BY DEF Inv, JobsPart
  <1>2. CASE waitingJobs[u] = << >>
    BY <1>2 DEF ToSet
  <1>3. ASSUME NEW a \in Article, waitingJobs[u] = <<a>>
        PROVE  \A x \in ToSet(waitingJobs[u]) : UrlOf[x] = u
    <2>1. waitingJobs[u] # << >> /\ waitingJobs[u][1] = a
      BY <1>3
    <2>2. UrlOf[a] = u
      BY <2>1 DEF Inv, JobsPart
    <2>3. ToSet(waitingJobs[u]) = {a}
      BY <1>3 DEF ToSet
    <2>4. QED BY <2>2, <2>3
  <1>4. QED BY <1>1, <1>2, <1>3

\* The reply of i ends.
Ends(i) ==
    /\ i \in DOMAIN handler /\ handler[i].state = "running"
    /\ Becomes(ReplyEnds(Manager, i))

LEMMA EndsIs ==
  ASSUME Inv, NEW i, Ends(i)
  PROVE  /\ i \in DOMAIN Manager.handler /\ Live(Manager.handler[i])
         /\ Manager.handler[i].owner = handler[i].owner /\ handler[i].owner \in Owner
         /\ Sound(Manager') /\ Loses(Manager, Manager', i)
  <1>1. Manager.handler = handler
    BY DEF Manager
  <1>2. i \in DOMAIN Manager.handler /\ Manager.handler[i].state = "running"
    BY <1>1 DEF Ends
  <1>3. PICK e : e = ReplyEnds(Manager, i)
    OBVIOUS
  <1>4. Sound(e) /\ Loses(Manager, e, i)
    BY <1>2, <1>3, InvFeeds, ReplyEndsFor
  <1>5. e \in Managers
    BY <1>4 DEF Sound, SoundBut
  <1>6. Manager' = e
    BY <1>3, <1>5, BecomesIs DEF Ends
  <1>7. Manager.handler[i].owner \in Owner
    BY <1>2, InvFeeds, ManagerType
  <1>8. QED BY <1>1, <1>2, <1>4, <1>6, <1>7 DEF Live

LEMMA FeedEndStep ==
  ASSUME Inv, NEW i, Ends(i), NEW f \in Feed, handler[i].owner = <<"feed", f>>,
         NEW success, FeedDownloadFinished(f, success), AwayFromEnds
  PROVE  Inv'
  <1>1. /\ feedHandler' = [feedHandler EXCEPT ![f] = << >>]
        /\ articles' = articles /\ waitingJobs' = waitingJobs
        /\ params' = params /\ obtained' = obtained /\ overlapped' = overlapped /\ plain' = plain
    BY DEF FeedDownloadFinished, torrents
  <1>2. parsing' \in [Feed -> Nat] /\ loading' \subseteq loading
    <2>1. parsing \in [Feed -> Nat]
      BY RuleIs
    <2>2. CASE success
      BY <2>1, <2>2 DEF FeedDownloadFinished
    <2>3. CASE ~success
      BY <2>1, <2>3 DEF FeedDownloadFinished
    <2>4. QED BY <2>2, <2>3
  <1>3. PICK h : h = [feedHandler EXCEPT ![f] = << >>]
    OBVIOUS
  <1>4. h \in Held /\ \A g \in Feed : h[g] # << >> => h[g] = feedHandler[g] /\ g # f
    BY <1>3, InvFeeds DEF Held
  <1>5. \A g \in Feed : h[g] # << >> => h[g] = feedHandler[g] /\ Manager.handler[i].owner # <<"feed", g>>
    BY <1>4, EndsIs
  <1>6. FeedsPart(Manager, feedHandler, feeds) /\ JobsPart(Manager, waitingJobs, params, overlapped, plain)
    BY DEF Inv
  <1>7. PICK e : e = Manager'
    OBVIOUS
  <1>8. i \in DOMAIN Manager.handler /\ Sound(e) /\ Loses(Manager, e, i)
    BY <1>7, EndsIs
  <1>9. FeedsPart(e, h, feeds)
    BY <1>4, <1>5, <1>6, <1>8, FeedsAtEnd
  <1>10. \A u \in Url : Manager.handler[i].owner # T(u)
    BY EndsIs DEF T
  <1>11. JobsPart(e, waitingJobs, params, overlapped, plain)
    BY <1>6, <1>8, <1>10, JobsAtOtherEnd
  <1>12. RestPart'
    BY <1>2, RestAtEnd
  <1>13. ArticlesPart(articles, obtained) /\ QueuePart(articles, enabled, queue, timer, handled)
    BY RuleIs
  <1>14. QED BY <1>1, <1>3, <1>7, <1>9, <1>11, <1>12, <1>13 DEF Inv, AwayFromEnds

LEMMA TorrentEndStep ==
  ASSUME Inv, NEW i, Ends(i), NEW u \in Url, handler[i].owner = T(u),
         NEW success, TorrentDownloadFinished(u, success), AwayFromEnds
  PROVE  Inv'
  <1>1. /\ waitingJobs' = [waitingJobs EXCEPT ![u] = << >>]
        /\ feedHandler' = feedHandler /\ loading' = loading /\ parsing' = parsing
        /\ overlapped' = overlapped
    BY DEF TorrentDownloadFinished
  <1>2. /\ params' = params \/ params' = params \ {u}
        /\ plain' = plain \/ (u \notin params /\ plain' = plain \cup {u})
    BY DEF TorrentDownloadFinished
  <1>3. ArticlesPart(articles', obtained') /\ UnreadIn(articles') \subseteq UnreadIn(articles)
    <2>1. CASE success
      <3>1. articles' = Marked(articles, ToSet(waitingJobs[u])) /\ obtained' = obtained \cup {u}
        BY <2>1 DEF TorrentDownloadFinished, MarkAsRead, Marked
      <3>2. ArticlesPart(articles, obtained) /\ obtained \cup {u} \in SUBSET Url
        BY RuleIs DEF ArticlesPart
      <3>3. PICK S : S = ToSet(waitingJobs[u])
        OBVIOUS
      <3>4. PICK as2 : as2 = Marked(articles, S)
        OBVIOUS
      <3>5. \A a \in S : UrlOf[a] \in obtained \cup {u}
        BY <3>3, WaitersAsk
      <3>6. ArticlesPart(as2, obtained \cup {u}) /\ UnreadIn(as2) \subseteq UnreadIn(articles)
        BY <3>2, <3>4, <3>5, MarkedIs
      <3>7. QED BY <3>1, <3>3, <3>4, <3>6
    <2>2. CASE ~success
      BY <2>2, RuleIs DEF TorrentDownloadFinished
    <2>3. QED BY <2>1, <2>2
  <1>4. PICK e : e = Manager'
    OBVIOUS
  <1>5. /\ i \in DOMAIN Manager.handler /\ Live(Manager.handler[i])
        /\ Manager.handler[i].owner = T(u)
        /\ Sound(e) /\ Loses(Manager, e, i)
    BY <1>4, EndsIs
  <1>6. FeedsPart(Manager, feedHandler, feeds) /\ JobsPart(Manager, waitingJobs, params, overlapped, plain)
    BY DEF Inv
  <1>7. FeedsPart(e, feedHandler, feeds)
    <2>1. PICK h : h = feedHandler
      OBVIOUS
    <2>2. \A g \in Feed : h[g] # << >> => h[g] = feedHandler[g] /\ Manager.handler[i].owner # <<"feed", g>>
      BY <1>5, <2>1 DEF T
    <2>3. h \in Held
      BY <2>1, InvFeeds
    <2>4. i \in DOMAIN Manager.handler /\ Sound(e) /\ Loses(Manager, e, i) /\ FeedsPart(Manager, feedHandler, feeds)
      BY <1>5, <1>6
    <2>5. FeedsPart(e, h, feeds)
      BY <2>2, <2>3, <2>4, FeedsAtEnd
    <2>6. QED BY <2>1, <2>5
  <1>8. PICK w : w = [waitingJobs EXCEPT ![u] = << >>]
    OBVIOUS
  <1>9. PICK ps : ps = params'
    OBVIOUS
  <1>10. PICK pl : pl = plain'
    OBVIOUS
  <1>11. JobsPart(e, w, ps, overlapped, pl)
    <2>1. JobsPart(Manager, waitingJobs, params, overlapped, plain)
      BY <1>6
    <2>2. /\ i \in DOMAIN Manager.handler /\ Loses(Manager, e, i) /\ Live(Manager.handler[i])
          /\ Manager.handler[i].owner = T(u)
      BY <1>5
    <2>3. ps = params \/ ps = params \ {u}
      BY <1>2, <1>9
    <2>4. pl = plain \/ (u \notin params /\ pl = plain \cup {u})
      BY <1>2, <1>10
    <2>5. QED BY <1>8, <2>1, <2>2, <2>3, <2>4, JobsAtEnd
  <1>12. RestPart'
    BY <1>1, RuleIs, RestAtEnd
  <1>13. QueuePart(articles', enabled, queue, timer, handled)
    BY <1>3, RuleIs, QueueKept
  <1>14. QED
    BY <1>1, <1>3, <1>4, <1>7, <1>8, <1>9, <1>10, <1>11, <1>12, <1>13 DEF Inv, AwayFromEnds

\* What those who are told of no download leave alone.
NobodyTold ==
    /\ feedHandler' = feedHandler /\ loading' = loading /\ parsing' = parsing
    /\ articles' = articles /\ waitingJobs' = waitingJobs
    /\ params' = params /\ obtained' = obtained /\ overlapped' = overlapped /\ plain' = plain

LEMMA NobodyEndStep ==
  ASSUME Inv, NEW i, Ends(i), handler[i].owner = <<"nobody">>, NobodyTold, AwayFromEnds
  PROVE  Inv'
  <1>1. PICK e : e = Manager'
    OBVIOUS
  <1>2. /\ i \in DOMAIN Manager.handler /\ Manager.handler[i].owner = <<"nobody">>
        /\ Sound(e) /\ Loses(Manager, e, i)
    BY <1>1, EndsIs
  <1>3. FeedsPart(Manager, feedHandler, feeds) /\ JobsPart(Manager, waitingJobs, params, overlapped, plain)
    BY DEF Inv
  <1>4. FeedsPart(e, feedHandler, feeds)
    <2>1. PICK h : h = feedHandler
      OBVIOUS
    <2>2. \A g \in Feed : h[g] # << >> => h[g] = feedHandler[g] /\ Manager.handler[i].owner # <<"feed", g>>
      BY <1>2, <2>1
    <2>3. h \in Held
      BY <2>1, InvFeeds
    <2>4. FeedsPart(e, h, feeds)
      BY <1>2, <1>3, <2>2, <2>3, FeedsAtEnd
    <2>5. QED BY <2>1, <2>4
  <1>5. \A u \in Url : Manager.handler[i].owner # T(u)
    BY <1>2 DEF T
  <1>6. JobsPart(e, waitingJobs, params, overlapped, plain)
    BY <1>2, <1>3, <1>5, JobsAtOtherEnd
  <1>7. RestPart'
    BY RuleIs, RestAtEnd DEF NobodyTold
  <1>8. ArticlesPart(articles, obtained) /\ QueuePart(articles, enabled, queue, timer, handled)
    BY RuleIs
  <1>9. QED BY <1>1, <1>4, <1>6, <1>7, <1>8 DEF Inv, AwayFromEnds, NobodyTold

LEMMA EndStep ==
  ASSUME Inv, NEW i, Ends(i), NEW success, NEW magnet,
         Finished(handler[i].owner, success, magnet), AwayFromEnds
  PROVE  Inv'
  <1>1. \/ \E f \in Feed : handler[i].owner = <<"feed", f>>
        \/ \E u \in Url : handler[i].owner = T(u)
        \/ handler[i].owner = <<"nobody">>
    BY EndsIs DEF Owner, T
  <1>2. ASSUME NEW f \in Feed, handler[i].owner = <<"feed", f>> PROVE Inv'
    <2>1. FeedDownloadFinished(f, success)
      BY <1>2 DEF Finished
    <2>2. QED BY <1>2, <2>1, FeedEndStep
  <1>3. ASSUME NEW u \in Url, handler[i].owner = T(u) PROVE Inv'
    <2>1. TorrentDownloadFinished(u, success \/ magnet)
      BY <1>3 DEF Finished, T
    <2>2. QED BY <1>3, <2>1, TorrentEndStep
  <1>4. ASSUME handler[i].owner = <<"nobody">> PROVE Inv'
    <2>1. NobodyTold
      BY <1>4 DEF Finished, NobodyTold, torrents
    <2>2. QED BY <1>4, <2>1, NobodyEndStep
  <1>5. QED BY <1>1, <1>2, <1>3, <1>4

LEMMA ReplyFinishedStep ==
  ASSUME Inv, NEW i, ReplyFinished(i)
  PROVE  Inv'
  <1>1. AwayFromEnds /\ i \in DOMAIN handler /\ handler[i].state = "running"
    BY DEF ReplyFinished, AwayFromEnds
  <1>2. i \in DOMAIN Manager.handler /\ Manager.handler[i] = handler[i]
    BY <1>1 DEF Manager
  <1>3. ASSUME NEW success \in BOOLEAN, Becomes(ReplyEnds(Manager, i)), Finished(handler[i].owner, success, FALSE)
        PROVE  Inv'
    <2>1. Ends(i)
      BY <1>1, <1>3 DEF Ends
    <2>2. QED BY <1>1, <1>3, <2>1, EndStep
  <1>4. ASSUME Becomes(ReplyEnds(Manager, i)), Finished(handler[i].owner, FALSE, TRUE)
        PROVE  Inv'
    <2>1. Ends(i)
      BY <1>1, <1>4 DEF Ends
    <2>2. QED BY <1>1, <1>4, <2>1, EndStep
  <1>5. ASSUME NEW s \in Service, Becomes(HandleRedirection(Manager, i, s)),
               handler[i].redirections < MaxRedirections, NobodyTold
        PROVE  Inv'
    <2>1. PICK e : e = HandleRedirection(Manager, i, s)
      OBVIOUS
    <2>2. Sound(e) /\ Same(Manager, e, {})
      BY <1>1, <1>2, <1>5, <2>1, InvFeeds, RedirectionFor
    <2>3. e \in Managers
      BY <2>2 DEF Sound, SoundBut
    <2>4. Manager' = e
      BY <1>5, <2>1, <2>3, BecomesIs
    <2>5. FeedsPart(Manager, feedHandler, feeds) /\ JobsPart(Manager, waitingJobs, params, overlapped, plain)
      BY DEF Inv
    <2>6. FeedsPart(e, feedHandler, feeds)
      BY <2>2, <2>5, FeedsKept
    <2>7. SameTorrents(Manager, e)
      BY <2>2, SameTorrentsIs
    <2>8. JobsPart(e, waitingJobs, params, overlapped, plain)
      BY <2>5, <2>7, JobsKept
    <2>9. RestPart'
      BY <1>1, <1>5, RuleIs, RestAtEnd DEF NobodyTold
    <2>10. ArticlesPart(articles, obtained) /\ QueuePart(articles, enabled, queue, timer, handled)
      BY RuleIs
    <2>11. QED BY <1>1, <1>5, <2>4, <2>6, <2>8, <2>9, <2>10 DEF Inv, AwayFromEnds, NobodyTold
  <1>6. ASSUME NEW s \in Service, Becomes(HandleRedirection(Manager, i, s)),
               ~(handler[i].redirections < MaxRedirections), Finished(handler[i].owner, FALSE, FALSE)
        PROVE  Inv'
    <2>1. HandleRedirection(Manager, i, s) = ReplyEnds(Manager, i)
      BY <1>1, <1>2, <1>6, InvFeeds, RedirectionEndsIs
    <2>2. Ends(i)
      BY <1>1, <1>6, <2>1 DEF Ends
    <2>3. QED BY <1>1, <1>6, <2>2, EndStep
  <1>7. \/ \E success \in BOOLEAN : Becomes(ReplyEnds(Manager, i)) /\ Finished(handler[i].owner, success, FALSE)
        \/ Becomes(ReplyEnds(Manager, i)) /\ Finished(handler[i].owner, FALSE, TRUE)
        \/ \E s \in Service :
              /\ Becomes(HandleRedirection(Manager, i, s))
              /\ \/ handler[i].redirections < MaxRedirections /\ NobodyTold
                 \/ ~(handler[i].redirections < MaxRedirections) /\ Finished(handler[i].owner, FALSE, FALSE)
    BY DEF ReplyFinished, NobodyTold, torrents
  <1>8. QED BY <1>3, <1>4, <1>5, <1>6, <1>7

LEMMA DestroyStep ==
  ASSUME Inv, NEW i, Destroy(i)
  PROVE  Inv'
  <1>1. /\ i \in DOMAIN handler /\ ~Live(handler[i]) /\ Becomes(Destroyed(Manager, i))
        /\ AwayFromEnds /\ NobodyTold
    BY DEF Destroy, AwayFromEnds, NobodyTold, rss, auto, torrents
  <1>2. i \in DOMAIN Manager.handler /\ Manager.handler[i] = handler[i]
    BY <1>1 DEF Manager
  <1>3. PICK e : e = Destroyed(Manager, i)
    OBVIOUS
  <1>4. Sound(e) /\ Same(Manager, e, {})
    BY <1>1, <1>2, <1>3, InvFeeds, DestroyedFor
  <1>5. e \in Managers
    BY <1>4 DEF Sound, SoundBut
  <1>6. Manager' = e
    BY <1>1, <1>3, <1>5, BecomesIs
  <1>7. FeedsPart(Manager, feedHandler, feeds) /\ JobsPart(Manager, waitingJobs, params, overlapped, plain)
    BY DEF Inv
  <1>8. FeedsPart(e, feedHandler, feeds)
    BY <1>4, <1>7, FeedsKept
  <1>9. SameTorrents(Manager, e)
    BY <1>4, SameTorrentsIs
  <1>10. JobsPart(e, waitingJobs, params, overlapped, plain)
    BY <1>7, <1>9, JobsKept
  <1>11. RestPart'
    BY <1>1, RuleIs, RestAtEnd DEF NobodyTold
  <1>12. ArticlesPart(articles, obtained) /\ QueuePart(articles, enabled, queue, timer, handled)
    BY RuleIs
  <1>13. QED BY <1>1, <1>6, <1>8, <1>10, <1>11, <1>12 DEF Inv, AwayFromEnds, NobodyTold

-----------------------------------------------------------------------------
(* The step of the parser                                                     *)

LEMMA HandleParsingFinishedStep ==
  ASSUME Inv, NEW f \in Feed, HandleParsingFinished(f)
  PROVE  Inv'
  <1>1. /\ ManagerAside /\ obtained' = obtained /\ enabled' = enabled /\ rule' = rule
        /\ loading' = loading \ {f}
    BY DEF HandleParsingFinished, ManagerAside, torrents, manager
  <1>2. parsing' \in [Feed -> Nat]
    <2>1. parsing \in [Feed -> Nat] /\ parsing[f] > 0 /\ parsing' = [parsing EXCEPT ![f] = @ - 1]
      BY RuleIs DEF HandleParsingFinished
    <2>2. parsing[f] - 1 \in Nat
      BY <2>1
    <2>3. QED BY <2>1, <2>2
  <1>3. PICK had : had = DOMAIN articles[f]
    OBVIOUS
  <1>4. PICK doc \in SUBSET {a \in Article : FeedOf[a] = f} :
            LET kept == Kept(had \cup doc)
                new  == OldestFirst(kept \ had)
            IN  /\ articles' = [articles EXCEPT ![f] =
                                  [a \in kept |-> IF a \in had THEN articles[f][a] ELSE "unread"]]
                /\ IF enabled
                   THEN /\ AddJobs(queue, new)
                        /\ handled' = {a \in handled \cup kept :
                                          /\ FeedOf[a] = f => a \in kept
                                          /\ a \in handled \/ (a \in kept \ had /\ waitingJobs[UrlOf[a]] # <<>>)}
                   ELSE UNCHANGED <<queue, timer, handled>>
    BY <1>3 DEF HandleParsingFinished
  <1>5. PICK kept : kept = Kept(had \cup doc)
    OBVIOUS
  <1>6. PICK new : new = OldestFirst(kept \ had)
    OBVIOUS
  <1>7. PICK b : b = [a \in kept |-> IF a \in had THEN articles[f][a] ELSE "unread"]
    OBVIOUS
  <1>8. /\ articles' = [articles EXCEPT ![f] = b]
        /\ enabled => /\ AddJobs(queue, new)
                      /\ handled' = {a \in handled \cup kept :
                                        /\ FeedOf[a] = f => a \in kept
                                        /\ a \in handled \/ (a \in kept \ had /\ ~NoJob(a))}
        /\ ~enabled => queue' = queue /\ timer' = timer /\ handled' = handled
    BY <1>4, <1>5, <1>6, <1>7 DEF NoJob
  <1>9. /\ had \in SUBSET Article
        /\ \A a \in had : FeedOf[a] = f /\ articles[f][a] \in ArticleState
        /\ \A a \in had : articles[f][a] = "read" => UrlOf[a] \in obtained
    BY <1>3, RuleIs, ArticlesAre
  <1>10. /\ had \cup doc \in SUBSET Article
         /\ \A a \in had \cup doc : FeedOf[a] = f
    BY <1>9
  <1>11. /\ kept \in SUBSET Article /\ Cardinality(kept) <= MaxArticles
         /\ \A a \in kept : FeedOf[a] = f
    BY <1>5, <1>10, KeptIs
  <1>12. Fits(b, kept, f, obtained)
    <2>1. \A a \in kept : (IF a \in had THEN articles[f][a] ELSE "unread") \in ArticleState
      BY <1>9 DEF ArticleState
    <2>2. b \in [kept -> ArticleState]
      BY <1>7, <2>1
    <2>3. \A a \in kept : b[a] = "read" => UrlOf[a] \in obtained
      BY <1>7, <1>9
    <2>4. QED BY <1>11, <2>2, <2>3 DEF Fits
  <1>13. PICK as2 : as2 = [articles EXCEPT ![f] = b]
    OBVIOUS
  <1>14. Replaced(articles, as2, b, kept, f, obtained)
    BY <1>12, <1>13, RuleIs, ArticlesOf
  <1>15. QueuePart(articles, enabled, queue, timer, handled)
    BY RuleIs
  <1>16. CASE enabled
    <2>1. /\ queue' = Queued(queue, new)
          /\ timer' = (timer \/ \E n \in DOMAIN new : NoJob(new[n]))
      BY <1>8, <1>16 DEF AddJobs, NoJob
    <2>2. new \in Seq(kept \ had) /\ \A x \in kept \ had : \E n \in DOMAIN new : new[n] = x
      BY <1>6, <1>11, OldestFirstIs DEF Lists
    <2>3. new \in Seq(Article) /\ queue \in Seq(Article)
      BY <1>11, <1>15, <2>2 DEF QueuePart
    <2>4. PICK q : q = Queued(queue, new)
      OBVIOUS
    <2>5. q \in Seq(Article) /\ Takes(queue, new, q)
      BY <2>3, <2>4, QueuedIs
    <2>6. timer \in BOOLEAN /\ (queue # << >> => timer)
      BY <1>15 DEF QueuePart
    <2>7. timer' \in BOOLEAN /\ (q # << >> => timer')
      BY <2>1, <2>5, <2>6 DEF Takes
    <2>8. handled' \subseteq Article
      BY <1>8, <1>11, <1>15, <1>16 DEF QueuePart
    <2>9. ASSUME NEW a \in UnreadIn(articles), FeedOf[a] = f => a \in kept
          PROVE  a \in ToSet(q) \cup handled'
      <3>1. a \in ToSet(queue) \cup handled
        BY <1>15, <1>16 DEF QueuePart
      <3>2. a \in ToSet(queue) => a \in ToSet(q)
        BY <2>5 DEF Takes
      <3>3. a \in handled => a \in handled'
        BY <1>8, <1>16, <2>9
      <3>4. QED BY <3>1, <3>2, <3>3
    <2>10. ASSUME NEW a \in kept, b[a] = "unread" PROVE a \in ToSet(q) \cup handled'
      <3>1. CASE a \in had
        <4>1. articles[f][a] = "unread" /\ a \in Article /\ FeedOf[a] = f
          BY <1>7, <1>11, <2>10, <3>1
        <4>2. a \in UnreadIn(articles)
          BY <1>3, <3>1, <4>1 DEF UnreadIn
        <4>3. QED BY <2>9, <4>2
      <3>2. CASE a \notin had
        <4>1. NoJob(a) => a \in ToSet(q)
          BY <2>2, <2>5, <3>2 DEF Takes
        <4>2. ~NoJob(a) => a \in handled'
          BY <1>8, <1>16, <3>2
        <4>3. QED BY <4>1, <4>2
      <3>3. QED BY <3>1, <3>2
    <2>11. UnreadIn(as2) \subseteq ToSet(q) \cup handled'
      BY <1>14, <2>9, <2>10 DEF Replaced
    <2>12. QueuePart(as2, enabled, q, timer', handled')
      BY <1>15, <2>5, <2>7, <2>8, <2>11 DEF QueuePart
    <2>13. ArticlesPart(as2, obtained)
      BY <1>14 DEF Replaced
    <2>14. rule' \in [enabled: BOOLEAN, matched: SUBSET Episode, computed: SUBSET Episode]
      BY <1>1, RuleIs
    <2>15. ArticlesPart(articles', obtained') /\ QueuePart(articles', enabled', queue', timer', handled')
      BY <1>1, <1>8, <1>13, <2>1, <2>4, <2>12, <2>13
    <2>16. QED BY <1>1, <1>2, <2>14, <2>15, AsideStep
  <1>17. CASE ~enabled
    <2>1. QueuePart(as2, enabled, queue, timer, handled)
      BY <1>15, <1>17 DEF QueuePart
    <2>2. ArticlesPart(as2, obtained)
      BY <1>14 DEF Replaced
    <2>3. rule' \in [enabled: BOOLEAN, matched: SUBSET Episode, computed: SUBSET Episode]
      BY <1>1, RuleIs
    <2>4. ArticlesPart(articles', obtained') /\ QueuePart(articles', enabled', queue', timer', handled')
      BY <1>1, <1>8, <1>13, <1>17, <2>1, <2>2
    <2>5. QED BY <1>1, <1>2, <2>3, <2>4, AsideStep
  <1>18. QED BY <1>16, <1>17

-----------------------------------------------------------------------------
(* The invariant                                                              *)

LEMMA InitInv ==
  ASSUME Init
  PROVE  Inv
  <1>1. feeds \in Seq(Feed)
    BY RssAssumption DEF Init
  <1>2. sequential \subseteq Service
    <2>1. \A n \in DOMAIN feeds : feeds[n] \in Feed
      BY <1>1, ElementOfSeq, LenProperties
    <2>2. \A f \in Feed : ServiceOf[f] \in Service
      BY RssAssumption
    <2>3. QED BY <2>1, <2>2 DEF Init, Present
  <1>3. PICK none : none = [i \in {} |-> 0]
    OBVIOUS
  <1>4. << >> = none /\ DOMAIN none = {}
    BY <1>3
  <1>5. /\ Manager.handler = none /\ Manager.waiting = [s \in Service |-> << >>]
        /\ Manager.busy = {} /\ Manager.sequential = sequential /\ Manager.orphaned = {}
    BY <1>4 DEF Manager, Init, ManagerInit
  <1>6. Manager \in Managers
    <2>1. none \in [{} -> Record] /\ {} \in SUBSET Handler
      BY <1>3
    <2>2. none \in UNION {[D -> Record] : D \in SUBSET Handler}
      BY <2>1
    <2>3. << >> \in Seq(Handler)
      OBVIOUS
    <2>4. [s \in Service |-> << >>] \in [Service -> Seq(Handler)]
      BY <2>3
    <2>5. Manager = [handler |-> none, waiting |-> [s \in Service |-> << >>], busy |-> {},
                     sequential |-> sequential, orphaned |-> {}]
      BY <1>4 DEF Manager, Init, ManagerInit
    <2>6. QED BY <1>2, <2>2, <2>4, <2>5 DEF Managers
  <1>7. QueuesHold(Manager) /\ NobodyTwice(Manager)
    <2>1. \A s \in Service : DOMAIN Manager.waiting[s] = {}
      BY <1>5
    <2>2. QED BY <2>1 DEF QueuesHold, NobodyTwice
  <1>8. Served(Manager, {})
    BY <1>5 DEF Served
  <1>9. Sound(Manager)
    BY <1>5, <1>6, <1>7, <1>8 DEF Sound, SoundBut
  <1>10. \A o : Downloading(Manager, o) = {}
    BY <1>4, <1>5 DEF Downloading
  <1>11. FeedsPart(Manager, feedHandler, feeds)
    BY <1>9 DEF FeedsPart, Init, Held, HeldBy
  <1>12. JobsPart(Manager, waitingJobs, params, overlapped, plain)
    <2>1. \A u \in Url : waitingJobs[u] = << >>
      BY DEF Init
    <2>2. QED BY <1>10, <2>1, DownloadableIs DEF JobsPart, Init
  <1>13. ArticlesPart(articles, obtained) /\ UnreadIn(articles) = {}
    <2>1. PICK book : book = [a \in {} |-> "unread"]
      OBVIOUS
    <2>2. book \in [{} -> ArticleState] /\ {} \in SUBSET Article /\ DOMAIN book = {} /\ << >> = book
      BY <2>1
    <2>3. book \in UNION {[D -> ArticleState] : D \in SUBSET Article}
      BY <2>2
    <2>4. articles = [f \in Feed |-> book]
      BY <2>2 DEF Init
    <2>5. Cardinality({}) <= MaxArticles
      BY FS_EmptySet, RssAssumption
    <2>6. obtained \subseteq Url
      BY DEF Init
    <2>7. articles \in [Feed -> UNION {[D -> ArticleState] : D \in SUBSET Article}]
      BY <2>3, <2>4
    <2>8. \A f \in Feed : DOMAIN articles[f] = {}
      BY <2>2, <2>4
    <2>9. ArticlesPart(articles, obtained)
      BY <2>5, <2>6, <2>7, <2>8 DEF ArticlesPart
    <2>10. UnreadIn(articles) = {}
      BY <2>8, RssAssumption DEF UnreadIn
    <2>11. QED BY <2>9, <2>10
  <1>14. QueuePart(articles, enabled, queue, timer, handled)
    <2>1. << >> \in Seq(Article)
      OBVIOUS
    <2>2. QED BY <1>13, <2>1 DEF QueuePart, Init
  <1>15. RestPart
    BY <1>1 DEF RestPart, Init
  <1>16. QED BY <1>11, <1>12, <1>13, <1>14, <1>15 DEF Inv

LEMMA NextInv ==
  ASSUME Inv, [Next]_vars
  PROVE  Inv'
  <1>1. ASSUME NEW f \in Feed, Refresh(f) \/ AddFeed(f) \/ RemoveFeed(f) \/ MatchingArticles(f)
        PROVE  Inv'
    BY <1>1, RefreshStep, AddFeedStep, RemoveFeedStep, MatchingArticlesStep
  <1>2. CASE RefreshTimer
    BY <1>2, RefreshTimerStep
  <1>3. CASE EnableProcessing
    BY <1>3, EnableProcessingStep
  <1>4. CASE SetProcessingEnabled
    BY <1>4, SetProcessingEnabledStep
  <1>5. CASE InsertRule
    BY <1>5, InsertRuleStep
  <1>6. ASSUME NEW u \in Url, AddTorrent(u) PROVE Inv'
    BY <1>6, AddTorrentStep
  <1>7. ASSUME NEW a \in Article, ReadArticle(a) PROVE Inv'
    BY <1>7, ReadArticleStep
  <1>8. CASE ProcessNothing
    BY <1>8, ProcessNothingStep
  <1>9. CASE Process
    BY <1>9, ProcessStep
  <1>10. ASSUME NEW i \in Handler, ReplyFinished(i) \/ Destroy(i) PROVE Inv'
    BY <1>10, ReplyFinishedStep, DestroyStep
  <1>11. ASSUME NEW f \in Feed, HandleParsingFinished(f) PROVE Inv'
    BY <1>11, HandleParsingFinishedStep
  <1>12. CASE UNCHANGED vars
    <2>1. /\ ManagerAside /\ articles' = articles /\ obtained' = obtained /\ parsing' = parsing
          /\ enabled' = enabled /\ queue' = queue /\ timer' = timer /\ handled' = handled
          /\ loading' = loading /\ rule' = rule
      BY <1>12 DEF vars, ManagerAside, rss, auto, torrents, manager
    <2>2. QED BY <2>1, RuleIs, AsideStep
  <1>13. CASE DisableProcessing
    BY <1>13, DisableProcessingStep
  <1>14. QED
    BY <1>1, <1>2, <1>3, <1>4, <1>5, <1>6, <1>7, <1>8, <1>9, <1>10, <1>11, <1>12, <1>13 DEF Next, UserStep

(* The manager serves its queues, the feeds hold downloads of their own, a job
   has a download of its URL if that can be downloaded, what is read was obtained, and what is unread is
   in the queue or was looked at: all of it together, at any time. *)
THEOREM InvHolds == Spec => []Inv
  <1>1. Init => Inv
    BY InitInv
  <1>2. Inv /\ [Next]_vars => Inv'
    BY NextInv
  <1>3. QED BY <1>1, <1>2, PTL DEF Spec

-----------------------------------------------------------------------------
(* The properties                                                             *)

LEMMA Narrowed ==
  ASSUME NEW S, NEW R, NEW q \in Seq(S), \A n \in DOMAIN q : q[n] \in R
  PROVE  q \in Seq(R)
  <1>1. Len(q) \in Nat /\ q \in [1 .. Len(q) -> S]
    BY LenProperties
  <1>2. q \in [1 .. Len(q) -> R]
    BY <1>1
  <1>3. QED BY <1>1, <1>2

LEMMA InvManager ==
  ASSUME Inv
  PROVE  ManagerTypeOK(Owner) /\ WaitersAreServed
  <1>1. /\ Manager \in Managers /\ Manager.busy \subseteq Manager.sequential
        /\ QueuesHold(Manager) /\ Served(Manager, {})
    BY InvFeeds DEF Sound, SoundBut
  <1>2. /\ Manager.handler = handler /\ Manager.waiting = waiting /\ Manager.busy = busy
        /\ Manager.sequential = sequential /\ Manager.orphaned = orphaned
    BY DEF Manager
  <1>3. /\ DOMAIN handler \subseteq Handler
        /\ \A i \in DOMAIN handler : handler[i] \in Record
        /\ busy \subseteq sequential /\ sequential \subseteq Service /\ orphaned \subseteq Service
    BY <1>1, <1>2, ManagerType
  <1>4. waiting \in [Service -> Seq(DOMAIN handler)]
    <2>1. waiting \in [Service -> Seq(Handler)]
      BY <1>1, <1>2, ManagerType
    <2>2. ASSUME NEW s \in Service PROVE waiting[s] \in Seq(DOMAIN handler)
      <3>1. \A n \in DOMAIN waiting[s] : waiting[s][n] \in DOMAIN handler
        BY <1>1, <1>2 DEF QueuesHold
      <3>2. waiting[s] \in Seq(Handler)
        BY <2>1
      <3>3. QED BY <3>1, <3>2, Narrowed
    <2>3. QED BY <2>1, <2>2
  <1>5. ManagerTypeOK(Owner)
    BY <1>3, <1>4 DEF ManagerTypeOK, Record
  <1>6. \A s \in Service : Replies(Manager, s, {}) => HasReply(s)
    BY <1>2 DEF Replies, HasReply
  <1>7. WaitersAreServed
    BY <1>1, <1>2, <1>3, <1>6 DEF Served, WaitersAreServed
  <1>8. QED BY <1>5, <1>7

LEMMA InvTypeOK ==
  ASSUME Inv
  PROVE  TypeOK
  <1>1. ManagerTypeOK(Owner)
    BY InvManager
  <1>2. /\ processing \in BOOLEAN /\ feeds \in Seq(Feed)
        /\ iconless \subseteq Present /\ loading \subseteq Present
        /\ parsing \in [Feed -> Nat]
        /\ rule \in [enabled: BOOLEAN, matched: SUBSET Episode, computed: SUBSET Episode]
    BY DEF Inv, RestPart
  <1>3. /\ enabled \in BOOLEAN /\ timer \in BOOLEAN /\ queue \in Seq(Article) /\ handled \subseteq Article
    BY DEF Inv, QueuePart
  <1>4. feedHandler \in [Feed -> {<<>>} \cup {<<i>> : i \in Handler}]
    BY InvFeeds DEF Held
  <1>5. /\ waitingJobs \in [Url -> {<<>>} \cup {<<a>> : a \in Article}]
        /\ params \subseteq Url /\ overlapped \subseteq Url /\ plain \subseteq Url
    BY DEF Inv, JobsPart
  <1>6. obtained \subseteq Url
    BY DEF Inv, ArticlesPart
  <1>7. ASSUME NEW f \in Feed
        PROVE  /\ DOMAIN articles[f] \subseteq {a \in Article : FeedOf[a] = f}
               /\ Cardinality(DOMAIN articles[f]) <= MaxArticles
               /\ \A a \in DOMAIN articles[f] : articles[f][a] \in ArticleState
    <2>1. /\ DOMAIN articles[f] \in SUBSET Article
          /\ \A a \in DOMAIN articles[f] : FeedOf[a] = f /\ articles[f][a] \in ArticleState
      BY RuleIs, ArticlesAre
    <2>2. Cardinality(DOMAIN articles[f]) <= MaxArticles
      BY DEF Inv, ArticlesPart
    <2>3. QED BY <2>1, <2>2
  <1>8. QED BY <1>1, <1>2, <1>3, <1>4, <1>5, <1>6, <1>7 DEF TypeOK

(* DownloadsHold: whatever users, feeds and the downloader ask for, and however
   replies, redirections and destroyed handlers follow one another, the manager
   is well typed and a busy service has a reply to come
   (downloadmanager.cpp:171-191, 271-289). *)
THEOREM DownloadsHoldAlways == Spec => []DownloadsHold
  <1>1. Inv => DownloadsHold
    BY InvTypeOK, InvManager DEF DownloadsHold
  <1>2. QED BY <1>1, InvHolds, PTL

(* FeedHandlersLive: a feed never holds the handler of a download that has ended
   or is another's, which its next refresh would cancel (rss_feed.cpp:131-134). *)
THEOREM FeedHandlersLiveAlways == Spec => []FeedHandlersLive
  <1>1. ASSUME Inv PROVE FeedHandlersLive
    <2>1. ASSUME NEW f \in Feed, feedHandler[f] # << >>
          PROVE  /\ f \in Present /\ feedHandler[f][1] \in DOMAIN handler
                 /\ Live(handler[feedHandler[f][1]])
                 /\ handler[feedHandler[f][1]].owner = <<"feed", f>>
      <3>1. f \in Present
        BY <1>1, <2>1, InvFeeds
      <3>2. feedHandler[f][1] \in Downloading(Manager, <<"feed", f>>)
        BY <1>1, <2>1 DEF Inv, FeedsPart, HeldBy
      <3>3. Manager.handler = handler
        BY DEF Manager
      <3>4. QED BY <3>1, <3>2, <3>3 DEF Downloading
    <2>2. QED BY <2>1 DEF FeedHandlersLive
  <1>2. QED BY <1>1, InvHolds, PTL

(* JobsSettle: a job for a URL that can be downloaded waits only while it is, and
   an article is marked as read only when its torrent's data came
   (rss_autodownloader.cpp:373). Of a URL that cannot be downloaded nothing is
   said: its job waits for good (see Process). *)
THEOREM JobsSettleAlways == Spec => []JobsSettle
  <1>1. ASSUME Inv PROVE JobsAreDownloading
    <2>1. Manager.handler = handler
      BY DEF Manager
    <2>2. \A u \in Downloadable : waitingJobs[u] # << >> => Downloading(Manager, T(u)) # {}
      BY <1>1 DEF Inv, JobsPart
    <2>3. QED BY <2>1, <2>2 DEF JobsAreDownloading, Downloading, T
  <1>2. ASSUME Inv PROVE ReadAreObtained
    BY <1>2 DEF Inv, ArticlesPart, ReadAreObtained
  <1>3. Inv => JobsSettle
    BY <1>1, <1>2 DEF JobsSettle
  <1>4. QED BY <1>3, InvHolds, PTL

(* UnreadAreQueued: while the downloader is enabled no unread article is passed
   over, and what is queued has a timer (rss_autodownloader.cpp:370-381). *)
THEOREM UnreadAreQueuedAlways == Spec => []UnreadAreQueued
  <1>1. Inv => UnreadAreQueued
    BY RuleIs DEF QueuePart, UnreadAreQueued
  <1>2. QED BY <1>1, InvHolds, PTL

(* AddedAsAsked: a torrent that was downloaded by its URL is added with the
   parameters of someone who asked for it, unless the URL was downloaded twice
   at a time. *)
THEOREM AddedAsAskedAlways == Spec => []AddedAsAsked
  <1>1. Inv => AddedAsAsked
    BY DEF Inv, JobsPart, AddedAsAsked
  <1>2. QED BY <1>1, InvHolds, PTL

=============================================================================
