------------------------------ MODULE QueueFacts ------------------------------
(* What taking the head of a queue, appending to it, joining two of them and    *)
(* taking one element out make of the elements and their positions; and what a *)
(* loop over a queue does, written as a function of the number of its rounds.   *)
(* The modules with proofs about messages, calls, alerts, downloads and jobs    *)
(* that wait cite these.                                                       *)
EXTENDS Naturals, Sequences, SequenceTheorems, WellFoundedInduction, TLAPS

-----------------------------------------------------------------------------
(* Queues *)

LEMMA TailIn ==
  ASSUME NEW S, NEW q \in Seq(S), q # << >>
  PROVE  /\ Head(q) \in S /\ Tail(q) \in Seq(S)
         /\ Len(q) \in Nat \ {0} /\ DOMAIN q = 1 .. Len(q)
         /\ Len(Tail(q)) = Len(q) - 1 /\ DOMAIN Tail(q) = 1 .. Len(q) - 1
         /\ \A i \in DOMAIN Tail(q) : Tail(q)[i] = q[i + 1]
         /\ Head(q) = q[1]
  BY HeadTailProperties, LenProperties

LEMMA AppendIn ==
  ASSUME NEW S, NEW q \in Seq(S), NEW x \in S
  PROVE  /\ Append(q, x) \in Seq(S)
         /\ DOMAIN q = 1 .. Len(q) /\ Len(q) \in Nat
         /\ DOMAIN Append(q, x) = 1 .. Len(q) + 1
         /\ \A i \in 1 .. Len(q) : Append(q, x)[i] = q[i]
         /\ Append(q, x)[Len(q) + 1] = x
  BY AppendProperties, LenProperties

LEMMA ConcatIn ==
  ASSUME NEW S, NEW q \in Seq(S), NEW r \in Seq(S)
  PROVE  /\ q \o r \in Seq(S)
         /\ DOMAIN q = 1 .. Len(q) /\ DOMAIN r = 1 .. Len(r)
         /\ Len(q) \in Nat /\ Len(r) \in Nat
         /\ DOMAIN (q \o r) = 1 .. Len(q) + Len(r)
         /\ \A i \in 1 .. Len(q) : (q \o r)[i] = q[i]
         /\ \A i \in 1 .. Len(r) : (q \o r)[Len(q) + i] = r[i]
  <1>1. q \o r \in Seq(S) /\ Len(q \o r) = Len(q) + Len(r)
    BY ConcatProperties
  <1>2. Len(q) \in Nat /\ Len(r) \in Nat
    BY LenProperties
  <1>3. \A i \in 1 .. Len(q) : (q \o r)[i] = q[i]
    BY <1>2, ConcatProperties
  <1>4. ASSUME NEW i \in 1 .. Len(r) PROVE (q \o r)[Len(q) + i] = r[i]
    <2>1. Len(q) + i \in 1 .. Len(q) + Len(r) /\ ~(Len(q) + i <= Len(q)) /\ Len(q) + i - Len(q) = i
      BY <1>2
    <2>2. QED BY <2>1, <1>2, ConcatProperties
  <1>5. QED
    BY <1>1, <1>2, <1>3, <1>4, LenProperties

\* The queue q without its element at i, and what it is
RemovedFrom(q, i) == SubSeq(q, 1, i - 1) \o SubSeq(q, i + 1, Len(q))

ClosesUp(q, i, r) ==
    /\ DOMAIN r = 1 .. Len(q) - 1
    /\ \A j \in 1 .. Len(q) - 1 : r[j] = IF j < i THEN q[j] ELSE q[j + 1]

LEMMA RemovedAt ==
  ASSUME NEW S, NEW q \in Seq(S), NEW i \in 1 .. Len(q), NEW r, r = RemovedFrom(q, i)
  PROVE  r \in Seq(S) /\ ClosesUp(q, i, r)
  <1>0. Len(q) \in Nat
    BY LenProperties
  <1>1. Len(q) \in Nat /\ DOMAIN q = 1 .. Len(q) /\ \A j \in 1 .. Len(q) : q[j] \in S
    BY LenProperties, ElementOfSeq
  <1> DEFINE a == SubSeq(q, 1, i - 1)
             b == SubSeq(q, i + 1, Len(q))
  <1>2. a \in Seq(S) /\ Len(a) = i - 1 /\ \A j \in 1 .. i - 1 : a[j] = q[j]
    <2>1. /\ a \in Seq(S) /\ Len(a) = IF 1 <= i - 1 THEN i - 1 - 1 + 1 ELSE 0
          /\ \A j \in 1 .. i - 1 - 1 + 1 : a[j] = q[1 + j - 1]
      <3>1. 1 \in 1 .. Len(q) + 1 /\ i - 1 \in 0 .. Len(q)
        BY <1>1
      <3>2. QED BY <1>1, <3>1, SubSeqProperties
    <2>2. QED BY <1>1, <2>1
  <1>3. b \in Seq(S) /\ Len(b) = Len(q) - i /\ \A j \in 1 .. Len(q) - i : b[j] = q[j + i]
    <2>0. i + 1 \in 1 .. Len(q) + 1 /\ Len(q) \in 0 .. Len(q)
      BY <1>1
    <2>a. b \in Seq(S)
      BY <1>1, <2>0, SubSeqProperties
    <2>b. Len(b) = IF i + 1 <= Len(q) THEN Len(q) - (i + 1) + 1 ELSE 0
      BY <1>1, <2>0, SubSeqProperties
    <2>1. \A j \in 1 .. Len(q) - (i + 1) + 1 : b[j] = q[(i + 1) + j - 1]
      BY <1>1, <2>0, SubSeqProperties
    <2>2. ASSUME NEW j \in 1 .. Len(q) - i PROVE b[j] = q[j + i]
      <3>1. j \in 1 .. Len(q) - (i + 1) + 1 /\ (i + 1) + j - 1 = j + i
        BY <1>1
      <3>2. QED BY <2>1, <3>1
    <2> HIDE DEF b
    <2>3. Len(b) = Len(q) - i
      <3> DEFINE n == Len(b)
      <3>1. n = IF i + 1 <= Len(q) THEN Len(q) - (i + 1) + 1 ELSE 0
        BY <2>b
      <3> HIDE DEF n
      <3>2. n = Len(q) - i
        BY <1>0, <3>1
      <3>3. QED BY <3>2 DEF n
    <2>4. QED BY <2>a, <2>2, <2>3
  <1> HIDE DEF a, b
  <1>4. r = a \o b
    BY DEF a, b, RemovedFrom
  <1>5. r \in Seq(S) /\ Len(r) = Len(q) - 1 /\ DOMAIN r = 1 .. Len(q) - 1
    <2>1. r \in Seq(S) /\ Len(r) = Len(a) + Len(b)
      BY <1>2, <1>3, <1>4, ConcatProperties
    <2>2. Len(r) = Len(q) - 1
      BY <1>1, <1>2, <1>3, <2>1
    <2>3. DOMAIN r = 1 .. Len(r)
      BY <2>1, LenProperties
    <2>4. QED BY <2>1, <2>2, <2>3
  <1>c. /\ \A j \in 1 .. Len(a) : r[j] = a[j]
        /\ \A j \in 1 .. Len(b) : r[Len(a) + j] = b[j]
    <2>1. a \in Seq(S) /\ b \in Seq(S)
      BY <1>2, <1>3
    <2>2. /\ \A j \in 1 .. Len(a) : (a \o b)[j] = a[j]
          /\ \A j \in 1 .. Len(b) : (a \o b)[Len(a) + j] = b[j]
      BY <2>1, ConcatIn
    <2>3. QED BY <1>4, <2>2
  <1>6. ASSUME NEW j \in 1 .. Len(q) - 1 PROVE r[j] = IF j < i THEN q[j] ELSE q[j + 1]
    <2>1. CASE j < i
      <3>1. j \in 1 .. Len(a)
        BY <1>1, <1>2, <2>1
      <3>2. QED BY <1>2, <1>c, <2>1, <3>1
    <2>2. CASE ~(j < i)
      <3>1. j - (i - 1) \in 1 .. Len(b) /\ Len(a) + (j - (i - 1)) = j /\ j - (i - 1) + i = j + 1
        BY <1>1, <1>2, <1>3, <2>2
      <3>2. r[Len(a) + (j - (i - 1))] = b[j - (i - 1)]
        BY <1>c, <3>1
      <3>3. QED BY <1>3, <2>2, <3>1, <3>2
    <2>3. QED BY <2>1, <2>2
  <1>7. QED BY <1>5, <1>6 DEF ClosesUp

-----------------------------------------------------------------------------
(* Loops *)

\* A set of numbers has a least one.
LEMMA Least ==
  ASSUME NEW T \in SUBSET Nat, T # {}
  PROVE  \E x \in T : \A y \in T : x <= y
  <1>1. PICK x \in T : \A y \in T : ~(<<y, x>> \in OpToRel(<, Nat))
    BY NatLessThanWellFounded, WFMin
  <1>2. \A y \in T : ~(y < x)
    BY <1>1 DEF OpToRel
  <1>3. QED BY <1>2

\* Induction over the rounds, for the set P of those after which something holds
LEMMA UpTo ==
  ASSUME NEW N \in Nat, NEW P, 0 \in P, \A n \in 1 .. N : n - 1 \in P => n \in P
  PROVE  \A n \in 0 .. N : n \in P
  <1> DEFINE T == {n \in 0 .. N : n \notin P}
  <1>1. SUFFICES ASSUME T # {} PROVE FALSE
    OBVIOUS
  <1>2. PICK m \in T : \A y \in T : m <= y
    <2>1. T \in SUBSET Nat
      OBVIOUS
    <2> HIDE DEF T
    <2>2. QED BY <1>1, <2>1, Least
  <1>3. m \in 1 .. N /\ m \notin P
    BY <1>2
  <1>4. m - 1 \in P
    BY <1>2, <1>3
  <1>5. QED BY <1>3, <1>4

\* f is what N rounds of step make of base.
Iterates(f, N, base, step) == f[0] = base /\ \A n \in 1 .. N : f[n] = step[n][f[n - 1]]

LEMMA Iterated ==
  ASSUME NEW N \in Nat, NEW S, NEW base \in S, NEW step \in [1 .. N -> [S -> S]]
  PROVE  \E f \in [0 .. N -> S] : Iterates(f, N, base, step)
  <1> DEFINE Upto(m, f) == f[0] = base /\ \A n \in 1 .. m : f[n] = step[n][f[n - 1]]
             P == {m \in 0 .. N : \E f \in [0 .. m -> S] : Upto(m, f)}
  <1>1. 0 \in P
    <2> DEFINE f == [n \in 0 .. 0 |-> base]
    <2>1. f \in [0 .. 0 -> S] /\ Upto(0, f)
      OBVIOUS
    <2> HIDE DEF f
    <2>2. QED BY <2>1
  <1>2. ASSUME NEW m \in 1 .. N, m - 1 \in P PROVE m \in P
    <2>1. PICK f \in [0 .. m - 1 -> S] : Upto(m - 1, f)
      BY <1>2
    <2> DEFINE g == [n \in 0 .. m |-> IF n = m THEN step[m][f[m - 1]] ELSE f[n]]
    <2>2. g \in [0 .. m -> S]
      OBVIOUS
    <2>3. g[0] = base
      BY <2>1
    <2>4. ASSUME NEW n \in 1 .. m PROVE g[n] = step[n][g[n - 1]]
      <3>1. g[n - 1] = f[n - 1]
        OBVIOUS
      <3>2. CASE n = m
        BY <3>1, <3>2
      <3>3. CASE n # m
        <4>1. n \in 1 .. m - 1
          BY <3>3
        <4>2. QED BY <2>1, <3>1, <4>1
      <3>4. QED BY <3>2, <3>3
    <2> HIDE DEF g
    <2>5. QED BY <2>2, <2>3, <2>4
  <1>3. \A n \in 0 .. N : n \in P
    <2> HIDE DEF P
    <2>1. QED BY <1>1, <1>2, UpTo
  <1>4. QED BY <1>3 DEF Iterates

\* What a loop keeps: G[n] is where it is after n rounds.
LEMMA IteratedIn ==
  ASSUME NEW N \in Nat, NEW S, NEW base \in S, NEW step \in [1 .. N -> [S -> S]],
         NEW G, base \in G[0], \A n \in 1 .. N : \A x \in S : x \in G[n - 1] => step[n][x] \in G[n]
  PROVE  \E f \in [0 .. N -> S] : Iterates(f, N, base, step) /\ \A n \in 0 .. N : f[n] \in G[n]
  <1>1. PICK f \in [0 .. N -> S] : Iterates(f, N, base, step)
    BY Iterated
  <1> DEFINE P == {n \in 0 .. N : f[n] \in G[n]}
  <1>2. 0 \in P
    BY <1>1 DEF Iterates
  <1>3. ASSUME NEW n \in 1 .. N, n - 1 \in P PROVE n \in P
    <2>1. n - 1 \in 0 .. N /\ n \in 0 .. N
      OBVIOUS
    <2>2. f[n - 1] \in S /\ f[n - 1] \in G[n - 1]
      BY <1>1, <1>3, <2>1
    <2>3. f[n] \in G[n]
      BY <1>1, <2>2 DEF Iterates
    <2>4. QED BY <2>1, <2>3
  <1>4. \A n \in 0 .. N : n \in P
    <2> HIDE DEF P
    <2>1. QED BY <1>2, <1>3, UpTo
  <1>5. QED BY <1>1, <1>4

=============================================================================
