------------------------- MODULE TaskQueuesProofs -------------------------
(* What the operations of a limited task queue keep and what they take away,
   for deques of any length, and where something is in a list and in what is
   made of it: lemmas for the proofs about the code that uses the queues. *)
EXTENDS TaskQueues, FiniteSetTheorems, FunctionTheorems, SequenceTheorems,
        WellFoundedInduction, TLAPS

\* Task t is in deque d once at most.
AtMostOnce(d, t) == \A i, j \in 1..Len(d) : d[i] = t /\ d[j] = t => i = j

---------------------------------------------------------------------------
(* Positions in order *)

Rank(P, i) == Cardinality({j \in P : j <= i})

LEMMA PositionsFinite ==
    ASSUME NEW n \in Nat, NEW P \in SUBSET (1..n)
    PROVE  IsFiniteSet(P) /\ Cardinality(P) \in Nat
<1>1. IsFiniteSet(1..n)
  BY FS_Interval
<1>2. IsFiniteSet(P)
  BY <1>1, FS_Subset
<1>3. QED
  BY <1>2, FS_CardinalityType

\* A later position has a higher rank.
LEMMA RankGrows ==
    ASSUME NEW n \in Nat, NEW P \in SUBSET (1..n), NEW i \in P, NEW k \in P,
           i < k
    PROVE  Rank(P, i) < Rank(P, k)
<1> DEFINE A == {j \in P : j <= i}
           B == {j \in P : j <= k}
<1>1. P \subseteq Int
  OBVIOUS
<1>2. A \in SUBSET B /\ k \in B /\ k \notin A
  <2>1. i \in Int /\ k \in Int
    BY <1>1
  <2>2. \A j \in P : j <= i => j <= k
    BY <1>1, <2>1
  <2>3. k <= k /\ ~(k <= i)
    BY <2>1
  <2>4. QED
    BY <2>2, <2>3
<1>3. A \in SUBSET (1..n) /\ B \in SUBSET (1..n)
  OBVIOUS
<1> HIDE DEF A, B
<1>4. IsFiniteSet(B) /\ Cardinality(B) \in Nat /\ Cardinality(A) \in Nat
  BY <1>3, PositionsFinite
<1>5. Cardinality(A) <= Cardinality(B) /\ Cardinality(A) # Cardinality(B)
  BY <1>2, <1>4, FS_Subset
<1>6. QED
  BY <1>4, <1>5 DEF A, B, Rank

\* The ranks of the positions P are 1..Cardinality(P), one position each.
LEMMA RankBijective ==
    ASSUME NEW n \in Nat, NEW P \in SUBSET (1..n)
    PROVE  /\ \A i \in P : Rank(P, i) \in 1..Cardinality(P)
           /\ \A i, k \in P : Rank(P, i) = Rank(P, k) => i = k
           /\ \A r \in 1..Cardinality(P) : \E i \in P : Rank(P, i) = r
<1>1. IsFiniteSet(P) /\ Cardinality(P) \in Nat
  BY PositionsFinite
<1>2. ASSUME NEW i \in P
      PROVE  Rank(P, i) \in 1..Cardinality(P)
  <2> DEFINE A == {j \in P : j <= i}
  <2>1. A \in SUBSET P /\ i \in A /\ A # {}
    OBVIOUS
  <2> HIDE DEF A
  <2>2. IsFiniteSet(A) /\ Cardinality(A) <= Cardinality(P)
    BY <1>1, <2>1, FS_Subset
  <2>3. Cardinality(A) \in Nat /\ Cardinality(A) # 0
    BY <2>1, <2>2, FS_CardinalityType, FS_EmptySet
  <2>4. QED
    BY <1>1, <2>2, <2>3 DEF A, Rank
<1>3. ASSUME NEW i \in P, NEW k \in P, Rank(P, i) = Rank(P, k)
      PROVE  i = k
  <2>1. i \in Int /\ k \in Int /\ Rank(P, i) \in Int
    BY <1>2
  <2>2. ~(i < k)
    <3>1. i < k => Rank(P, i) < Rank(P, k)
      BY RankGrows
    <3>2. QED
      BY <1>3, <2>1, <3>1
  <2>3. ~(k < i)
    <3>1. k < i => Rank(P, k) < Rank(P, i)
      BY RankGrows
    <3>2. QED
      BY <1>3, <2>1, <3>1
  <2>4. QED
    BY <2>1, <2>2, <2>3
<1> DEFINE f == [i \in P |-> Rank(P, i)]
<1>4. f \in [P -> 1..Cardinality(P)]
  BY <1>2
<1>5. \A i, k \in P : f[i] = f[k] => i = k
  BY <1>3
<1>6. f \in Injection(P, 1..Cardinality(P))
  <2> HIDE DEF f
  <2>1. QED
    BY <1>4, <1>5, Fun_IsInj
<1>7. IsFiniteSet(1..Cardinality(P)) /\ Cardinality(1..Cardinality(P)) = Cardinality(P)
  BY <1>1, FS_Interval
<1>8. f \in Surjection(P, 1..Cardinality(P))
  <2> HIDE DEF f
  <2>1. QED
    BY <1>6, <1>7, FS_Injection
<1>9. \A r \in 1..Cardinality(P) : \E i \in P : f[i] = r
  BY <1>8 DEF Surjection
<1>10. QED
  BY <1>2, <1>3, <1>9

\* The position that Select looks up for its n-th element.
Position(P, n) == CHOOSE i \in P : Cardinality({j \in P : j <= i}) = n

LEMMA PositionFact ==
    ASSUME NEW n \in Nat, NEW P \in SUBSET (1..n), NEW r \in 1..Cardinality(P)
    PROVE  Position(P, r) \in P /\ Rank(P, Position(P, r)) = r
<1>1. \E i \in P : Cardinality({j \in P : j <= i}) = r
  BY RankBijective DEF Rank
<1>2. QED
  BY <1>1 DEF Position, Rank

\* Select takes the elements at the positions P, each of them once.
LEMMA SelectFact ==
    ASSUME NEW S, NEW d \in Seq(S), NEW P \in SUBSET (1..Len(d))
    PROVE  /\ Select(d, P) \in Seq(S)
           /\ Len(Select(d, P)) = Cardinality(P)
           /\ \A r \in 1..Cardinality(P) :
                /\ Position(P, r) \in P
                /\ Select(d, P)[r] = d[Position(P, r)]
           /\ \A r, s \in 1..Cardinality(P) :
                Position(P, r) = Position(P, s) => r = s
<1>0. Len(d) \in Nat
  BY LenProperties
<1>card. Cardinality(P) \in Nat
  BY <1>0, PositionsFinite
<1>1. \A r \in 1..Cardinality(P) :
        Position(P, r) \in P /\ Rank(P, Position(P, r)) = r
  BY <1>0, PositionFact
<1>2. Select(d, P) = [r \in 1..Cardinality(P) |-> d[Position(P, r)]]
  BY DEF Select, Position
<1>3. \A r \in 1..Cardinality(P) : d[Position(P, r)] \in S
  <2>1. \A i \in 1..Len(d) : d[i] \in S
    BY ElementOfSeq
  <2>2. QED
    BY <1>1, <2>1
<1>4. [r \in 1..Cardinality(P) |-> d[Position(P, r)]] \in [1..Cardinality(P) -> S]
  BY <1>3
<1>5. Select(d, P) \in Seq(S) /\ Len(Select(d, P)) = Cardinality(P)
  BY <1>card, <1>2, <1>4
<1>6. QED
  BY <1>1, <1>2, <1>5

---------------------------------------------------------------------------
(* The operations of the queue *)

LEMMA PushFact ==
    ASSUME NEW S, NEW d \in Seq(S), NEW t \in S
    PROVE  /\ PushTask(d, t) \in Seq(S)
           /\ \A u : u # t => /\ Contains(PushTask(d, t), u) => Contains(d, u)
                              /\ AtMostOnce(d, u) => AtMostOnce(PushTask(d, t), u)
           /\ ~Contains(d, t) => AtMostOnce(PushTask(d, t), t)
<1> DEFINE e == PushTask(d, t)
<1>1. /\ e \in Seq(S) /\ Len(e) = 1 + Len(d)
      /\ Len(d) \in Nat
      /\ \A i \in 1..Len(e) : e[i] = IF i = 1 THEN t ELSE d[i - 1]
  <2>1. <<t>> \in Seq(S) /\ Len(<<t>>) = 1 /\ <<t>>[1] = t
    OBVIOUS
  <2>2. Len(d) \in Nat
    BY LenProperties
  <2>3. e = <<t>> \o d
    BY DEF PushTask, Cons
  <2> HIDE DEF e
  <2>4. QED
    BY <2>1, <2>2, <2>3, ConcatProperties
<1> HIDE DEF e
<1>2. \A i \in 1..Len(e) : i # 1 => i - 1 \in 1..Len(d)
  BY <1>1
<1>3. \A u : u # t => (Contains(e, u) => Contains(d, u))
  BY <1>1, <1>2 DEF Contains
<1>4. ASSUME NEW u, u # t, AtMostOnce(d, u) PROVE AtMostOnce(e, u)
  <2> SUFFICES ASSUME NEW i \in 1..Len(e), NEW j \in 1..Len(e), e[i] = u, e[j] = u
               PROVE  i = j
    BY DEF AtMostOnce
  <2>1. i # 1 /\ j # 1 /\ d[i - 1] = u /\ d[j - 1] = u
    BY <1>1, <1>4
  <2>2. i - 1 = j - 1
    BY <1>2, <1>4, <2>1 DEF AtMostOnce
  <2>3. QED
    BY <2>2
<1>5. ASSUME ~Contains(d, t) PROVE AtMostOnce(e, t)
  <2> SUFFICES ASSUME NEW i \in 1..Len(e), NEW j \in 1..Len(e), e[i] = t, e[j] = t
               PROVE  i = j
    BY DEF AtMostOnce
  <2>1. i = 1 /\ j = 1
    BY <1>1, <1>2, <1>5 DEF Contains
  <2>2. QED
    BY <2>1
<1>6. QED
  BY <1>1, <1>3, <1>4, <1>5 DEF e

LEMMA LessThan == OpToRel(<, Nat) = {ss \in Nat \X Nat : ss[1] < ss[2]}
BY DEF OpToRel

LEMMA MinExists ==
    ASSUME NEW S, S \subseteq Nat, S # {}
    PROVE  Min(S) \in S /\ \A y \in S : Min(S) <= y
<1> DEFINE R == {ss \in Nat \X Nat : ss[1] < ss[2]}
<1>1. IsWellFoundedOn(R, Nat)
  BY LessThan, NatLessThanWellFounded
<1>2. PICK x \in S : \A y \in S : ~(<<y, x>> \in R)
  BY <1>1, WFMin
<1>3. ASSUME NEW y \in S, y < x PROVE FALSE
  <2>1. <<y, x>> \in Nat \X Nat /\ <<y, x>>[1] < <<y, x>>[2]
    BY <1>3
  <2>2. QED
    BY <2>1, <1>2
<1>4. \A y \in S : x <= y
  BY <1>3
<1>5. QED
  BY <1>4 DEF Min

\* The position that RemoveFirst looks up is the first one that holds t.
LEMMA FirstPosition ==
    ASSUME NEW S, NEW d \in Seq(S), NEW t, Contains(d, t)
    PROVE  \E k \in 1..Len(d) :
             /\ d[k] = t
             /\ SelectInSeq(d, LAMBDA v : v = t) = k
<1> DEFINE I == {i \in 1..Len(d) : d[i] = t}
<1>1. I # {} /\ I \subseteq Nat
  BY DEF Contains
<1>2. SelectInSeq(d, LAMBDA v : v = t) = Min(I)
  BY <1>1 DEF SelectInSeq
<1>3. Min(I) \in I
  <2> HIDE DEF I
  <2>1. QED
    BY <1>1, MinExists
<1>4. QED
  BY <1>2, <1>3

\* Removing t takes one t away and keeps the rest.
LEMMA RemoveFact ==
    ASSUME NEW S, NEW d \in Seq(S), NEW t
    PROVE  /\ RemoveTask(d, t) \in Seq(S)
           /\ \A u : /\ Contains(RemoveTask(d, t), u) => Contains(d, u)
                     /\ AtMostOnce(d, u) => AtMostOnce(RemoveTask(d, t), u)
           /\ AtMostOnce(d, t) => ~Contains(RemoveTask(d, t), t)
<1>1. CASE ~Contains(d, t)
  <2>1. RemoveTask(d, t) = d
    BY <1>1 DEF RemoveTask, RemoveFirst, Contains
  <2>2. QED
    BY <1>1, <2>1
<1>2. CASE Contains(d, t)
  <2>1. PICK k \in 1..Len(d) :
          d[k] = t /\ SelectInSeq(d, LAMBDA v : v = t) = k
    BY <1>2, FirstPosition
  <2> DEFINE a == SubSeq(d, 1, k - 1)
             b == SubSeq(d, k + 1, Len(d))
             e == RemoveTask(d, t)
             from(i) == IF i < k THEN i ELSE i + 1
  <2>2. e = a \o b
    BY <1>2, <2>1 DEF RemoveTask, RemoveFirst, RemoveAt, Contains
  <2>3. Len(d) \in Nat /\ k \in Int /\ \A i \in 1..Len(d) : d[i] \in S
    BY LenProperties, ElementOfSeq
  <2>4. /\ a \in Seq(S) /\ Len(a) = k - 1
        /\ \A i \in 1..k - 1 : a[i] = d[i]
    <3>1. \A i \in 1..k - 1 : d[i] \in S
      BY <2>3
    <3>2. a \in Seq(S) /\ \A i \in 1..((k - 1) - 1) + 1 : a[i] = d[(1 + i) - 1]
      BY <2>3, <3>1, SubSeqProperties
    <3>3. Len(a) = k - 1
      BY <2>3, <3>1, SubSeqProperties
    <3>4. QED
      BY <2>3, <3>2, <3>3
  <2>5. /\ b \in Seq(S) /\ Len(b) = Len(d) - k
        /\ \A i \in 1..Len(d) - k : b[i] = d[k + i]
    <3>1. \A i \in k + 1..Len(d) : d[i] \in S
      BY <2>3
    <3>2. b \in Seq(S) /\ \A i \in 1..(Len(d) - (k + 1)) + 1 : b[i] = d[((k + 1) + i) - 1]
      BY <2>3, <3>1, SubSeqProperties
    <3>3. Len(b) = Len(d) - k
      BY <2>3, <3>1, SubSeqProperties
    <3>4. QED
      BY <2>3, <3>2, <3>3
  <2> HIDE DEF a, b, e
  <2>6. /\ e \in Seq(S) /\ Len(e) = Len(d) - 1
        /\ \A i \in 1..Len(e) : e[i] = IF i <= k - 1 THEN a[i] ELSE b[i - (k - 1)]
    <3>1. /\ a \o b \in Seq(S) /\ Len(a \o b) = Len(a) + Len(b)
          /\ \A i \in 1..Len(a) + Len(b) :
               (a \o b)[i] = IF i <= Len(a) THEN a[i] ELSE b[i - Len(a)]
      BY <2>4, <2>5, ConcatProperties
    <3>2. Len(a) + Len(b) = Len(d) - 1
      BY <2>3, <2>4, <2>5
    <3>3. QED
      BY <2>2, <2>4, <3>1, <3>2
  <2>7. \A i \in 1..Len(e) :
          /\ from(i) \in 1..Len(d) /\ from(i) # k
          /\ e[i] = d[from(i)]
    <3> SUFFICES ASSUME NEW i \in 1..Len(e)
                 PROVE  /\ from(i) \in 1..Len(d) /\ from(i) # k
                        /\ e[i] = d[from(i)]
      OBVIOUS
    <3>1. CASE i < k
      BY <2>3, <2>4, <2>6, <3>1
    <3>2. CASE ~(i < k)
      <4>1. i - (k - 1) \in 1..Len(d) - k /\ k + (i - (k - 1)) = i + 1
        BY <2>3, <2>6, <3>2
      <4>2. QED
        BY <2>3, <2>5, <2>6, <3>2, <4>1
    <3>3. QED
      BY <3>1, <3>2
  <2>8. \A i, j \in 1..Len(e) : from(i) = from(j) => i = j
    BY <2>3, <2>6
  <2> HIDE DEF from
  <2>9. ASSUME NEW u PROVE Contains(e, u) => Contains(d, u)
    BY <2>7 DEF Contains
  <2>10. ASSUME NEW u PROVE AtMostOnce(d, u) => AtMostOnce(e, u)
    BY <2>7, <2>8 DEF AtMostOnce
  <2>11. AtMostOnce(d, t) => ~Contains(e, t)
    BY <2>1, <2>7 DEF AtMostOnce, Contains
  <2>12. QED
    BY <2>6, <2>9, <2>10, <2>11 DEF e
<1>3. QED
  BY <1>1, <1>2

\* Releasing keeps the rest and takes every released task that is there once.
LEMMA ReleaseFact ==
    ASSUME NEW S, NEW d \in Seq(S), NEW limit, NEW n, NEW held
    PROVE  LET e == AfterRelease(d, limit, n, held)
           IN  /\ e \in Seq(S)
               /\ \A u : /\ Contains(e, u) => Contains(d, u)
                         /\ AtMostOnce(d, u) => AtMostOnce(e, u)
               /\ \A u \in Released(d, limit, n, held) :
                    AtMostOnce(d, u) => ~Contains(e, u)
               /\ \A u \in Released(d, limit, n, held) : Contains(d, u)
<1> DEFINE popped == Popped(d, limit, n, held)
           P == {i \in popped : d[i] \in held}
           Q == (1..Len(d)) \ popped
           e == AfterRelease(d, limit, n, held)
           from(r) == IF r <= Cardinality(P) THEN Position(P, r)
                      ELSE Position(Q, r - Cardinality(P))
<1>1. Len(d) \in Nat
  BY LenProperties
<1>2. popped \in SUBSET (1..Len(d))
  BY DEF Popped
<1>3. P \in SUBSET (1..Len(d)) /\ Q \in SUBSET (1..Len(d)) /\ P \cap Q = {}
  BY <1>2
<1>4. e = Select(d, P) \o Select(d, Q)
  BY DEF AfterRelease
<1>5. \A i \in P : d[i] \in held
  OBVIOUS
<1>6. ASSUME NEW u \in Released(d, limit, n, held)
      PROVE  u \notin held /\ \E i \in popped : d[i] = u
  BY <1>6 DEF Released
<1> HIDE DEF P, Q, e
<1>7. Cardinality(P) \in Nat /\ Cardinality(Q) \in Nat
  BY <1>1, <1>3, PositionsFinite
<1>8. /\ Select(d, P) \in Seq(S) /\ Len(Select(d, P)) = Cardinality(P)
      /\ Select(d, Q) \in Seq(S) /\ Len(Select(d, Q)) = Cardinality(Q)
  BY <1>3, SelectFact
<1>9. /\ e \in Seq(S) /\ Len(e) = Cardinality(P) + Cardinality(Q)
      /\ \A r \in 1..Len(e) :
           e[r] = IF r <= Cardinality(P) THEN Select(d, P)[r]
                  ELSE Select(d, Q)[r - Cardinality(P)]
  BY <1>4, <1>8, ConcatProperties
<1>10. \A r \in 1..Len(e) :
         IF r <= Cardinality(P) THEN r \in 1..Cardinality(P)
         ELSE r - Cardinality(P) \in 1..Cardinality(Q)
  BY <1>7, <1>9
<1>11. \A r \in 1..Len(e) :
         /\ from(r) \in IF r <= Cardinality(P) THEN P ELSE Q
         /\ e[r] = d[from(r)]
  <2> SUFFICES ASSUME NEW r \in 1..Len(e)
               PROVE  /\ from(r) \in IF r <= Cardinality(P) THEN P ELSE Q
                      /\ e[r] = d[from(r)]
    OBVIOUS
  <2>1. CASE r <= Cardinality(P)
    <3>1. r \in 1..Cardinality(P)
      BY <1>10, <2>1
    <3>2. Position(P, r) \in P /\ Select(d, P)[r] = d[Position(P, r)]
      BY <1>3, <3>1, SelectFact
    <3>3. QED
      BY <1>9, <2>1, <3>2
  <2>2. CASE ~(r <= Cardinality(P))
    <3> DEFINE s == r - Cardinality(P)
    <3>1. s \in 1..Cardinality(Q)
      BY <1>10, <2>2
    <3>2. Position(Q, s) \in Q /\ Select(d, Q)[s] = d[Position(Q, s)]
      BY <1>3, <3>1, SelectFact
    <3>3. e[r] = Select(d, Q)[s] /\ from(r) = Position(Q, s)
      BY <1>9, <2>2
    <3>4. QED
      BY <2>2, <3>2, <3>3
  <2>3. QED
    BY <2>1, <2>2
<1>12. ASSUME NEW r \in 1..Len(e), NEW s \in 1..Len(e), from(r) = from(s)
       PROVE  r = s
  <2>1. (r <= Cardinality(P)) <=> (s <= Cardinality(P))
    BY <1>3, <1>11, <1>12
  <2>2. CASE r <= Cardinality(P)
    BY <1>3, <1>10, <1>12, <2>1, <2>2, SelectFact
  <2>3. CASE ~(r <= Cardinality(P))
    <3>1. r - Cardinality(P) = s - Cardinality(P)
      BY <1>3, <1>10, <1>12, <2>1, <2>3, SelectFact
    <3>2. QED
      BY <1>7, <3>1
  <2>4. QED
    BY <2>2, <2>3
<1>13. \A r \in 1..Len(e) : from(r) \in 1..Len(d)
  BY <1>3, <1>11
<1>14. \A r \in 1..Len(e) : from(r) \in popped => e[r] \in held
  BY <1>5, <1>11 DEF Q
<1> HIDE DEF from, popped
<1>15. ASSUME NEW u PROVE Contains(e, u) => Contains(d, u)
  BY <1>11, <1>13 DEF Contains
<1>16. ASSUME NEW u PROVE AtMostOnce(d, u) => AtMostOnce(e, u)
  BY <1>11, <1>12, <1>13 DEF AtMostOnce
<1>17. ASSUME NEW u \in Released(d, limit, n, held)
       PROVE  Contains(d, u) /\ (AtMostOnce(d, u) => ~Contains(e, u))
  <2>1. PICK i \in popped : d[i] = u
    BY <1>6
  <2>2. u \notin held /\ i \in 1..Len(d)
    BY <1>2, <1>6
  <2>3. ASSUME AtMostOnce(d, u), NEW r \in 1..Len(e), e[r] = u
        PROVE  FALSE
    <3>1. from(r) = i
      BY <1>11, <1>13, <2>1, <2>2, <2>3 DEF AtMostOnce
    <3>2. QED
      BY <1>14, <2>2, <2>3, <3>1
  <2>4. QED
    BY <2>1, <2>2, <2>3 DEF Contains
<1>18. QED
  BY <1>9, <1>15, <1>16, <1>17 DEF e
\* A release under a limit leaves no more tasks active than the limit, however
\* many were active before: it releases nothing at all if they were too many.
LEMMA ReleaseCount ==
    ASSUME NEW S, NEW d \in Seq(S), NEW limit \in Nat, limit # 0, NEW n \in Nat,
           NEW held, NEW u \in Released(d, limit, n, held)
    PROVE  LET R == Released(d, limit, n, held)
           IN  IsFiniteSet(R) /\ Cardinality(R) \in Nat /\ n + Cardinality(R) <= limit
<1> DEFINE R == Released(d, limit, n, held)
           popped == Popped(d, limit, n, held)
           P == {i \in popped : d[i] \notin held}
           f == [i \in P |-> d[i]]
           later(m) == {j \in m+1..Len(d) : d[j] \notin held}
<1>1. Len(d) \in Nat
  BY LenProperties
<1>2. /\ popped \in SUBSET (1..Len(d))
      /\ \A i \in popped : n + Cardinality(later(i)) < limit
  BY DEF Popped, IsPopped
<1>3. R = {d[i] : i \in P}
  BY DEF Released
<1>4. P \in SUBSET (1..Len(d)) /\ P \subseteq popped /\ P # {}
  BY <1>2, <1>3
<1>5. f \in Surjection(P, R)
  BY <1>3 DEF Surjection
<1>6. \A i \in P : d[i] \notin held
  OBVIOUS
<1> HIDE DEF P, R, f, popped
<1>7. IsFiniteSet(P) /\ Cardinality(P) \in Nat
  BY <1>1, <1>4, PositionsFinite
<1>8. IsFiniteSet(R) /\ Cardinality(R) \in Nat /\ Cardinality(R) <= Cardinality(P)
  BY <1>5, <1>7, FS_Surjection, FS_CardinalityType
<1>9. PICK m \in P : \A i \in P : m <= i
  <2>1. P \subseteq Nat
    BY <1>1, <1>4
  <2>2. QED
    BY <1>4, <2>1, MinExists
<1>10. P \ {m} \in SUBSET later(m)
  <2>1. ASSUME NEW i \in P, i # m PROVE i \in m+1..Len(d)
    <3>1. i \in 1..Len(d) /\ m \in 1..Len(d) /\ m <= i
      BY <1>4, <1>9
    <3>2. QED
      BY <1>1, <2>1, <3>1
  <2>2. QED
    BY <1>6, <2>1
<1>11. IsFiniteSet(later(m)) /\ Cardinality(later(m)) \in Nat
  <2>1. m \in 1..Len(d)
    BY <1>4
  <2>2. \A j \in m+1..Len(d) : j \in 1..Len(d)
    BY <1>1, <2>1
  <2>3. later(m) \in SUBSET (1..Len(d))
    BY <2>2
  <2> HIDE DEF later
  <2>4. QED
    BY <1>1, <2>3, PositionsFinite
<1>12. n + Cardinality(later(m)) < limit
  BY <1>2, <1>4
<1> HIDE DEF later
<1>13. Cardinality(P \ {m}) <= Cardinality(later(m))
  BY <1>10, <1>11, FS_Subset
<1>14. Cardinality(P \ {m}) = Cardinality(P) - 1
  BY <1>7, FS_RemoveElement
<1>15. n + Cardinality(R) <= limit
  BY <1>7, <1>8, <1>11, <1>12, <1>13, <1>14
<1>16. QED
  BY <1>8, <1>15 DEF R

-----------------------------------------------------------------------------
(* Where something is in a list, and in what is made of the list. *)

\* The positions of a list that hold a member of H.
At(s, H) == {i \in 1..Len(s) : s[i] \in H}
Single(A) == \E i \in A : A = {i}

\* The count of a set of positions.
LEMMA CountFact ==
    ASSUME NEW n \in Nat, NEW A \in SUBSET (1..n)
    PROVE  /\ IsFiniteSet(A) /\ Cardinality(A) \in Nat
           /\ A = {} => Cardinality(A) = 0
           /\ Single(A) => Cardinality(A) = 1
<1>1. IsFiniteSet(A) /\ Cardinality(A) \in Nat
  BY PositionsFinite
<1>2. A = {} => Cardinality(A) = 0
  BY FS_EmptySet
<1>3. Single(A) => Cardinality(A) = 1
  BY FS_Singleton DEF Single
<1>4. QED
  BY <1>1, <1>2, <1>3

\* A selection holds something where one of the positions selected does, and
\* once if only one of them does.
LEMMA SelectAt ==
    ASSUME NEW S, NEW d \in Seq(S), NEW P \in SUBSET (1..Len(d)), NEW H
    PROVE  /\ Select(d, P) \in Seq(S)
           /\ At(Select(d, P), H) = {} <=> At(d, H) \cap P = {}
           /\ Single(At(d, H) \cap P) => Single(At(Select(d, P), H))
<1> DEFINE e == Select(d, P)
<1>1. Len(d) \in Nat
  BY LenProperties
<1>2. /\ e \in Seq(S) /\ Len(e) = Cardinality(P)
      /\ \A r \in 1..Cardinality(P) :
            Position(P, r) \in P /\ e[r] = d[Position(P, r)]
      /\ \A r, s \in 1..Cardinality(P) : Position(P, r) = Position(P, s) => r = s
  BY SelectFact
<1>3. \A i \in P : \E r \in 1..Cardinality(P) : Position(P, r) = i
  <2> TAKE i \in P
  <2>1. Rank(P, i) \in 1..Cardinality(P)
    BY <1>1, RankBijective
  <2>2. Position(P, Rank(P, i)) \in P /\ Rank(P, Position(P, Rank(P, i))) = Rank(P, i)
    BY <1>1, <2>1, PositionFact
  <2>3. Position(P, Rank(P, i)) = i
    BY <1>1, <2>2, RankBijective
  <2>4. QED
    BY <2>1, <2>3
<1> HIDE DEF e
<1>4. \A r \in 1..Len(e) : r \in At(e, H) <=> Position(P, r) \in At(d, H) \cap P
  BY <1>2 DEF At
<1>5. At(e, H) = {} <=> At(d, H) \cap P = {}
  <2>1. ASSUME NEW r \in At(e, H) PROVE At(d, H) \cap P # {}
    BY <1>4 DEF At
  <2>2. ASSUME NEW i \in At(d, H) \cap P PROVE At(e, H) # {}
    <3>1. PICK r \in 1..Len(e) : Position(P, r) = i
      BY <1>2, <1>3
    <3>2. QED
      BY <1>4, <3>1
  <2>3. QED
    BY <2>1, <2>2
<1>6. ASSUME Single(At(d, H) \cap P) PROVE Single(At(e, H))
  <2>1. PICK i \in At(d, H) \cap P : At(d, H) \cap P = {i}
    BY <1>6 DEF Single
  <2>2. PICK r \in 1..Len(e) : Position(P, r) = i
    BY <1>2, <1>3
  <2>3. \A q \in At(e, H) : q \in 1..Len(e) /\ Position(P, q) = i
    BY <1>4, <2>1 DEF At
  <2>4. \A q \in At(e, H) : q = r
    BY <1>2, <2>2, <2>3
  <2>5. r \in At(e, H)
    BY <1>4, <2>2
  <2>6. QED
    BY <2>4, <2>5 DEF Single
<1>7. QED
  BY <1>2, <1>5, <1>6 DEF e

\* The same of two lists one after the other.
LEMMA ConcatAt ==
    ASSUME NEW S, NEW s \in Seq(S), NEW t \in Seq(S), NEW H
    PROVE  /\ s \o t \in Seq(S)
           /\ At(s \o t, H) = {} <=> At(s, H) = {} /\ At(t, H) = {}
           /\ Single(At(s, H)) /\ At(t, H) = {} => Single(At(s \o t, H))
           /\ At(s, H) = {} /\ Single(At(t, H)) => Single(At(s \o t, H))
<1> DEFINE e == s \o t
<1>1. Len(s) \in Nat /\ Len(t) \in Nat
  BY LenProperties
<1>2. e \in Seq(S) /\ Len(e) = Len(s) + Len(t)
      /\ \A i \in 1..(Len(s) + Len(t)) : e[i] = IF i <= Len(s) THEN s[i] ELSE t[i - Len(s)]
  BY ConcatProperties
<1> HIDE DEF e
<1>3. \A i \in 1..Len(s) : i \in 1..Len(e) /\ e[i] = s[i]
  BY <1>1, <1>2
<1>4. \A i \in 1..Len(t) : Len(s) + i \in 1..Len(e) /\ e[Len(s) + i] = t[i]
  <2> TAKE i \in 1..Len(t)
  <2>1. Len(s) + i \in 1..(Len(s) + Len(t)) /\ ~(Len(s) + i <= Len(s)) /\ (Len(s) + i) - Len(s) = i
    BY <1>1
  <2>2. QED
    BY <1>2, <2>1
<1>5. \A j \in 1..Len(e) : j \in 1..Len(s) \/ \E i \in 1..Len(t) : j = Len(s) + i
  <2> TAKE j \in 1..Len(e)
  <2>1. j \in 1..(Len(s) + Len(t))
    BY <1>2
  <2>2. CASE j <= Len(s)
    BY <1>1, <2>1, <2>2
  <2>3. CASE ~(j <= Len(s))
    <3>1. j - Len(s) \in 1..Len(t) /\ j = Len(s) + (j - Len(s))
      BY <1>1, <2>1, <2>3
    <3>2. QED
      BY <3>1
  <2>4. QED
    BY <2>2, <2>3
<1>6. \A j \in At(e, H) : j \in At(s, H) \/ \E i \in At(t, H) : j = Len(s) + i
  BY <1>3, <1>4, <1>5 DEF At
<1>7. \A i \in At(s, H) : i \in At(e, H)
  BY <1>3 DEF At
<1>8. \A i \in At(t, H) : Len(s) + i \in At(e, H)
  BY <1>4 DEF At
<1>9. At(e, H) = {} <=> At(s, H) = {} /\ At(t, H) = {}
  BY <1>6, <1>7, <1>8
<1>10. ASSUME Single(At(s, H)), At(t, H) = {} PROVE Single(At(e, H))
  <2>1. PICK i \in At(s, H) : At(s, H) = {i}
    BY <1>10 DEF Single
  <2>2. At(e, H) = {i}
    BY <1>6, <1>7, <1>10, <2>1
  <2>3. QED
    BY <2>2 DEF Single
<1>11. ASSUME At(s, H) = {}, Single(At(t, H)) PROVE Single(At(e, H))
  <2>1. PICK i \in At(t, H) : At(t, H) = {i}
    BY <1>11 DEF Single
  <2>2. PICK k : k = Len(s) + i
    OBVIOUS
  <2>3. At(e, H) = {k}
    BY <1>6, <1>8, <1>11, <2>1, <2>2
  <2>4. QED
    BY <2>3 DEF Single
<1>12. QED
  BY <1>2, <1>9, <1>10, <1>11 DEF e

\* And of what follows position n.
LEMMA RestAt ==
    ASSUME NEW S, NEW s \in Seq(S), NEW n \in 0..Len(s), NEW H
    PROVE  /\ SubSeq(s, n + 1, Len(s)) \in Seq(S)
           /\ At(SubSeq(s, n + 1, Len(s)), H) = {} <=> At(s, H) \subseteq 1..n
           /\ \A i \in At(s, H) : i > n /\ At(s, H) = {i}
                 => Single(At(SubSeq(s, n + 1, Len(s)), H))
<1> DEFINE e == SubSeq(s, n + 1, Len(s))
<1>1. Len(s) \in Nat /\ n \in Nat /\ n <= Len(s)
  BY LenProperties
<1>2. \A i \in 1..Len(s) : s[i] \in S
  BY ElementOfSeq
<1>3. /\ e \in Seq(S) /\ Len(e) = Len(s) - n
      /\ \A k \in 1..Len(e) : e[k] = s[n + k]
  <2>1. \A k \in (n + 1)..Len(s) : s[k] \in S
    BY <1>1, <1>2
  <2>2. /\ e \in Seq(S)
        /\ Len(e) = IF n + 1 <= Len(s) THEN Len(s) - (n + 1) + 1 ELSE 0
        /\ \A k \in 1..(Len(s) - (n + 1) + 1) : e[k] = s[(n + 1) + k - 1]
    BY <1>1, <2>1, SubSeqProperties
  <2>3. Len(e) = Len(s) - n
    BY <1>1, <2>2
  <2>4. \A k \in 1..Len(e) : k \in 1..(Len(s) - (n + 1) + 1) /\ (n + 1) + k - 1 = n + k
    BY <1>1, <2>3
  <2>5. QED
    BY <2>2, <2>3, <2>4
<1> HIDE DEF e
<1>4. \A k \in 1..Len(e) : n + k \in 1..Len(s) /\ n + k > n
  BY <1>1, <1>3
<1>5. \A k \in At(e, H) : n + k \in At(s, H) /\ n + k > n
  BY <1>3, <1>4 DEF At
<1>6. \A i \in At(s, H) : i > n => \E k \in At(e, H) : i = n + k
  <2> SUFFICES ASSUME NEW i \in At(s, H), i > n PROVE \E k \in At(e, H) : i = n + k
    OBVIOUS
  <2>1. i \in 1..Len(s) /\ s[i] \in H
    BY DEF At
  <2>2. PICK k \in 1..Len(e) : i = n + k
    <3>1. i - n \in 1..Len(e) /\ i = n + (i - n)
      BY <1>1, <1>3, <2>1
    <3>2. QED
      BY <3>1
  <2>3. QED
    BY <1>3, <2>1, <2>2 DEF At
<1>7. \A i \in At(s, H) : i \in 1..n <=> ~(i > n)
  BY <1>1 DEF At
<1>8. At(e, H) = {} <=> At(s, H) \subseteq 1..n
  BY <1>5, <1>6, <1>7
<1>9. ASSUME NEW i \in At(s, H), i > n, At(s, H) = {i}
      PROVE  Single(At(e, H))
  <2>1. PICK k \in At(e, H) : i = n + k
    BY <1>6, <1>9
  <2>2. ASSUME NEW q \in At(e, H) PROVE q = k
    <3>1. n + q = n + k
      BY <1>5, <1>9, <2>1
    <3>2. q \in Nat /\ k \in Nat
      BY <1>3, <1>1 DEF At
    <3>3. QED
      BY <1>1, <3>1, <3>2
  <2>3. QED
    BY <2>1, <2>2 DEF Single
<1>10. QED
  BY <1>3, <1>8, <1>9 DEF e
===========================================================================
