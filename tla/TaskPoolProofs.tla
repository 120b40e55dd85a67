--------------------------- MODULE TaskPoolProofs ---------------------------
(* The types of the task pool, the agreement of the hold flags with the list of
   tasks to hold, and the stop point as a bound on releases from runahead, for
   any graph, runahead limit and commands.

   Sound is the inductive invariant on a pool.  It leaves out that only proxies
   in the pool are runahead-limited, which fails for a while when an output is
   set on a task outside the pool; Keeps says how the methods that make up an
   action treat that, and what they may release from runahead. *)
EXTENDS TaskPool, WellFoundedInduction, TLAPS

Sound(s) ==
    /\ s \in PoolRecord
    /\ s.pool \cup s.active \cup Ended(s) \subseteq s.rows
    /\ s.active \cap Ended(s) = {}
    /\ s.queued \subseteq s.pool
    /\ s.held = s.pool \cap s.toHold
    /\ \A e \in s.sat \cup s.forced : e[1] \in s.pool
    /\ \A e \in s.sat : e[2][1][2] <= e[1][2]
    /\ s.limit <= s.stopPoint

\* The proxies released from runahead, and the flags without a proxy.
Free(s) == s.pool \ s.runahead
Loose(s) == s.runahead \ s.pool

Keeps(s, t) ==
    /\ Sound(t)
    /\ Loose(t) \subseteq Loose(s)
    /\ Free(t) \subseteq Free(s)
    /\ t.ended = s.ended
    /\ t.stopPoint = s.stopPoint

LEMMA KeepsTransitive ==
    ASSUME NEW s, NEW t, NEW u, Keeps(s, t), Keeps(t, u)
    PROVE  Keeps(s, u)
BY DEF Keeps

\* Flags, lists and limits that agree with each other keep a pool sound.
LEMMA SoundFrom ==
    ASSUME NEW s, Sound(s),
           NEW t \in PoolRecord,
           t.pool = s.pool, t.rows = s.rows, t.active = s.active,
           t.ended = s.ended, t.sat \subseteq s.sat, t.forced = s.forced,
           t.queued \subseteq t.pool,
           t.held = t.pool \cap t.toHold,
           t.limit <= t.stopPoint
    PROVE  Sound(t)
<1>1. Ended(t) = Ended(s)
  BY DEF Ended
<1>2. QED
  BY <1>1 DEF Sound
-----------------------------------------------------------------------------
(* Points. *)

\* The order of the numbers as a relation.
LEMMA LessThan == OpToRel(<, Nat) = {ss \in Nat \X Nat : ss[1] < ss[2]}
BY DEF OpToRel

LEMMA MinExists ==
    ASSUME NEW S, S \subseteq Nat, S # {}
    PROVE  Min(S) \in S /\ \A y \in S : Min(S) <= y
<1> DEFINE R == {ss \in Nat \X Nat : ss[1] < ss[2]}
<1>1. IsWellFoundedOn(R, Nat)
  BY LessThan, NatLessThanWellFounded
<1>2. PICK x \in S : \A y \in S : ~(<<y, x>> \in R)
  BY <1>1, WFMin
<1>3. ASSUME NEW y \in S, y < x PROVE FALSE
  <2>1. <<y, x>> \in Nat \X Nat /\ <<y, x>>[1] < <<y, x>>[2]
    BY <1>3
  <2>2. QED
    BY <2>1, <1>2
<1>4. \A y \in S : x <= y
  BY <1>3
<1>5. QED
  BY <1>4 DEF Min

LEMMA MaxExists ==
    ASSUME NEW S, NEW b \in Nat, S \subseteq 0..b, S # {}
    PROVE  Max(S) \in S /\ \A y \in S : y <= Max(S)
<1> DEFINE T == {b - x : x \in S}
<1>1. \A x \in S : b - x \in Nat
  OBVIOUS
<1>2. T \subseteq Nat
  BY <1>1
<1>3. T # {}
  OBVIOUS
<1> HIDE DEF T
<1>4. PICK m \in T : \A y \in T : m <= y
  BY <1>2, <1>3, MinExists
<1> USE DEF T
<1>5. PICK x \in S : m = b - x
  BY <1>4
<1>6. \A y \in S : y <= x
  <2> TAKE y \in S
  <2>1. b - y \in T
    OBVIOUS
  <2>2. QED
    BY <2>1, <1>4, <1>5
<1>7. QED
  BY <1>6 DEF Max

LEMMA InstType == \A i \in Inst : i \in Names \X (1..FinalPoint)
BY GraphAssumption DEF Inst

LEMMA PointsType == AllPoints \subseteq 1..FinalPoint /\ AllPoints # {}
BY GraphAssumption DEF AllPoints

\* The next parentless instance is a later one.
LEMMA NextIsLater ==
    ASSUME NEW i \in Inst, NEW j \in NextParentless(i)
    PROVE  j \in Inst /\ i[2] < j[2]
BY InstType DEF NextParentless, ParentlessAt

\* A child is never earlier than its parent.
LEMMA ChildIsLater ==
    ASSUME NEW i \in Inst, NEW output, NEW c \in Children(i, output)
    PROVE  c \in Inst /\ i[2] <= c[2]
<1>1. c \in Inst
  BY DEF Children
<1>2. PICK trg \in (UNION Requires[c[1]]) \cup SuicideOn[c[1]] :
          KeyOf(c, trg) = <<i, output>>
  BY DEF Children
<1>3. c[1] \in Names /\ c[2] \in 1..FinalPoint
  BY <1>1, InstType
<1>4. trg \in Trigger
  BY <1>3, GraphAssumption
<1>5. trg.back \in Nat
  BY <1>4 DEF Trigger
<1>6. i = <<trg.task, c[2] - trg.back>>
  BY <1>2 DEF KeyOf
<1>7. i[2] = c[2] - trg.back
  BY <1>6
<1>8. QED
  BY <1>1, <1>3, <1>5, <1>7, GraphAssumption
-----------------------------------------------------------------------------
(* Spawning and removal. *)

LEMMA AddKeeps ==
    ASSUME NEW s, Sound(s), NEW N, N \subseteq Inst \ s.pool,
           NEW H, N \cap s.toHold \subseteq H, H \subseteq N
    PROVE  /\ Keeps(s, AddToPool(s, N, H))
           /\ AddToPool(s, N, H).pool = s.pool \cup N
<1> DEFINE t == AddToPool(s, N, H)
<1>1. t \in PoolRecord
  BY DEF Sound, PoolRecord, AddToPool, Without, Key
<1>2. /\ t.pool = s.pool \cup N /\ t.rows = s.rows \cup N
      /\ t.active = s.active /\ t.ended = s.ended
      /\ t.sat = s.sat /\ t.forced = s.forced
      /\ t.runahead = s.runahead \cup N /\ t.queued = s.queued
      /\ t.held = s.held \cup H /\ t.toHold = s.toHold \cup H
      /\ t.limit = s.limit /\ t.stopPoint = s.stopPoint
  BY DEF Sound, PoolRecord, AddToPool
<1> HIDE DEF t
<1>3. t.held = t.pool \cap t.toHold
  BY <1>2 DEF Sound
<1>4. Ended(t) = Ended(s)
  BY <1>2 DEF Ended
<1>5. Sound(t)
  BY <1>1, <1>2, <1>3, <1>4 DEF Sound
<1>6. Loose(t) \subseteq Loose(s) /\ Free(t) \subseteq Free(s)
  BY <1>2 DEF Loose, Free
<1>7. QED
  BY <1>2, <1>5, <1>6 DEF Keeps, t

LEMMA SpawnKeeps ==
    ASSUME NEW s, Sound(s), NEW C, C \subseteq Inst
    PROVE  /\ Keeps(s, Spawn(s, C))
           /\ Spawn(s, C).pool \subseteq s.pool \cup C
<1> DEFINE N == {c \in C : IsSpawnable(s, c)}
           H == {c \in N : HeldOnSpawn(s, c)}
<1>1. N \subseteq Inst \ s.pool /\ N \subseteq C
  BY DEF IsSpawnable
<1>2. Spawn(s, C) = AddToPool(s, N, H)
  BY DEF Spawn
<1>3. N \cap s.toHold \subseteq H /\ H \subseteq N
  BY DEF HeldOnSpawn
<1> HIDE DEF N, H
<1>4. /\ Keeps(s, AddToPool(s, N, H))
      /\ AddToPool(s, N, H).pool = s.pool \cup N
  BY <1>1, <1>3, AddKeeps
<1>5. QED
  BY <1>1, <1>2, <1>4

\* The instances that the next parentless ones of R are.
NextOf(R) == {j \in Inst : \E i \in R : j \in NextParentless(i)}

LEMMA SpawnNextKeeps ==
    ASSUME NEW s, Sound(s), NEW R
    PROVE  /\ Keeps(s, SpawnNextParentless(s, R))
           /\ SpawnNextParentless(s, R).pool \subseteq s.pool \cup NextOf(R)
<1>1. SpawnNextParentless(s, R) = Spawn(s, NextOf(R))
  BY DEF SpawnNextParentless, NextOf
<1>2. NextOf(R) \subseteq Inst
  BY DEF NextOf
<1>3. QED
  BY <1>1, <1>2, SpawnKeeps

LEMMA DropKeeps ==
    ASSUME NEW s, Sound(s), NEW R
    PROVE  /\ Keeps(s, Drop(s, R))
           /\ Drop(s, R).pool = s.pool \ R
<1> DEFINE t == Drop(s, R)
<1>1. t \in PoolRecord
  BY DEF Sound, PoolRecord, Drop, Without
<1>2. /\ t.pool = s.pool \ R /\ t.rows = s.rows
      /\ t.active = s.active /\ t.ended = s.ended
      /\ t.sat = Without(s.sat, R) /\ t.forced = Without(s.forced, R)
      /\ t.runahead = s.runahead \ R /\ t.queued = s.queued \ R
      /\ t.held = s.held \ R /\ t.toHold = s.toHold \ R
      /\ t.limit = s.limit /\ t.stopPoint = s.stopPoint
  BY DEF Sound, PoolRecord, Drop
<1> HIDE DEF t
<1>3. Ended(t) = Ended(s)
  BY <1>2 DEF Ended
<1>4. Sound(t)
  BY <1>1, <1>2, <1>3 DEF Sound, Without
<1>5. Loose(t) \subseteq Loose(s) /\ Free(t) \subseteq Free(s)
  BY <1>2 DEF Loose, Free
<1>6. QED
  BY <1>2, <1>4, <1>5 DEF Keeps, t

LEMMA RemoveKeeps ==
    ASSUME NEW s, Sound(s), NEW R
    PROVE  /\ Keeps(s, Remove(s, R))
           /\ Remove(s, R).pool \subseteq (s.pool \cup NextOf(R)) \ R
<1> DEFINE n == SpawnNextParentless(s, R \cap s.runahead)
<1>1. /\ Keeps(s, n) /\ n.pool \subseteq s.pool \cup NextOf(R \cap s.runahead)
  BY SpawnNextKeeps
<1>2. NextOf(R \cap s.runahead) \subseteq NextOf(R)
  BY DEF NextOf
<1>3. Remove(s, R) = Drop(n, R)
  BY DEF Remove
<1> HIDE DEF n
<1>4. Keeps(n, Drop(n, R)) /\ Drop(n, R).pool = n.pool \ R
  BY <1>1, DropKeeps DEF Keeps
<1>5. QED
  BY <1>1, <1>2, <1>3, <1>4, KeepsTransitive

LEMMA RemoveIfCompleteKeeps ==
    ASSUME NEW s, Sound(s), NEW i
    PROVE  Keeps(s, RemoveIfComplete(s, i))
<1>1. CASE RemoveIfComplete(s, i) = Remove(s, {i})
  BY <1>1, RemoveKeeps
<1>2. CASE RemoveIfComplete(s, i) = s
  BY <1>2 DEF Keeps
<1>3. QED
  BY <1>1, <1>2 DEF RemoveIfComplete

LEMMA SatisfyKeeps ==
    ASSUME NEW s, Sound(s), NEW C, C \subseteq s.pool, NEW key \in Key,
           \A c \in C : key[1][2] <= c[2]
    PROVE  Keeps(s, Satisfy(s, C, key))
<1> DEFINE t == Satisfy(s, C, key)
           new == {<<c, key>> : c \in C} \ s.forced
<1>1. s.pool \subseteq Inst
  BY DEF Sound, PoolRecord
<1>2. /\ new \subseteq Inst \X Key
      /\ \A e \in new : e[1] \in s.pool /\ e[2][1][2] <= e[1][2]
  BY <1>1
<1>3. t = [s EXCEPT !.sat = @ \cup new]
  BY DEF Satisfy
<1> HIDE DEF t, new
<1>4. t \in PoolRecord
  BY <1>2, <1>3 DEF Sound, PoolRecord
<1>5. /\ t.pool = s.pool /\ t.rows = s.rows
      /\ t.active = s.active /\ t.ended = s.ended
      /\ t.sat = s.sat \cup new /\ t.forced = s.forced
      /\ t.runahead = s.runahead /\ t.queued = s.queued
      /\ t.held = s.held /\ t.toHold = s.toHold
      /\ t.limit = s.limit /\ t.stopPoint = s.stopPoint
  BY <1>3 DEF Sound, PoolRecord
<1>6. Ended(t) = Ended(s)
  BY <1>5 DEF Ended
<1>7. Sound(t)
  BY <1>2, <1>4, <1>5, <1>6 DEF Sound
<1>8. QED
  BY <1>5, <1>7 DEF Keeps, Loose, Free, t

LEMMA SpawnOnOutputKeeps ==
    ASSUME NEW s, Sound(s), NEW i \in Inst, NEW output \in Outputs
    PROVE  Keeps(s, SpawnOnOutput(s, i, output))
<1> DEFINE K == Children(i, output)
           spawned == Spawn(s, K)
           kids == K \cap spawned.pool
           told == Satisfy(spawned, kids, <<i, output>>)
           suicide == {c \in kids : SuicideSatisfied(c, SatisfiedKeys(told, c))}
           left == Remove(told, suicide)
<1>1. K \subseteq Inst /\ \A c \in K : i[2] <= c[2]
  BY ChildIsLater
<1>2. SpawnOnOutput(s, i, output) = RemoveIfComplete(left, i)
  BY DEF SpawnOnOutput
<1> HIDE DEF K
<1>3. Keeps(s, spawned)
  BY <1>1, SpawnKeeps
<1> HIDE DEF spawned
<1>4. <<i, output>> \in Key /\ \A c \in kids : <<i, output>>[1][2] <= c[2]
  BY <1>1 DEF Key
<1>5. Keeps(spawned, told)
  BY <1>3, <1>4, SatisfyKeeps DEF Keeps
<1> HIDE DEF told
<1>6. Keeps(told, left)
  BY <1>5, RemoveKeeps DEF Keeps
<1> HIDE DEF left
<1>7. Keeps(left, RemoveIfComplete(left, i))
  BY <1>6, RemoveIfCompleteKeeps DEF Keeps
<1>8. Keeps(s, told)
  BY <1>3, <1>5, KeepsTransitive
<1>9. Keeps(s, left)
  BY <1>6, <1>8, KeepsTransitive
<1>10. QED
  BY <1>2, <1>7, <1>9, KeepsTransitive

\* Who has a final status, after one task got one.
LEMMA EndedAfter ==
    ASSUME NEW s, NEW u, NEW i,
           \A e \in u.ended : e \in s.ended \/ e[1] = i,
           \A e \in s.ended : e \in u.ended \/ e[1] = i,
           \E e \in u.ended : e[1] = i
    PROVE  Ended(u) = Ended(s) \cup {i}
<1>1. ASSUME NEW x \in Ended(u) PROVE x \in Ended(s) \cup {i}
  BY DEF Ended
<1>2. ASSUME NEW x \in Ended(s) \cup {i} PROVE x \in Ended(u)
  BY DEF Ended
<1>3. QED
  BY <1>1, <1>2

\* Completing an output may release its own task from runahead, which then has
\* a final status.
LEMMA CompleteOutputSound ==
    ASSUME NEW s, Sound(s), NEW i \in s.rows, NEW output \in Outputs
    PROVE  LET t == CompleteOutput(s, i, output) IN
           /\ Sound(t)
           /\ Loose(t) \subseteq Loose(s)
           /\ Free(t) \subseteq Free(s) \cup Ended(t)
           /\ t.stopPoint = s.stopPoint
<1> DEFINE t == CompleteOutput(s, i, output)
           u == EndWith(s, i, output)
           gone == IF output = "expired" THEN {i} ELSE {}
<1>1. i \in Inst /\ <<i, output>> \in Key
  BY DEF Sound, PoolRecord, Key
<1>2. u \in PoolRecord
  <2>1. CASE output \in FinalStatus
    <3> DEFINE E == Without(s.ended, {i}) \cup {<<i, output>>}
    <3>1. E \subseteq Inst \X FinalStatus
      BY <1>1, <2>1 DEF Sound, PoolRecord, Without
    <3>2. u = [s EXCEPT !.active = @ \ {i}, !.ended = E]
      BY <2>1 DEF EndWith
    <3> HIDE DEF E
    <3>3. QED
      BY <3>1, <3>2 DEF Sound, PoolRecord
  <2>2. CASE output \notin FinalStatus
    BY <2>2 DEF EndWith, Sound
  <2>3. QED
    BY <2>1, <2>2
<1>3. /\ u.pool = s.pool /\ u.rows = s.rows
      /\ u.outputs = s.outputs /\ u.recorded = s.recorded
      /\ u.sat = s.sat /\ u.forced = s.forced
      /\ u.runahead = s.runahead /\ u.queued = s.queued
      /\ u.held = s.held /\ u.toHold = s.toHold
      /\ u.limit = s.limit /\ u.stopPoint = s.stopPoint
  BY DEF EndWith, Sound, PoolRecord
<1>4. IF output \in FinalStatus
      THEN /\ u.active = s.active \ {i}
           /\ u.ended = Without(s.ended, {i}) \cup {<<i, output>>}
      ELSE u.active = s.active /\ u.ended = s.ended
  BY DEF EndWith, Sound, PoolRecord
<1>5. IF output \in FinalStatus
      THEN Ended(u) = Ended(s) \cup {i} ELSE Ended(u) = Ended(s)
  <2> HIDE DEF u
  <2>1. CASE output \in FinalStatus
    <3>1. u.ended = Without(s.ended, {i}) \cup {<<i, output>>}
      BY <1>4, <2>1
    <3>2. /\ \A e \in u.ended : e \in s.ended \/ e[1] = i
          /\ \A e \in s.ended : e \in u.ended \/ e[1] = i
          /\ <<i, output>> \in u.ended /\ <<i, output>>[1] = i
      BY <3>1 DEF Without
    <3>3. Ended(u) = Ended(s) \cup {i}
      BY <3>2, EndedAfter
    <3>4. QED
      BY <2>1, <3>3
  <2>2. CASE output \notin FinalStatus
    BY <1>4, <2>2 DEF Ended
  <2>3. QED
    BY <2>1, <2>2
<1>6. /\ u.active \cup Ended(u) \subseteq u.rows
      /\ u.active \cap Ended(u) = {}
  BY <1>3, <1>4, <1>5 DEF Sound
<1> HIDE DEF u
<1>7. t \in PoolRecord
  BY <1>1, <1>2 DEF CompleteOutput, u, Sound, PoolRecord, Without, Key
<1>8. /\ t.pool = u.pool /\ t.rows = u.rows
      /\ t.active = u.active /\ t.ended = u.ended
      /\ t.sat = u.sat /\ t.forced = u.forced
      /\ t.runahead = u.runahead \ gone /\ t.queued = u.queued \ gone
      /\ t.held = u.held /\ t.toHold = u.toHold
      /\ t.limit = u.limit /\ t.stopPoint = u.stopPoint
  BY <1>2 DEF CompleteOutput, u, PoolRecord
<1> HIDE DEF t
<1>9. Ended(t) = Ended(u)
  BY <1>8 DEF Ended
<1>10. Sound(t)
  BY <1>3, <1>6, <1>7, <1>8, <1>9 DEF Sound
<1>11. gone \subseteq Ended(t)
  BY <1>5, <1>9 DEF FinalStatus
<1>12. QED
  BY <1>3, <1>8, <1>10, <1>11 DEF Loose, Free, t

LEMMA ProcessMessageSound ==
    ASSUME NEW s, Sound(s), NEW i \in s.rows, NEW output \in Outputs
    PROVE  LET t == ProcessMessage(s, i, output) IN
           /\ Sound(t)
           /\ Loose(t) \subseteq Loose(s)
           /\ Free(t) \subseteq Free(s) \cup Ended(t)
           /\ t.stopPoint = s.stopPoint
<1> DEFINE u == CompleteOutput(s, i, output)
           t == SpawnOnOutput(u, i, output)
<1>1. i \in Inst
  BY DEF Sound, PoolRecord
<1>2. /\ Sound(u)
      /\ Loose(u) \subseteq Loose(s)
      /\ Free(u) \subseteq Free(s) \cup Ended(u)
      /\ u.stopPoint = s.stopPoint
  BY CompleteOutputSound
<1>3. ProcessMessage(s, i, output) = t
  BY DEF ProcessMessage
<1> HIDE DEF u
<1>4. Keeps(u, t)
  BY <1>1, <1>2, SpawnOnOutputKeeps
<1> HIDE DEF t
<1>5. Ended(t) = Ended(u)
  BY <1>4 DEF Keeps, Ended
<1>6. QED
  BY <1>2, <1>3, <1>4, <1>5 DEF Keeps
-----------------------------------------------------------------------------
(* The runahead limit. *)

LEMMA BasePointType ==
    ASSUME NEW s, Sound(s)
    PROVE  BasePoint(s) \in 1..FinalPoint
<1> DEFINE P == {i[2] : i \in s.pool}
<1>1. 1..FinalPoint \subseteq Nat
  BY GraphAssumption
<1>2. P \subseteq 1..FinalPoint
  BY InstType DEF Sound, PoolRecord
<1>3. CASE s.pool = {}
  BY <1>1, <1>3, PointsType, MinExists DEF BasePoint
<1>4. CASE s.pool # {}
  <2>1. P # {}
    BY <1>4
  <2>2. BasePoint(s) = Min(P)
    BY <1>4 DEF BasePoint
  <2> HIDE DEF P
  <2>3. Min(P) \in P
    BY <1>1, <1>2, <2>1, MinExists
  <2>4. QED
    BY <1>2, <2>2, <2>3
<1>5. QED
  BY <1>3, <1>4

LEMMA WindowType ==
    ASSUME NEW p \in 1..FinalPoint
    PROVE  Window(p) \in 1..FinalPoint
<1> DEFINE ahead == {q \in AllPoints : q >= p}
           W == {q \in ahead : Cardinality({r \in ahead : r < q}) <= RunaheadLimit}
<1>1. Window(p) = IF W = {} THEN p ELSE Max(W)
  BY DEF Window
<1>2. W \subseteq 1..FinalPoint
  BY PointsType
<1> HIDE DEF W
<1>3. FinalPoint \in Nat /\ W \subseteq 0..FinalPoint
  BY <1>2, GraphAssumption
<1>4. W # {} => Max(W) \in W
  BY <1>3, MaxExists
<1>5. QED
  BY <1>1, <1>2, <1>4

LEMMA MinOfTwo ==
    ASSUME NEW a \in 1..FinalPoint, NEW b \in 1..FinalPoint
    PROVE  Min({a, b}) \in 1..FinalPoint /\ Min({a, b}) <= b
<1>1. {a, b} \subseteq Nat /\ {a, b} # {}
  BY GraphAssumption
<1>2. Min({a, b}) \in {a, b} /\ Min({a, b}) <= b
  BY <1>1, MinExists
<1>3. QED
  BY <1>2

LEMMA ComputeRunaheadKeeps ==
    ASSUME NEW s, Sound(s)
    PROVE  Keeps(s, ComputeRunahead(s)) /\ ComputeRunahead(s).pool = s.pool
<1> DEFINE t == ComputeRunahead(s)
<1>1. PICK b \in 0..FinalPoint, l \in 0..FinalPoint :
          /\ t = [s EXCEPT !.base = b, !.limit = l]
          /\ l <= s.stopPoint
  <2>1. s \in PoolRecord /\ s.stopPoint \in 1..FinalPoint /\ s.limit <= s.stopPoint
        /\ s.limit \in 0..FinalPoint /\ s.base \in 0..FinalPoint
    BY DEF Sound, PoolRecord
  <2>2. BasePoint(s) \in 1..FinalPoint
    BY BasePointType
  <2>3. CASE IsLimitStale(s)
    <3> DEFINE l == Min({Window(BasePoint(s)), s.stopPoint})
    <3>1. l \in 1..FinalPoint /\ l <= s.stopPoint
      BY <2>1, <2>2, WindowType, MinOfTwo
    <3>2. t = [s EXCEPT !.base = BasePoint(s), !.limit = l]
      BY <2>3 DEF ComputeRunahead
    <3> HIDE DEF l, t
    <3>3. BasePoint(s) \in 0..FinalPoint /\ l \in 0..FinalPoint
      BY <2>2, <3>1, GraphAssumption
    <3>4. QED
      BY <3>1, <3>2, <3>3
  <2>4. CASE ~IsLimitStale(s)
    <3>1. PreviousBase(s) \in 0..FinalPoint
      BY <2>1, <2>2, GraphAssumption DEF PreviousBase
    <3>2. t = [s EXCEPT !.base = PreviousBase(s)]
      BY <2>4 DEF ComputeRunahead
    <3>3. t = [s EXCEPT !.base = PreviousBase(s), !.limit = s.limit]
      BY <2>1, <3>2 DEF PoolRecord
    <3> HIDE DEF t
    <3>4. QED
      BY <2>1, <3>1, <3>3
  <2>5. QED
    BY <2>3, <2>4
<1> HIDE DEF t
<1>2. t \in PoolRecord
  BY <1>1 DEF Sound, PoolRecord
<1>3. /\ t.pool = s.pool /\ t.rows = s.rows
      /\ t.active = s.active /\ t.ended = s.ended
      /\ t.sat = s.sat /\ t.forced = s.forced
      /\ t.runahead = s.runahead /\ t.queued = s.queued
      /\ t.held = s.held /\ t.toHold = s.toHold
      /\ t.limit <= s.stopPoint /\ t.stopPoint = s.stopPoint
  BY <1>1 DEF Sound, PoolRecord
<1>4. Sound(t)
  BY <1>2, <1>3, SoundFrom DEF Sound
<1>5. QED
  BY <1>3, <1>4 DEF Keeps, Loose, Free, t

\* The instances up to the stop point.
Within(s) == {i \in Inst : i[2] <= s.stopPoint}

LEMMA ReleaseRunaheadSound ==
    ASSUME NEW s, Sound(s)
    PROVE  LET t == ReleaseRunahead(s) IN
           /\ Sound(t)
           /\ Loose(t) \subseteq Loose(s)
           /\ Free(t) \subseteq Free(s) \cup Within(s)
           /\ t.stopPoint = s.stopPoint
<1> DEFINE R == {i \in s.runahead : i[2] <= s.limit}
           u == [s EXCEPT !.runahead = @ \ R]
           t == SpawnNextParentless(u, R)
<1>1. ReleaseRunahead(s) = t
  BY DEF ReleaseRunahead
<1>2. R \subseteq Within(s)
  <2>1. /\ s.limit \in 0..FinalPoint /\ s.stopPoint \in 1..FinalPoint
        /\ s.limit <= s.stopPoint /\ s.runahead \subseteq Inst
    BY DEF Sound, PoolRecord
  <2>2. QED
    BY <2>1, InstType, GraphAssumption DEF Within
<1> HIDE DEF R
<1>3. u \in PoolRecord
  BY DEF Sound, PoolRecord
<1>4. /\ u.pool = s.pool /\ u.rows = s.rows
      /\ u.active = s.active /\ u.ended = s.ended
      /\ u.sat = s.sat /\ u.forced = s.forced
      /\ u.runahead = s.runahead \ R /\ u.queued = s.queued
      /\ u.held = s.held /\ u.toHold = s.toHold
      /\ u.limit = s.limit /\ u.stopPoint = s.stopPoint
  BY DEF Sound, PoolRecord
<1> HIDE DEF u
<1>5. Sound(u)
  BY <1>3, <1>4, SoundFrom DEF Sound
<1>6. Keeps(u, t)
  BY <1>5, SpawnNextKeeps
<1> HIDE DEF t
<1>7. Loose(u) \subseteq Loose(s) /\ Free(u) \subseteq Free(s) \cup R
  BY <1>4 DEF Loose, Free
<1>8. QED
  BY <1>1, <1>2, <1>4, <1>6, <1>7 DEF Keeps
-----------------------------------------------------------------------------
(* Removal by command. *)

LEMMA EraseHistorySound ==
    ASSUME NEW s, Sound(s), NEW E, s.pool \cap E = {}
    PROVE  LET t == EraseHistory(s, E) IN
           /\ Sound(t)
           /\ t.pool = s.pool /\ t.runahead = s.runahead
           /\ t.stopPoint = s.stopPoint
<1> DEFINE t == EraseHistory(s, E)
<1>1. t \in PoolRecord
  BY DEF Sound, PoolRecord, EraseHistory, Without
<1>2. /\ t.pool = s.pool /\ t.rows = s.rows \ E
      /\ t.active = s.active \ E /\ t.ended = Without(s.ended, E)
      /\ t.sat = s.sat /\ t.forced = s.forced
      /\ t.runahead = s.runahead /\ t.queued = s.queued
      /\ t.held = s.held /\ t.toHold = s.toHold
      /\ t.limit = s.limit /\ t.stopPoint = s.stopPoint
  BY DEF Sound, PoolRecord, EraseHistory
<1> HIDE DEF t
<1>3. Ended(t) \subseteq Ended(s) \ E
  BY <1>2 DEF Ended, Without
<1>4. Sound(t)
  BY <1>1, <1>2, <1>3 DEF Sound
<1>5. QED
  BY <1>2, <1>4 DEF t

\* The children of a removed task are not earlier, so nothing that is spawned
\* as they go is the removed task itself.
LEMMA StandDownSound ==
    ASSUME NEW s, Sound(s), NEW i \in Inst, i \notin s.pool
    PROVE  LET t == StandDown(s, i) IN
           /\ Sound(t)
           /\ i \notin t.pool
           /\ Loose(t) \subseteq Loose(s)
           /\ Free(t) \subseteq Free(s)
           /\ t.stopPoint = s.stopPoint
<1> DEFINE lost == {e \in s.sat : e[2][1] = i}
           unset == [s EXCEPT !.sat = @ \ lost]
           down == {c \in {e[1] : e \in lost} :
                      /\ c \in Waiting(s) \/ <<c, "expired">> \in s.ended
                      /\ ~IsReady(unset, c)}
           out == {c \in down : c # i /\ ~HasSatisfied(unset, c)}
           u == [unset EXCEPT !.queued = @ \ down]
           v == Remove(u, out)
<1>1. StandDown(s, i) = EraseHistory(v, out \cup {i})
  BY DEF StandDown
<1>2. \A c \in out : c \in Inst /\ i[2] <= c[2]
  BY DEF Sound, PoolRecord
<1> HIDE DEF lost, down, out
<1>3. u \in PoolRecord
  BY DEF Sound, PoolRecord
<1>4. /\ u.pool = s.pool /\ u.rows = s.rows
      /\ u.active = s.active /\ u.ended = s.ended
      /\ u.sat = s.sat \ lost /\ u.forced = s.forced
      /\ u.runahead = s.runahead /\ u.queued = s.queued \ down
      /\ u.held = s.held /\ u.toHold = s.toHold
      /\ u.limit = s.limit /\ u.stopPoint = s.stopPoint
  BY DEF Sound, PoolRecord
<1> HIDE DEF u
<1>6. Sound(u)
  BY <1>3, <1>4, SoundFrom DEF Sound
<1>7. Keeps(u, v) /\ v.pool \subseteq (u.pool \cup NextOf(out)) \ out
  BY <1>6, RemoveKeeps
<1> HIDE DEF v
<1>8. i \notin NextOf(out)
  <2>1. SUFFICES ASSUME NEW c \in out, i \in NextParentless(c) PROVE FALSE
    BY DEF NextOf
  <2>2. c[2] < i[2] /\ i[2] <= c[2]
    BY <1>2, <2>1, NextIsLater
  <2>3. i[2] \in 1..FinalPoint /\ c[2] \in 1..FinalPoint
    BY <1>2, InstType
  <2>4. QED
    BY <2>2, <2>3, GraphAssumption
<1>9. Sound(v) /\ v.pool \cap (out \cup {i}) = {}
  BY <1>4, <1>7, <1>8 DEF Keeps
<1> DEFINE t == EraseHistory(v, out \cup {i})
<1>10. /\ Sound(t) /\ t.pool = v.pool /\ t.runahead = v.runahead
       /\ t.stopPoint = v.stopPoint
  BY <1>9, EraseHistorySound
<1> HIDE DEF t
<1>11. Loose(t) \subseteq Loose(s) /\ Free(t) \subseteq Free(s)
  BY <1>4, <1>7, <1>10 DEF Keeps, Loose, Free
<1>12. QED
  BY <1>1, <1>4, <1>7, <1>9, <1>10, <1>11 DEF Keeps, t
-----------------------------------------------------------------------------
(* One lemma per action.  What a step may release from runahead is in a cycle
   up to the stop point, or no longer waiting. *)

Advances(s, t) ==
    /\ Sound(t)
    /\ Loose(t) = {}
    /\ Free(t) \cap Waiting(t) \subseteq Free(s) \cup Within(s)

LEMMA KeepsAdvances ==
    ASSUME NEW s, Loose(s) = {}, NEW t, Keeps(s, t)
    PROVE  Advances(s, t)
BY DEF Keeps, Advances

LEMMA ProcessMessageAdvances ==
    ASSUME NEW s, Sound(s), Loose(s) = {}, NEW i \in s.rows,
           NEW output \in Outputs
    PROVE  Advances(s, ProcessMessage(s, i, output))
<1> DEFINE t == ProcessMessage(s, i, output)
<1>1. /\ Sound(t) /\ Loose(t) \subseteq Loose(s)
      /\ Free(t) \subseteq Free(s) \cup Ended(t)
  BY ProcessMessageSound
<1> HIDE DEF t
<1>2. QED
  BY <1>1 DEF Advances, Waiting, t

\* compute_runahead and release_runahead_tasks, in this order.
LEMMA RunaheadAdvances ==
    ASSUME NEW s, Sound(s), Loose(s) = {}
    PROVE  Advances(s, ReleaseRunahead(ComputeRunahead(s)))
<1> DEFINE u == ComputeRunahead(s)
           t == ReleaseRunahead(u)
<1>1. Keeps(s, u)
  BY ComputeRunaheadKeeps
<1> HIDE DEF u
<1>2. /\ Sound(t) /\ Loose(t) \subseteq Loose(u)
      /\ Free(t) \subseteq Free(u) \cup Within(u)
  BY <1>1, ReleaseRunaheadSound DEF Keeps
<1> HIDE DEF t
<1>3. Within(u) = Within(s)
  BY <1>1 DEF Keeps, Within
<1>4. QED
  BY <1>1, <1>2, <1>3 DEF Keeps, Advances, t, u

LEMMA SubmittedAdvances ==
    ASSUME NEW s, Sound(s), Loose(s) = {}, NEW i \in s.queued
    PROVE  Advances(s, Submitted(s, i))
<1> DEFINE t == Submitted(s, i)
<1>1. t \in PoolRecord
  BY DEF Sound, PoolRecord, Submitted, Without
<1>2. /\ t.pool = s.pool /\ t.rows = s.rows
      /\ t.active = s.active \cup {i} /\ t.ended = Without(s.ended, {i})
      /\ t.sat = s.sat /\ t.forced = s.forced
      /\ t.runahead = s.runahead /\ t.queued = s.queued \ {i}
      /\ t.held = s.held /\ t.toHold = s.toHold
      /\ t.limit = s.limit /\ t.stopPoint = s.stopPoint
  BY DEF Sound, PoolRecord, Submitted
<1> HIDE DEF t
<1>3. Ended(t) \subseteq Ended(s) \ {i}
  BY <1>2 DEF Ended, Without
<1>4. Sound(t)
  BY <1>1, <1>2, <1>3 DEF Sound
<1>5. QED
  BY <1>2, <1>4 DEF Advances, Loose, Free, t

\* Queueing, holding and releasing: whatever the flags, the list and the queue
\* become, if they agree.
LEMMA FlagsAdvance ==
    ASSUME NEW s, Sound(s), Loose(s) = {},
           NEW t \in PoolRecord,
           t.pool = s.pool, t.rows = s.rows, t.active = s.active,
           t.ended = s.ended, t.sat = s.sat, t.forced = s.forced,
           t.runahead = s.runahead, t.limit = s.limit,
           t.stopPoint = s.stopPoint,
           t.queued \subseteq t.pool,
           t.held = t.pool \cap t.toHold
    PROVE  Advances(s, t)
<1>1. Sound(t)
  BY SoundFrom DEF Sound
<1>2. QED
  BY <1>1 DEF Advances, Loose, Free

LEMMA QueueAdvances ==
    ASSUME Sound(tp), Loose(tp) = {}, NEW i \in Inst, QueueIfReady(i)
    PROVE  Advances(tp, tp')
<1>1. tp' = [tp EXCEPT !.queued = @ \cup {i}] /\ i \in tp.pool
  BY DEF QueueIfReady, CanQueue
<1>2. tp' \in PoolRecord
  BY <1>1 DEF Sound, PoolRecord
<1>3. /\ tp'.pool = tp.pool /\ tp'.rows = tp.rows
      /\ tp'.active = tp.active /\ tp'.ended = tp.ended
      /\ tp'.sat = tp.sat /\ tp'.forced = tp.forced
      /\ tp'.runahead = tp.runahead /\ tp'.queued = tp.queued \cup {i}
      /\ tp'.held = tp.held /\ tp'.toHold = tp.toHold
      /\ tp'.limit = tp.limit /\ tp'.stopPoint = tp.stopPoint
  BY <1>1 DEF Sound, PoolRecord
<1>4. QED
  BY <1>1, <1>2, <1>3, FlagsAdvance DEF Sound

LEMMA HoldTaskAdvances ==
    ASSUME Sound(tp), Loose(tp) = {}, NEW i \in Inst, HoldTask(i)
    PROVE  Advances(tp, tp')
<1>1. tp' = [tp EXCEPT !.held = @ \cup ({i} \cap tp.pool), !.toHold = @ \cup {i}]
  BY DEF HoldTask
<1>2. tp' \in PoolRecord
  BY <1>1 DEF Sound, PoolRecord
<1>3. /\ tp'.pool = tp.pool /\ tp'.rows = tp.rows
      /\ tp'.active = tp.active /\ tp'.ended = tp.ended
      /\ tp'.sat = tp.sat /\ tp'.forced = tp.forced
      /\ tp'.runahead = tp.runahead /\ tp'.queued = tp.queued
      /\ tp'.held = tp.held \cup ({i} \cap tp.pool)
      /\ tp'.toHold = tp.toHold \cup {i}
      /\ tp'.limit = tp.limit /\ tp'.stopPoint = tp.stopPoint
  BY <1>1 DEF Sound, PoolRecord
<1>4. tp'.held = tp'.pool \cap tp'.toHold
  BY <1>3 DEF Sound
<1>5. QED
  BY <1>2, <1>3, <1>4, FlagsAdvance DEF Sound

LEMMA UnholdFields ==
    ASSUME NEW s, Sound(s), NEW R
    PROVE  LET t == Unhold(s, R) IN
           /\ t \in PoolRecord
           /\ t.pool = s.pool /\ t.rows = s.rows
           /\ t.active = s.active /\ t.ended = s.ended
           /\ t.sat = s.sat /\ t.forced = s.forced
           /\ t.runahead = s.runahead /\ t.queued \subseteq s.pool
           /\ t.held = s.held \ R /\ t.toHold = s.toHold
           /\ t.limit = s.limit /\ t.stopPoint = s.stopPoint
<1> DEFINE free == [s EXCEPT !.held = @ \ R]
           X == {i \in R \cap s.held : CanQueue(free, i)}
<1>1. Unhold(s, R) = [free EXCEPT !.queued = @ \cup X]
  BY DEF Unhold
<1>2. X \subseteq s.pool /\ s.pool \subseteq Inst
  BY DEF Sound, PoolRecord
<1> HIDE DEF X
<1>3. /\ free \in PoolRecord
      /\ free.pool = s.pool /\ free.rows = s.rows
      /\ free.active = s.active /\ free.ended = s.ended
      /\ free.sat = s.sat /\ free.forced = s.forced
      /\ free.runahead = s.runahead /\ free.queued \subseteq s.pool
      /\ free.held = s.held \ R /\ free.toHold = s.toHold
      /\ free.limit = s.limit /\ free.stopPoint = s.stopPoint
  BY DEF Sound, PoolRecord
<1> DEFINE t == [free EXCEPT !.queued = @ \cup X]
<1> HIDE DEF free
<1>4. t \in PoolRecord
  BY <1>2, <1>3 DEF PoolRecord
<1>5. /\ t.pool = free.pool /\ t.rows = free.rows
      /\ t.active = free.active /\ t.ended = free.ended
      /\ t.sat = free.sat /\ t.forced = free.forced
      /\ t.runahead = free.runahead /\ t.queued = free.queued \cup X
      /\ t.held = free.held /\ t.toHold = free.toHold
      /\ t.limit = free.limit /\ t.stopPoint = free.stopPoint
  BY <1>3 DEF PoolRecord
<1> HIDE DEF t
<1>6. Unhold(s, R) = t
  BY <1>1 DEF t
<1>7. QED
  BY <1>2, <1>3, <1>4, <1>5, <1>6

LEMMA ReleaseHeldTaskAdvances ==
    ASSUME Sound(tp), Loose(tp) = {}, NEW i \in Inst, ReleaseHeldTask(i)
    PROVE  Advances(tp, tp')
<1> DEFINE u == Unhold(tp, {i} \cap tp.pool)
<1>1. tp' = [u EXCEPT !.toHold = @ \ {i}]
  BY DEF ReleaseHeldTask
<1>2. /\ u \in PoolRecord
      /\ u.pool = tp.pool /\ u.rows = tp.rows
      /\ u.active = tp.active /\ u.ended = tp.ended
      /\ u.sat = tp.sat /\ u.forced = tp.forced
      /\ u.runahead = tp.runahead /\ u.queued \subseteq tp.pool
      /\ u.held = tp.held \ ({i} \cap tp.pool) /\ u.toHold = tp.toHold
      /\ u.limit = tp.limit /\ u.stopPoint = tp.stopPoint
  BY UnholdFields
<1> HIDE DEF u
<1>3. tp' \in PoolRecord
  BY <1>1, <1>2 DEF PoolRecord
<1>4. /\ tp'.pool = u.pool /\ tp'.rows = u.rows
      /\ tp'.active = u.active /\ tp'.ended = u.ended
      /\ tp'.sat = u.sat /\ tp'.forced = u.forced
      /\ tp'.runahead = u.runahead /\ tp'.queued = u.queued
      /\ tp'.held = u.held /\ tp'.toHold = u.toHold \ {i}
      /\ tp'.limit = u.limit /\ tp'.stopPoint = u.stopPoint
  BY <1>1, <1>2 DEF PoolRecord
<1>5. tp'.held = tp'.pool \cap tp'.toHold
  BY <1>2, <1>4 DEF Sound
<1>6. QED
  BY <1>2, <1>3, <1>4, <1>5, FlagsAdvance

LEMMA SetHoldPointAdvances ==
    ASSUME Sound(tp), Loose(tp) = {}, NEW p \in AllPoints, SetHoldPoint(p)
    PROVE  Advances(tp, tp')
<1> DEFINE B == {i \in tp.pool : i[2] > p}
<1>1. tp' = [tp EXCEPT !.holdPoint = p, !.held = @ \cup B, !.toHold = @ \cup B]
  BY DEF SetHoldPoint
<1>2. p \in 0..FinalPoint /\ B \subseteq tp.pool
  BY PointsType, GraphAssumption
<1> HIDE DEF B
<1>3. tp' \in PoolRecord
  BY <1>1, <1>2 DEF Sound, PoolRecord
<1>4. /\ tp'.pool = tp.pool /\ tp'.rows = tp.rows
      /\ tp'.active = tp.active /\ tp'.ended = tp.ended
      /\ tp'.sat = tp.sat /\ tp'.forced = tp.forced
      /\ tp'.runahead = tp.runahead /\ tp'.queued = tp.queued
      /\ tp'.held = tp.held \cup B /\ tp'.toHold = tp.toHold \cup B
      /\ tp'.limit = tp.limit /\ tp'.stopPoint = tp.stopPoint
  BY <1>1 DEF Sound, PoolRecord
<1>5. tp'.held = tp'.pool \cap tp'.toHold
  BY <1>2, <1>4 DEF Sound
<1>6. QED
  BY <1>3, <1>4, <1>5, FlagsAdvance DEF Sound

LEMMA ReleaseHoldPointAdvances ==
    ASSUME Sound(tp), Loose(tp) = {}, ReleaseHoldPoint
    PROVE  Advances(tp, tp')
<1> DEFINE u == Unhold(tp, tp.pool)
<1>1. tp' = [u EXCEPT !.holdPoint = 0, !.toHold = {}]
  BY DEF ReleaseHoldPoint
<1>2. /\ u \in PoolRecord
      /\ u.pool = tp.pool /\ u.rows = tp.rows
      /\ u.active = tp.active /\ u.ended = tp.ended
      /\ u.sat = tp.sat /\ u.forced = tp.forced
      /\ u.runahead = tp.runahead /\ u.queued \subseteq tp.pool
      /\ u.held = tp.held \ tp.pool
      /\ u.limit = tp.limit /\ u.stopPoint = tp.stopPoint
  BY UnholdFields
<1> HIDE DEF u
<1>3. tp' \in PoolRecord
  <2>1. 0 \in 0..FinalPoint
    BY GraphAssumption
  <2>2. QED
    BY <1>1, <1>2, <2>1 DEF PoolRecord
<1>4. /\ tp'.pool = u.pool /\ tp'.rows = u.rows
      /\ tp'.active = u.active /\ tp'.ended = u.ended
      /\ tp'.sat = u.sat /\ tp'.forced = u.forced
      /\ tp'.runahead = u.runahead /\ tp'.queued = u.queued
      /\ tp'.held = u.held /\ tp'.toHold = {}
      /\ tp'.limit = u.limit /\ tp'.stopPoint = u.stopPoint
  BY <1>1, <1>2 DEF PoolRecord
<1>5. tp'.held = tp'.pool \cap tp'.toHold
  BY <1>2, <1>4 DEF Sound
<1>6. QED
  BY <1>2, <1>3, <1>4, <1>5, FlagsAdvance

\* The limit never exceeds the stop point, which may come down.
LEMMA SetStopPointAdvances ==
    ASSUME Sound(tp), Loose(tp) = {}, NEW p \in AllPoints, SetStopPoint(p)
    PROVE  Advances(tp, tp')
<1>1. PICK l \in 0..FinalPoint, B \in SUBSET tp.pool :
          /\ tp' = [tp EXCEPT !.stopPoint = p, !.limit = l, !.runahead = @ \cup B]
          /\ l <= p
  <2> DEFINE back == {i \in tp.pool \cap Waiting(tp) : i[2] > p}
  <2>1. tp \in PoolRecord /\ tp.limit \in 0..FinalPoint /\ p \in 1..FinalPoint
    BY PointsType DEF Sound, PoolRecord
  <2>2. CASE tp.limit > p
    <3>1. tp' = [tp EXCEPT !.stopPoint = p, !.limit = p, !.runahead = @ \cup back]
      BY <2>2 DEF SetStopPoint
    <3>2. back \in SUBSET tp.pool /\ p \in 0..FinalPoint /\ p <= p
      BY <2>1, GraphAssumption
    <3> HIDE DEF back
    <3>3. QED
      BY <3>1, <3>2
  <2>3. CASE ~(tp.limit > p)
    <3>1. tp' = [tp EXCEPT !.stopPoint = p]
      BY <2>3 DEF SetStopPoint
    <3>2. tp' = [tp EXCEPT !.stopPoint = p, !.limit = tp.limit, !.runahead = @ \cup {}]
      BY <2>1, <3>1 DEF PoolRecord
    <3>3. tp.limit <= p
      BY <2>1, <2>3, GraphAssumption
    <3>4. QED
      BY <2>1, <3>2, <3>3
  <2>4. QED
    BY <2>2, <2>3
<1>2. p \in 1..FinalPoint
  BY PointsType
<1>3. tp' \in PoolRecord
  BY <1>1, <1>2 DEF Sound, PoolRecord
<1>4. /\ tp'.pool = tp.pool /\ tp'.rows = tp.rows
      /\ tp'.active = tp.active /\ tp'.ended = tp.ended
      /\ tp'.sat = tp.sat /\ tp'.forced = tp.forced
      /\ tp'.runahead = tp.runahead \cup B /\ tp'.queued = tp.queued
      /\ tp'.held = tp.held /\ tp'.toHold = tp.toHold
      /\ tp'.limit <= tp'.stopPoint
  BY <1>1 DEF Sound, PoolRecord
<1>5. Sound(tp')
  BY <1>3, <1>4, SoundFrom DEF Sound
<1>6. QED
  BY <1>1, <1>4, <1>5 DEF Advances, Loose, Free

LEMMA SetPrereqsAdvances ==
    ASSUME Sound(tp), Loose(tp) = {}, NEW i \in Inst, SetPrereqs(i)
    PROVE  Advances(tp, tp')
<1> DEFINE s == Spawn(tp, {i})
           keys == {KeyOf(i, trg) : trg \in
                      {trg \in UNION Requires[i[1]] : ~IsPreInitial(i, trg)}}
           X == {<<i, k>> : k \in keys} \ s.sat
           rec == IF i \in tp.pool THEN s.recorded ELSE Without(s.recorded, {i})
           t == [s EXCEPT !.forced = @ \cup X, !.recorded = rec]
<1>1. tp' = IF i \in s.pool THEN t ELSE s
  BY DEF SetPrereqs
<1>2. Keeps(tp, s)
  BY SpawnKeeps
<1>3. keys \subseteq AnyKey
  <2>1. SUFFICES ASSUME NEW trg \in UNION Requires[i[1]]
                 PROVE  KeyOf(i, trg) \in AnyKey
    OBVIOUS
  <2>2. i[1] \in Names /\ i[2] \in Int
    BY InstType, GraphAssumption
  <2>3. trg \in Trigger
    BY <2>2, GraphAssumption
  <2>4. trg.task \in Names /\ trg.output \in Outputs /\ trg.back \in Nat
    BY <2>3 DEF Trigger
  <2>5. QED
    BY <2>2, <2>4 DEF KeyOf, AnyKey
<1> HIDE DEF keys
<1>4. X \subseteq Inst \X AnyKey /\ \A e \in X : e[1] = i
  BY <1>3
<1>5. Sound(s) /\ rec \subseteq Key
  BY <1>2 DEF Keeps, Sound, PoolRecord, Without
<1> HIDE DEF X, rec, s
<1>6. ASSUME i \in s.pool PROVE Keeps(tp, t)
  <2>1. t \in PoolRecord
    BY <1>4, <1>5 DEF Sound, PoolRecord
  <2>2. /\ t.pool = s.pool /\ t.rows = s.rows
        /\ t.active = s.active /\ t.ended = s.ended
        /\ t.sat = s.sat /\ t.forced = s.forced \cup X
        /\ t.runahead = s.runahead /\ t.queued = s.queued
        /\ t.held = s.held /\ t.toHold = s.toHold
        /\ t.limit = s.limit /\ t.stopPoint = s.stopPoint
    BY <1>5 DEF Sound, PoolRecord
  <2> HIDE DEF t
  <2>3. Ended(t) = Ended(s)
    BY <2>2 DEF Ended
  <2>4. Sound(t)
    BY <1>4, <1>5, <1>6, <2>1, <2>2, <2>3 DEF Sound
  <2>5. QED
    BY <1>2, <2>2, <2>4 DEF Keeps, Loose, Free
<1>7. Keeps(tp, tp')
  BY <1>1, <1>2, <1>6
<1>8. QED
  BY <1>7, KeepsAdvances

\* For a while i is runahead-limited without being in the pool.
LEMMA TransientSound ==
    ASSUME NEW s, Sound(s), NEW i \in Inst, i \notin s.pool
    PROVE  LET t == Transient(s, i) IN
           /\ Sound(t)
           /\ t.pool = s.pool /\ t.runahead = s.runahead \cup {i}
           /\ i \in t.rows /\ t.stopPoint = s.stopPoint
<1> DEFINE t == Transient(s, i)
<1>1. t \in PoolRecord
  BY DEF Sound, PoolRecord, Transient, Without
<1>2. /\ t.pool = s.pool /\ t.rows = s.rows \cup {i}
      /\ t.active = s.active \ {i} /\ t.ended = Without(s.ended, {i})
      /\ t.sat = s.sat /\ t.forced = s.forced
      /\ t.runahead = s.runahead \cup {i} /\ t.queued = s.queued
      /\ t.held = s.held /\ t.toHold = s.toHold
      /\ t.limit = s.limit /\ t.stopPoint = s.stopPoint
  BY DEF Sound, PoolRecord, Transient
<1> HIDE DEF t
<1>3. Ended(t) \subseteq Ended(s)
  BY <1>2 DEF Ended, Without
<1>4. Sound(t)
  BY <1>1, <1>2, <1>3 DEF Sound
<1>5. QED
  BY <1>2, <1>4 DEF t

LEMMA SetOutputAdvances ==
    ASSUME Sound(tp), Loose(tp) = {}, NEW i \in Inst, NEW output \in Outputs,
           SetOutput(i, output)
    PROVE  Advances(tp, tp')
<1> DEFINE s == IF i \in tp.pool THEN tp ELSE Transient(tp, i)
           u == ProcessMessage(s, i, output)
<1>1. tp' = AfterSet(u, i)
  BY DEF SetOutput
<1>2. /\ Sound(s) /\ i \in s.rows
      /\ Loose(s) \subseteq {i} /\ Free(s) \subseteq Free(tp)
  <2>1. CASE i \in tp.pool
    BY <2>1 DEF Sound
  <2>2. CASE i \notin tp.pool
    <3>1. s = Transient(tp, i)
      BY <2>2
    <3> HIDE DEF s
    <3>2. /\ Sound(s) /\ s.pool = tp.pool /\ s.runahead = tp.runahead \cup {i}
          /\ i \in s.rows
      BY <2>2, <3>1, TransientSound
    <3>3. QED
      BY <3>2 DEF Loose, Free
  <2>3. QED
    BY <2>1, <2>2
<1> HIDE DEF s
<1>3. /\ Sound(u) /\ Loose(u) \subseteq Loose(s)
      /\ Free(u) \subseteq Free(s) \cup Ended(u)
  BY <1>2, ProcessMessageSound
<1> HIDE DEF u
<1>4. CASE i \in u.pool \cap Waiting(u)
  <2>1. tp' = u
    BY <1>1, <1>4 DEF AfterSet
  <2>2. QED
    BY <1>2, <1>3, <1>4, <2>1 DEF Advances, Loose, Free, Waiting
<1>5. CASE i \notin u.pool \cap Waiting(u)
  <2>1. tp' = [u EXCEPT !.runahead = @ \ {i}, !.queued = @ \ {i}]
    BY <1>1, <1>5 DEF AfterSet
  <2>2. tp' \in PoolRecord
    BY <1>3, <2>1 DEF Sound, PoolRecord
  <2>3. /\ tp'.pool = u.pool /\ tp'.rows = u.rows
        /\ tp'.active = u.active /\ tp'.ended = u.ended
        /\ tp'.sat = u.sat /\ tp'.forced = u.forced
        /\ tp'.runahead = u.runahead \ {i} /\ tp'.queued = u.queued \ {i}
        /\ tp'.held = u.held /\ tp'.toHold = u.toHold
        /\ tp'.limit = u.limit /\ tp'.stopPoint = u.stopPoint
    BY <1>3, <2>1 DEF Sound, PoolRecord
  <2>4. Sound(tp')
    BY <1>3, <2>2, <2>3, SoundFrom DEF Sound
  <2>5. Ended(tp') = Ended(u) /\ Waiting(tp') = Waiting(u)
    BY <2>3 DEF Ended, Waiting
  <2>6. Loose(tp') = {}
    BY <1>2, <1>3, <2>3 DEF Loose
  <2>7. Free(tp') \subseteq Free(u) \cup {i} /\ (i \in Free(tp') => i \in u.pool)
    BY <2>3 DEF Free
  <2>8. Free(tp') \cap Waiting(tp') \subseteq Free(tp)
    BY <1>2, <1>3, <1>5, <2>5, <2>7 DEF Waiting
  <2>9. QED
    BY <2>4, <2>6, <2>8 DEF Advances
<1>6. QED
  BY <1>4, <1>5

LEMMA RemoveTaskAdvances ==
    ASSUME Sound(tp), Loose(tp) = {}, NEW i \in Inst, RemoveTask(i)
    PROVE  Advances(tp, tp')
<1> DEFINE gone == IF i \in tp.pool THEN Remove(tp, {i}) ELSE tp
           alone == StandDown(gone, i)
           killed == IF i \in tp.pool \cap tp.active
                     THEN [alone EXCEPT !.toHold = @ \cup {i}] ELSE alone
<1>1. tp' = IF IsLimitStale(killed)
            THEN ReleaseRunahead(ComputeRunahead(killed))
            ELSE ComputeRunahead(killed)
  BY DEF RemoveTask
<1>2. Keeps(tp, gone) /\ i \notin gone.pool
  <2>1. CASE i \in tp.pool
    BY <2>1, RemoveKeeps
  <2>2. CASE i \notin tp.pool
    BY <2>2 DEF Keeps
  <2>3. QED
    BY <2>1, <2>2
<1> HIDE DEF gone
<1>3. /\ Sound(alone) /\ i \notin alone.pool
      /\ Loose(alone) \subseteq Loose(gone) /\ Free(alone) \subseteq Free(gone)
      /\ alone.stopPoint = gone.stopPoint
  BY <1>2, StandDownSound DEF Keeps
<1> HIDE DEF alone
<1>4. /\ Sound(killed) /\ Loose(killed) = {} /\ Free(killed) \subseteq Free(tp)
      /\ killed.stopPoint = tp.stopPoint
  <2>1. CASE killed = alone
    BY <1>2, <1>3, <2>1 DEF Keeps
  <2>2. CASE killed = [alone EXCEPT !.toHold = @ \cup {i}]
    <3> HIDE DEF killed
    <3>1. killed \in PoolRecord
      BY <1>3, <2>2 DEF Sound, PoolRecord
    <3>2. /\ killed.pool = alone.pool /\ killed.rows = alone.rows
          /\ killed.active = alone.active /\ killed.ended = alone.ended
          /\ killed.sat = alone.sat /\ killed.forced = alone.forced
          /\ killed.runahead = alone.runahead /\ killed.queued = alone.queued
          /\ killed.held = alone.held /\ killed.toHold = alone.toHold \cup {i}
          /\ killed.limit = alone.limit /\ killed.stopPoint = alone.stopPoint
      BY <1>3, <2>2 DEF Sound, PoolRecord
    <3>3. killed.held = killed.pool \cap killed.toHold
      BY <1>3, <3>2 DEF Sound
    <3>4. Sound(killed)
      BY <1>3, <3>1, <3>2, <3>3, SoundFrom DEF Sound
    <3>5. QED
      BY <1>2, <1>3, <3>2, <3>4 DEF Keeps, Loose, Free
  <2>3. QED
    BY <2>1, <2>2
<1> HIDE DEF killed
<1>5. Advances(killed, tp')
  <2>1. Advances(killed, ReleaseRunahead(ComputeRunahead(killed)))
    BY <1>4, RunaheadAdvances
  <2>2. Advances(killed, ComputeRunahead(killed))
    BY <1>4, ComputeRunaheadKeeps, KeepsAdvances
  <2>3. QED
    BY <1>1, <2>1, <2>2
<1>6. Within(killed) = Within(tp)
  BY <1>4 DEF Within
<1>7. QED
  BY <1>4, <1>5, <1>6 DEF Advances

\* What a restart loads is runahead-limited, or has a final status.
LEMMA RestartAdvances ==
    ASSUME Sound(tp), Loose(tp) = {}, Restart
    PROVE  Advances(tp, tp')
<1> DEFINE B == {i \in tp.pool : tp.holdPoint # 0 /\ i[2] > tp.holdPoint}
           O == RestoredOutputs
           S == RestoredSat
           p == IF runState = "complete" THEN FinalPoint ELSE tp.stopPoint
<1>1. tp' = [tp EXCEPT !.outputs = O, !.sat = S, !.active = tp.active,
                       !.runahead = tp.pool \ Ended(tp), !.queued = {},
                       !.held = @ \cup B, !.toHold = @ \cup B,
                       !.limit = 0, !.base = 0, !.stopPoint = p]
  BY DEF Restart, RestoredActive, RestoredRunahead
<1>2. O \subseteq Key /\ S \subseteq tp.sat /\ B \subseteq tp.pool
  BY DEF RestoredOutputs, RestoredSat, Without, Sound, PoolRecord
<1>3. p \in 1..FinalPoint /\ 0 \in 0..FinalPoint
  BY PointsType, GraphAssumption DEF Sound, PoolRecord
<1> HIDE DEF B, O, S, p
<1>4. tp' \in PoolRecord
  BY <1>1, <1>2, <1>3 DEF Sound, PoolRecord
<1>5. /\ tp'.pool = tp.pool /\ tp'.rows = tp.rows
      /\ tp'.active = tp.active /\ tp'.ended = tp.ended
      /\ tp'.sat = S /\ tp'.forced = tp.forced
      /\ tp'.runahead = tp.pool \ Ended(tp) /\ tp'.queued = {}
      /\ tp'.held = tp.held \cup B /\ tp'.toHold = tp.toHold \cup B
      /\ tp'.limit = 0 /\ tp'.stopPoint = p
  BY <1>1 DEF Sound, PoolRecord
<1>6. tp'.held = tp'.pool \cap tp'.toHold
  BY <1>2, <1>5 DEF Sound
<1>7. tp'.limit <= tp'.stopPoint
  BY <1>3, <1>5, GraphAssumption
<1>8. Sound(tp')
  BY <1>2, <1>4, <1>5, <1>6, <1>7, SoundFrom
<1>9. Ended(tp') = Ended(tp)
  BY <1>5 DEF Ended
<1>10. QED
  BY <1>5, <1>8, <1>9 DEF Advances, Loose, Free, Waiting

LEMMA NextAdvances ==
    ASSUME Sound(tp), Loose(tp) = {}, Next
    PROVE  Advances(tp, tp')
<1>1. CASE MainLoop
  BY <1>1, RunaheadAdvances DEF MainLoop
<1>2. ASSUME NEW i \in Inst, QueueIfReady(i) PROVE Advances(tp, tp')
  BY <1>2, QueueAdvances
<1>3. ASSUME NEW i \in Inst, ReleaseTask(i) PROVE Advances(tp, tp')
  BY <1>3, SubmittedAdvances DEF ReleaseTask
<1>4. ASSUME NEW i \in Inst, NEW output \in Emits[i[1]], JobOutput(i, output)
      PROVE  Advances(tp, tp')
  <2>1. i \in tp.rows /\ output \in Outputs
    BY <1>4, InstType, PoolAssumption DEF JobOutput, Sound
  <2>2. QED
    BY <1>4, <2>1, ProcessMessageAdvances DEF JobOutput
<1>5. ASSUME NEW i \in Inst, Expire(i) PROVE Advances(tp, tp')
  <2>1. i \in tp.rows /\ "expired" \in Outputs
    BY <1>5 DEF Expire, Sound, Outputs, FinalStatus
  <2>2. QED
    BY <1>5, <2>1, ProcessMessageAdvances DEF Expire
<1>6. ASSUME NEW i \in Inst, HoldTask(i) PROVE Advances(tp, tp')
  BY <1>6, HoldTaskAdvances
<1>7. ASSUME NEW i \in Inst, ReleaseHeldTask(i) PROVE Advances(tp, tp')
  BY <1>7, ReleaseHeldTaskAdvances
<1>8. ASSUME NEW i \in Inst, SetPrereqs(i) PROVE Advances(tp, tp')
  BY <1>8, SetPrereqsAdvances
<1>9. ASSUME NEW i \in Inst, NEW output \in Emits[i[1]], SetOutput(i, output)
      PROVE  Advances(tp, tp')
  <2>1. output \in Outputs
    BY <1>9, InstType, PoolAssumption
  <2>2. QED
    BY <1>9, <2>1, SetOutputAdvances
<1>10. ASSUME NEW i \in Inst, RemoveTask(i) PROVE Advances(tp, tp')
  BY <1>10, RemoveTaskAdvances
<1>11. ASSUME NEW p \in AllPoints, SetHoldPoint(p) PROVE Advances(tp, tp')
  BY <1>11, SetHoldPointAdvances
<1>12. ASSUME NEW p \in AllPoints, SetStopPoint(p) PROVE Advances(tp, tp')
  BY <1>12, SetStopPointAdvances
<1>13. CASE ReleaseHoldPoint
  BY <1>13, ReleaseHoldPointAdvances
<1>14. CASE StopNow
  BY <1>14 DEF StopNow, Advances, Free
<1>15. CASE Restart
  BY <1>15, RestartAdvances
<1>16. QED
  BY <1>1, <1>2, <1>3, <1>4, <1>5, <1>6, <1>7, <1>8, <1>9, <1>10, <1>11, <1>12,
     <1>13, <1>14, <1>15 DEF Next
-----------------------------------------------------------------------------
(* Start-up and the theorems. *)

LEMMA EmptyPoolSound == Sound(EmptyPool) /\ Loose(EmptyPool) = {}
<1>1. 0 \in 0..FinalPoint /\ InitialStop \in 1..FinalPoint /\ 0 <= InitialStop
  BY GraphAssumption, PoolAssumption
<1>2. QED
  BY <1>1 DEF EmptyPool, Sound, PoolRecord, Ended, Loose

LEMMA PassSound ==
    ASSUME NEW s, Sound(s), Loose(s) = {}
    PROVE  Sound(Twice(s)) /\ Loose(Twice(s)) = {}
<1>1. Sound(ReleaseRunahead(s)) /\ Loose(ReleaseRunahead(s)) = {}
  BY ReleaseRunaheadSound
<1>2. QED
  BY <1>1, ReleaseRunaheadSound DEF Twice

LEMMA LoadSound == Sound(LoadFromPoint) /\ Loose(LoadFromPoint) = {}
<1> DEFINE C == {i \in Inst : i \in FirstParentless(i[1])}
           s == Spawn(EmptyPool, C)
           c == ComputeRunahead(s)
<1>1. LoadFromPoint = Twice(Twice(Twice(Twice(Twice(c)))))
  BY DEF LoadFromPoint, SpawnToRunaheadLimit
<1>2. C \subseteq Inst
  OBVIOUS
<1> HIDE DEF C
<1>3. Sound(s) /\ Loose(s) = {}
  BY <1>2, EmptyPoolSound, SpawnKeeps DEF Keeps
<1> HIDE DEF s
<1>4. Sound(c) /\ Loose(c) = {}
  BY <1>3, ComputeRunaheadKeeps DEF Keeps
<1> HIDE DEF c
<1>5. Sound(Twice(Twice(c))) /\ Loose(Twice(Twice(c))) = {}
  BY <1>4, PassSound
<1>6. /\ Sound(Twice(Twice(Twice(Twice(c)))))
      /\ Loose(Twice(Twice(Twice(Twice(c))))) = {}
  BY <1>5, PassSound
<1>7. QED
  BY <1>1, <1>6, PassSound

Inv ==
    /\ Sound(tp)
    /\ Loose(tp) = {}
    /\ runState \in {"running", "complete", "stopped"}
    /\ nCommands \in 0..MaxCommands

LEMMA InitInv == Init => Inv
<1> SUFFICES ASSUME Init PROVE Inv
  OBVIOUS
<1> DEFINE s == LoadFromPoint
           Q == {i \in s.pool : CanQueue(s, i)}
<1>1. tp = [s EXCEPT !.queued = Q] /\ Q \subseteq s.pool
  BY DEF Init
<1>2. runState = "running" /\ nCommands = 0 /\ 0 \in 0..MaxCommands
  BY PoolAssumption DEF Init
<1>3. Sound(s) /\ Loose(s) = {}
  BY LoadSound
<1> HIDE DEF s, Q
<1>4. tp \in PoolRecord
  BY <1>1, <1>3 DEF Sound, PoolRecord
<1>5. /\ tp.pool = s.pool /\ tp.rows = s.rows
      /\ tp.active = s.active /\ tp.ended = s.ended
      /\ tp.sat = s.sat /\ tp.forced = s.forced
      /\ tp.runahead = s.runahead /\ tp.queued = Q
      /\ tp.held = s.held /\ tp.toHold = s.toHold
      /\ tp.limit = s.limit /\ tp.stopPoint = s.stopPoint
  BY <1>1, <1>3 DEF Sound, PoolRecord
<1>6. Sound(tp)
  BY <1>1, <1>3, <1>4, <1>5, SoundFrom DEF Sound
<1>7. QED
  BY <1>2, <1>3, <1>5, <1>6 DEF Inv, Loose

\* The counter of commands and the state of the run, which few actions change.
LEMMA NextCounts ==
    ASSUME Inv, Next
    PROVE  /\ runState' \in {"running", "complete", "stopped"}
           /\ nCommands' \in 0..MaxCommands
<1>1. nCommands \in 0..MaxCommands /\ MaxCommands \in Nat
  BY PoolAssumption DEF Inv
<1>2. ASSUME NEW kind, Command(kind)
      PROVE  runState' = runState /\ nCommands' \in 0..MaxCommands
  BY <1>1, <1>2 DEF Command
<1>3. CASE UNCHANGED <<runState, nCommands>>
  BY <1>3 DEF Inv
<1>4. CASE MainLoop \/ Restart
  BY <1>4 DEF MainLoop, Restart, Inv
<1>5. CASE StopNow
  BY <1>1, <1>5 DEF StopNow
<1>6. CASE \E kind : Command(kind)
  BY <1>2, <1>6 DEF Inv
<1>7. QED
  BY <1>3, <1>4, <1>5, <1>6
     DEF Next, QueueIfReady, ReleaseTask, JobOutput, Expire, HoldTask,
         ReleaseHeldTask, SetPrereqs, SetOutput, RemoveTask, SetHoldPoint,
         SetStopPoint, ReleaseHoldPoint

LEMMA NextInv ==
    ASSUME Inv, [Next]_vars
    PROVE  Inv'
<1>1. CASE Next
  <2>1. Advances(tp, tp')
    BY <1>1, NextAdvances DEF Inv
  <2>2. QED
    BY <1>1, <2>1, NextCounts DEF Inv, Advances
<1>2. CASE UNCHANGED vars
  BY <1>2 DEF vars, Inv
<1>3. QED
  BY <1>1, <1>2

LEMMA Invariance == Spec => []Inv
BY InitInv, NextInv, PTL DEF Spec

\* The pool keeps its types (TaskPool and TaskProxy attributes): in particular
\* flags, queued tasks and satisfied prerequisites never outlive their proxy, a
\* proxy always has its row in the database, and no instance has two statuses.
THEOREM TypeCorrect == Spec => []TypeOK
<1>1. Inv => TypeOK
  BY DEF Inv, TypeOK, Sound, Loose
<1>2. QED
  BY <1>1, Invariance, PTL

\* The is_held flags and tasks_to_hold agree, for any graph and any sequence of
\* commands, restarts and spawning.
THEOREM HeldAgrees == Spec => []HeldMatchesList
<1>1. Inv => HeldMatchesList
  BY DEF Inv, HeldMatchesList, Sound
<1>2. QED
  BY <1>1, Invariance, PTL

\* No step releases a waiting task from runahead beyond the stop point, since
\* compute_runahead and set_stop_point keep the limit within it.
THEOREM ReleasedWithinStop == Spec => LimitedByStop
<1> DEFINE A == \A i \in (tp.runahead \ tp'.runahead) \cap tp'.pool \cap Waiting(tp)' :
                   i[2] <= tp.stopPoint
<1>1. ASSUME Inv, [Next]_vars PROVE [A]_vars
  <2>1. CASE Next
    <3>1. Advances(tp, tp')
      BY <1>1, <2>1, NextAdvances DEF Inv
    <3>2. SUFFICES ASSUME NEW i \in tp.runahead \ tp'.runahead,
                          i \in tp'.pool, i \in Waiting(tp)'
                   PROVE  i[2] <= tp.stopPoint
      OBVIOUS
    <3>3. i \in Free(tp') \cap Waiting(tp') /\ i \notin Free(tp)
      BY <3>2 DEF Free, Waiting, Ended
    <3>4. QED
      BY <3>1, <3>3 DEF Advances, Within
  <2>2. QED
    BY <1>1, <2>1
<1>2. QED
  BY <1>1, Invariance, PTL DEF Spec, LimitedByStop
===========================================================================
