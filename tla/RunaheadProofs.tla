--------------------------- MODULE RunaheadProofs ---------------------------
(* How far the task pool runs ahead, and that it leaves nothing behind, for any
   graph and runahead limit.

   A job runs within the runahead limit of the oldest cycle in the pool: what
   is active, queued or released from runahead is within the window of cycle
   points of the base point, which never moves back, since whatever is spawned
   is no earlier than what it was spawned from. *)
EXTENDS DataflowProofs, FiniteSetTheorems

-----------------------------------------------------------------------------
(* The window of the runahead limit. *)

\* The points of the workflow from p on and before q.
Ahead(p, q) == {r \in AllPoints : p <= r /\ r < q}

LEMMA AheadFinite ==
    ASSUME NEW p, NEW q
    PROVE  IsFiniteSet(Ahead(p, q)) /\ Cardinality(Ahead(p, q)) \in Nat
<1>1. FinalPoint \in Int /\ 1 \in Int
  BY GraphAssumption
<1>2. IsFiniteSet(1..FinalPoint)
  BY <1>1, FS_Interval
<1>3. Ahead(p, q) \in SUBSET (1..FinalPoint)
  BY PointsType DEF Ahead
<1>4. IsFiniteSet(Ahead(p, q))
  BY <1>2, <1>3, FS_Subset
<1>5. QED
  BY <1>4, FS_CardinalityType

LEMMA AheadSmaller ==
    ASSUME NEW p, NEW q, NEW T, T \subseteq Ahead(p, q)
    PROVE  Cardinality(T) <= Cardinality(Ahead(p, q))
BY AheadFinite, FS_Subset

\* The window holds no more points than the limit allows, and begins at its base.
LEMMA WindowHolds ==
    ASSUME NEW p \in 1..FinalPoint
    PROVE  /\ Window(p) \in 1..FinalPoint
           /\ p <= Window(p)
           /\ Window(p) = p \/ Window(p) \in AllPoints
           /\ Cardinality(Ahead(p, Window(p))) <= RunaheadLimit
           /\ \A q \in AllPoints :
                p <= q /\ Cardinality(Ahead(p, q)) <= RunaheadLimit => q <= Window(p)
<1> DEFINE ahead == {q \in AllPoints : q >= p}
           W == {q \in ahead : Cardinality({r \in ahead : r < q}) <= RunaheadLimit}
<1>1. Window(p) = IF W = {} THEN p ELSE Max(W)
  BY DEF Window
<1>2. FinalPoint \in Nat /\ AllPoints \subseteq 1..FinalPoint /\ RunaheadLimit \in Nat
  BY GraphAssumption, PointsType, PoolAssumption
<1>3. ASSUME NEW q \in ahead
      PROVE  q \in W <=> Cardinality(Ahead(p, q)) <= RunaheadLimit
  <2>1. {r \in ahead : r < q} = Ahead(p, q)
    BY <1>2 DEF Ahead
  <2> HIDE DEF ahead
  <2>2. q \in W <=> Cardinality({r \in ahead : r < q}) <= RunaheadLimit
    OBVIOUS
  <2>3. QED
    BY <2>1, <2>2
<1>4. W \subseteq ahead /\ \A q : q \in ahead <=> q \in AllPoints /\ p <= q
  BY <1>2
<1> HIDE DEF W, ahead
<1>5. CASE W = {}
  <2>1. Ahead(p, p) = {}
    <3>1. ASSUME NEW r \in AllPoints, p <= r, r < p PROVE FALSE
      <4>1. r \in Int /\ p \in Int
        BY <1>2, <3>1
      <4>2. QED
        BY <3>1, <4>1
    <3>2. QED
      BY <3>1 DEF Ahead
  <2>2. Cardinality(Ahead(p, p)) = 0
    BY <2>1, FS_EmptySet
  <2>3. Window(p) = p
    BY <1>1, <1>5
  <2>4. \A q \in AllPoints : p <= q => ~(Cardinality(Ahead(p, q)) <= RunaheadLimit)
    BY <1>3, <1>4, <1>5
  <2>5. Cardinality(Ahead(p, Window(p))) <= RunaheadLimit
    BY <1>2, <2>2, <2>3
  <2>6. p <= p
    BY <1>2
  <2>7. QED
    BY <2>3, <2>4, <2>5, <2>6
<1>6. CASE W # {}
  <2>1. W \subseteq 0..FinalPoint
    <3>1. W \subseteq 1..FinalPoint
      BY <1>2, <1>4
    <3>2. QED
      BY <1>2, <3>1
  <2>2. Max(W) \in W /\ \A y \in W : y <= Max(W)
    BY <1>2, <1>6, <2>1, MaxExists
  <2>3. Window(p) = Max(W)
    BY <1>1, <1>6
  <2>4. QED
    BY <1>2, <1>3, <1>4, <2>2, <2>3
<1>7. QED
  BY <1>5, <1>6

\* As the base moves on, so does the window.
LEMMA WindowMoves ==
    ASSUME NEW p \in 1..FinalPoint, NEW q \in 1..FinalPoint, p <= q
    PROVE  Window(p) <= Window(q)
<1>1. /\ Window(p) \in 1..FinalPoint /\ Window(q) \in 1..FinalPoint
      /\ q <= Window(q) /\ p <= Window(p)
  BY WindowHolds
<1>2. FinalPoint \in Nat /\ AllPoints \subseteq 1..FinalPoint /\ RunaheadLimit \in Nat
  BY GraphAssumption, PointsType, PoolAssumption
<1>3. CASE Window(p) <= q
  BY <1>1, <1>2, <1>3
<1>4. CASE Window(p) > q
  <2>1. Ahead(q, Window(p)) \subseteq Ahead(p, Window(p))
    <3>1. ASSUME NEW r \in AllPoints, q <= r PROVE p <= r
      <4>1. r \in Int /\ q \in Int /\ p \in Int
        BY <1>2, <3>1
      <4>2. QED
        BY <3>1, <4>1
    <3>2. QED
      BY <3>1 DEF Ahead
  <2>2. Cardinality(Ahead(q, Window(p))) <= Cardinality(Ahead(p, Window(p)))
    BY <2>1, AheadSmaller
  <2>3. Cardinality(Ahead(p, Window(p))) <= RunaheadLimit
    BY WindowHolds
  <2>4. Cardinality(Ahead(q, Window(p))) <= RunaheadLimit
    BY <1>2, <2>2, <2>3, AheadFinite
  <2>5. Window(p) \in AllPoints
    BY <1>1, <1>2, <1>4, WindowHolds
  <2>6. QED
    BY <1>1, <1>2, <1>4, <2>4, <2>5, WindowHolds
<1>5. QED
  BY <1>1, <1>2, <1>3, <1>4
-----------------------------------------------------------------------------
(* Methods that spawn, satisfy and remove: nothing is released, and what is
   spawned is no earlier than what was in the pool. *)

Later(s, t) == \A j \in t.pool : \E i \in s.pool : i[2] <= j[2]

Onward(s, t) ==
    /\ Keeps(s, t)
    /\ Follows(s, t)
    /\ Later(s, t)
    /\ t.limit = s.limit

LEMMA SoundPool ==
    ASSUME NEW s, Sound(s)
    PROVE  /\ s.pool \subseteq Inst
           /\ \A i \in s.pool : i[2] \in Int
           /\ s.limit \in Int
BY InstType DEF Sound, PoolRecord

LEMMA LaterTransitive ==
    ASSUME NEW s, Sound(s), NEW t, Sound(t), NEW u, Sound(u), Later(s, t), Later(t, u)
    PROVE  Later(s, u)
<1> SUFFICES ASSUME NEW k \in u.pool PROVE \E i \in s.pool : i[2] <= k[2]
  BY DEF Later
<1>1. PICK j \in t.pool : j[2] <= k[2]
  BY DEF Later
<1>2. PICK i \in s.pool : i[2] <= j[2]
  BY DEF Later
<1>3. i[2] \in Int /\ j[2] \in Int /\ k[2] \in Int
  BY SoundPool
<1>4. QED
  BY <1>1, <1>2, <1>3

LEMMA LaterWithin ==
    ASSUME NEW s, Sound(s), NEW t, t.pool \subseteq s.pool
    PROVE  Later(s, t)
BY SoundPool DEF Later

LEMMA OnwardTransitive ==
    ASSUME NEW s, Sound(s), NEW t, NEW u, Onward(s, t), Onward(t, u)
    PROVE  Onward(s, u)
<1>1. Keeps(s, u) /\ Follows(s, u) /\ u.limit = s.limit
  BY KeepsTransitive, FollowsTransitive DEF Onward
<1>2. Sound(t) /\ Sound(u)
  BY DEF Onward, Keeps
<1>3. QED
  BY <1>1, <1>2, LaterTransitive DEF Onward

LEMMA OnwardItself ==
    ASSUME NEW s, Sound(s)
    PROVE  Onward(s, s)
BY FollowsItself, LaterWithin DEF Onward, Keeps

LEMMA SpawnOnward ==
    ASSUME NEW s, Sound(s), NEW C, C \subseteq Inst,
           \A c \in C : \E i \in s.pool : i[2] <= c[2]
    PROVE  Onward(s, Spawn(s, C))
<1> DEFINE t == Spawn(s, C)
<1>1. Keeps(s, t) /\ t.pool \subseteq s.pool \cup C
  BY SpawnKeeps
<1>2. Follows(s, t)
  BY SpawnFollows
<1>3. t.limit = s.limit
  BY DEF Spawn, AddToPool, Sound, PoolRecord
<1> HIDE DEF t
<1>4. Later(s, t)
  BY <1>1, SoundPool DEF Later
<1>5. Onward(s, t)
  BY <1>1, <1>2, <1>3, <1>4 DEF Onward
<1>6. QED
  BY <1>5 DEF t

LEMMA SpawnNextOnward ==
    ASSUME NEW s, Sound(s), NEW R, R \subseteq s.pool
    PROVE  Onward(s, SpawnNextParentless(s, R))
<1>1. SpawnNextParentless(s, R) = Spawn(s, NextOf(R))
  BY DEF SpawnNextParentless, NextOf
<1>2. ASSUME NEW c \in NextOf(R) PROVE c \in Inst /\ \E i \in s.pool : i[2] <= c[2]
  <2>1. PICK i \in R : c \in NextParentless(i)
    BY <1>2 DEF NextOf
  <2>2. i \in Inst
    BY <2>1, SoundPool
  <2>3. c \in Inst /\ i[2] < c[2]
    BY <2>1, <2>2, NextIsLater
  <2>4. i[2] \in Int /\ c[2] \in Int
    BY <2>2, <2>3, InstType
  <2>5. i[2] <= c[2]
    BY <2>3, <2>4
  <2>6. QED
    BY <2>1, <2>3, <2>5
<1>3. QED
  BY <1>1, <1>2, SpawnOnward

LEMMA DropOnward ==
    ASSUME NEW s, Sound(s), NEW R
    PROVE  Onward(s, Drop(s, R))
<1> DEFINE t == Drop(s, R)
<1>1. Keeps(s, t) /\ t.pool = s.pool \ R
  BY DropKeeps
<1>2. Follows(s, t)
  BY DropFollows
<1>3. t.limit = s.limit
  BY DEF Drop, Sound, PoolRecord
<1> HIDE DEF t
<1>4. Onward(s, t)
  BY <1>1, <1>2, <1>3, LaterWithin DEF Onward
<1>5. QED
  BY <1>4 DEF t

LEMMA RemoveOnward ==
    ASSUME NEW s, Sound(s), Loose(s) = {}, NEW R
    PROVE  Onward(s, Remove(s, R))
<1> DEFINE n == SpawnNextParentless(s, R \cap s.runahead)
<1>1. R \cap s.runahead \subseteq s.pool
  BY DEF Loose
<1>2. Onward(s, n)
  BY <1>1, SpawnNextOnward
<1>3. Remove(s, R) = Drop(n, R)
  BY DEF Remove
<1> HIDE DEF n
<1>4. Onward(n, Drop(n, R))
  BY <1>2, DropOnward DEF Onward, Keeps
<1>5. QED
  BY <1>2, <1>3, <1>4, OnwardTransitive

LEMMA RemoveIfCompleteOnward ==
    ASSUME NEW s, Sound(s), Loose(s) = {}, NEW i
    PROVE  Onward(s, RemoveIfComplete(s, i))
BY RemoveOnward, OnwardItself DEF RemoveIfComplete

LEMMA SpawnOnOutputOnward ==
    ASSUME NEW s, Sound(s), Loose(s) = {}, NEW i \in s.pool, NEW output \in Outputs,
           <<i, output>> \in s.recorded
    PROVE  Onward(s, SpawnOnOutput(s, i, output))
<1> DEFINE K == Children(i, output)
           spawned == Spawn(s, K)
           kids == K \cap spawned.pool
           told == Satisfy(spawned, kids, <<i, output>>)
           suicide == {c \in kids : SuicideSatisfied(c, SatisfiedKeys(told, c))}
           left == Remove(told, suicide)
<1>1. i \in Inst
  BY SoundPool
<1>2. K \subseteq Inst /\ \A c \in K : i[2] <= c[2]
  BY <1>1, ChildIsLater
<1>3. SpawnOnOutput(s, i, output) = RemoveIfComplete(left, i)
  BY DEF SpawnOnOutput
<1> HIDE DEF K
<1>4. Onward(s, spawned)
  BY <1>2, SpawnOnward
<1> HIDE DEF spawned
<1>5. /\ Sound(spawned) /\ Loose(spawned) = {}
      /\ <<i, output>> \in spawned.recorded
  BY <1>4 DEF Onward, Keeps, Follows
<1>6. /\ <<i, output>> \in Key /\ kids \subseteq spawned.pool
      /\ \A c \in kids : <<i, output>>[1][2] <= c[2]
  BY <1>1, <1>2 DEF Key
<1>7. Keeps(spawned, told) /\ Follows(spawned, told)
  BY <1>5, <1>6, SatisfyKeeps, SatisfyFollows
<1>8. told.pool = spawned.pool /\ told.limit = spawned.limit
  BY <1>5 DEF Satisfy, Sound, PoolRecord
<1> HIDE DEF told
<1>9. Onward(spawned, told)
  BY <1>5, <1>7, <1>8, LaterWithin DEF Onward
<1>10. Sound(told) /\ Loose(told) = {}
  BY <1>5, <1>7 DEF Keeps
<1>11. Onward(told, left)
  BY <1>10, RemoveOnward
<1> HIDE DEF left
<1>12. Sound(left) /\ Loose(left) = {}
  BY <1>10, <1>11 DEF Onward, Keeps
<1>13. Onward(left, RemoveIfComplete(left, i))
  BY <1>12, RemoveIfCompleteOnward
<1>14. QED
  BY <1>3, <1>4, <1>5, <1>9, <1>10, <1>11, <1>12, <1>13, OnwardTransitive
-----------------------------------------------------------------------------
(* The steps of the pool.  Apart from releases from runahead, no step makes a
   task one that may run; and no step raises the limit, except to compute it. *)

\* The tasks that run, or may begin to without another release from runahead.
May(s) == s.active \cup s.queued \cup (Free(s) \ Begun(s))

Narrow(s, t) ==
    /\ Later(s, t)
    /\ May(t) \subseteq May(s)
    /\ t.limit <= s.limit

LEMMA MayType ==
    ASSUME NEW s, Sound(s)
    PROVE  May(s) \subseteq Inst /\ \A i \in May(s) : i[2] \in Int
<1>1. May(s) \subseteq Inst
  BY DEF May, Free, Sound, PoolRecord
<1>2. QED
  BY <1>1, InstType

LEMMA NarrowTransitive ==
    ASSUME NEW s, Sound(s), NEW t, Sound(t), NEW u, Sound(u),
           Narrow(s, t), Narrow(t, u)
    PROVE  Narrow(s, u)
BY LaterTransitive, SoundPool DEF Narrow

LEMMA OnwardNarrow ==
    ASSUME NEW s, Sound(s), NEW t, Onward(s, t)
    PROVE  Narrow(s, t)
<1>1. Begun(t) = Begun(s)
  BY DEF Onward, Follows, Begun, Ended
<1>2. t.limit <= s.limit
  BY SoundPool DEF Onward
<1>3. QED
  BY <1>1, <1>2 DEF Onward, Keeps, Follows, Narrow, May

\* Flags and lists change, and tasks are queued that are not runahead-limited.
LEMMA FlagsNarrow ==
    ASSUME NEW s, Sound(s), NEW t,
           t.pool = s.pool, t.active = s.active, t.ended = s.ended,
           s.runahead \subseteq t.runahead, t.queued \subseteq s.queued \cup May(s),
           t.limit <= s.limit
    PROVE  Narrow(s, t)
<1>1. Begun(t) = Begun(s)
  BY DEF Begun, Ended
<1>2. QED
  BY <1>1, LaterWithin DEF Narrow, May, Free

LEMMA CanQueueMay ==
    ASSUME NEW s, Sound(s), NEW t,
           t.pool = s.pool, t.rows = s.rows, t.active = s.active, t.ended = s.ended,
           t.runahead = s.runahead, NEW i, CanQueue(t, i)
    PROVE  i \in May(s)
BY DEF CanQueue, May, Free, Waiting, Begun, Ended

LEMMA CompleteNarrow ==
    ASSUME NEW s, Sound(s), NEW i \in s.rows, NEW output \in Outputs
    PROVE  Narrow(s, CompleteOutput(s, i, output))
<1> DEFINE t == CompleteOutput(s, i, output)
<1>1. /\ Sound(t) /\ t.pool = s.pool
      /\ t.queued \subseteq s.queued /\ t.active \subseteq s.active
      /\ Begun(s) \subseteq Begun(t)
  BY Completed
<1>2. Free(t) \subseteq Free(s) \cup Ended(t)
  BY CompleteOutputSound
<1>3. t.limit = s.limit
  BY DEF CompleteOutput, EndWith, Sound, PoolRecord
<1> HIDE DEF t
<1>4. May(t) \subseteq May(s)
  BY <1>1, <1>2 DEF May, Begun
<1>5. Narrow(s, t)
  BY <1>1, <1>3, <1>4, LaterWithin, SoundPool DEF Narrow
<1>6. QED
  BY <1>5 DEF t

LEMMA MessageNarrow ==
    ASSUME NEW s, Sound(s), Loose(s) = {}, NEW i \in s.pool, NEW output \in Outputs
    PROVE  Narrow(s, ProcessMessage(s, i, output))
<1> DEFINE u == CompleteOutput(s, i, output)
           t == SpawnOnOutput(u, i, output)
<1>1. i \in s.rows
  BY DEF Sound
<1>2. /\ Sound(u) /\ u.pool = s.pool /\ u.recorded = Recorded(s, i, output)
      /\ Loose(u) = {} /\ Narrow(s, u)
  BY <1>1, Completed, CompleteOutputSound, CompleteNarrow
<1>3. ProcessMessage(s, i, output) = t
  BY DEF ProcessMessage
<1> HIDE DEF u
<1>4. <<i, output>> \in u.recorded
  BY <1>2 DEF Recorded
<1>5. Onward(u, t)
  BY <1>2, <1>4, SpawnOnOutputOnward
<1> HIDE DEF t
<1>6. Sound(t) /\ Narrow(u, t)
  BY <1>2, <1>5, OnwardNarrow DEF Onward, Keeps
<1>7. QED
  BY <1>2, <1>3, <1>6, NarrowTransitive

LEMMA SubmittedNarrow ==
    ASSUME Sound(tp), NEW i \in Inst, ReleaseTask(i)
    PROVE  Narrow(tp, tp')
<1>1. tp' = [tp EXCEPT !.queued = @ \ {i}, !.active = @ \cup {i},
                       !.ended = Without(@, {i})]
      /\ i \in tp.queued
  BY DEF ReleaseTask, Submitted
<1>2. /\ tp'.pool = tp.pool /\ tp'.active = tp.active \cup {i}
      /\ tp'.runahead = tp.runahead /\ tp'.queued \subseteq tp.queued
      /\ tp'.limit = tp.limit
  BY <1>1 DEF Sound, PoolRecord
<1>3. Begun(tp) \subseteq Begun(tp')
  BY ReleaseHistory
<1>4. May(tp') \subseteq May(tp)
  BY <1>1, <1>2, <1>3 DEF May, Free
<1>5. QED
  BY <1>2, <1>4, LaterWithin, SoundPool DEF Narrow

LEMMA QueueNarrow ==
    ASSUME Sound(tp), NEW i \in Inst, QueueIfReady(i)
    PROVE  Narrow(tp, tp')
<1>1. tp' = [tp EXCEPT !.queued = @ \cup {i}] /\ CanQueue(tp, i)
  BY DEF QueueIfReady
<1>2. /\ tp'.pool = tp.pool /\ tp'.active = tp.active /\ tp'.ended = tp.ended
      /\ tp'.runahead = tp.runahead /\ tp'.queued = tp.queued \cup {i}
      /\ tp'.limit = tp.limit
  BY <1>1 DEF Sound, PoolRecord
<1>3. i \in May(tp)
  BY <1>1, CanQueueMay
<1>4. QED
  BY <1>2, <1>3, FlagsNarrow, SoundPool

LEMMA UnholdMay ==
    ASSUME NEW s, Sound(s), NEW R
    PROVE  LET t == Unhold(s, R) IN
           /\ t.pool = s.pool /\ t.rows = s.rows
           /\ t.active = s.active /\ t.ended = s.ended
           /\ t.outputs = s.outputs /\ t.recorded = s.recorded
           /\ t.runahead = s.runahead
           /\ t.limit = s.limit /\ t.base = s.base /\ t.stopPoint = s.stopPoint
           /\ \A i \in t.queued : i \in s.queued \/ (i \in May(s) /\ i \notin s.runahead)
           /\ DOMAIN t = DOMAIN s
<1> DEFINE free == [s EXCEPT !.held = @ \ R]
           X == {i \in R \cap s.held : CanQueue(free, i)}
           t == [free EXCEPT !.queued = @ \cup X]
<1>1. Unhold(s, R) = t
  BY DEF Unhold
<1>2. /\ free.pool = s.pool /\ free.rows = s.rows /\ free.active = s.active
      /\ free.ended = s.ended /\ free.runahead = s.runahead
  BY DEF Sound, PoolRecord
<1>3. \A i \in X : i \in May(s) /\ i \notin s.runahead
  <2> TAKE i \in X
  <2>1. CanQueue(free, i)
    OBVIOUS
  <2> HIDE DEF free
  <2>2. i \in May(s)
    BY <1>2, <2>1, CanQueueMay
  <2>3. QED
    BY <1>2, <2>1, <2>2 DEF CanQueue
<1> HIDE DEF X
<1>4. /\ t.pool = s.pool /\ t.rows = s.rows
      /\ t.active = s.active /\ t.ended = s.ended
      /\ t.outputs = s.outputs /\ t.recorded = s.recorded
      /\ t.runahead = s.runahead
      /\ t.limit = s.limit /\ t.base = s.base /\ t.stopPoint = s.stopPoint
      /\ t.queued = s.queued \cup X
      /\ DOMAIN t = DOMAIN s
  BY DEF Sound, PoolRecord
<1> HIDE DEF t
<1>5. QED
  BY <1>1, <1>3, <1>4

\* What the commands that hold and release change: flags, lists and the queue.
Flagged(s, t) ==
    /\ t.pool = s.pool /\ t.rows = s.rows
    /\ t.active = s.active /\ t.ended = s.ended
    /\ t.recorded = s.recorded /\ t.runahead = s.runahead
    /\ t.limit = s.limit /\ t.base = s.base /\ t.stopPoint = s.stopPoint
    /\ \A i \in t.queued : i \in s.queued \/ (i \in May(s) /\ i \notin s.runahead)

LEMMA HoldFlags ==
    ASSUME Sound(tp),
           \/ \E i \in Inst : HoldTask(i) \/ ReleaseHeldTask(i)
           \/ \E p \in AllPoints : SetHoldPoint(p)
           \/ ReleaseHoldPoint
    PROVE  Flagged(tp, tp')
<1>1. ASSUME NEW i \in Inst, HoldTask(i) PROVE Flagged(tp, tp')
  <2>1. tp' = [tp EXCEPT !.held = @ \cup ({i} \cap tp.pool), !.toHold = @ \cup {i}]
    BY <1>1 DEF HoldTask
  <2>2. QED
    BY <2>1 DEF Flagged, Sound, PoolRecord
<1>2. ASSUME NEW p \in AllPoints, SetHoldPoint(p) PROVE Flagged(tp, tp')
  <2> DEFINE B == {i \in tp.pool : i[2] > p}
  <2>1. tp' = [tp EXCEPT !.holdPoint = p, !.held = @ \cup B, !.toHold = @ \cup B]
    BY <1>2 DEF SetHoldPoint
  <2> HIDE DEF B
  <2>2. QED
    BY <2>1 DEF Flagged, Sound, PoolRecord
<1>3. ASSUME NEW R, NEW T, NEW h, LET u == Unhold(tp, R) IN
                \/ tp' = [u EXCEPT !.toHold = T]
                \/ tp' = [u EXCEPT !.holdPoint = h, !.toHold = T]
      PROVE  Flagged(tp, tp')
  <2> DEFINE u == Unhold(tp, R)
  <2>1. Flagged(tp, u) /\ DOMAIN u = DOMAIN tp
    BY UnholdMay DEF Flagged
  <2>2. \/ tp' = [u EXCEPT !.toHold = T]
        \/ tp' = [u EXCEPT !.holdPoint = h, !.toHold = T]
    BY <1>3
  <2> HIDE DEF u
  <2>3. /\ tp'.pool = u.pool /\ tp'.rows = u.rows
        /\ tp'.active = u.active /\ tp'.ended = u.ended
        /\ tp'.recorded = u.recorded /\ tp'.runahead = u.runahead
        /\ tp'.limit = u.limit /\ tp'.base = u.base /\ tp'.stopPoint = u.stopPoint
        /\ tp'.queued = u.queued
    BY <2>1, <2>2 DEF Sound, PoolRecord
  <2>4. QED
    BY <2>1, <2>3 DEF Flagged
<1>4. ASSUME NEW i \in Inst, ReleaseHeldTask(i) PROVE Flagged(tp, tp')
  <2>1. tp' = [Unhold(tp, {i} \cap tp.pool) EXCEPT !.toHold = @ \ {i}]
    BY <1>4 DEF ReleaseHeldTask
  <2>2. QED
    BY <1>3, <2>1
<1>5. CASE ReleaseHoldPoint
  BY <1>3, <1>5 DEF ReleaseHoldPoint
<1>6. QED
  BY <1>1, <1>2, <1>4, <1>5

LEMMA FlaggedNarrow ==
    ASSUME NEW s, Sound(s), NEW t, Flagged(s, t)
    PROVE  Narrow(s, t)
BY FlagsNarrow, SoundPool DEF Flagged

LEMMA StopPointNarrow ==
    ASSUME Sound(tp), NEW p \in AllPoints, SetStopPoint(p)
    PROVE  Narrow(tp, tp')
<1> DEFINE B == {i \in tp.pool \cap Waiting(tp) : i[2] > p}
           m == [tp EXCEPT !.stopPoint = p]
           t == [m EXCEPT !.limit = p, !.runahead = @ \cup B]
<1>1. tp' = IF tp.limit > p THEN t ELSE m
  BY DEF SetStopPoint
<1> HIDE DEF B
<1>2. /\ m.pool = tp.pool /\ m.active = tp.active /\ m.ended = tp.ended
      /\ m.runahead = tp.runahead /\ m.queued = tp.queued /\ m.limit = tp.limit
  BY DEF Sound, PoolRecord
<1>3. /\ t.pool = tp.pool /\ t.active = tp.active /\ t.ended = tp.ended
      /\ t.runahead = tp.runahead \cup B /\ t.queued = tp.queued /\ t.limit = p
  BY DEF Sound, PoolRecord
<1> HIDE DEF m, t
<1>4. p \in Int /\ tp.limit \in Int
  BY PointsType, SoundPool, GraphAssumption
<1>5. CASE tp.limit > p
  <2>1. tp' = t
    BY <1>1, <1>5
  <2>2. p <= tp.limit
    BY <1>4, <1>5
  <2>3. QED
    BY <1>3, <2>1, <2>2, FlagsNarrow
<1>6. CASE ~(tp.limit > p)
  <2>1. tp' = m
    BY <1>1, <1>6
  <2>2. QED
    BY <1>2, <1>4, <2>1, FlagsNarrow
<1>7. QED
  BY <1>5, <1>6

\* What a restart loads is runahead-limited, or runs, or has ended.
LEMMA RestartNarrow ==
    ASSUME Sound(tp), Restart
    PROVE  Narrow(tp, tp')
<1>1. /\ tp'.pool = tp.pool /\ tp'.active = tp.active /\ tp'.ended = tp.ended
      /\ tp'.runahead = tp.pool \ Ended(tp) /\ tp'.queued = {} /\ tp'.limit = 0
  BY DEF Restart, RestoredActive, RestoredRunahead, Sound, PoolRecord
<1>2. Begun(tp') = Begun(tp)
  BY <1>1 DEF Begun, Ended
<1>3. Free(tp') \subseteq Begun(tp')
  BY <1>1, <1>2 DEF Free, Begun
<1>4. 0 <= tp.limit
  BY GraphAssumption DEF Sound, PoolRecord
<1>5. QED
  BY <1>1, <1>3, <1>4, LaterWithin DEF Narrow, May

LEMMA EraseNarrow ==
    ASSUME NEW s, Sound(s), NEW E, Sound(EraseHistory(s, E))
    PROVE  Narrow(s, EraseHistory(s, E))
<1> DEFINE t == EraseHistory(s, E)
<1>1. /\ t.pool = s.pool /\ t.rows = s.rows \ E /\ t.active = s.active \ E
      /\ t.ended = Without(s.ended, E)
      /\ t.runahead = s.runahead /\ t.queued = s.queued /\ t.limit = s.limit
  BY DEF EraseHistory, Sound, PoolRecord
<1>2. t.pool \cap E = {}
  BY <1>1 DEF Sound
<1> HIDE DEF t
<1>3. Begun(s) \ E \subseteq Begun(t)
  BY <1>1 DEF Begun, Ended, Without
<1>4. May(t) \subseteq May(s)
  BY <1>1, <1>2, <1>3 DEF May, Free
<1>5. Narrow(s, t)
  BY <1>1, <1>4, LaterWithin, SoundPool DEF Narrow
<1>6. QED
  BY <1>5 DEF t

LEMMA StandDownNarrow ==
    ASSUME NEW s, Sound(s), Loose(s) = {}, NEW i \in Inst, i \notin s.pool
    PROVE  Narrow(s, StandDown(s, i))
<1> DEFINE lost == {e \in s.sat : e[2][1] = i}
           unset == [s EXCEPT !.sat = @ \ lost]
           down == {c \in {e[1] : e \in lost} :
                      /\ c \in Waiting(s) \/ <<c, "expired">> \in s.ended
                      /\ ~IsReady(unset, c)}
           out == {c \in down : c # i /\ ~HasSatisfied(unset, c)}
           u == [unset EXCEPT !.queued = @ \ down]
           v == Remove(u, out)
           t == EraseHistory(v, out \cup {i})
<1>1. StandDown(s, i) = t
  BY DEF StandDown
<1>2. Sound(StandDown(s, i))
  BY StandDownSound
<1> HIDE DEF down, out, lost
<1>3. u \in PoolRecord
  BY DEF Sound, PoolRecord
<1>4. /\ u.pool = s.pool /\ u.rows = s.rows
      /\ u.active = s.active /\ u.ended = s.ended
      /\ u.sat = s.sat \ lost /\ u.forced = s.forced
      /\ u.runahead = s.runahead /\ u.queued = s.queued \ down
      /\ u.held = s.held /\ u.toHold = s.toHold
      /\ u.limit = s.limit /\ u.stopPoint = s.stopPoint
  BY DEF Sound, PoolRecord
<1> HIDE DEF u
<1>5. Sound(u) /\ Loose(u) = {}
  BY <1>3, <1>4, SoundFrom DEF Sound, Loose
<1>6. Narrow(s, u)
  BY <1>4, FlagsNarrow, SoundPool
<1>7. Sound(v) /\ Narrow(u, v)
  BY <1>5, RemoveOnward, OnwardNarrow DEF Onward, Keeps
<1> HIDE DEF v
<1>8. Narrow(v, t) /\ Sound(t)
  BY <1>1, <1>2, <1>7, EraseNarrow
<1> HIDE DEF t
<1>9. QED
  BY <1>1, <1>5, <1>6, <1>7, <1>8, NarrowTransitive

\* cylc remove, up to the runahead limit, which is computed last.
LEMMA RemoveTaskNarrow ==
    ASSUME Sound(tp), Loose(tp) = {}, NEW i \in Inst, RemoveTask(i)
    PROVE  \E s : /\ Sound(s) /\ Loose(s) = {} /\ Narrow(tp, s)
                  /\ \/ tp' = ReleaseRunahead(ComputeRunahead(s))
                     \/ tp' = ComputeRunahead(s)
<1> DEFINE gone == IF i \in tp.pool THEN Remove(tp, {i}) ELSE tp
           alone == StandDown(gone, i)
           killed == IF i \in tp.pool \cap tp.active
                     THEN [alone EXCEPT !.toHold = @ \cup {i}] ELSE alone
<1>1. tp' = IF IsLimitStale(killed)
            THEN ReleaseRunahead(ComputeRunahead(killed))
            ELSE ComputeRunahead(killed)
  BY DEF RemoveTask
<1>2. Sound(gone) /\ Loose(gone) = {} /\ Narrow(tp, gone) /\ i \notin gone.pool
  <2>1. CASE i \in tp.pool
    <3>1. gone = Remove(tp, {i})
      BY <2>1
    <3> HIDE DEF gone
    <3>2. Onward(tp, gone) /\ i \notin gone.pool
      BY <3>1, RemoveOnward, RemoveKeeps
    <3>3. QED
      BY <3>2, OnwardNarrow DEF Onward, Keeps
  <2>2. CASE i \notin tp.pool
    <3>1. gone = tp
      BY <2>2
    <3> HIDE DEF gone
    <3>2. QED
      BY <2>2, <3>1, OnwardItself, OnwardNarrow
  <2>3. QED
    BY <2>1, <2>2
<1> HIDE DEF gone
<1>3. Sound(alone) /\ Loose(alone) = {} /\ Narrow(gone, alone) /\ i \notin alone.pool
  BY <1>2, StandDownSound, StandDownNarrow
<1> HIDE DEF alone
<1>4. Sound(killed) /\ Loose(killed) = {} /\ Narrow(alone, killed)
  <2>1. CASE killed = alone
    BY <1>3, <2>1, OnwardItself, OnwardNarrow
  <2>2. CASE killed = [alone EXCEPT !.toHold = @ \cup {i}]
    <3> HIDE DEF killed
    <3>1. killed \in PoolRecord
      BY <1>3, <2>2 DEF Sound, PoolRecord
    <3>2. /\ killed.pool = alone.pool /\ killed.rows = alone.rows
          /\ killed.active = alone.active /\ killed.ended = alone.ended
          /\ killed.sat = alone.sat /\ killed.forced = alone.forced
          /\ killed.runahead = alone.runahead /\ killed.queued = alone.queued
          /\ killed.held = alone.held /\ killed.toHold = alone.toHold \cup {i}
          /\ killed.limit = alone.limit /\ killed.stopPoint = alone.stopPoint
      BY <1>3, <2>2 DEF Sound, PoolRecord
    <3>3. killed.held = killed.pool \cap killed.toHold
      BY <1>3, <3>2 DEF Sound
    <3>4. Sound(killed)
      BY <1>3, <3>1, <3>2, <3>3, SoundFrom DEF Sound
    <3>5. QED
      BY <1>3, <3>2, <3>4, FlagsNarrow, SoundPool DEF Loose
  <2>3. QED
    BY <2>1, <2>2
<1> HIDE DEF killed
<1>5. Narrow(tp, killed)
  BY <1>2, <1>3, <1>4, NarrowTransitive
<1>6. QED
  BY <1>1, <1>4, <1>5
-----------------------------------------------------------------------------
(* The window of the base point. *)

InWindow(s) ==
    s.pool # {} =>
        /\ s.limit <= Window(BasePoint(s))
        /\ \A i \in May(s) : i[2] <= Window(BasePoint(s))

LEMMA BaseOf ==
    ASSUME NEW s, Sound(s), s.pool # {}
    PROVE  /\ \E j \in s.pool : BasePoint(s) = j[2]
           /\ \A j \in s.pool : BasePoint(s) <= j[2]
<1> DEFINE P == {i[2] : i \in s.pool}
<1>1. P \subseteq Nat
  BY InstType, GraphAssumption DEF Sound, PoolRecord
<1>2. P # {} /\ \A j \in s.pool : j[2] \in P
  OBVIOUS
<1>3. BasePoint(s) = Min(P)
  BY DEF BasePoint
<1>4. \A p \in P : \E j \in s.pool : p = j[2]
  OBVIOUS
<1> HIDE DEF P
<1>5. Min(P) \in P /\ \A p \in P : Min(P) <= p
  BY <1>1, <1>2, MinExists
<1>6. QED
  BY <1>2, <1>3, <1>4, <1>5

LEMMA BaseMoves ==
    ASSUME NEW s, Sound(s), NEW t, Sound(t), Later(s, t), t.pool # {}
    PROVE  s.pool # {} /\ Window(BasePoint(s)) <= Window(BasePoint(t))
<1>1. PICK j \in t.pool : BasePoint(t) = j[2]
  BY BaseOf
<1>2. PICK i \in s.pool : i[2] <= j[2]
  BY DEF Later
<1>3. BasePoint(s) <= i[2]
  BY <1>2, BaseOf
<1>4. BasePoint(s) \in 1..FinalPoint /\ BasePoint(t) \in 1..FinalPoint
  BY BasePointType
<1>5. i[2] \in Int /\ j[2] \in Int /\ FinalPoint \in Int
  BY SoundPool, GraphAssumption
<1>6. BasePoint(s) <= BasePoint(t)
  BY <1>1, <1>2, <1>3, <1>4, <1>5
<1>7. QED
  BY <1>2, <1>4, <1>6, WindowMoves

LEMMA WindowInt ==
    ASSUME NEW s, Sound(s)
    PROVE  Window(BasePoint(s)) \in Int
BY BasePointType, WindowType

LEMMA NarrowInWindow ==
    ASSUME NEW s, Sound(s), NEW t, Sound(t), Narrow(s, t), InWindow(s)
    PROVE  InWindow(t)
<1> SUFFICES ASSUME t.pool # {}
             PROVE  /\ t.limit <= Window(BasePoint(t))
                    /\ \A i \in May(t) : i[2] <= Window(BasePoint(t))
  BY DEF InWindow
<1>1. s.pool # {} /\ Window(BasePoint(s)) <= Window(BasePoint(t))
  BY BaseMoves DEF Narrow
<1>2. /\ Window(BasePoint(s)) \in Int /\ Window(BasePoint(t)) \in Int
      /\ s.limit \in Int /\ t.limit \in Int
  BY WindowInt, SoundPool
<1>3. s.limit <= Window(BasePoint(s)) /\ t.limit <= s.limit
  BY <1>1 DEF InWindow, Narrow
<1>4. ASSUME NEW i \in May(t) PROVE i[2] <= Window(BasePoint(t))
  <2>1. i \in May(s) /\ i[2] \in Int
    BY <1>4, MayType DEF Narrow
  <2>2. i[2] <= Window(BasePoint(s))
    BY <1>1, <2>1 DEF InWindow
  <2>3. QED
    BY <1>1, <1>2, <2>1, <2>2
<1>5. QED
  BY <1>1, <1>2, <1>3, <1>4

LEMMA ComputeInWindow ==
    ASSUME NEW s, Sound(s), InWindow(s)
    PROVE  InWindow(ComputeRunahead(s))
<1> DEFINE c == ComputeRunahead(s)
           w == Window(BasePoint(s))
<1>1. Keeps(s, c) /\ Follows(s, c) /\ c.pool = s.pool
  BY ComputeRunaheadKeeps, ComputeRunaheadFollows
<1>2. c.limit = IF IsLimitStale(s) THEN Min({w, s.stopPoint}) ELSE s.limit
  BY DEF ComputeRunahead, Sound, PoolRecord
<1>3. w \in 1..FinalPoint /\ s.stopPoint \in 1..FinalPoint
  BY BasePointType, WindowType DEF Sound, PoolRecord
<1>4. {w, s.stopPoint} = {s.stopPoint, w}
  OBVIOUS
<1> HIDE DEF w
<1>5. Min({w, s.stopPoint}) <= w
  BY <1>3, <1>4, MinOfTwo
<1> HIDE DEF c
<1>6. BasePoint(c) = BasePoint(s)
  BY <1>1 DEF BasePoint
<1>7. May(c) \subseteq May(s)
  BY <1>1 DEF Keeps, Follows, May, Begun, Ended
<1>8. ASSUME c.pool # {}
      PROVE  c.limit <= w /\ \A i \in May(c) : i[2] <= w
  <2>1. s.limit <= w /\ \A i \in May(s) : i[2] <= w
    BY <1>1, <1>8 DEF InWindow, w
  <2>2. QED
    BY <1>2, <1>5, <1>7, <2>1
<1>9. QED
  BY <1>6, <1>8 DEF InWindow, w, c

LEMMA ReleaseInWindow ==
    ASSUME NEW s, Sound(s), Loose(s) = {}, InWindow(s)
    PROVE  InWindow(ReleaseRunahead(s))
<1> DEFINE R == {i \in s.runahead : i[2] <= s.limit}
           u == [s EXCEPT !.runahead = @ \ R]
           t == SpawnNextParentless(u, R)
<1>1. ReleaseRunahead(s) = t
  BY DEF ReleaseRunahead
<1>2. R \subseteq s.pool /\ \A i \in R : i[2] <= s.limit
  BY DEF Loose
<1> HIDE DEF R
<1>3. u \in PoolRecord
  BY DEF Sound, PoolRecord
<1>4. /\ u.pool = s.pool /\ u.rows = s.rows
      /\ u.active = s.active /\ u.ended = s.ended
      /\ u.sat = s.sat /\ u.forced = s.forced
      /\ u.runahead = s.runahead \ R /\ u.queued = s.queued
      /\ u.held = s.held /\ u.toHold = s.toHold
      /\ u.limit = s.limit /\ u.stopPoint = s.stopPoint
  BY DEF Sound, PoolRecord
<1> HIDE DEF u
<1>5. Sound(u)
  BY <1>3, <1>4, SoundFrom DEF Sound
<1>6. May(u) \subseteq May(s) \cup R
  BY <1>4 DEF May, Free, Begun, Ended
<1>7. InWindow(u)
  <2> SUFFICES ASSUME u.pool # {}
               PROVE  /\ u.limit <= Window(BasePoint(s))
                      /\ \A i \in May(u) : i[2] <= Window(BasePoint(s))
    BY <1>4 DEF InWindow, BasePoint
  <2>1. /\ s.limit <= Window(BasePoint(s))
        /\ \A i \in May(s) : i[2] <= Window(BasePoint(s))
    BY <1>4 DEF InWindow
  <2>2. s.limit \in Int /\ Window(BasePoint(s)) \in Int
    BY WindowInt, SoundPool
  <2>3. ASSUME NEW i \in R PROVE i[2] <= Window(BasePoint(s))
    <3>1. i[2] \in Int /\ i[2] <= s.limit
      BY <1>2, <2>3, SoundPool
    <3>2. QED
      BY <2>1, <2>2, <3>1
  <2>4. QED
    BY <1>4, <1>6, <2>1, <2>3
<1>8. Onward(u, t)
  BY <1>2, <1>4, <1>5, SpawnNextOnward
<1> HIDE DEF t
<1>9. Sound(t) /\ Narrow(u, t)
  BY <1>5, <1>8, OnwardNarrow DEF Onward, Keeps
<1>10. QED
  BY <1>1, <1>5, <1>7, <1>9, NarrowInWindow

LEMMA ComputeReleaseInWindow ==
    ASSUME NEW s, Sound(s), Loose(s) = {}, InWindow(s)
    PROVE  InWindow(ReleaseRunahead(ComputeRunahead(s)))
<1>1. LET c == ComputeRunahead(s) IN Sound(c) /\ Loose(c) = {} /\ InWindow(c)
  BY ComputeRunaheadKeeps, ComputeInWindow DEF Keeps
<1>2. QED
  BY <1>1, ReleaseInWindow

LEMMA PassInWindow ==
    ASSUME NEW s, Sound(s), Loose(s) = {}, InWindow(s)
    PROVE  Sound(Twice(s)) /\ Loose(Twice(s)) = {} /\ InWindow(Twice(s))
<1>1. LET r == ReleaseRunahead(s) IN Sound(r) /\ Loose(r) = {} /\ InWindow(r)
  BY ReleaseRunaheadSound, ReleaseInWindow
<1>2. QED
  BY <1>1, PassSound, ReleaseInWindow DEF Twice

LEMMA LoadInWindow == InWindow(LoadFromPoint)
<1> DEFINE C == {i \in Inst : i \in FirstParentless(i[1])}
           s == Spawn(EmptyPool, C)
           c == ComputeRunahead(s)
<1>1. LoadFromPoint = Twice(Twice(Twice(Twice(Twice(c)))))
  BY DEF LoadFromPoint, SpawnToRunaheadLimit
<1>2. C \subseteq Inst
  OBVIOUS
<1> HIDE DEF C
<1>3. Sound(EmptyPool) /\ Loose(EmptyPool) = {} /\ EmptyPool \in PoolRecord
  BY EmptyPoolSound DEF Sound
<1>4. Keeps(EmptyPool, s) /\ Follows(EmptyPool, s)
  BY <1>2, <1>3, SpawnKeeps, SpawnFollows
<1>5. s.limit = 0
  <2>1. s.limit = EmptyPool.limit
    BY <1>3 DEF Spawn, AddToPool, PoolRecord
  <2>2. QED
    BY <2>1 DEF EmptyPool
<1>6. Sound(s) /\ Loose(s) = {}
  BY <1>3, <1>4 DEF Keeps
<1>7. May(s) = {}
  <2>1. Free(s) \subseteq {} /\ s.active = {} /\ s.queued \subseteq {}
    BY <1>4 DEF Keeps, Follows, EmptyPool, Free
  <2>2. QED
    BY <2>1 DEF May
<1> HIDE DEF s
<1>8. InWindow(s)
  <2>1. Window(BasePoint(s)) \in 1..FinalPoint
    BY <1>6, BasePointType, WindowType
  <2>2. 0 <= Window(BasePoint(s))
    BY <2>1, GraphAssumption
  <2>3. QED
    BY <1>5, <1>7, <2>2 DEF InWindow
<1>9. Sound(c) /\ Loose(c) = {} /\ InWindow(c)
  BY <1>6, <1>8, ComputeRunaheadKeeps, ComputeInWindow DEF Keeps
<1> HIDE DEF c
<1>10. LET d == Twice(Twice(c)) IN Sound(d) /\ Loose(d) = {} /\ InWindow(d)
  BY <1>9, PassInWindow
<1>11. LET d == Twice(Twice(Twice(Twice(c)))) IN
       Sound(d) /\ Loose(d) = {} /\ InWindow(d)
  BY <1>10, PassInWindow
<1>12. QED
  BY <1>1, <1>11, PassInWindow

LEMMA InitInWindow == Init => InWindow(tp)
<1> SUFFICES ASSUME Init PROVE InWindow(tp)
  OBVIOUS
<1> DEFINE s == LoadFromPoint
           Q == {i \in s.pool : CanQueue(s, i)}
<1>1. tp = [s EXCEPT !.queued = Q]
  BY DEF Init
<1>2. Sound(s) /\ InWindow(s)
  BY LoadSound, LoadInWindow
<1> HIDE DEF s
<1>3. \A i \in Q : i \in May(s)
  BY <1>2, CanQueueMay
<1>4. Sound(tp)
  BY InitInv DEF Inv
<1> HIDE DEF Q
<1>5. /\ tp.pool = s.pool /\ tp.active = s.active /\ tp.ended = s.ended
      /\ tp.runahead = s.runahead /\ tp.queued = Q /\ tp.limit = s.limit
  BY <1>1, <1>2 DEF Sound, PoolRecord
<1>6. Narrow(s, tp)
  BY <1>2, <1>3, <1>5, FlagsNarrow, SoundPool
<1>7. QED
  BY <1>2, <1>4, <1>6, NarrowInWindow

\* cylc set is left out: it may put a task into the pool that is earlier than
\* all the others, and the base point moves back behind what already runs.
NothingSet == "set prereqs" \notin Commands /\ "set outputs" \notin Commands

LEMMA NextInWindow ==
    ASSUME NothingSet, Inv, InWindow(tp), [Next]_vars
    PROVE  InWindow(tp)'
<1>1. Sound(tp) /\ Loose(tp) = {} /\ Sound(tp')
  BY NextInv DEF Inv
<1>2. ASSUME Narrow(tp, tp') PROVE InWindow(tp)'
  <2>1. InWindow(tp')
    BY <1>1, <1>2, NarrowInWindow
  <2>2. QED
    BY <2>1 DEF InWindow, May, Begun, Ended, Free
<1>3. CASE MainLoop
  BY <1>1, <1>3, ComputeReleaseInWindow DEF MainLoop
<1>4. ASSUME NEW i \in Inst, \/ QueueIfReady(i) \/ ReleaseTask(i)
      PROVE  InWindow(tp)'
  BY <1>1, <1>2, <1>4, QueueNarrow, SubmittedNarrow
<1>5. ASSUME NEW i \in Inst, NEW output \in Emits[i[1]], JobOutput(i, output)
      PROVE  InWindow(tp)'
  <2>1. output \in Outputs /\ i \in tp.pool
    BY <1>5, InstType, PoolAssumption DEF JobOutput
  <2>2. QED
    BY <1>1, <1>2, <1>5, <2>1, MessageNarrow DEF JobOutput
<1>6. ASSUME NEW i \in Inst, Expire(i) PROVE InWindow(tp)'
  <2>1. "expired" \in Outputs /\ i \in tp.pool
    BY <1>6 DEF Expire, Outputs, FinalStatus
  <2>2. QED
    BY <1>1, <1>2, <1>6, <2>1, MessageNarrow DEF Expire
<1>7. CASE \/ \E i \in Inst : HoldTask(i) \/ ReleaseHeldTask(i)
           \/ \E p \in AllPoints : SetHoldPoint(p)
           \/ ReleaseHoldPoint
  BY <1>1, <1>2, <1>7, HoldFlags, FlaggedNarrow
<1>8. ASSUME NEW i \in Inst, \/ SetPrereqs(i)
                             \/ \E output \in Emits[i[1]] : SetOutput(i, output)
      PROVE  InWindow(tp)'
  BY <1>8 DEF SetPrereqs, SetOutput, Command, NothingSet
<1>9. ASSUME NEW i \in Inst, RemoveTask(i) PROVE InWindow(tp)'
  <2>1. PICK s : /\ Sound(s) /\ Loose(s) = {} /\ Narrow(tp, s)
                 /\ \/ tp' = ReleaseRunahead(ComputeRunahead(s))
                    \/ tp' = ComputeRunahead(s)
    BY <1>1, <1>9, RemoveTaskNarrow
  <2>2. InWindow(s)
    BY <1>1, <2>1, NarrowInWindow
  <2>3. QED
    BY <2>1, <2>2, ComputeReleaseInWindow, ComputeInWindow
<1>10. ASSUME NEW p \in AllPoints, SetStopPoint(p) PROVE InWindow(tp)'
  BY <1>1, <1>2, <1>10, StopPointNarrow
<1>11. CASE Restart
  BY <1>1, <1>2, <1>11, RestartNarrow
<1>12. CASE StopNow \/ UNCHANGED vars
  BY <1>12 DEF StopNow, vars
<1>13. QED
  BY <1>3, <1>4, <1>5, <1>6, <1>7, <1>8, <1>9, <1>10, <1>11, <1>12 DEF Next

\* Between a task that runs and the oldest task in the pool lie no more cycle
\* points than the runahead limit, whatever is held, removed, stopped, restarted
\* or expires, and wherever the stop point is moved (compute_runahead,
\* release_runahead_tasks).
THEOREM RunsWithinLimit ==
    ASSUME NothingSet
    PROVE  Spec => []WithinRunaheadLimit
<1>1. Inv /\ InWindow(tp) /\ [Next]_vars => InWindow(tp)'
  BY NextInWindow
<1>2. Inv /\ InWindow(tp) => WithinRunaheadLimit
  <2> SUFFICES ASSUME Inv, InWindow(tp),
                      NEW i \in tp.pool \cap tp.active, NEW j \in tp.pool
               PROVE  Cardinality({p \in AllPoints : j[2] <= p /\ p < i[2]})
                          <= RunaheadLimit
    BY DEF WithinRunaheadLimit
  <2> DEFINE b == BasePoint(tp)
  <2>1. Sound(tp) /\ b \in 1..FinalPoint /\ b <= j[2]
    BY BasePointType, BaseOf DEF Inv
  <2>2. i[2] <= Window(b)
    BY DEF InWindow, May
  <2>3. Window(b) \in 1..FinalPoint
    BY <2>1, WindowType
  <2>4. /\ b \in Int /\ Window(b) \in Int /\ i[2] \in Int /\ j[2] \in Int
        /\ AllPoints \subseteq Int
    BY <2>1, <2>3, SoundPool, PointsType
  <2> HIDE DEF b
  <2>5. {p \in AllPoints : j[2] <= p /\ p < i[2]} \subseteq Ahead(b, Window(b))
    <3>1. ASSUME NEW p \in AllPoints, j[2] <= p, p < i[2]
          PROVE  b <= p /\ p < Window(b)
      BY <2>1, <2>2, <2>4, <3>1
    <3>2. QED
      BY <3>1 DEF Ahead
  <2>6. Cardinality({p \in AllPoints : j[2] <= p /\ p < i[2]})
            <= Cardinality(Ahead(b, Window(b)))
    BY <2>5, AheadSmaller
  <2>7. Cardinality(Ahead(b, Window(b))) <= RunaheadLimit
    BY <2>1, WindowHolds
  <2>8. Cardinality({p \in AllPoints : j[2] <= p /\ p < i[2]}) \in Nat
    BY AheadFinite DEF Ahead
  <2>9. QED
    BY <2>6, <2>7, <2>8, AheadFinite, PoolAssumption
<1>3. QED
  BY <1>1, <1>2, InitInWindow, Invariance, PTL DEF Spec
-----------------------------------------------------------------------------
(* Nothing is left behind.  Every instance that has a row is in the pool or
   done; every child of an output, and every parentless instance up to the one
   that waits in runahead for its release, has a row.  In the middle of an
   action this fails for the tasks in over, which are done and still in the
   pool, those in open, whose next instance is not spawned yet, and the outputs
   in fresh, whose children are not spawned yet. *)

Done(s) == {i \in Ended(s) : IsComplete(i, Of(s.recorded, i))}

\* The tasks whose release will spawn the next parentless instance.
Blocked(s) == (s.runahead \ s.queued) \ Begun(s)

NoneLost(s) == s.rows \subseteq s.pool \cup Done(s)

Linked(s, open) ==
    \A j \in s.rows : \A i \in NextParentless(j) :
        i \in s.rows \/ j \in Blocked(s) \/ j \in open

Raised(s, fresh) ==
    \A e \in s.recorded \ fresh : Children(e[1], e[2]) \subseteq s.rows

\* The limit was computed for the base, unless it is the stop point.
LimitKnown(s) ==
    \/ s.limit = 0
    \/ s.limit = s.stopPoint
    \/ s.base # 0 /\ s.base <= s.limit

Whole(s, over, open, fresh) ==
    /\ NoneLost(s)
    /\ s.pool \cap Done(s) \subseteq over
    /\ Linked(s, open)
    /\ Raised(s, fresh)
    /\ LimitKnown(s)

LEMMA FlaggedWhole ==
    ASSUME NEW s, NEW t, Flagged(s, t), NEW over, NEW open, NEW fresh,
           Whole(s, over, open, fresh)
    PROVE  Whole(t, over, open, fresh)
<1>1. Ended(t) = Ended(s) /\ Begun(t) = Begun(s)
  BY DEF Flagged, Ended, Begun
<1>2. Done(t) = Done(s)
  BY <1>1 DEF Flagged, Done
<1>3. Blocked(s) \subseteq Blocked(t)
  BY <1>1 DEF Flagged, Blocked
<1>4. Linked(t, open)
  BY <1>3 DEF Whole, Linked, Flagged
<1>5. QED
  BY <1>2, <1>4 DEF Whole, NoneLost, Raised, LimitKnown, Flagged

\* What is recorded of a task is all that is recorded of it: where nothing is
\* lost, spawning makes proxies of the instances that have no row.
LEMMA SpawnGrows ==
    ASSUME NEW s, Sound(s), NoneLost(s), NEW C, C \subseteq Inst
    PROVE  LET t == Spawn(s, C) IN
           /\ t.pool = s.pool \cup (C \ s.rows)
           /\ t.rows = s.rows \cup C
           /\ t.runahead = s.runahead \cup (C \ s.rows)
           /\ t.queued = s.queued
           /\ t.active = s.active /\ t.ended = s.ended
           /\ t.recorded = s.recorded
           /\ t.limit = s.limit /\ t.base = s.base /\ t.stopPoint = s.stopPoint
<1> DEFINE N == {c \in C : IsSpawnable(s, c)}
           H == {c \in N : HeldOnSpawn(s, c)}
           t == AddToPool(s, N, H)
<1>1. Spawn(s, C) = t
  BY DEF Spawn
<1>2. N = C \ s.rows
  <2>1. ASSUME NEW c \in C PROVE IsSpawnable(s, c) <=> c \notin s.rows
    BY DEF IsSpawnable, Sound, NoneLost, Done
  <2>2. QED
    BY <2>1
<1> HIDE DEF N, H
<1>3. /\ t.pool = s.pool \cup N /\ t.rows = s.rows \cup N
      /\ t.runahead = s.runahead \cup N /\ t.queued = s.queued
      /\ t.active = s.active /\ t.ended = s.ended /\ t.recorded = s.recorded
      /\ t.limit = s.limit /\ t.base = s.base /\ t.stopPoint = s.stopPoint
  BY DEF AddToPool, Sound, PoolRecord
<1> HIDE DEF t
<1>4. s.rows \cup N = s.rows \cup C
  BY <1>2
<1>5. QED
  BY <1>1, <1>2, <1>3, <1>4

LEMMA SpawnWhole ==
    ASSUME NEW s, Sound(s), NEW C, C \subseteq Inst, NEW over, NEW open, NEW fresh,
           Whole(s, over, open, fresh)
    PROVE  /\ Whole(Spawn(s, C), over, open, fresh)
           /\ Spawn(s, C).rows = s.rows \cup C
<1> DEFINE t == Spawn(s, C)
<1>1. NoneLost(s)
  BY DEF Whole
<1>2. /\ t.pool = s.pool \cup (C \ s.rows)
      /\ t.rows = s.rows \cup C
      /\ t.runahead = s.runahead \cup (C \ s.rows)
      /\ t.queued = s.queued
      /\ t.active = s.active /\ t.ended = s.ended
      /\ t.recorded = s.recorded
      /\ t.limit = s.limit /\ t.base = s.base /\ t.stopPoint = s.stopPoint
  BY <1>1, SpawnGrows
<1> HIDE DEF t
<1>3. Ended(t) = Ended(s) /\ Begun(t) = Begun(s)
  BY <1>2 DEF Ended, Begun
<1>4. Done(t) = Done(s) /\ Done(s) \subseteq s.rows
  BY <1>2, <1>3 DEF Done, Sound
<1>5. NoneLost(t) /\ t.pool \cap Done(t) \subseteq over
  BY <1>2, <1>4 DEF Whole, NoneLost
<1>6. Blocked(s) \subseteq Blocked(t)
  BY <1>2, <1>3 DEF Blocked
<1>7. C \ s.rows \subseteq Blocked(t)
  <2>1. Begun(s) \subseteq s.rows /\ s.queued \subseteq s.rows
    BY DEF Sound, Begun
  <2>2. QED
    BY <1>2, <1>3, <2>1 DEF Blocked
<1>8. Linked(t, open)
  BY <1>2, <1>6, <1>7 DEF Whole, Linked
<1>9. Raised(t, fresh)
  BY <1>2 DEF Whole, Raised
<1>10. LimitKnown(t)
  BY <1>2 DEF Whole, LimitKnown
<1>11. Whole(t, over, open, fresh)
  BY <1>5, <1>8, <1>9, <1>10 DEF Whole
<1>12. QED
  BY <1>2, <1>11 DEF t

LEMMA SpawnNextWhole ==
    ASSUME NEW s, Sound(s), NEW R, NEW over, NEW open, NEW fresh,
           Whole(s, over, open, fresh)
    PROVE  /\ Whole(SpawnNextParentless(s, R), over, open, fresh)
           /\ SpawnNextParentless(s, R).rows = s.rows \cup NextOf(R)
<1>1. SpawnNextParentless(s, R) = Spawn(s, NextOf(R))
  BY DEF SpawnNextParentless, NextOf
<1>2. NextOf(R) \subseteq Inst
  BY DEF NextOf
<1>3. QED
  BY <1>1, <1>2, SpawnWhole

\* Tasks that are done may be removed.
LEMMA RemoveWhole ==
    ASSUME NEW s, Sound(s), NEW R, R \subseteq Done(s), NEW over, NEW open, NEW fresh,
           Whole(s, over, open, fresh)
    PROVE  /\ Whole(Remove(s, R), over \ R, open, fresh)
           /\ s.rows \subseteq Remove(s, R).rows
<1> DEFINE n == SpawnNextParentless(s, R \cap s.runahead)
           t == Drop(n, R)
<1>1. Sound(n) /\ Follows(s, n)
  BY SpawnNextKeeps, SpawnNextFollows DEF Keeps
<1>2. Whole(n, over, open, fresh) /\ s.rows \subseteq n.rows
  BY SpawnNextWhole
<1>3. Remove(s, R) = t
  BY DEF Remove
<1> HIDE DEF n
<1>4. /\ t.pool = n.pool \ R /\ t.rows = n.rows
      /\ t.runahead = n.runahead \ R /\ t.queued = n.queued \ R
      /\ t.active = n.active /\ t.ended = n.ended /\ t.recorded = n.recorded
      /\ t.limit = n.limit /\ t.base = n.base /\ t.stopPoint = n.stopPoint
  BY <1>1 DEF Drop, Sound, PoolRecord
<1> HIDE DEF t
<1>5. Ended(t) = Ended(n) /\ Begun(t) = Begun(n) /\ Ended(n) = Ended(s)
  BY <1>1, <1>4 DEF Follows, Ended, Begun
<1>6. Done(t) = Done(n) /\ R \subseteq Done(n)
  BY <1>1, <1>4, <1>5 DEF Done, Follows
<1>7. R \subseteq Begun(n)
  BY <1>6 DEF Done, Begun
<1>8. NoneLost(t) /\ t.pool \cap Done(t) \subseteq over \ R
  BY <1>2, <1>4, <1>6 DEF Whole, NoneLost
<1>9. Blocked(n) \subseteq Blocked(t)
  BY <1>4, <1>5, <1>7 DEF Blocked
<1>10. Linked(t, open)
  BY <1>2, <1>4, <1>9 DEF Whole, Linked
<1>11. Raised(t, fresh) /\ LimitKnown(t)
  BY <1>2, <1>4 DEF Whole, Raised, LimitKnown
<1>12. Whole(t, over \ R, open, fresh)
  BY <1>8, <1>10, <1>11 DEF Whole
<1>13. QED
  BY <1>2, <1>3, <1>4, <1>12

LEMMA RemoveIfCompleteWhole ==
    ASSUME NEW s, Sound(s), NEW i \in s.pool, Agree(s), Whole(s, {i}, {}, {})
    PROVE  /\ Whole(RemoveIfComplete(s, i), {}, {}, {})
           /\ s.rows \subseteq RemoveIfComplete(s, i).rows
<1>1. Of(s.outputs, i) = Of(s.recorded, i)
  BY DEF Agree, Of
<1>2. CASE i \in Done(s)
  <2>1. RemoveIfComplete(s, i) = Remove(s, {i})
    BY <1>1, <1>2 DEF RemoveIfComplete, Done
  <2>2. {i} \subseteq Done(s) /\ {i} \ {i} = {}
    BY <1>2
  <2>3. /\ Whole(Remove(s, {i}), {i} \ {i}, {}, {})
        /\ s.rows \subseteq Remove(s, {i}).rows
    BY <2>2, RemoveWhole
  <2>4. QED
    BY <2>1, <2>2, <2>3
<1>3. CASE i \notin Done(s)
  <2>1. RemoveIfComplete(s, i) = s
    BY <1>1, <1>3 DEF RemoveIfComplete, Done
  <2>2. Whole(s, {}, {}, {})
    BY <1>3 DEF Whole
  <2>3. QED
    BY <2>1, <2>2
<1>4. QED
  BY <1>2, <1>3

\* Satisfying a prerequisite and removing no task change nothing here.
LEMMA SatisfyFlagged ==
    ASSUME NEW s, Sound(s), NEW C, NEW key
    PROVE  Flagged(s, Satisfy(s, C, key))
BY DEF Flagged, Satisfy, Sound, PoolRecord

\* The graph has no suicide triggers, which remove tasks that did not run.
NoSuicide == \A n \in Names : SuicideOn[n] = {}

LEMMA SpawnOnOutputWhole ==
    ASSUME NoSuicide,
           NEW s, Sound(s), Loose(s) = {}, Agree(s), NEW i \in s.pool,
           NEW output \in Outputs, <<i, output>> \in s.recorded,
           Whole(s, {i}, {}, {<<i, output>>})
    PROVE  /\ Whole(SpawnOnOutput(s, i, output), {}, {}, {})
           /\ s.rows \subseteq SpawnOnOutput(s, i, output).rows
<1> DEFINE K == Children(i, output)
           spawned == Spawn(s, K)
           kids == K \cap spawned.pool
           told == Satisfy(spawned, kids, <<i, output>>)
           suicide == {c \in kids : SuicideSatisfied(c, SatisfiedKeys(told, c))}
           left == Remove(told, suicide)
<1>1. i \in Inst
  BY SoundPool
<1>2. K \subseteq Inst /\ \A c \in K : i[2] <= c[2]
  BY <1>1, ChildIsLater
<1>3. SpawnOnOutput(s, i, output) = RemoveIfComplete(left, i)
  BY DEF SpawnOnOutput
<1>4. suicide = {}
  <2>1. ASSUME NEW c \in Inst, NEW L PROVE ~SuicideSatisfied(c, L)
    BY InstType DEF SuicideSatisfied, NoSuicide
  <2>2. QED
    BY <1>2, <2>1
<1>5. \A e : e = <<i, output>> => Children(e[1], e[2]) = K
  OBVIOUS
<1> HIDE DEF K
<1>6. /\ Sound(spawned) /\ Follows(s, spawned) /\ Loose(spawned) = {}
      /\ Whole(spawned, {i}, {}, {<<i, output>>})
      /\ spawned.rows = s.rows \cup K
  BY <1>2, SpawnKeeps, SpawnFollows, SpawnWhole DEF Keeps
<1>7. i \in spawned.pool
  BY DEF Spawn, AddToPool, Sound, PoolRecord
<1> HIDE DEF spawned
<1>8. Whole(spawned, {i}, {}, {})
  <2>1. Raised(spawned, {})
    BY <1>5, <1>6 DEF Whole, Raised
  <2>2. QED
    BY <1>6, <2>1 DEF Whole
<1>9. /\ <<i, output>> \in Key /\ kids \subseteq spawned.pool
      /\ \A c \in kids : <<i, output>>[1][2] <= c[2]
      /\ <<i, output>> \in spawned.recorded
  BY <1>1, <1>2, <1>6 DEF Key, Follows
<1>10. /\ Sound(told) /\ Follows(spawned, told)
       /\ Flagged(spawned, told)
  BY <1>6, <1>9, SatisfyKeeps, SatisfyFollows, SatisfyFlagged DEF Keeps
<1> HIDE DEF told
<1>11. /\ Whole(told, {i}, {}, {}) /\ i \in told.pool
       /\ told.rows = spawned.rows
  BY <1>7, <1>8, <1>10, FlaggedWhole DEF Flagged
<1>12. /\ Sound(left) /\ Follows(told, left)
       /\ Whole(left, {i} \ {}, {}, {}) /\ told.rows \subseteq left.rows
  BY <1>4, <1>10, <1>11, RemoveKeeps, RemoveFollows, RemoveWhole DEF Keeps
<1>13. i \in left.pool
  BY <1>4, <1>10, <1>11
     DEF Remove, Drop, SpawnNextParentless, Spawn, AddToPool, Sound, PoolRecord
<1> HIDE DEF left
<1>14. Agree(left) /\ {i} \ {} = {i}
  BY <1>6, <1>10, <1>12 DEF Follows
<1>15. /\ Whole(RemoveIfComplete(left, i), {}, {}, {})
       /\ left.rows \subseteq RemoveIfComplete(left, i).rows
  BY <1>12, <1>13, <1>14, RemoveIfCompleteWhole
<1>16. QED
  BY <1>3, <1>6, <1>11, <1>12, <1>15

LEMMA CompleteWhole ==
    ASSUME NEW s, Sound(s), Agree(s), NEW i \in s.pool, NEW output \in Outputs,
           i \in Blocked(s) => NextParentless(i) = {},
           Whole(s, {}, {}, {})
    PROVE  LET t == CompleteOutput(s, i, output) IN
           /\ Whole(t, {i}, {}, {<<i, output>>})
           /\ t.rows = s.rows /\ Agree(t)
<1> DEFINE t == CompleteOutput(s, i, output)
           gone == IF output = "expired" THEN {i} ELSE {}
<1>1. i \in s.rows
  BY DEF Sound
<1>2. /\ t.pool = s.pool
      /\ t.outputs = s.outputs \cup {<<i, output>>}
      /\ t.recorded = Recorded(s, i, output)
      /\ Begun(t) \subseteq Begun(s) \cup {i}
  BY <1>1, Completed
<1>3. t.recorded = s.recorded \cup {<<i, output>>}
  <2>1. \A e : e \in s.recorded /\ e[1] = i <=> e \in s.outputs /\ e[1] = i
    BY DEF Agree
  <2>2. Recorded(s, i, output) = s.recorded \cup {<<i, output>>}
    BY <2>1 DEF Recorded, Without
  <2>3. QED
    BY <1>2, <2>2
<1>4. /\ t.rows = s.rows
      /\ t.runahead = s.runahead \ gone /\ t.queued = s.queued \ gone
      /\ t.ended = IF output \in FinalStatus
                   THEN Without(s.ended, {i}) \cup {<<i, output>>} ELSE s.ended
      /\ t.limit = s.limit /\ t.base = s.base /\ t.stopPoint = s.stopPoint
  BY DEF CompleteOutput, EndWith, Sound, PoolRecord
<1> HIDE DEF t
<1>5. /\ \A e \in s.ended : e \in t.ended \/ e[1] = i
      /\ \A e \in t.ended : e \in s.ended \/ e[1] = i
  BY <1>4 DEF Without
<1>6. ASSUME NEW k, k # i PROVE k \in Done(t) <=> k \in Done(s)
  <2>1. k \in Ended(t) <=> k \in Ended(s)
    BY <1>5, <1>6 DEF Ended
  <2>2. Of(t.recorded, k) = Of(s.recorded, k)
    BY <1>3, <1>6 DEF Of
  <2>3. QED
    BY <2>1, <2>2 DEF Done
<1>7. NoneLost(t)
  BY <1>2, <1>4, <1>6 DEF Whole, NoneLost
<1>8. t.pool \cap Done(t) \subseteq {i}
  BY <1>2, <1>6 DEF Whole
<1>9. Blocked(s) \ {i} \subseteq Blocked(t)
  BY <1>2, <1>4 DEF Blocked
<1>10. Linked(t, {})
  BY <1>4, <1>9 DEF Whole, Linked
<1>11. Raised(t, {<<i, output>>})
  BY <1>3, <1>4 DEF Whole, Raised
<1>12. LimitKnown(t)
  BY <1>4 DEF Whole, LimitKnown
<1>13. Agree(t)
  BY <1>2, <1>3 DEF Agree
<1>14. Whole(t, {i}, {}, {<<i, output>>})
  BY <1>7, <1>8, <1>10, <1>11, <1>12 DEF Whole
<1>15. QED
  BY <1>4, <1>13, <1>14 DEF t

LEMMA MessageWhole ==
    ASSUME NoSuicide,
           NEW s, Sound(s), Loose(s) = {}, Agree(s), NEW i \in s.pool,
           NEW output \in Outputs,
           i \in Blocked(s) => NextParentless(i) = {},
           Whole(s, {}, {}, {})
    PROVE  /\ Whole(ProcessMessage(s, i, output), {}, {}, {})
           /\ s.rows \subseteq ProcessMessage(s, i, output).rows
<1> DEFINE u == CompleteOutput(s, i, output)
<1>1. i \in s.rows
  BY DEF Sound
<1>2. /\ Sound(u) /\ u.pool = s.pool /\ u.recorded = Recorded(s, i, output)
      /\ Loose(u) = {}
      /\ Whole(u, {i}, {}, {<<i, output>>}) /\ u.rows = s.rows /\ Agree(u)
  BY <1>1, Completed, CompleteOutputSound, CompleteWhole
<1>3. ProcessMessage(s, i, output) = SpawnOnOutput(u, i, output)
  BY DEF ProcessMessage
<1> HIDE DEF u
<1>4. <<i, output>> \in u.recorded
  BY <1>2 DEF Recorded
<1>5. QED
  BY <1>2, <1>3, <1>4, SpawnOnOutputWhole

\* A limit that was computed for the base point covers it, up to the stop point.
LEMMA ComputeLimit ==
    ASSUME NEW s, Sound(s), LimitKnown(s)
    PROVE  LET c == ComputeRunahead(s) IN
           /\ LimitKnown(c)
           /\ BasePoint(s) <= s.stopPoint => BasePoint(s) <= c.limit
<1> DEFINE c == ComputeRunahead(s)
           b == BasePoint(s)
           w == Window(BasePoint(s))
<1>1. /\ c.limit = IF IsLimitStale(s) THEN Min({w, s.stopPoint}) ELSE s.limit
      /\ c.base = IF IsLimitStale(s) THEN b ELSE PreviousBase(s)
      /\ c.stopPoint = s.stopPoint
  BY DEF ComputeRunahead, Sound, PoolRecord
<1>2. b \in 1..FinalPoint
  BY BasePointType
<1>3. w \in 1..FinalPoint /\ b <= w
  BY <1>2, WindowHolds
<1>4. s.stopPoint \in 1..FinalPoint /\ FinalPoint \in Int
  BY GraphAssumption DEF Sound, PoolRecord
<1> HIDE DEF c, w
<1>5. CASE IsLimitStale(s)
  <2>1. {w, s.stopPoint} \subseteq Nat /\ {w, s.stopPoint} # {}
    BY <1>3, <1>4
  <2>2. Min({w, s.stopPoint}) \in {w, s.stopPoint}
    BY <2>1, MinExists
  <2>3. c.limit = w \/ c.limit = c.stopPoint
    BY <1>1, <1>5, <2>2
  <2>4. c.base = b /\ b # 0
    BY <1>1, <1>2, <1>5
  <2>5. QED
    BY <1>1, <1>3, <2>3, <2>4 DEF LimitKnown, c
<1>6. CASE ~IsLimitStale(s)
  <2>1. /\ s.limit # 0 /\ c.limit = s.limit /\ c.base = PreviousBase(s)
        /\ b = PreviousBase(s) \/ s.limit = s.stopPoint
    BY <1>1, <1>6 DEF IsLimitStale
  <2>2. CASE s.limit = s.stopPoint
    BY <1>1, <2>1, <2>2 DEF LimitKnown, c
  <2>3. CASE s.limit # s.stopPoint
    <3>1. s.base # 0 /\ s.base <= s.limit
      BY <2>1, <2>3 DEF LimitKnown
    <3>2. PreviousBase(s) = s.base
      BY <3>1 DEF PreviousBase
    <3> HIDE DEF b
    <3>3. b = s.base /\ c.base = s.base
      BY <2>1, <2>3, <3>2
    <3>4. QED
      BY <2>1, <3>1, <3>3 DEF LimitKnown, c, b
  <2>4. QED
    BY <2>2, <2>3
<1>7. QED
  BY <1>5, <1>6

LEMMA ComputeWhole ==
    ASSUME NEW s, Sound(s), Whole(s, {}, {}, {})
    PROVE  Whole(ComputeRunahead(s), {}, {}, {})
<1> DEFINE c == ComputeRunahead(s)
<1>1. /\ c.pool = s.pool /\ c.rows = s.rows
      /\ c.active = s.active /\ c.ended = s.ended
      /\ c.recorded = s.recorded
      /\ c.runahead = s.runahead /\ c.queued = s.queued
  BY DEF ComputeRunahead, Sound, PoolRecord
<1>2. LimitKnown(c)
  BY ComputeLimit DEF Whole
<1> HIDE DEF c
<1>3. Ended(c) = Ended(s) /\ Begun(c) = Begun(s)
  BY <1>1 DEF Ended, Begun
<1>4. Done(c) = Done(s) /\ Blocked(c) = Blocked(s)
  BY <1>1, <1>3 DEF Done, Blocked
<1>5. Whole(c, {}, {}, {})
  BY <1>1, <1>2, <1>4 DEF Whole, NoneLost, Linked, Raised
<1>6. QED
  BY <1>5 DEF c

LEMMA ReleaseWhole ==
    ASSUME NEW s, Sound(s), Loose(s) = {}, Whole(s, {}, {}, {})
    PROVE  LET t == ReleaseRunahead(s) IN
           /\ Whole(t, {}, {}, {})
           /\ s.rows \subseteq t.rows /\ s.pool \subseteq t.pool
           /\ t.stopPoint = s.stopPoint
           /\ \A k \in t.pool :
                /\ k \in s.pool \/ \E i \in s.pool : i[2] < k[2]
                /\ k \in t.runahead /\ k[2] <= s.limit => \E i \in s.pool : i[2] < k[2]
<1> DEFINE R == {i \in s.runahead : i[2] <= s.limit}
           u == [s EXCEPT !.runahead = @ \ R]
           t == SpawnNextParentless(u, R)
<1>1. ReleaseRunahead(s) = t
  BY DEF ReleaseRunahead
<1>2. R \subseteq s.pool /\ \A i \in s.runahead : i[2] <= s.limit => i \in R
  BY DEF Loose
<1> HIDE DEF R
<1>3. u \in PoolRecord
  BY DEF Sound, PoolRecord
<1>4. /\ u.pool = s.pool /\ u.rows = s.rows
      /\ u.active = s.active /\ u.ended = s.ended
      /\ u.recorded = s.recorded
      /\ u.sat = s.sat /\ u.forced = s.forced
      /\ u.runahead = s.runahead \ R /\ u.queued = s.queued
      /\ u.held = s.held /\ u.toHold = s.toHold
      /\ u.limit = s.limit /\ u.base = s.base /\ u.stopPoint = s.stopPoint
  BY DEF Sound, PoolRecord
<1> HIDE DEF u
<1>5. Sound(u)
  BY <1>3, <1>4, SoundFrom DEF Sound
<1>6. Whole(u, {}, R, {})
  <2>1. Ended(u) = Ended(s) /\ Begun(u) = Begun(s)
    BY <1>4 DEF Ended, Begun
  <2>2. Done(u) = Done(s) /\ Blocked(s) \ R \subseteq Blocked(u)
    BY <1>4, <2>1 DEF Done, Blocked
  <2>3. Linked(u, R)
    BY <1>4, <2>2 DEF Whole, Linked
  <2>4. QED
    BY <1>4, <2>2, <2>3 DEF Whole, NoneLost, Raised, LimitKnown
<1>7. NextOf(R) \subseteq Inst /\ t = Spawn(u, NextOf(R))
  BY DEF NextOf, SpawnNextParentless
<1>8. /\ t.pool = u.pool \cup (NextOf(R) \ u.rows)
      /\ t.rows = u.rows \cup NextOf(R)
      /\ t.runahead = u.runahead \cup (NextOf(R) \ u.rows)
      /\ t.stopPoint = u.stopPoint
  BY <1>5, <1>6, <1>7, SpawnGrows DEF Whole
<1>9. Whole(t, {}, R, {})
  BY <1>5, <1>6, SpawnNextWhole
<1> HIDE DEF t
<1>10. \A j \in R : NextParentless(j) \subseteq t.rows
  <2>1. ASSUME NEW j \in R, NEW i \in NextParentless(j) PROVE i \in NextOf(R)
    <3>1. i \in Inst
      BY <1>2, SoundPool, NextIsLater
    <3>2. QED
      BY <3>1 DEF NextOf
  <2>2. QED
    BY <1>8, <2>1
<1>11. Whole(t, {}, {}, {})
  <2>1. Linked(t, {})
    BY <1>9, <1>10 DEF Whole, Linked
  <2>2. QED
    BY <1>9, <2>1 DEF Whole
<1>12. ASSUME NEW k \in NextOf(R) PROVE \E i \in s.pool : i[2] < k[2]
  <2>1. PICK i \in R : k \in NextParentless(i)
    BY <1>12 DEF NextOf
  <2>2. i \in s.pool /\ i \in Inst
    BY <1>2, SoundPool
  <2>3. i[2] < k[2]
    BY <2>1, <2>2, NextIsLater
  <2>4. QED
    BY <2>2, <2>3
<1>13. \A k \in t.pool :
         /\ k \in s.pool \/ \E i \in s.pool : i[2] < k[2]
         /\ k \in t.runahead /\ k[2] <= s.limit => \E i \in s.pool : i[2] < k[2]
  BY <1>2, <1>4, <1>8, <1>12
<1>14. QED
  BY <1>1, <1>4, <1>8, <1>11, <1>13

\* The top of the main loop releases the oldest tasks of the pool from runahead,
\* if they are not beyond the stop point.
LEMMA LoopWhole ==
    ASSUME NEW s, Sound(s), Loose(s) = {}, Whole(s, {}, {}, {})
    PROVE  LET t == ReleaseRunahead(ComputeRunahead(s)) IN
           /\ Whole(t, {}, {}, {})
           /\ s.rows \subseteq t.rows
           /\ \A k \in t.pool :
                k[2] <= t.stopPoint /\ (\A j \in t.pool : k[2] <= j[2])
                    => k \notin t.runahead
<1> DEFINE c == ComputeRunahead(s)
           t == ReleaseRunahead(c)
<1>1. /\ Sound(c) /\ Loose(c) = {} /\ c.pool = s.pool
      /\ Whole(c, {}, {}, {})
      /\ BasePoint(s) <= s.stopPoint => BasePoint(s) <= c.limit
  BY ComputeRunaheadKeeps, ComputeWhole, ComputeLimit DEF Keeps, Whole
<1>2. c.rows = s.rows /\ c.stopPoint = s.stopPoint
  BY DEF ComputeRunahead, Sound, PoolRecord
<1>3. BasePoint(c) = BasePoint(s)
  BY <1>1 DEF BasePoint
<1> HIDE DEF c
<1>4. /\ Whole(t, {}, {}, {})
      /\ c.rows \subseteq t.rows /\ c.pool \subseteq t.pool
      /\ t.stopPoint = c.stopPoint
      /\ \A k \in t.pool :
           /\ k \in c.pool \/ \E i \in c.pool : i[2] < k[2]
           /\ k \in t.runahead /\ k[2] <= c.limit => \E i \in c.pool : i[2] < k[2]
  BY <1>1, ReleaseWhole
<1>5. Sound(t)
  BY <1>1, ReleaseRunaheadSound
<1> HIDE DEF t
<1>6. ASSUME NEW k \in t.pool, k[2] <= t.stopPoint, \A j \in t.pool : k[2] <= j[2],
             k \in t.runahead
      PROVE  FALSE
  <2>1. \A i \in c.pool : i \in t.pool /\ i[2] \in Int /\ k[2] \in Int
    BY <1>4, <1>5, SoundPool
  <2>2. ~\E i \in c.pool : i[2] < k[2]
    BY <1>6, <2>1
  <2>3. k \in c.pool /\ ~(k[2] <= c.limit)
    BY <1>4, <1>6, <2>2
  <2>4. PICK j \in c.pool : BasePoint(c) = j[2]
    BY <1>1, <2>3, BaseOf
  <2>5. BasePoint(c) <= k[2] /\ k[2] <= j[2]
    BY <1>1, <1>6, <2>1, <2>3, BaseOf
  <2>6. k[2] = BasePoint(c)
    BY <2>1, <2>4, <2>5
  <2>7. QED
    BY <1>1, <1>2, <1>3, <1>4, <1>6, <2>3, <2>6
<1>7. QED
  BY <1>2, <1>4, <1>6 DEF t, c

LEMMA SubmittedWhole ==
    ASSUME Sound(tp), Whole(tp, {}, {}, {}), NEW i \in Inst, ReleaseTask(i)
    PROVE  Whole(tp', {}, {}, {}) /\ tp'.rows = tp.rows
<1>1. /\ tp' = [tp EXCEPT !.queued = @ \ {i}, !.active = @ \cup {i},
                          !.ended = Without(@, {i})]
      /\ i \in tp.queued
  BY DEF ReleaseTask, Submitted
<1>2. /\ tp'.pool = tp.pool /\ tp'.rows = tp.rows
      /\ tp'.ended = Without(tp.ended, {i}) /\ tp'.recorded = tp.recorded
      /\ tp'.runahead = tp.runahead /\ tp'.queued = tp.queued \ {i}
      /\ tp'.limit = tp.limit /\ tp'.base = tp.base /\ tp'.stopPoint = tp.stopPoint
  BY <1>1 DEF Sound, PoolRecord
<1>3. Begun(tp') = Begun(tp) \cup {i}
  BY ReleaseHistory
<1>4. /\ Done(tp') \subseteq Done(tp)
      /\ \A k \in Done(tp) : k # i => k \in Done(tp')
  BY <1>2 DEF Done, Ended, Without
<1>5. i \in tp.pool
  BY <1>1 DEF Sound
<1>6. NoneLost(tp') /\ tp'.pool \cap Done(tp') \subseteq {}
  BY <1>2, <1>4, <1>5 DEF Whole, NoneLost
<1>7. Blocked(tp) \subseteq Blocked(tp')
  BY <1>1, <1>2, <1>3 DEF Blocked
<1>8. Linked(tp', {}) /\ Raised(tp', {}) /\ LimitKnown(tp')
  BY <1>2, <1>7 DEF Whole, Linked, Raised, LimitKnown
<1>9. QED
  BY <1>2, <1>6, <1>8 DEF Whole

LEMMA RestartWhole ==
    ASSUME Sound(tp), Loose(tp) = {}, Whole(tp, {}, {}, {}), Restart
    PROVE  Whole(tp', {}, {}, {}) /\ tp'.rows = tp.rows
<1>1. /\ tp'.pool = tp.pool /\ tp'.rows = tp.rows
      /\ tp'.active = tp.active /\ tp'.ended = tp.ended
      /\ tp'.recorded = tp.recorded
      /\ tp'.runahead = tp.pool \ Ended(tp) /\ tp'.queued = {} /\ tp'.limit = 0
  BY DEF Restart, RestoredActive, RestoredRunahead, Sound, PoolRecord
<1>2. Ended(tp') = Ended(tp) /\ Begun(tp') = Begun(tp)
  BY <1>1 DEF Ended, Begun
<1>3. Done(tp') = Done(tp)
  BY <1>1, <1>2 DEF Done
<1>4. Blocked(tp) \subseteq Blocked(tp')
  BY <1>1, <1>2 DEF Blocked, Loose, Begun
<1>5. Linked(tp', {})
  BY <1>1, <1>4 DEF Whole, Linked
<1>6. QED
  BY <1>1, <1>3, <1>5 DEF Whole, NoneLost, Raised, LimitKnown

LEMMA QueueFlagged ==
    ASSUME Sound(tp), NEW i \in Inst, QueueIfReady(i)
    PROVE  Flagged(tp, tp')
<1>1. tp' = [tp EXCEPT !.queued = @ \cup {i}] /\ CanQueue(tp, i)
  BY DEF QueueIfReady
<1>2. i \in May(tp) /\ i \notin tp.runahead
  BY <1>1, CanQueueMay DEF CanQueue
<1>3. QED
  BY <1>1, <1>2 DEF Flagged, Sound, PoolRecord

\* If the next instance of a task has no parent then neither has the task.
LEMMA EarlierParentless ==
    ASSUME NEW i \in Inst, NEW j \in NextParentless(i)
    PROVE  IsParentless(i)
<1>1. j \in Inst /\ j[1] = i[1] /\ IsParentless(j) /\ i[2] < j[2]
  BY NextIsLater DEF NextParentless, ParentlessAt
<1>2. i[1] \in Names /\ i[2] \in Int /\ j[2] \in Int
  BY <1>1, InstType
<1>3. ASSUME NEW trg \in UNION Requires[i[1]] PROVE IsPreInitial(i, trg)
  <2>1. trg \in Trigger
    BY <1>2, <1>3, GraphAssumption
  <2>2. trg.back \in Int
    BY <2>1 DEF Trigger
  <2>3. j[2] - trg.back < 1
    BY <1>1, <1>3 DEF IsParentless, IsPreInitial
  <2>4. i[2] - trg.back < 1
    BY <1>1, <1>2, <2>2, <2>3
  <2>5. QED
    BY <2>4 DEF IsPreInitial
<1>4. QED
  BY <1>3 DEF IsParentless
-----------------------------------------------------------------------------
(* Shutting down. *)

\* What the theorem needs of the graph and of the commands.  An instance that
\* its pre-initial parents satisfy has no other parents: else it has to wait
\* for one of them to be spawned.  Parentless tasks do not expire, which would
\* release them from runahead with the next instance left out.
LeavesNothing ==
    /\ KeepsOutputs
    /\ Commands \subseteq {"hold", "stop"}
    /\ NoSuicide
    /\ \A i \in Inst : IsParentless(i) => i[1] \notin Expires
    /\ \A i \in Inst : Satisfied(i, {}) => IsParentless(i)

Rooted(s) == \A n \in Names : FirstParentless(n) \subseteq s.rows

\* At a shutdown the pool is past the stop point.
LEMMA PoolBeyond ==
    ASSUME NEW s, Sound(s), Agree(s), Whole(s, {}, {}, {}), CanShutDown(s),
           \A k \in s.pool :
             k[2] <= s.stopPoint /\ (\A j \in s.pool : k[2] <= j[2])
                 => k \notin s.runahead
    PROVE  \A k \in s.pool : ~(k[2] <= s.stopPoint)
<1> SUFFICES ASSUME NEW k \in s.pool, k[2] <= s.stopPoint PROVE FALSE
  OBVIOUS
<1>1. PICK j \in s.pool : BasePoint(s) = j[2]
  BY BaseOf
<1>2. \A i \in s.pool : j[2] <= i[2]
  BY <1>1, BaseOf
<1>3. /\ j[2] \in Int /\ k[2] \in Int /\ s.stopPoint \in Int
  BY SoundPool DEF Sound, PoolRecord
<1>4. j[2] <= s.stopPoint
  BY <1>2, <1>3
<1>5. j \notin s.runahead
  BY <1>2, <1>4
<1>6. j \in Ended(s)
  BY <1>5 DEF CanShutDown, Waiting, Sound
<1>7. ~IsComplete(j, Of(s.outputs, j))
  <2>1. Of(s.outputs, j) = Of(s.recorded, j)
    BY DEF Agree, Of
  <2>2. j \notin Done(s)
    BY DEF Whole
  <2>3. QED
    BY <1>6, <2>1, <2>2 DEF Done
<1>8. IsStalled(s)
  BY <1>6, <1>7 DEF CanShutDown, IsStalled
<1>9. QED
  BY <1>8 DEF CanShutDown

\* A parentless instance up to there has a row, as the chain of those before it
\* goes on from its first member.
LEMMA ParentlessHasRow ==
    ASSUME NEW s, Sound(s), Loose(s) = {}, Whole(s, {}, {}, {}), Rooted(s),
           \A k \in s.pool : ~(k[2] <= s.stopPoint),
           NEW i \in Inst, i[2] <= s.stopPoint, IsParentless(i)
    PROVE  i \in s.rows
<1> SUFFICES ASSUME i \notin s.rows PROVE FALSE
  OBVIOUS
<1> DEFINE P == Points[i[1]]
           M == {p \in P : /\ <<i[1], p>> \notin s.rows /\ p <= i[2]}
<1>1. i[1] \in Names /\ i[2] \in P /\ i = <<i[1], i[2]>>
  BY InstType DEF Inst
<1>2. P \subseteq 1..FinalPoint /\ 1..FinalPoint \subseteq Nat /\ FinalPoint \in Nat
  BY <1>1, GraphAssumption
<1>3. \A p \in P : <<i[1], p>> \in Inst
  BY <1>1, <1>2 DEF Inst
<1>4. i[2] \in M
  BY <1>1, <1>2
<1>5. M \subseteq P /\ M # {}
  BY <1>4
<1>6. \A p \in M : <<i[1], p>> \notin s.rows /\ p <= i[2]
  OBVIOUS
<1>7. \A p \in P : p \in M \/ <<i[1], p>> \in s.rows \/ ~(p <= i[2])
  OBVIOUS
<1> HIDE DEF M, P
<1>8. PICK m \in M : \A p \in M : m <= p
  <2>1. M \subseteq Nat
    BY <1>2, <1>5
  <2>2. Min(M) \in M /\ \A p \in M : Min(M) <= p
    BY <1>5, <2>1, MinExists
  <2>3. QED
    BY <2>2
<1> DEFINE q == <<i[1], m>>
<1>9. q \in Inst /\ q \notin s.rows /\ m \in P /\ m \in Nat /\ m <= i[2]
  BY <1>2, <1>3, <1>5, <1>6, <1>8
<1>10. m = i[2] \/ \E p \in P : m < p
  BY <1>1, <1>2, <1>9
<1>11. IsParentless(q)
  <2>1. ASSUME NEW trg \in UNION Requires[q[1]] PROVE IsPreInitial(q, trg)
    <3>1. trg \in Trigger
      BY <1>1, <2>1, GraphAssumption
    <3>2. trg.back \in Int
      BY <3>1 DEF Trigger
    <3>3. i[2] - trg.back < 1
      BY <2>1 DEF IsParentless, IsPreInitial
    <3>4. i[2] \in Int
      BY <1>1, <1>2
    <3>5. m - trg.back < 1
      BY <1>9, <3>2, <3>3, <3>4
    <3>6. QED
      BY <3>5 DEF IsPreInitial
  <2>2. QED
    BY <2>1 DEF IsParentless
<1> DEFINE B == {p \in P : p < m}
<1>12. CASE B = {}
  <2>1. \A p \in P : q[2] <= p
    <3>1. ASSUME NEW p \in P PROVE m <= p
      <4>1. ~(p < m) /\ p \in Nat
        BY <1>2, <1>12, <3>1
      <4>2. QED
        BY <1>9, <4>1
    <3>2. QED
      BY <3>1
  <2>2. q \in FirstParentless(i[1])
    BY <1>9, <1>11, <2>1 DEF FirstParentless, ParentlessAt, P
  <2>3. QED
    BY <1>1, <1>9, <2>2 DEF Rooted
<1>13. CASE B # {}
  <2>1. B \subseteq 0..FinalPoint
    <3>1. B \subseteq P /\ 1..FinalPoint \subseteq 0..FinalPoint
      BY <1>2
    <3>2. QED
      BY <1>2, <3>1
  <2>2. Max(B) \in B /\ \A p \in B : p <= Max(B)
    BY <1>2, <1>13, <2>1, MaxExists
  <2>3. PICK b \in P : b < m /\ \A p \in P : p < m => p <= b
    BY <2>2
  <2> DEFINE j == <<i[1], b>>
  <2>4. b \in Nat /\ j \in Inst
    BY <1>2, <1>3, <2>3
  <2>5. i[2] \in Nat /\ s.stopPoint \in Nat
    BY <1>1, <1>2 DEF Sound, PoolRecord
  <2>6. b <= i[2] /\ b <= s.stopPoint
    BY <1>9, <2>3, <2>4, <2>5
  <2>7. b \notin M
    BY <1>8, <1>9, <2>3, <2>4
  <2>8. j \in s.rows
    BY <1>7, <2>6, <2>7
  <2>9. q \in NextParentless(j)
    <3>1. ASSUME NEW p \in P, p > b PROVE m <= p
      <4>1. p \in Nat /\ ~(p < m /\ ~(p <= b))
        BY <1>2, <2>3
      <4>2. QED
        BY <1>9, <2>4, <3>1, <4>1
    <3>2. m > b
      BY <1>9, <2>3, <2>4
    <3>3. q \in ParentlessAt(i[1], {p \in P : p > b})
      BY <1>9, <1>11, <3>1, <3>2 DEF ParentlessAt
    <3>4. QED
      BY <3>3 DEF NextParentless, P
  <2>10. j \in Blocked(s)
    BY <1>9, <2>8, <2>9 DEF Whole, Linked
  <2>11. j \in s.pool
    BY <2>10 DEF Blocked, Loose
  <2>12. QED
    BY <2>6, <2>11
<1>14. QED
  BY <1>12, <1>13

\* One whose parents completed outputs that satisfy it was spawned by them.
LEMMA ChildHasRow ==
    ASSUME NEW s, Whole(s, {}, {}, {}), s.recorded \subseteq Key,
           NEW i \in Inst, Satisfied(i, s.recorded), ~Satisfied(i, {})
    PROVE  i \in s.rows
<1>1. PICK clause \in Requires[i[1]] : \A trg \in clause : ~IsPreInitial(i, trg)
  BY DEF Satisfied
<1>2. PICK trg \in clause : KeyOf(i, trg) \in s.recorded
  BY <1>1 DEF Satisfied
<1> DEFINE e == KeyOf(i, trg)
<1>3. e = <<e[1], e[2]>>
  BY DEF KeyOf
<1>4. trg \in UNION Requires[i[1]]
  BY <1>1, <1>2
<1>5. i \in Children(e[1], e[2])
  BY <1>3, <1>4 DEF Children
<1>6. QED
  BY <1>2, <1>5 DEF Whole, Raised

LEMMA ShutDownMisses ==
    ASSUME LeavesNothing,
           NEW s, Sound(s), Loose(s) = {}, Agree(s), Whole(s, {}, {}, {}), Rooted(s),
           CanShutDown(s),
           \A k \in s.pool :
             k[2] <= s.stopPoint /\ (\A j \in s.pool : k[2] <= j[2])
                 => k \notin s.runahead,
           NEW i \in Inst, i[2] <= s.stopPoint, Satisfied(i, s.recorded)
    PROVE  i \in Ended(s) /\ IsComplete(i, Of(s.recorded, i))
<1>1. \A k \in s.pool : ~(k[2] <= s.stopPoint)
  BY PoolBeyond
<1>2. i \in s.rows
  <2>1. CASE IsParentless(i)
    BY <1>1, <2>1, ParentlessHasRow
  <2>2. CASE ~IsParentless(i)
    <3>1. ~Satisfied(i, {})
      BY <2>2 DEF LeavesNothing
    <3>2. s.recorded \subseteq Key
      BY DEF Sound, PoolRecord
    <3>3. QED
      BY <3>1, <3>2, ChildHasRow
  <2>3. QED
    BY <2>1, <2>2
<1>3. i \in Done(s)
  BY <1>1, <1>2 DEF Whole, NoneLost
<1>4. QED
  BY <1>3 DEF Done

Left ==
    /\ Whole(tp, {}, {}, {})
    /\ Rooted(tp)
    /\ NothingMissed

LEMMA PassWhole ==
    ASSUME NEW s, Sound(s), Loose(s) = {}, Whole(s, {}, {}, {}), Rooted(s)
    PROVE  LET t == Twice(s) IN
           Sound(t) /\ Loose(t) = {} /\ Whole(t, {}, {}, {}) /\ Rooted(t)
<1> DEFINE r == ReleaseRunahead(s)
           t == ReleaseRunahead(r)
<1>1. Twice(s) = t
  BY DEF Twice
<1>2. Sound(r) /\ Loose(r) = {} /\ Whole(r, {}, {}, {}) /\ s.rows \subseteq r.rows
  BY ReleaseRunaheadSound, ReleaseWhole
<1> HIDE DEF r
<1>3. Sound(t) /\ Loose(t) = {} /\ Whole(t, {}, {}, {}) /\ r.rows \subseteq t.rows
  BY <1>2, ReleaseRunaheadSound, ReleaseWhole
<1> HIDE DEF t
<1>4. QED
  BY <1>1, <1>2, <1>3 DEF Rooted

LEMMA LoadWhole ==
    /\ Sound(LoadFromPoint) /\ Loose(LoadFromPoint) = {}
    /\ Whole(LoadFromPoint, {}, {}, {}) /\ Rooted(LoadFromPoint)
<1> DEFINE C == {i \in Inst : i \in FirstParentless(i[1])}
           s == Spawn(EmptyPool, C)
           c == ComputeRunahead(s)
<1>1. LoadFromPoint = Twice(Twice(Twice(Twice(Twice(c)))))
  BY DEF LoadFromPoint, SpawnToRunaheadLimit
<1>2. C \subseteq Inst
  OBVIOUS
<1>3. \A n \in Names : FirstParentless(n) \subseteq C
  BY DEF FirstParentless, ParentlessAt
<1> HIDE DEF C
<1>4. Whole(EmptyPool, {}, {}, {})
  <2>1. Ended(EmptyPool) = {}
    BY DEF EmptyPool, Ended
  <2>2. QED
    BY <2>1 DEF EmptyPool, Whole, NoneLost, Done, Linked, Raised, LimitKnown
<1>5. Sound(EmptyPool) /\ Loose(EmptyPool) = {}
  BY EmptyPoolSound
<1>6. Keeps(EmptyPool, s) /\ Whole(s, {}, {}, {}) /\ C \subseteq s.rows
  BY <1>2, <1>4, <1>5, SpawnKeeps, SpawnWhole
<1> HIDE DEF s
<1>7. Sound(s) /\ Loose(s) = {} /\ Rooted(s)
  BY <1>3, <1>5, <1>6 DEF Keeps, Rooted
<1>8. c.rows = s.rows
  BY <1>7 DEF ComputeRunahead, Sound, PoolRecord
<1>9. Sound(c) /\ Loose(c) = {} /\ Whole(c, {}, {}, {}) /\ Rooted(c)
  BY <1>6, <1>7, <1>8, ComputeRunaheadKeeps, ComputeWhole DEF Keeps, Rooted
<1> HIDE DEF c
<1>10. LET d == Twice(Twice(c)) IN
       Sound(d) /\ Loose(d) = {} /\ Whole(d, {}, {}, {}) /\ Rooted(d)
  BY <1>9, PassWhole
<1>11. LET d == Twice(Twice(Twice(Twice(c)))) IN
       Sound(d) /\ Loose(d) = {} /\ Whole(d, {}, {}, {}) /\ Rooted(d)
  BY <1>10, PassWhole
<1>12. QED
  BY <1>1, <1>11, PassWhole

LEMMA InitLeft == Init => Left
<1> SUFFICES ASSUME Init PROVE Left
  OBVIOUS
<1> DEFINE s == LoadFromPoint
           Q == {i \in s.pool : CanQueue(s, i)}
<1>1. tp = [s EXCEPT !.queued = Q]
  BY DEF Init
<1>2. Sound(s) /\ Whole(s, {}, {}, {}) /\ Rooted(s)
  BY LoadWhole
<1> HIDE DEF s
<1>3. \A i \in Q : i \in May(s) /\ i \notin s.runahead
  BY <1>2, CanQueueMay DEF CanQueue
<1> HIDE DEF Q
<1>4. Flagged(s, tp)
  BY <1>1, <1>2, <1>3 DEF Flagged, Sound, PoolRecord
<1>5. Whole(tp, {}, {}, {}) /\ Rooted(tp)
  BY <1>2, <1>4, FlaggedWhole DEF Flagged, Rooted
<1>6. runState = "running"
  BY DEF Init
<1>7. QED
  BY <1>5, <1>6 DEF Left, NothingMissed

\* Only the main loop shuts the scheduler down by itself.
LEMMA NextLeft ==
    ASSUME LeavesNothing, Inv, Agree(tp), Agree(tp)', Left, [Next]_vars
    PROVE  Left'
<1>1. Sound(tp) /\ Loose(tp) = {} /\ Sound(tp') /\ Loose(tp') = {}
  BY NextInv DEF Inv, Loose
<1>2. Whole(tp, {}, {}, {}) /\ Rooted(tp)
  BY DEF Left
<1>3. ASSUME Whole(tp', {}, {}, {}), tp.rows \subseteq tp'.rows,
             runState' # "complete"
      PROVE  Left'
  <2>1. Whole(tp', {}, {}, {}) /\ Rooted(tp') /\ NothingMissed'
    BY <1>2, <1>3 DEF Rooted, NothingMissed
  <2>2. QED
    BY <2>1 DEF Left, Whole, NoneLost, Done, Ended, Linked, Blocked, Begun, Raised,
                LimitKnown, Rooted
<1>4. CASE MainLoop
  <2>1. tp' = ReleaseRunahead(ComputeRunahead(tp))
        /\ (runState' = "complete" => CanShutDown(tp'))
    BY <1>4 DEF MainLoop
  <2>2. /\ Whole(tp', {}, {}, {})
        /\ tp.rows \subseteq tp'.rows
        /\ \A k \in tp'.pool :
             k[2] <= tp'.stopPoint /\ (\A j \in tp'.pool : k[2] <= j[2])
                 => k \notin tp'.runahead
    BY <1>1, <1>2, <2>1, LoopWhole
  <2>3. Rooted(tp')
    BY <1>2, <2>2 DEF Rooted
  <2>4. Agree(tp')
    BY DEF Agree
  <2>5. ASSUME runState' = "complete", NEW i \in Inst, i[2] <= tp'.stopPoint,
               Satisfied(i, tp'.recorded)
        PROVE  i \in Ended(tp') /\ IsComplete(i, Of(tp'.recorded, i))
    BY <1>1, <2>1, <2>2, <2>3, <2>4, <2>5, ShutDownMisses
  <2>6. NothingMissed'
    BY <2>5 DEF NothingMissed, Ended
  <2>7. QED
    BY <2>2, <2>3, <2>6
       DEF Left, Whole, NoneLost, Done, Ended, Linked, Blocked, Begun, Raised,
           LimitKnown, Rooted
<1>5. CASE \/ \E i \in Inst : QueueIfReady(i) \/ HoldTask(i) \/ ReleaseHeldTask(i)
           \/ \E p \in AllPoints : SetHoldPoint(p)
           \/ ReleaseHoldPoint
  <2>1. runState' = "running"
    BY <1>5 DEF QueueIfReady, HoldTask, ReleaseHeldTask, SetHoldPoint,
                ReleaseHoldPoint, Command
  <2>2. Flagged(tp, tp')
    BY <1>1, <1>5, QueueFlagged, HoldFlags
  <2>3. Whole(tp', {}, {}, {}) /\ tp.rows \subseteq tp'.rows
    BY <1>2, <2>2, FlaggedWhole DEF Flagged
  <2>4. QED
    BY <1>3, <2>1, <2>3
<1>6. ASSUME NEW i \in Inst, ReleaseTask(i) PROVE Left'
  <2>1. runState' # "complete"
    BY <1>6 DEF ReleaseTask
  <2>2. QED
    BY <1>1, <1>2, <1>3, <1>6, <2>1, SubmittedWhole
<1>7. ASSUME NEW i \in Inst, NEW output \in Emits[i[1]], JobOutput(i, output)
      PROVE  Left'
  <2>1. /\ output \in Outputs /\ i \in tp.pool /\ i \notin Blocked(tp)
        /\ tp' = ProcessMessage(tp, i, output) /\ runState' # "complete"
    BY <1>7, InstType, PoolAssumption DEF JobOutput, Blocked, Begun
  <2>2. Whole(tp', {}, {}, {}) /\ tp.rows \subseteq tp'.rows
    BY <1>1, <1>2, <2>1, MessageWhole DEF LeavesNothing
  <2>3. QED
    BY <1>3, <2>1, <2>2
<1>8. ASSUME NEW i \in Inst, Expire(i) PROVE Left'
  <2>1. /\ "expired" \in Outputs /\ i \in tp.pool /\ i[1] \in Expires
        /\ tp' = ProcessMessage(tp, i, "expired") /\ runState' # "complete"
    BY <1>8 DEF Expire, Outputs, FinalStatus
  <2>2. NextParentless(i) = {}
    <3>1. ~IsParentless(i)
      BY <2>1 DEF LeavesNothing
    <3>2. QED
      BY <3>1, EarlierParentless
  <2>3. Whole(tp', {}, {}, {}) /\ tp.rows \subseteq tp'.rows
    BY <1>1, <1>2, <2>1, <2>2, MessageWhole DEF LeavesNothing
  <2>4. QED
    BY <1>3, <2>1, <2>3
<1>9. ASSUME NEW i \in Inst, \/ SetPrereqs(i) \/ RemoveTask(i)
                             \/ \E output \in Emits[i[1]] : SetOutput(i, output)
      PROVE  Left'
  BY <1>9 DEF SetPrereqs, SetOutput, RemoveTask, Command, LeavesNothing
<1>10. ASSUME NEW p \in AllPoints, SetStopPoint(p) PROVE Left'
  BY <1>10 DEF SetStopPoint, Command, LeavesNothing
<1>11. CASE StopNow
  <2>1. runState' = "stopped" /\ tp' = tp
    BY <1>11 DEF StopNow
  <2>2. QED
    BY <1>2, <1>3, <2>1
<1>12. CASE Restart
  <2>1. runState' = "running"
    BY <1>12 DEF Restart
  <2>2. QED
    BY <1>1, <1>2, <1>3, <1>12, <2>1, RestartWhole
<1>13. CASE UNCHANGED vars
  BY <1>13 DEF vars, Left, NothingMissed, Whole, NoneLost, Done, Ended, Linked,
               Blocked, Begun, Raised, LimitKnown, Rooted
<1>14. QED
  BY <1>4, <1>5, <1>6, <1>7, <1>8, <1>9, <1>10, <1>11, <1>12, <1>13 DEF Next

\* When the scheduler shuts down by itself (check_auto_shutdown, is_stalled),
\* every instance up to the stop point that the outputs completed so far satisfy
\* has been run and is complete, whatever was held and released, and however
\* often the workflow was stopped and restarted.
THEOREM ShutDownLeavesNothing ==
    ASSUME LeavesNothing
    PROVE  Spec => []NothingMissed
<1>1. Inv /\ Agree(tp) /\ Agree(tp)' /\ Left /\ [Next]_vars => Left'
  BY NextLeft
<1>2. Left => NothingMissed
  BY DEF Left
<1>3. KeepsOutputs
  BY DEF LeavesNothing
<1>4. QED
  BY <1>1, <1>2, <1>3, InitLeft, Invariance, AgreeInvariance, PTL DEF Spec
===========================================================================
