--------------------------- MODULE DataflowProofs ---------------------------
(* What the task pool remembers of the tasks that ran, for any graph: the
   outputs of its proxies and of the database agree, what is satisfied was
   completed, a task that succeeded is not run again, and the pool implements
   the dataflow of the graph.

   Each of these holds up to the commands that rewrite history; the hypotheses
   name them.  A restart forgets the outputs of expired tasks and those whose
   message is not their name. *)
EXTENDS TaskPoolProofs

\* cylc set is used with final outputs only: a custom output on a task that is
\* waiting or finished would be recorded for a task that waits.
SetsFinal == "set outputs" \in Commands => \A n \in Names : Emits[n] \subseteq FinalStatus

NothingExpires == Expires = {} /\ \A n \in Names : "expired" \notin Emits[n]

\* The commands leave the outputs of proxies and database alike.
KeepsOutputs ==
    /\ "set prereqs" \notin Commands
    /\ "stop" \in Commands => SetsFinal /\ NothingExpires /\ Renamed = {}

\* The tasks that have begun, and the parts of the invariant: outputs are those
\* of tasks that have begun, of which proxies and database know the same, and
\* which alone satisfy others; and a queued task is ready by such outputs.
Begun(s) == s.active \cup Ended(s)
Began(s) == \A e \in s.recorded : e[1] \in Begun(s)
Agree(s) ==
    \A e \in s.outputs \cup s.recorded :
        e[1] \in s.pool => e \in s.outputs \cap s.recorded
Backed(s) == \A e \in s.sat : e[2] \in s.recorded
QueueReady(s) == s.forced = {} /\ \A i \in s.queued : Satisfied(i, Of(s.sat, i))
-----------------------------------------------------------------------------
(* The methods that spawn, satisfy, limit and remove. *)

Follows(s, t) ==
    /\ t.active = s.active
    /\ t.ended = s.ended
    /\ t.recorded = s.recorded
    /\ t.forced \subseteq s.forced
    /\ t.queued \subseteq s.queued
    /\ Agree(s) => Agree(t)
    /\ Backed(s) => Backed(t)
    /\ \A e \in s.sat : e[1] \in t.queued => e \in t.sat

LEMMA FollowsTransitive ==
    ASSUME NEW s, NEW t, NEW u, Follows(s, t), Follows(t, u)
    PROVE  Follows(s, u)
BY DEF Follows

LEMMA FollowsItself == \A s : Follows(s, s)
BY DEF Follows

\* More satisfied keys satisfy no less.
LEMMA SatisfiedMonotone ==
    ASSUME NEW i, NEW K, NEW L, K \subseteq L, Satisfied(i, K)
    PROVE  Satisfied(i, L)
BY DEF Satisfied

LEMMA FollowsQueueReady ==
    ASSUME NEW s, NEW t, Follows(s, t), QueueReady(s)
    PROVE  QueueReady(t)
<1>1. ASSUME NEW i \in t.queued PROVE Satisfied(i, Of(t.sat, i))
  <2>1. Satisfied(i, Of(s.sat, i))
    BY <1>1 DEF Follows, QueueReady
  <2>2. Of(s.sat, i) \subseteq Of(t.sat, i)
    BY <1>1 DEF Follows, Of
  <2>3. QED
    BY <2>1, <2>2, SatisfiedMonotone
<1>2. QED
  BY <1>1 DEF Follows, QueueReady

\* Methods that change only flags, lists and limits.
LEMMA FollowsFrom ==
    ASSUME NEW s, NEW t,
           t.pool = s.pool, t.active = s.active, t.ended = s.ended,
           t.outputs = s.outputs, t.recorded = s.recorded,
           t.sat = s.sat, t.forced = s.forced, t.queued \subseteq s.queued
    PROVE  Follows(s, t)
BY DEF Follows, Agree, Backed

LEMMA AddFollows ==
    ASSUME NEW s, Sound(s), NEW N, NEW H
    PROVE  Follows(s, AddToPool(s, N, H))
<1> DEFINE t == AddToPool(s, N, H)
<1>1. /\ t.pool = s.pool \cup N
      /\ t.active = s.active /\ t.ended = s.ended
      /\ t.outputs = Without(s.outputs, N) \cup {e \in s.recorded : e[1] \in N}
      /\ t.recorded = s.recorded
      /\ t.sat = s.sat /\ t.forced = s.forced /\ t.queued = s.queued
  BY DEF Sound, PoolRecord, AddToPool
<1> HIDE DEF t
<1>2. Agree(s) => Agree(t)
  BY <1>1 DEF Agree, Without
<1>3. Follows(s, t)
  BY <1>1, <1>2 DEF Follows, Backed
<1>4. QED
  BY <1>3 DEF t

LEMMA SpawnFollows ==
    ASSUME NEW s, Sound(s), NEW C
    PROVE  Follows(s, Spawn(s, C))
BY AddFollows DEF Spawn

LEMMA SpawnNextFollows ==
    ASSUME NEW s, Sound(s), NEW R
    PROVE  Follows(s, SpawnNextParentless(s, R))
BY SpawnFollows DEF SpawnNextParentless

LEMMA DropFollows ==
    ASSUME NEW s, Sound(s), NEW R
    PROVE  Follows(s, Drop(s, R))
<1> DEFINE t == Drop(s, R)
<1>1. /\ t.pool = s.pool \ R
      /\ t.active = s.active /\ t.ended = s.ended
      /\ t.outputs = s.outputs /\ t.recorded = s.recorded
      /\ t.sat = Without(s.sat, R) /\ t.forced = Without(s.forced, R)
      /\ t.queued = s.queued \ R
  BY DEF Sound, PoolRecord, Drop
<1> HIDE DEF t
<1>2. Agree(s) => Agree(t)
  BY <1>1 DEF Agree
<1>3. Backed(s) => Backed(t)
  BY <1>1 DEF Backed, Without
<1>4. Follows(s, t)
  BY <1>1, <1>2, <1>3 DEF Follows, Without
<1>5. QED
  BY <1>4 DEF t

LEMMA RemoveFollows ==
    ASSUME NEW s, Sound(s), NEW R
    PROVE  Follows(s, Remove(s, R))
<1> DEFINE n == SpawnNextParentless(s, R \cap s.runahead)
<1>1. Sound(n) /\ Follows(s, n)
  BY SpawnNextKeeps, SpawnNextFollows DEF Keeps
<1>2. Remove(s, R) = Drop(n, R)
  BY DEF Remove
<1> HIDE DEF n
<1>3. QED
  BY <1>1, <1>2, DropFollows, FollowsTransitive

LEMMA RemoveIfCompleteFollows ==
    ASSUME NEW s, Sound(s), NEW i
    PROVE  Follows(s, RemoveIfComplete(s, i))
BY RemoveFollows, FollowsItself DEF RemoveIfComplete

LEMMA SatisfyFollows ==
    ASSUME NEW s, Sound(s), NEW C, NEW key \in s.recorded
    PROVE  Follows(s, Satisfy(s, C, key))
<1> DEFINE t == Satisfy(s, C, key)
           new == {<<c, key>> : c \in C} \ s.forced
<1>1. \A e \in new : e[2] = key
  OBVIOUS
<1>2. t = [s EXCEPT !.sat = @ \cup new]
  BY DEF Satisfy
<1> HIDE DEF t, new
<1>3. /\ t.pool = s.pool
      /\ t.active = s.active /\ t.ended = s.ended
      /\ t.outputs = s.outputs /\ t.recorded = s.recorded
      /\ t.sat = s.sat \cup new /\ t.forced = s.forced /\ t.queued = s.queued
  BY <1>2 DEF Sound, PoolRecord
<1>4. Follows(s, t)
  BY <1>1, <1>3 DEF Follows, Agree, Backed
<1>5. QED
  BY <1>4 DEF t

LEMMA SpawnOnOutputFollows ==
    ASSUME NEW s, Sound(s), NEW i \in Inst, NEW output \in Outputs,
           <<i, output>> \in s.recorded
    PROVE  Follows(s, SpawnOnOutput(s, i, output))
<1> DEFINE K == Children(i, output)
           spawned == Spawn(s, K)
           kids == K \cap spawned.pool
           told == Satisfy(spawned, kids, <<i, output>>)
           suicide == {c \in kids : SuicideSatisfied(c, SatisfiedKeys(told, c))}
           left == Remove(told, suicide)
<1>1. K \subseteq Inst /\ \A c \in K : i[2] <= c[2]
  BY ChildIsLater
<1>2. SpawnOnOutput(s, i, output) = RemoveIfComplete(left, i)
  BY DEF SpawnOnOutput
<1> HIDE DEF K
<1>3. Sound(spawned) /\ Follows(s, spawned)
  BY <1>1, SpawnKeeps, SpawnFollows DEF Keeps
<1> HIDE DEF spawned
<1>4. /\ <<i, output>> \in Key /\ kids \subseteq spawned.pool
      /\ \A c \in kids : <<i, output>>[1][2] <= c[2]
      /\ <<i, output>> \in spawned.recorded
  BY <1>1, <1>3 DEF Key, Follows
<1>5. Sound(told) /\ Follows(spawned, told)
  BY <1>3, <1>4, SatisfyKeeps, SatisfyFollows DEF Keeps
<1> HIDE DEF told
<1>6. Sound(left) /\ Follows(told, left)
  BY <1>5, RemoveKeeps, RemoveFollows DEF Keeps
<1> HIDE DEF left
<1>7. Follows(left, RemoveIfComplete(left, i))
  BY <1>6, RemoveIfCompleteFollows
<1>8. QED
  BY <1>2, <1>3, <1>5, <1>6, <1>7, FollowsTransitive

LEMMA ComputeRunaheadFollows ==
    ASSUME NEW s, Sound(s)
    PROVE  Follows(s, ComputeRunahead(s))
<1> DEFINE t == ComputeRunahead(s)
<1>1. /\ t.pool = s.pool
      /\ t.active = s.active /\ t.ended = s.ended
      /\ t.outputs = s.outputs /\ t.recorded = s.recorded
      /\ t.sat = s.sat /\ t.forced = s.forced /\ t.queued = s.queued
  BY DEF Sound, PoolRecord, ComputeRunahead
<1> HIDE DEF t
<1>2. Follows(s, t)
  BY <1>1, FollowsFrom
<1>3. QED
  BY <1>2 DEF t

LEMMA ReleaseRunaheadFollows ==
    ASSUME NEW s, Sound(s)
    PROVE  Follows(s, ReleaseRunahead(s))
<1> DEFINE R == {i \in s.runahead : i[2] <= s.limit}
           u == [s EXCEPT !.runahead = @ \ R]
<1>1. ReleaseRunahead(s) = SpawnNextParentless(u, R)
  BY DEF ReleaseRunahead
<1>2. u \in PoolRecord
  BY DEF Sound, PoolRecord
<1>3. /\ u.pool = s.pool /\ u.rows = s.rows
      /\ u.active = s.active /\ u.ended = s.ended
      /\ u.outputs = s.outputs /\ u.recorded = s.recorded
      /\ u.sat = s.sat /\ u.forced = s.forced /\ u.queued = s.queued
      /\ u.held = s.held /\ u.toHold = s.toHold
      /\ u.limit = s.limit /\ u.stopPoint = s.stopPoint
  BY DEF Sound, PoolRecord
<1> HIDE DEF R, u
<1>4. Sound(u)
  BY <1>2, <1>3, SoundFrom DEF Sound
<1>5. Follows(s, u) /\ Follows(u, SpawnNextParentless(u, R))
  BY <1>3, <1>4, FollowsFrom, SpawnNextFollows
<1>6. QED
  BY <1>1, <1>5, FollowsTransitive

LEMMA RunaheadFollows ==
    ASSUME NEW s, Sound(s)
    PROVE  Follows(s, ReleaseRunahead(ComputeRunahead(s)))
<1>1. Sound(ComputeRunahead(s)) /\ Follows(s, ComputeRunahead(s))
  BY ComputeRunaheadKeeps, ComputeRunaheadFollows DEF Keeps
<1>2. QED
  BY <1>1, ReleaseRunaheadFollows, FollowsTransitive
-----------------------------------------------------------------------------
(* Completing an output. *)

\* What is recorded then: of its own task, what the proxy knows.
Recorded(s, i, output) ==
    Without(s.recorded, {i}) \cup {e \in s.outputs : e[1] = i} \cup {<<i, output>>}

LEMMA Completed ==
    ASSUME NEW s, Sound(s), NEW i \in s.rows, NEW output \in Outputs
    PROVE  LET t == CompleteOutput(s, i, output) IN
           /\ Sound(t)
           /\ t.pool = s.pool
           /\ t.outputs = s.outputs \cup {<<i, output>>}
           /\ t.recorded = Recorded(s, i, output)
           /\ t.sat = s.sat /\ t.forced = s.forced
           /\ t.queued \subseteq s.queued
           /\ t.active \subseteq s.active
           /\ \A e \in t.ended : e \in s.ended \/ e = <<i, output>>
           /\ Begun(t) = IF output \in FinalStatus
                         THEN Begun(s) \cup {i} ELSE Begun(s)
<1> DEFINE t == CompleteOutput(s, i, output)
           u == EndWith(s, i, output)
           gone == IF output = "expired" THEN {i} ELSE {}
<1>1. /\ u.pool = s.pool /\ u.outputs = s.outputs /\ u.recorded = s.recorded
      /\ u.sat = s.sat /\ u.forced = s.forced /\ u.queued = s.queued
      /\ IF output \in FinalStatus
         THEN /\ u.active = s.active \ {i}
              /\ u.ended = Without(s.ended, {i}) \cup {<<i, output>>}
         ELSE u.active = s.active /\ u.ended = s.ended
      /\ DOMAIN u = DOMAIN s
  BY DEF EndWith, Sound, PoolRecord
<1>2. /\ t.pool = u.pool
      /\ t.outputs = u.outputs \cup {<<i, output>>}
      /\ t.recorded = Without(u.recorded, {i}) \cup {e \in s.outputs : e[1] = i}
                          \cup {<<i, output>>}
      /\ t.sat = u.sat /\ t.forced = u.forced /\ t.queued = u.queued \ gone
      /\ t.active = u.active /\ t.ended = u.ended
  BY DEF CompleteOutput, EndWith, Sound, PoolRecord
<1>3. Sound(t)
  BY CompleteOutputSound
<1> HIDE DEF t, u
<1>4. Begun(t) = IF output \in FinalStatus
                 THEN Begun(s) \cup {i} ELSE Begun(s)
  <2>1. CASE output \in FinalStatus
    <3>1. t.ended = Without(s.ended, {i}) \cup {<<i, output>>}
      BY <1>1, <1>2, <2>1
    <3>2. /\ \A e \in t.ended : e \in s.ended \/ e[1] = i
          /\ \A e \in s.ended : e \in t.ended \/ e[1] = i
          /\ <<i, output>> \in t.ended /\ <<i, output>>[1] = i
      BY <3>1 DEF Without
    <3>3. Ended(t) = Ended(s) \cup {i}
      BY <3>2, EndedAfter
    <3>4. QED
      BY <1>1, <1>2, <2>1, <3>3 DEF Begun
  <2>2. CASE output \notin FinalStatus
    BY <1>1, <1>2, <2>2 DEF Begun, Ended
  <2>3. QED
    BY <2>1, <2>2
<1>5. \A e \in t.ended : e \in s.ended \/ e = <<i, output>>
  BY <1>1, <1>2 DEF Without
<1>6. t.active \subseteq s.active
  BY <1>1, <1>2
<1>7. QED
  BY <1>1, <1>2, <1>3, <1>4, <1>5, <1>6 DEF t, Recorded

\* What process_message does after the output is completed is to spawn, satisfy
\* and remove.
LEMMA Processed ==
    ASSUME NEW s, Sound(s), NEW i \in s.rows, NEW output \in Outputs
    PROVE  Follows(CompleteOutput(s, i, output), ProcessMessage(s, i, output))
<1> DEFINE u == CompleteOutput(s, i, output)
<1>1. i \in Inst
  BY DEF Sound, PoolRecord
<1>2. Sound(u) /\ u.recorded = Recorded(s, i, output)
  BY Completed
<1>3. ProcessMessage(s, i, output) = SpawnOnOutput(u, i, output)
  BY DEF ProcessMessage
<1> HIDE DEF u
<1>4. <<i, output>> \in u.recorded
  BY <1>2 DEF Recorded
<1>5. Follows(u, SpawnOnOutput(u, i, output))
  BY <1>1, <1>2, <1>4, SpawnOnOutputFollows
<1>6. QED
  BY <1>3, <1>5 DEF u

\* What is recorded of a task that has begun, or ends with this output, remains
\* what is recorded of tasks that have begun.
LEMMA ProcessedBegan ==
    ASSUME NEW s, Sound(s), NEW i \in s.rows, NEW output \in Outputs,
           i \in Begun(s) \/ output \in FinalStatus,
           \A e \in s.recorded : e[1] \in Begun(s) \cup {i}
    PROVE  Began(ProcessMessage(s, i, output))
<1> DEFINE u == CompleteOutput(s, i, output)
           t == ProcessMessage(s, i, output)
<1>1. /\ u.recorded = Recorded(s, i, output)
      /\ Begun(u) = IF output \in FinalStatus THEN Begun(s) \cup {i} ELSE Begun(s)
  BY Completed
<1>2. Follows(u, t)
  BY Processed
<1> HIDE DEF u, t
<1>3. Began(u)
  BY <1>1 DEF Began, Without, Recorded
<1>4. Began(t)
  BY <1>2, <1>3 DEF Follows, Began, Begun, Ended
<1>5. QED
  BY <1>4 DEF t

LEMMA ProcessedAgree ==
    ASSUME NEW s, Sound(s), NEW i \in s.rows, NEW output \in Outputs, Agree(s)
    PROVE  Agree(ProcessMessage(s, i, output))
<1> DEFINE u == CompleteOutput(s, i, output)
<1>1. /\ u.pool = s.pool
      /\ u.outputs = s.outputs \cup {<<i, output>>}
      /\ u.recorded = Recorded(s, i, output)
  BY Completed
<1>2. Follows(u, ProcessMessage(s, i, output))
  BY Processed
<1> HIDE DEF u
<1>3. Agree(u)
  BY <1>1 DEF Agree, Without, Recorded
<1>4. QED
  BY <1>2, <1>3 DEF Follows

\* No recorded output is lost if the proxy knows those of its task.
LEMMA ProcessedBacked ==
    ASSUME NEW s, Sound(s), NEW i \in s.rows, NEW output \in Outputs, Backed(s),
           \A e \in s.recorded : e[1] = i => e \in s.outputs
    PROVE  Backed(ProcessMessage(s, i, output))
<1> DEFINE u == CompleteOutput(s, i, output)
<1>1. /\ u.sat = s.sat
      /\ u.recorded = Recorded(s, i, output)
  BY Completed
<1>2. Follows(u, ProcessMessage(s, i, output))
  BY Processed
<1> HIDE DEF u
<1>3. s.recorded \subseteq u.recorded
  BY <1>1 DEF Without, Recorded
<1>4. Backed(u)
  BY <1>1, <1>3 DEF Backed
<1>5. QED
  BY <1>2, <1>4 DEF Follows

LEMMA ProcessedQueueReady ==
    ASSUME NEW s, Sound(s), NEW i \in s.rows, NEW output \in Outputs, QueueReady(s)
    PROVE  QueueReady(ProcessMessage(s, i, output))
<1> DEFINE u == CompleteOutput(s, i, output)
<1>1. u.sat = s.sat /\ u.forced = s.forced /\ u.queued \subseteq s.queued
  BY Completed
<1>2. Follows(u, ProcessMessage(s, i, output))
  BY Processed
<1> HIDE DEF u
<1>3. QueueReady(u)
  BY <1>1 DEF QueueReady
<1>4. QED
  BY <1>2, <1>3, FollowsQueueReady
-----------------------------------------------------------------------------
(* The actions in which no task begins and no output is completed or erased. *)

Quiet(s, t) ==
    /\ t.active = s.active /\ t.ended = s.ended /\ t.recorded = s.recorded
    /\ Agree(s) => Agree(t)
    /\ Backed(s) => Backed(t)
    /\ QueueReady(s) => QueueReady(t)

LEMMA FollowsQuiet ==
    ASSUME NEW s, NEW t, Follows(s, t)
    PROVE  Quiet(s, t)
BY FollowsQueueReady DEF Follows, Quiet

\* Flags and lists change, and tasks are queued that are ready.
LEMMA FlagsQuiet ==
    ASSUME NEW s, NEW t,
           t.pool = s.pool, t.active = s.active, t.ended = s.ended,
           t.outputs = s.outputs, t.recorded = s.recorded,
           t.sat = s.sat, t.forced = s.forced,
           \A i \in t.queued : i \in s.queued \/ IsReady(s, i)
    PROVE  Quiet(s, t)
<1>1. ASSUME QueueReady(s) PROVE QueueReady(t)
  <2>1. s.forced = {} /\ s.sat \cup s.forced = s.sat
    BY <1>1 DEF QueueReady
  <2>2. \A i : IsReady(s, i) <=> Satisfied(i, Of(s.sat, i))
    BY <2>1 DEF IsReady, SatisfiedKeys
  <2>3. QED
    BY <1>1, <2>1, <2>2 DEF QueueReady
<1>2. QED
  BY <1>1 DEF Quiet, Agree, Backed

LEMMA QueueQuiet ==
    ASSUME Sound(tp), NEW i \in Inst, QueueIfReady(i)
    PROVE  Quiet(tp, tp')
<1>1. tp' = [tp EXCEPT !.queued = @ \cup {i}] /\ IsReady(tp, i)
  BY DEF QueueIfReady, CanQueue
<1>2. /\ tp'.pool = tp.pool /\ tp'.active = tp.active /\ tp'.ended = tp.ended
      /\ tp'.outputs = tp.outputs /\ tp'.recorded = tp.recorded
      /\ tp'.sat = tp.sat /\ tp'.forced = tp.forced
      /\ tp'.queued = tp.queued \cup {i}
  BY <1>1 DEF Sound, PoolRecord
<1>3. QED
  BY <1>1, <1>2, FlagsQuiet

LEMMA UnholdReady ==
    ASSUME NEW s, Sound(s), NEW R
    PROVE  LET t == Unhold(s, R) IN
           /\ t.pool = s.pool /\ t.active = s.active /\ t.ended = s.ended
           /\ t.outputs = s.outputs /\ t.recorded = s.recorded
           /\ t.sat = s.sat /\ t.forced = s.forced
           /\ \A i \in t.queued : i \in s.queued \/ IsReady(s, i)
           /\ DOMAIN t = DOMAIN s
<1> DEFINE free == [s EXCEPT !.held = @ \ R]
           X == {i \in R \cap s.held : CanQueue(free, i)}
           t == [free EXCEPT !.queued = @ \cup X]
<1>1. Unhold(s, R) = t
  BY DEF Unhold
<1>2. free.sat = s.sat /\ free.forced = s.forced
  BY DEF Sound, PoolRecord
<1>3. \A i \in X : IsReady(s, i)
  BY <1>2 DEF CanQueue, IsReady, SatisfiedKeys
<1> HIDE DEF X
<1>4. /\ t.pool = s.pool /\ t.active = s.active /\ t.ended = s.ended
      /\ t.outputs = s.outputs /\ t.recorded = s.recorded
      /\ t.sat = s.sat /\ t.forced = s.forced
      /\ t.queued = s.queued \cup X
      /\ DOMAIN t = DOMAIN s
  BY DEF Sound, PoolRecord
<1> HIDE DEF t
<1>5. QED
  BY <1>1, <1>3, <1>4

LEMMA HoldQuiet ==
    ASSUME Sound(tp),
           \/ \E i \in Inst : HoldTask(i) \/ ReleaseHeldTask(i)
           \/ \E p \in AllPoints : SetHoldPoint(p)
           \/ ReleaseHoldPoint
    PROVE  Quiet(tp, tp')
<1>1. ASSUME NEW i \in Inst, HoldTask(i) PROVE Quiet(tp, tp')
  <2>1. tp' = [tp EXCEPT !.held = @ \cup ({i} \cap tp.pool), !.toHold = @ \cup {i}]
    BY <1>1 DEF HoldTask
  <2>2. /\ tp'.pool = tp.pool /\ tp'.active = tp.active /\ tp'.ended = tp.ended
        /\ tp'.outputs = tp.outputs /\ tp'.recorded = tp.recorded
        /\ tp'.sat = tp.sat /\ tp'.forced = tp.forced /\ tp'.queued = tp.queued
    BY <2>1 DEF Sound, PoolRecord
  <2>3. QED
    BY <2>2, FollowsFrom, FollowsQuiet
<1>2. ASSUME NEW p \in AllPoints, SetHoldPoint(p) PROVE Quiet(tp, tp')
  <2> DEFINE B == {i \in tp.pool : i[2] > p}
  <2>1. tp' = [tp EXCEPT !.holdPoint = p, !.held = @ \cup B, !.toHold = @ \cup B]
    BY <1>2 DEF SetHoldPoint
  <2> HIDE DEF B
  <2>2. /\ tp'.pool = tp.pool /\ tp'.active = tp.active /\ tp'.ended = tp.ended
        /\ tp'.outputs = tp.outputs /\ tp'.recorded = tp.recorded
        /\ tp'.sat = tp.sat /\ tp'.forced = tp.forced /\ tp'.queued = tp.queued
    BY <2>1 DEF Sound, PoolRecord
  <2>3. QED
    BY <2>2, FollowsFrom, FollowsQuiet
<1>3. ASSUME NEW R, NEW T, NEW h, LET u == Unhold(tp, R) IN
                \/ tp' = [u EXCEPT !.toHold = T]
                \/ tp' = [u EXCEPT !.holdPoint = h, !.toHold = T]
      PROVE  Quiet(tp, tp')
  <2> DEFINE u == Unhold(tp, R)
  <2>1. /\ u.pool = tp.pool /\ u.active = tp.active /\ u.ended = tp.ended
        /\ u.outputs = tp.outputs /\ u.recorded = tp.recorded
        /\ u.sat = tp.sat /\ u.forced = tp.forced
        /\ \A i \in u.queued : i \in tp.queued \/ IsReady(tp, i)
        /\ DOMAIN u = DOMAIN tp
    BY UnholdReady
  <2>2. \/ tp' = [u EXCEPT !.toHold = T]
        \/ tp' = [u EXCEPT !.holdPoint = h, !.toHold = T]
    BY <1>3
  <2> HIDE DEF u
  <2>3. /\ tp'.pool = u.pool /\ tp'.active = u.active /\ tp'.ended = u.ended
        /\ tp'.outputs = u.outputs /\ tp'.recorded = u.recorded
        /\ tp'.sat = u.sat /\ tp'.forced = u.forced /\ tp'.queued = u.queued
    BY <2>1, <2>2 DEF Sound, PoolRecord
  <2>4. QED
    BY <2>1, <2>3, FlagsQuiet
<1>4. ASSUME NEW i \in Inst, ReleaseHeldTask(i) PROVE Quiet(tp, tp')
  <2> DEFINE u == Unhold(tp, {i} \cap tp.pool)
  <2>1. tp' = [u EXCEPT !.toHold = u.toHold \ {i}]
    BY <1>4 DEF ReleaseHeldTask
  <2> HIDE DEF u
  <2>2. QED
    BY <1>3, <2>1 DEF u
<1>5. CASE ReleaseHoldPoint
  BY <1>3, <1>5 DEF ReleaseHoldPoint
<1>6. QED
  BY <1>1, <1>2, <1>4, <1>5

LEMMA StopPointQuiet ==
    ASSUME Sound(tp), NEW p \in AllPoints, SetStopPoint(p)
    PROVE  Quiet(tp, tp')
<1> DEFINE back == {i \in tp.pool \cap Waiting(tp) : i[2] > p}
<1>1. \/ tp' = [tp EXCEPT !.stopPoint = p]
      \/ tp' = [[tp EXCEPT !.stopPoint = p] EXCEPT !.limit = p, !.runahead = @ \cup back]
  BY DEF SetStopPoint
<1> HIDE DEF back
<1>2. /\ tp'.pool = tp.pool /\ tp'.active = tp.active /\ tp'.ended = tp.ended
      /\ tp'.outputs = tp.outputs /\ tp'.recorded = tp.recorded
      /\ tp'.sat = tp.sat /\ tp'.forced = tp.forced /\ tp'.queued = tp.queued
  BY <1>1 DEF Sound, PoolRecord
<1>3. QED
  BY <1>2, FollowsFrom, FollowsQuiet

LEMMA QuietActions ==
    ASSUME Sound(tp),
           \/ MainLoop
           \/ \E i \in Inst : QueueIfReady(i) \/ HoldTask(i) \/ ReleaseHeldTask(i)
           \/ \E p \in AllPoints : SetHoldPoint(p) \/ SetStopPoint(p)
           \/ ReleaseHoldPoint
           \/ StopNow
    PROVE  Quiet(tp, tp')
<1>1. CASE MainLoop
  BY <1>1, RunaheadFollows, FollowsQuiet DEF MainLoop
<1>2. CASE StopNow
  BY <1>2, FollowsItself, FollowsQuiet DEF StopNow
<1>3. QED
  BY <1>1, <1>2, QueueQuiet, HoldQuiet, StopPointQuiet
-----------------------------------------------------------------------------
(* The other actions. *)

\* What the clauses are about is kept by all that follows.
LEMMA FollowsBegan ==
    ASSUME NEW s, NEW t, Follows(s, t), Began(s)
    PROVE  Began(t)
BY DEF Follows, Began, Begun, Ended

LEMMA ReleaseHistory ==
    ASSUME Sound(tp), NEW i \in Inst, ReleaseTask(i)
    PROVE  /\ tp'.pool = tp.pool
           /\ tp'.outputs = tp.outputs /\ tp'.recorded = tp.recorded
           /\ tp'.sat = tp.sat /\ tp'.forced = tp.forced
           /\ tp'.queued \subseteq tp.queued
           /\ tp'.ended \subseteq tp.ended
           /\ Begun(tp') = Begun(tp) \cup {i}
<1>1. tp' = [tp EXCEPT !.queued = @ \ {i}, !.active = @ \cup {i},
                       !.ended = Without(@, {i})]
  BY DEF ReleaseTask, Submitted
<1>2. /\ tp'.pool = tp.pool /\ tp'.active = tp.active \cup {i}
      /\ tp'.ended = Without(tp.ended, {i})
      /\ tp'.outputs = tp.outputs /\ tp'.recorded = tp.recorded
      /\ tp'.sat = tp.sat /\ tp'.forced = tp.forced
      /\ tp'.queued = tp.queued \ {i}
  BY <1>1 DEF Sound, PoolRecord
<1>3. /\ \A e \in tp'.ended : e \in tp.ended
      /\ \A e \in tp.ended : e \in tp'.ended \/ e[1] = i
  BY <1>2 DEF Without
<1>4. Begun(tp') = Begun(tp) \cup {i}
  <2>1. ASSUME NEW x \in Begun(tp') PROVE x \in Begun(tp) \cup {i}
    BY <1>2, <1>3 DEF Begun, Ended
  <2>2. ASSUME NEW x \in Begun(tp) \cup {i} PROVE x \in Begun(tp')
    BY <1>2, <1>3 DEF Begun, Ended
  <2>3. QED
    BY <2>1, <2>2
<1>5. QED
  BY <1>2, <1>3, <1>4

LEMMA SetPrereqsHistory ==
    ASSUME Sound(tp), NEW i \in Inst, SetPrereqs(i)
    PROVE  /\ tp'.active = tp.active /\ tp'.ended = tp.ended
           /\ tp'.recorded \subseteq tp.recorded
<1> DEFINE s == Spawn(tp, {i})
           keys == {KeyOf(i, trg) : trg \in
                      {trg \in UNION Requires[i[1]] : ~IsPreInitial(i, trg)}}
           X == {<<i, k>> : k \in keys} \ s.sat
           rec == IF i \in tp.pool THEN s.recorded ELSE Without(s.recorded, {i})
           t == [s EXCEPT !.forced = @ \cup X, !.recorded = rec]
<1>1. tp' = IF i \in s.pool THEN t ELSE s
  BY DEF SetPrereqs
<1>2. Sound(s) /\ Follows(tp, s)
  BY SpawnKeeps, SpawnFollows DEF Keeps
<1>3. rec \subseteq s.recorded
  BY DEF Without
<1> HIDE DEF s, X, rec
<1>4. t.active = s.active /\ t.ended = s.ended /\ t.recorded = rec
  BY <1>2 DEF Sound, PoolRecord
<1>5. QED
  BY <1>1, <1>2, <1>3, <1>4 DEF Follows

\* The proxy on which an output is set.
LEMMA TransientHistory ==
    ASSUME NEW s, Sound(s), NEW i \in Inst, i \notin s.pool
    PROVE  LET t == Transient(s, i) IN
           /\ Sound(t) /\ i \in t.rows
           /\ t.pool = s.pool /\ t.recorded = s.recorded /\ t.sat = s.sat
           /\ \A e \in s.recorded : e[1] = i => e \in t.outputs
           /\ \A e \in s.outputs : e[1] # i => e \in t.outputs
           /\ \A e \in t.outputs : e[1] # i => e \in s.outputs
           /\ t.ended \subseteq s.ended
           /\ Begun(s) \subseteq Begun(t) \cup {i}
<1> DEFINE t == Transient(s, i)
<1>1. /\ t.pool = s.pool /\ t.recorded = s.recorded /\ t.sat = s.sat
      /\ t.active = s.active \ {i} /\ t.ended = Without(s.ended, {i})
      /\ t.outputs = Without(s.outputs, {i}) \cup {e \in s.recorded : e[1] = i}
  BY DEF Transient, Sound, PoolRecord
<1>2. Sound(t) /\ i \in t.rows
  BY TransientSound
<1> HIDE DEF t
<1>3. /\ \A e \in s.recorded : e[1] = i => e \in t.outputs
      /\ \A e \in s.outputs : e[1] # i => e \in t.outputs
      /\ \A e \in t.outputs : e[1] # i => e \in s.outputs
      /\ t.ended \subseteq s.ended
  BY <1>1 DEF Without
<1>4. ASSUME NEW x \in Begun(s) PROVE x \in Begun(t) \cup {i}
  BY <1>1 DEF Begun, Ended, Without
<1>5. QED
  BY <1>1, <1>2, <1>3, <1>4 DEF t

LEMMA AfterSetFollows ==
    ASSUME NEW s, Sound(s), NEW i
    PROVE  Follows(s, AfterSet(s, i))
<1>1. CASE AfterSet(s, i) = s
  BY <1>1, FollowsItself
<1>2. CASE AfterSet(s, i) = [s EXCEPT !.runahead = @ \ {i}, !.queued = @ \ {i}]
  <2> DEFINE t == AfterSet(s, i)
  <2>1. /\ t.pool = s.pool /\ t.active = s.active /\ t.ended = s.ended
        /\ t.outputs = s.outputs /\ t.recorded = s.recorded
        /\ t.sat = s.sat /\ t.forced = s.forced /\ t.queued \subseteq s.queued
    BY <1>2 DEF Sound, PoolRecord
  <2> HIDE DEF t
  <2>2. Follows(s, t)
    BY <2>1, FollowsFrom
  <2>3. QED
    BY <2>2 DEF t
<1>3. QED
  BY <1>1, <1>2 DEF AfterSet

LEMMA SetOutputHistory ==
    ASSUME Sound(tp), NEW i \in Inst, NEW output \in Outputs, SetOutput(i, output)
    PROVE  /\ Began(tp) /\ output \in FinalStatus => Began(tp')
           /\ Agree(tp) => Agree(tp')
           /\ Agree(tp) /\ Backed(tp) => Backed(tp')
           /\ \A e \in tp'.ended : e \in tp.ended \/ e = <<i, output>>
<1> DEFINE s == IF i \in tp.pool THEN tp ELSE Transient(tp, i)
           c == CompleteOutput(s, i, output)
           u == ProcessMessage(s, i, output)
<1>1. tp' = AfterSet(u, i)
  BY DEF SetOutput
<1>2. /\ Sound(s) /\ i \in s.rows
      /\ s.pool = tp.pool /\ s.recorded = tp.recorded /\ s.sat = tp.sat
      /\ i \notin tp.pool => \A e \in tp.recorded : e[1] = i => e \in s.outputs
      /\ i \in tp.pool => s.outputs = tp.outputs
      /\ \A e \in tp.outputs : e[1] # i => e \in s.outputs
      /\ \A e \in s.outputs : e[1] # i => e \in tp.outputs
      /\ s.ended \subseteq tp.ended
      /\ Begun(tp) \subseteq Begun(s) \cup {i}
  <2>1. CASE i \in tp.pool
    BY <2>1 DEF Sound
  <2>2. CASE i \notin tp.pool
    BY <2>2, TransientHistory
  <2>3. QED
    BY <2>1, <2>2
<1> HIDE DEF s
<1>3. Sound(u) /\ Follows(u, tp')
  BY <1>1, <1>2, ProcessMessageSound, AfterSetFollows
<1>4. ASSUME Began(tp), output \in FinalStatus PROVE Began(u)
  <2>1. \A e \in s.recorded : e[1] \in Begun(s) \cup {i}
    BY <1>2, <1>4 DEF Began
  <2>2. QED
    BY <1>2, <1>4, <2>1, ProcessedBegan
<1>5. ASSUME Agree(tp) PROVE Agree(u)
  <2>1. Agree(s)
    BY <1>2, <1>5 DEF Agree
  <2>2. QED
    BY <1>2, <2>1, ProcessedAgree
<1>6. ASSUME Agree(tp), Backed(tp) PROVE Backed(u)
  <2>1. Backed(s)
    BY <1>2, <1>6 DEF Backed
  <2>2. \A e \in s.recorded : e[1] = i => e \in s.outputs
    BY <1>2, <1>6 DEF Agree
  <2>3. QED
    BY <1>2, <2>1, <2>2, ProcessedBacked
<1>7. \A e \in u.ended : e \in tp.ended \/ e = <<i, output>>
  <2>1. \A e \in c.ended : e \in s.ended \/ e = <<i, output>>
    BY <1>2, Completed
  <2>2. Follows(c, u)
    BY <1>2, Processed
  <2>3. QED
    BY <1>2, <2>1, <2>2 DEF Follows
<1> HIDE DEF u, c
<1>8. QED
  BY <1>3, <1>4, <1>5, <1>6, <1>7, FollowsBegan DEF Follows

LEMMA RemoveSatisfiesNone ==
    ASSUME NEW s, Sound(s), NEW R
    PROVE  Remove(s, R).sat \subseteq s.sat
<1> DEFINE n == SpawnNextParentless(s, R \cap s.runahead)
<1>1. n.sat = s.sat
  BY DEF SpawnNextParentless, Spawn, AddToPool, Sound, PoolRecord
<1>2. Sound(n)
  BY SpawnNextKeeps DEF Keeps
<1>3. Remove(s, R) = Drop(n, R)
  BY DEF Remove
<1> HIDE DEF n
<1>4. Drop(n, R).sat \subseteq n.sat
  BY <1>2 DEF Drop, Sound, PoolRecord, Without
<1>5. QED
  BY <1>1, <1>3, <1>4

\* Erased with its outputs, a task has not begun.
LEMMA EraseHistoryOf ==
    ASSUME NEW s, Sound(s), NEW E
    PROVE  LET t == EraseHistory(s, E) IN
           /\ Began(s) => Began(t)
           /\ Agree(s) => Agree(t)
           /\ Backed(s) /\ (\A e \in s.sat : e[2][1] \notin E) => Backed(t)
           /\ t.ended \subseteq s.ended
<1> DEFINE t == EraseHistory(s, E)
<1>1. /\ t.pool = s.pool /\ t.active = s.active \ E
      /\ t.ended = Without(s.ended, E)
      /\ t.outputs = Without(s.outputs, E) /\ t.recorded = Without(s.recorded, E)
      /\ t.sat = s.sat
  BY DEF EraseHistory, Sound, PoolRecord
<1> HIDE DEF t
<1>2. Begun(s) \ E \subseteq Begun(t)
  BY <1>1 DEF Begun, Ended, Without
<1>3. Began(s) => Began(t)
  BY <1>1, <1>2 DEF Began, Without
<1>4. Agree(s) => Agree(t)
  BY <1>1 DEF Agree, Without
<1>5. Backed(s) /\ (\A e \in s.sat : e[2][1] \notin E) => Backed(t)
  BY <1>1 DEF Backed, Without
<1>6. t.ended \subseteq s.ended
  BY <1>1 DEF Without
<1>7. QED
  BY <1>3, <1>4, <1>5, <1>6 DEF t

NoneExpired(s) == \A e \in s.ended : e[2] # "expired"

\* What a removed task satisfied is taken back, and the children that go with it
\* were waiting, so have no outputs to take back.
LEMMA StandDownHistory ==
    ASSUME NEW s, Sound(s), NEW i \in Inst, i \notin s.pool
    PROVE  LET t == StandDown(s, i) IN
           /\ Began(s) => Began(t)
           /\ Agree(s) => Agree(t)
           /\ Began(s) /\ NoneExpired(s) /\ Backed(s) => Backed(t)
           /\ t.ended \subseteq s.ended
<1> DEFINE lost == {e \in s.sat : e[2][1] = i}
           unset == [s EXCEPT !.sat = @ \ lost]
           down == {c \in {e[1] : e \in lost} :
                      /\ c \in Waiting(s) \/ <<c, "expired">> \in s.ended
                      /\ ~IsReady(unset, c)}
           out == {c \in down : c # i /\ ~HasSatisfied(unset, c)}
           u == [unset EXCEPT !.queued = @ \ down]
           v == Remove(u, out)
           t == EraseHistory(v, out \cup {i})
<1>1. StandDown(s, i) = t
  BY DEF StandDown
<1>2. ASSUME NoneExpired(s), NEW c \in out PROVE c \notin Begun(s)
  <2>1. c \in Waiting(s)
    BY <1>2 DEF NoneExpired
  <2>2. QED
    BY <2>1 DEF Waiting, Begun
<1>3. \A e \in s.sat \ lost : e[2][1] # i
  OBVIOUS
<1> HIDE DEF down, out, lost
<1>4. u \in PoolRecord
  BY DEF Sound, PoolRecord
<1>5. /\ u.pool = s.pool /\ u.rows = s.rows
      /\ u.active = s.active /\ u.ended = s.ended
      /\ u.outputs = s.outputs /\ u.recorded = s.recorded
      /\ u.sat = s.sat \ lost /\ u.forced = s.forced
      /\ u.runahead = s.runahead /\ u.queued = s.queued \ down
      /\ u.held = s.held /\ u.toHold = s.toHold
      /\ u.limit = s.limit /\ u.stopPoint = s.stopPoint
  BY DEF Sound, PoolRecord
<1> HIDE DEF u
<1>6. Sound(u)
  BY <1>4, <1>5, SoundFrom DEF Sound
<1>7. Sound(v) /\ Follows(u, v) /\ v.sat \subseteq u.sat
  BY <1>6, RemoveKeeps, RemoveFollows, RemoveSatisfiesNone DEF Keeps
<1> HIDE DEF v
<1>8. /\ Began(v) => Began(t)
      /\ Agree(v) => Agree(t)
      /\ Backed(v) /\ (\A e \in v.sat : e[2][1] \notin out \cup {i}) => Backed(t)
      /\ t.ended \subseteq v.ended
  BY <1>7, EraseHistoryOf
<1> HIDE DEF t
<1>9. Began(s) => Began(t)
  BY <1>5, <1>7, <1>8 DEF Follows, Began, Begun, Ended
<1>10. Agree(s) => Agree(t)
  BY <1>5, <1>7, <1>8 DEF Follows, Agree
<1>11. ASSUME Began(s), NoneExpired(s), Backed(s) PROVE Backed(t)
  <2>1. Backed(u)
    BY <1>5, <1>11 DEF Backed
  <2>2. ASSUME NEW e \in v.sat PROVE e[2][1] \notin out \cup {i}
    <3>1. e \in s.sat \ lost
      BY <1>5, <1>7, <2>2
    <3>2. e[2] \in s.recorded
      BY <1>11, <3>1 DEF Backed
    <3>3. e[2][1] \in Begun(s)
      BY <1>11, <3>2 DEF Began
    <3>4. QED
      BY <1>2, <1>3, <1>11, <3>1, <3>3
  <2>3. QED
    BY <1>7, <1>8, <2>1, <2>2 DEF Follows
<1>12. t.ended \subseteq s.ended
  BY <1>5, <1>7, <1>8 DEF Follows
<1>13. QED
  BY <1>1, <1>9, <1>10, <1>11, <1>12

LEMMA RemoveTaskHistory ==
    ASSUME Sound(tp), NEW i \in Inst, RemoveTask(i)
    PROVE  /\ Began(tp) => Began(tp')
           /\ Agree(tp) => Agree(tp')
           /\ Began(tp) /\ NoneExpired(tp) /\ Backed(tp) => Backed(tp')
           /\ tp'.ended \subseteq tp.ended
<1> DEFINE gone == IF i \in tp.pool THEN Remove(tp, {i}) ELSE tp
           alone == StandDown(gone, i)
           killed == IF i \in tp.pool \cap tp.active
                     THEN [alone EXCEPT !.toHold = @ \cup {i}] ELSE alone
<1>1. tp' = IF IsLimitStale(killed)
            THEN ReleaseRunahead(ComputeRunahead(killed))
            ELSE ComputeRunahead(killed)
  BY DEF RemoveTask
<1>2. Follows(tp, gone) /\ Sound(gone) /\ i \notin gone.pool
  <2>1. CASE i \in tp.pool
    <3>1. gone = Remove(tp, {i})
      BY <2>1
    <3>2. QED
      BY <3>1, RemoveKeeps, RemoveFollows DEF Keeps
  <2>2. CASE i \notin tp.pool
    BY <2>2, FollowsItself
  <2>3. QED
    BY <2>1, <2>2
<1> HIDE DEF gone
<1>3. /\ Began(gone) => Began(alone)
      /\ Agree(gone) => Agree(alone)
      /\ Began(gone) /\ NoneExpired(gone) /\ Backed(gone) => Backed(alone)
      /\ alone.ended \subseteq gone.ended
  BY <1>2, StandDownHistory
<1>4. Sound(alone) /\ i \notin alone.pool
  BY <1>2, StandDownSound
<1> HIDE DEF alone
<1>5. Sound(killed) /\ Follows(alone, killed)
  <2>1. CASE killed = alone
    BY <1>4, <2>1, FollowsItself
  <2>2. CASE killed = [alone EXCEPT !.toHold = @ \cup {i}]
    <3> HIDE DEF killed
    <3>1. killed \in PoolRecord
      BY <1>4, <2>2 DEF Sound, PoolRecord
    <3>2. /\ killed.pool = alone.pool /\ killed.rows = alone.rows
          /\ killed.active = alone.active /\ killed.ended = alone.ended
          /\ killed.outputs = alone.outputs /\ killed.recorded = alone.recorded
          /\ killed.sat = alone.sat /\ killed.forced = alone.forced
          /\ killed.queued = alone.queued
          /\ killed.held = alone.held /\ killed.toHold = alone.toHold \cup {i}
          /\ killed.limit = alone.limit /\ killed.stopPoint = alone.stopPoint
      BY <1>4, <2>2 DEF Sound, PoolRecord
    <3>3. killed.held = killed.pool \cap killed.toHold
      BY <1>4, <3>2 DEF Sound
    <3>4. Sound(killed)
      BY <1>4, <3>1, <3>2, <3>3, SoundFrom DEF Sound
    <3>5. QED
      BY <3>2, <3>4, FollowsFrom
  <2>3. QED
    BY <2>1, <2>2
<1> HIDE DEF killed
<1>6. Follows(killed, tp')
  BY <1>1, <1>5, RunaheadFollows, ComputeRunaheadFollows
<1>7. Follows(alone, tp')
  BY <1>5, <1>6, FollowsTransitive
<1>8. Began(tp) => Began(tp')
  BY <1>2, <1>3, <1>7, FollowsBegan
<1>9. Agree(tp) => Agree(tp')
  BY <1>2, <1>3, <1>7 DEF Follows
<1>10. Began(tp) /\ NoneExpired(tp) /\ Backed(tp) => Backed(tp')
  BY <1>2, <1>3, <1>7, FollowsBegan DEF Follows, NoneExpired
<1>11. tp'.ended \subseteq tp.ended
  BY <1>2, <1>3, <1>7 DEF Follows
<1>12. QED
  BY <1>8, <1>9, <1>10, <1>11

\* Tasks that have begun get the outputs that the database has back, the others
\* have none.
LEMMA RestartHistory ==
    ASSUME Sound(tp), Restart
    PROVE  /\ tp'.active = tp.active /\ tp'.ended = tp.ended
           /\ tp'.recorded = tp.recorded
           /\ Backed(tp) => Backed(tp')
           /\ QueueReady(tp) => QueueReady(tp')
           /\ Renamed = {} /\ NoneExpired(tp) /\ Began(tp) /\ Agree(tp) => Agree(tp')
<1> DEFINE B == {i \in tp.pool : tp.holdPoint # 0 /\ i[2] > tp.holdPoint}
           O == RestoredOutputs
           S == RestoredSat
           p == IF runState = "complete" THEN FinalPoint ELSE tp.stopPoint
<1>1. tp' = [tp EXCEPT !.outputs = O, !.sat = S, !.active = tp.active,
                       !.runahead = tp.pool \ Ended(tp), !.queued = {},
                       !.held = @ \cup B, !.toHold = @ \cup B,
                       !.limit = 0, !.base = 0, !.stopPoint = p]
  BY DEF Restart, RestoredActive, RestoredRunahead
<1>2. S \subseteq tp.sat
  BY DEF RestoredSat
<1> HIDE DEF B, O, S, p
<1>3. /\ tp'.pool = tp.pool /\ tp'.active = tp.active /\ tp'.ended = tp.ended
      /\ tp'.outputs = O /\ tp'.recorded = tp.recorded
      /\ tp'.sat = S /\ tp'.forced = tp.forced /\ tp'.queued = {}
  BY <1>1 DEF Sound, PoolRecord
<1>4. Backed(tp) => Backed(tp')
  BY <1>2, <1>3 DEF Backed
<1>5. QueueReady(tp) => QueueReady(tp')
  BY <1>3 DEF QueueReady
<1>6. ASSUME Renamed = {}, NoneExpired(tp), Began(tp), Agree(tp) PROVE Agree(tp')
  <2> DEFINE P == {i \in tp.pool : \/ i \in tp.active
                           \/ Of(tp.ended, i) \cap {"succeeded", "failed"} # {}}
  <2>1. O = Without(tp.outputs, tp.pool) \cup {e \in tp.recorded : e[1] \in P}
    BY <1>6 DEF O, RestoredOutputs
  <2>2. \A e \in tp.recorded : e[1] \in tp.pool => e[1] \in P
    <3>1. SUFFICES ASSUME NEW e \in tp.recorded, e[1] \in tp.pool, e[1] \notin tp.active
                   PROVE  Of(tp.ended, e[1]) \cap {"succeeded", "failed"} # {}
      OBVIOUS
    <3>2. PICK x \in tp.ended : x[1] = e[1]
      BY <1>6, <3>1 DEF Began, Begun, Ended
    <3>3. x[2] \in FinalStatus /\ x[2] # "expired"
      BY <1>6, <3>2 DEF Sound, PoolRecord, NoneExpired
    <3>4. x[2] \in Of(tp.ended, e[1])
      BY <3>2 DEF Of
    <3>5. QED
      BY <3>3, <3>4 DEF FinalStatus
  <2> HIDE DEF P
  <2>3. QED
    BY <1>3, <2>1, <2>2 DEF Agree, Without
<1>7. QED
  BY <1>3, <1>4, <1>5, <1>6

LEMMA MessageHistory ==
    ASSUME Sound(tp), NEW i \in Inst, NEW output \in Outputs,
           \/ JobOutput(i, output)
           \/ Expire(i) /\ output = "expired"
    PROVE  /\ i \in tp.pool
           /\ Began(tp) => Began(tp')
           /\ Agree(tp) => Agree(tp')
           /\ Agree(tp) /\ Backed(tp) => Backed(tp')
           /\ QueueReady(tp) => QueueReady(tp')
           /\ \A e \in tp'.ended : e \in tp.ended \/ e = <<i, output>>
<1> DEFINE c == CompleteOutput(tp, i, output)
<1>1. /\ tp' = ProcessMessage(tp, i, output)
      /\ i \in tp.pool /\ i \in tp.rows
      /\ i \in tp.active \/ output \in FinalStatus
  BY DEF JobOutput, Expire, Sound, FinalStatus
<1>2. Began(tp) => Began(tp')
  <2>1. i \in Begun(tp) \/ output \in FinalStatus
    BY <1>1 DEF Begun
  <2>2. ASSUME Began(tp) PROVE \A e \in tp.recorded : e[1] \in Begun(tp) \cup {i}
    BY <2>2 DEF Began
  <2>3. QED
    BY <1>1, <2>1, <2>2, ProcessedBegan
<1>3. Agree(tp) => Agree(tp')
  BY <1>1, ProcessedAgree
<1>4. ASSUME Agree(tp), Backed(tp) PROVE Backed(tp')
  <2>1. \A e \in tp.recorded : e[1] = i => e \in tp.outputs
    BY <1>1, <1>4 DEF Agree
  <2>2. QED
    BY <1>1, <1>4, <2>1, ProcessedBacked
<1>5. QueueReady(tp) => QueueReady(tp')
  BY <1>1, ProcessedQueueReady
<1>6. \A e \in tp'.ended : e \in tp.ended \/ e = <<i, output>>
  <2>1. \A e \in c.ended : e \in tp.ended \/ e = <<i, output>>
    BY <1>1, Completed
  <2>2. Follows(c, tp')
    BY <1>1, Processed
  <2>3. QED
    BY <2>1, <2>2 DEF Follows
<1>7. QED
  BY <1>1, <1>2, <1>3, <1>4, <1>5, <1>6
-----------------------------------------------------------------------------
(* The invariants, one clause at a time. *)

\* The initial pool has no outputs.
LEMMA InitQuiet == Init => Quiet(EmptyPool, tp)
<1> SUFFICES ASSUME Init PROVE Quiet(EmptyPool, tp)
  OBVIOUS
<1> DEFINE C == {i \in Inst : i \in FirstParentless(i[1])}
           s == Spawn(EmptyPool, C)
           c == ComputeRunahead(s)
           l == LoadFromPoint
           Q == {i \in l.pool : CanQueue(l, i)}
<1>1. l = Twice(Twice(Twice(Twice(Twice(c)))))
  BY DEF LoadFromPoint, SpawnToRunaheadLimit
<1>2. Sound(s) /\ Follows(EmptyPool, s)
  <2>1. C \subseteq Inst
    OBVIOUS
  <2> HIDE DEF C
  <2>2. QED
    BY <2>1, EmptyPoolSound, SpawnKeeps, SpawnFollows DEF Keeps
<1> HIDE DEF s
<1>3. Sound(c) /\ Follows(s, c)
  BY <1>2, ComputeRunaheadKeeps, ComputeRunaheadFollows DEF Keeps
<1> HIDE DEF c
<1>4. ASSUME NEW t, Sound(t) PROVE Sound(Twice(t)) /\ Follows(t, Twice(t))
  <2>1. Sound(ReleaseRunahead(t)) /\ Follows(t, ReleaseRunahead(t))
    BY <1>4, ReleaseRunaheadSound, ReleaseRunaheadFollows
  <2>2. QED
    BY <2>1, ReleaseRunaheadSound, ReleaseRunaheadFollows, FollowsTransitive DEF Twice
<1>5. Sound(Twice(Twice(c))) /\ Follows(c, Twice(Twice(c)))
  BY <1>3, <1>4, FollowsTransitive
<1>6. /\ Sound(Twice(Twice(Twice(Twice(c)))))
      /\ Follows(Twice(Twice(c)), Twice(Twice(Twice(Twice(c)))))
  BY <1>4, <1>5, FollowsTransitive
<1>7. Sound(l) /\ Follows(Twice(Twice(Twice(Twice(c)))), l)
  BY <1>1, <1>4, <1>6
<1> HIDE DEF l
<1>8. Follows(EmptyPool, l)
  BY <1>2, <1>3, <1>5, <1>6, <1>7, FollowsTransitive
<1>9. Quiet(l, tp)
  <2>1. tp = [l EXCEPT !.queued = Q]
    BY DEF Init, l
  <2>2. \A i \in Q : IsReady(l, i)
    BY DEF CanQueue
  <2> HIDE DEF Q
  <2>3. /\ tp.pool = l.pool /\ tp.active = l.active /\ tp.ended = l.ended
        /\ tp.outputs = l.outputs /\ tp.recorded = l.recorded
        /\ tp.sat = l.sat /\ tp.forced = l.forced /\ tp.queued = Q
    BY <1>7, <2>1 DEF Sound, PoolRecord
  <2>4. QED
    BY <2>2, <2>3, FlagsQuiet
<1>10. QED
  BY <1>8, <1>9, FollowsQuiet DEF Quiet

LEMMA InitHistory ==
    Init => Began(tp) /\ NoneExpired(tp) /\ Agree(tp) /\ Backed(tp) /\ QueueReady(tp)
<1>1. /\ Began(EmptyPool) /\ NoneExpired(EmptyPool) /\ Agree(EmptyPool)
      /\ Backed(EmptyPool) /\ QueueReady(EmptyPool)
  BY DEF EmptyPool, Began, NoneExpired, Agree, Backed, QueueReady
<1>2. QED
  BY <1>1, InitQuiet DEF Quiet, Began, Begun, Ended, NoneExpired

LEMMA BeganNext ==
    ASSUME SetsFinal, Sound(tp), Began(tp), [Next]_vars
    PROVE  Began(tp)'
<1>1. ASSUME Quiet(tp, tp') PROVE Began(tp)'
  BY <1>1 DEF Quiet, Began, Begun, Ended
<1>2. ASSUME NEW i \in Inst, ReleaseTask(i) PROVE Began(tp)'
  BY <1>2, ReleaseHistory DEF Began
<1>3. ASSUME NEW i \in Inst, NEW output \in Emits[i[1]], JobOutput(i, output)
      PROVE  Began(tp)'
  <2>1. output \in Outputs
    BY <1>3, InstType, PoolAssumption
  <2>2. QED
    BY <1>3, <2>1, MessageHistory
<1>4. ASSUME NEW i \in Inst, Expire(i) PROVE Began(tp)'
  BY <1>4, MessageHistory DEF Outputs, FinalStatus
<1>5. ASSUME NEW i \in Inst, SetPrereqs(i) PROVE Began(tp)'
  BY <1>5, SetPrereqsHistory DEF Began, Begun, Ended
<1>6. ASSUME NEW i \in Inst, NEW output \in Emits[i[1]], SetOutput(i, output)
      PROVE  Began(tp)'
  <2>1. output \in Outputs /\ i[1] \in Names
    BY <1>6, InstType, PoolAssumption
  <2>2. output \in FinalStatus
    BY <1>6, <2>1 DEF SetOutput, Command, SetsFinal
  <2>3. QED
    BY <1>6, <2>1, <2>2, SetOutputHistory
<1>7. ASSUME NEW i \in Inst, RemoveTask(i) PROVE Began(tp)'
  BY <1>7, RemoveTaskHistory
<1>8. CASE Restart
  BY <1>8, RestartHistory DEF Began, Begun, Ended
<1>9. CASE UNCHANGED vars
  BY <1>9 DEF vars
<1>10. QED
  BY <1>1, <1>2, <1>3, <1>4, <1>5, <1>6, <1>7, <1>8, <1>9, QuietActions DEF Next

LEMMA ExpiredNext ==
    ASSUME NothingExpires, Sound(tp), NoneExpired(tp), [Next]_vars
    PROVE  NoneExpired(tp)'
<1>1. ASSUME tp'.ended \subseteq tp.ended PROVE NoneExpired(tp)'
  BY <1>1 DEF NoneExpired
<1>2. ASSUME Quiet(tp, tp') PROVE NoneExpired(tp)'
  BY <1>1, <1>2 DEF Quiet
<1>3. ASSUME NEW i \in Inst, ReleaseTask(i) PROVE NoneExpired(tp)'
  BY <1>1, <1>3, ReleaseHistory
<1>4. ASSUME NEW i \in Inst, NEW output \in Emits[i[1]],
             JobOutput(i, output) \/ SetOutput(i, output)
      PROVE  NoneExpired(tp)'
  <2>1. output \in Outputs /\ output # "expired"
    BY <1>4, InstType, PoolAssumption DEF NothingExpires
  <2>2. \A e \in tp'.ended : e \in tp.ended \/ e = <<i, output>>
    BY <1>4, <2>1, MessageHistory, SetOutputHistory
  <2>3. QED
    BY <2>1, <2>2 DEF NoneExpired
<1>5. ASSUME NEW i \in Inst, Expire(i) PROVE NoneExpired(tp)'
  BY <1>5 DEF Expire, NothingExpires
<1>6. ASSUME NEW i \in Inst, SetPrereqs(i) PROVE NoneExpired(tp)'
  BY <1>1, <1>6, SetPrereqsHistory
<1>7. ASSUME NEW i \in Inst, RemoveTask(i) PROVE NoneExpired(tp)'
  BY <1>1, <1>7, RemoveTaskHistory
<1>8. CASE Restart
  BY <1>1, <1>8, RestartHistory
<1>9. CASE UNCHANGED vars
  BY <1>9 DEF vars
<1>10. QED
  BY <1>2, <1>3, <1>4, <1>5, <1>6, <1>7, <1>8, <1>9, QuietActions DEF Next

\* What is known of the tasks that have begun, as far as the constants allow.
History ==
    /\ Sound(tp)
    /\ SetsFinal => Began(tp)
    /\ NothingExpires => NoneExpired(tp)

LEMMA HistoryInvariance == Spec => []History
<1>1. Init => History
  BY InitInv, InitHistory DEF Inv, History
<1>2. Inv /\ History /\ [Next]_vars => History'
  <2> SUFFICES ASSUME Inv, History, [Next]_vars PROVE History'
    OBVIOUS
  <2>1. Inv'
    BY NextInv
  <2>2. QED
    BY <2>1, BeganNext, ExpiredNext DEF History, Inv
<1>3. QED
  BY <1>1, <1>2, Invariance, PTL DEF Spec

LEMMA AgreeNext ==
    ASSUME KeepsOutputs, History, Agree(tp), [Next]_vars
    PROVE  Agree(tp)'
<1> USE DEF History
<1>1. ASSUME Quiet(tp, tp') PROVE Agree(tp)'
  BY <1>1 DEF Quiet
<1>2. ASSUME NEW i \in Inst, ReleaseTask(i) PROVE Agree(tp)'
  BY <1>2, ReleaseHistory DEF Agree
<1>3. ASSUME NEW i \in Inst, NEW output \in Emits[i[1]],
             JobOutput(i, output) \/ SetOutput(i, output)
      PROVE  Agree(tp)'
  <2>1. output \in Outputs
    BY <1>3, InstType, PoolAssumption
  <2>2. QED
    BY <1>3, <2>1, MessageHistory, SetOutputHistory
<1>4. ASSUME NEW i \in Inst, Expire(i) PROVE Agree(tp)'
  BY <1>4, MessageHistory DEF Outputs, FinalStatus
<1>5. ASSUME NEW i \in Inst, SetPrereqs(i) PROVE Agree(tp)'
  BY <1>5 DEF SetPrereqs, Command, KeepsOutputs
<1>6. ASSUME NEW i \in Inst, RemoveTask(i) PROVE Agree(tp)'
  BY <1>6, RemoveTaskHistory
<1>7. CASE Restart
  <2>1. "stop" \in Commands
    BY <1>7 DEF Restart
  <2>2. QED
    BY <1>7, <2>1, RestartHistory DEF KeepsOutputs
<1>8. CASE UNCHANGED vars
  BY <1>8 DEF vars
<1>9. QED
  BY <1>1, <1>2, <1>3, <1>4, <1>5, <1>6, <1>7, <1>8, QuietActions DEF Next

\* The removal of an expired child would take its output back from the history,
\* and not from the tasks that the output satisfied.
KeepsSatisfied ==
    /\ KeepsOutputs
    /\ "remove" \in Commands => SetsFinal /\ NothingExpires

LEMMA BackedNext ==
    ASSUME KeepsSatisfied, History, Agree(tp), Backed(tp), [Next]_vars
    PROVE  Backed(tp)'
<1> USE DEF History
<1>1. ASSUME Quiet(tp, tp') PROVE Backed(tp)'
  BY <1>1 DEF Quiet
<1>2. ASSUME NEW i \in Inst, ReleaseTask(i) PROVE Backed(tp)'
  BY <1>2, ReleaseHistory DEF Backed
<1>3. ASSUME NEW i \in Inst, NEW output \in Emits[i[1]],
             JobOutput(i, output) \/ SetOutput(i, output)
      PROVE  Backed(tp)'
  <2>1. output \in Outputs
    BY <1>3, InstType, PoolAssumption
  <2>2. QED
    BY <1>3, <2>1, MessageHistory, SetOutputHistory
<1>4. ASSUME NEW i \in Inst, Expire(i) PROVE Backed(tp)'
  BY <1>4, MessageHistory DEF Outputs, FinalStatus
<1>5. ASSUME NEW i \in Inst, SetPrereqs(i) PROVE Backed(tp)'
  BY <1>5 DEF SetPrereqs, Command, KeepsSatisfied, KeepsOutputs
<1>6. ASSUME NEW i \in Inst, RemoveTask(i) PROVE Backed(tp)'
  <2>1. "remove" \in Commands
    BY <1>6 DEF RemoveTask, Command
  <2>2. QED
    BY <1>6, <2>1, RemoveTaskHistory DEF KeepsSatisfied
<1>7. CASE Restart
  BY <1>7, RestartHistory
<1>8. CASE UNCHANGED vars
  BY <1>8 DEF vars
<1>9. QED
  BY <1>1, <1>2, <1>3, <1>4, <1>5, <1>6, <1>7, <1>8, QuietActions DEF Next

\* No command forces a prerequisite, sets an output or takes history back.
KeepsHistory ==
    /\ KeepsOutputs
    /\ "set outputs" \notin Commands
    /\ "remove" \notin Commands

LEMMA QueueReadyNext ==
    ASSUME KeepsHistory, Sound(tp), QueueReady(tp), [Next]_vars
    PROVE  QueueReady(tp)'
<1>1. ASSUME Quiet(tp, tp') PROVE QueueReady(tp)'
  BY <1>1 DEF Quiet
<1>2. ASSUME NEW i \in Inst, ReleaseTask(i) PROVE QueueReady(tp)'
  BY <1>2, ReleaseHistory DEF QueueReady
<1>3. ASSUME NEW i \in Inst, NEW output \in Emits[i[1]], JobOutput(i, output)
      PROVE  QueueReady(tp)'
  <2>1. output \in Outputs
    BY <1>3, InstType, PoolAssumption
  <2>2. QED
    BY <1>3, <2>1, MessageHistory
<1>4. ASSUME NEW i \in Inst, Expire(i) PROVE QueueReady(tp)'
  BY <1>4, MessageHistory DEF Outputs, FinalStatus
<1>5. ASSUME NEW i \in Inst, \/ SetPrereqs(i) \/ RemoveTask(i)
                             \/ \E output \in Emits[i[1]] : SetOutput(i, output)
      PROVE  QueueReady(tp)'
  BY <1>5 DEF SetPrereqs, SetOutput, RemoveTask, Command, KeepsHistory, KeepsOutputs
<1>6. CASE Restart
  BY <1>6, RestartHistory
<1>7. CASE UNCHANGED vars
  BY <1>7 DEF vars
<1>8. QED
  BY <1>1, <1>2, <1>3, <1>4, <1>5, <1>6, <1>7, QuietActions DEF Next
-----------------------------------------------------------------------------
(* The theorems. *)

\* A waiting task that is submitted has not succeeded before, in any history of
\* spawning, suicide, expiry, removal and restarts: load_db_task_pool and
\* spawn_task consult the history that every final output leaves.
THEOREM NoSecondRun ==
    ASSUME SetsFinal
    PROVE  Spec => RunsOnce
<1> DEFINE A == \A i \in Started : <<i, "succeeded">> \notin tp.recorded
<1>1. History => A
  <2> SUFFICES ASSUME History,
                      NEW i \in tp.pool \cap Waiting(tp) \cap tp'.active,
                      <<i, "succeeded">> \in tp.recorded
               PROVE  FALSE
    BY DEF Started
  <2>1. i \in Begun(tp)
    BY DEF History, Began
  <2>2. QED
    BY <2>1 DEF Begun, Waiting
<1>2. History => [A]_vars
  BY <1>1
<1>3. QED
  BY <1>2, HistoryInvariance, PTL DEF RunsOnce

LEMMA AgreeInvariance ==
    ASSUME KeepsOutputs
    PROVE  Spec => []Agree(tp)
<1>1. Init => Agree(tp)
  BY InitHistory
<1>2. History /\ Agree(tp) /\ [Next]_vars => Agree(tp)'
  BY AgreeNext
<1>3. QED
  BY <1>1, <1>2, HistoryInvariance, PTL DEF Spec

\* The proxies of the pool and the table of outputs agree, for any graph and
\* whatever is held, stopped, restarted, removed or set.
THEOREM PoolMatchesDatabase ==
    ASSUME KeepsOutputs
    PROVE  Spec => []OutputsAgree
<1>1. Agree(tp) => OutputsAgree
  BY DEF Agree, OutputsAgree
<1>2. QED
  BY <1>1, AgreeInvariance, PTL

LEMMA BackedInvariance ==
    ASSUME KeepsSatisfied
    PROVE  Spec => []Backed(tp)
<1>1. Init => Backed(tp)
  BY InitHistory
<1>2. History /\ Agree(tp) /\ Backed(tp) /\ [Next]_vars => Backed(tp)'
  BY BackedNext
<1>3. KeepsOutputs
  BY DEF KeepsSatisfied
<1>4. QED
  BY <1>1, <1>2, <1>3, HistoryInvariance, AgreeInvariance, PTL DEF Spec

\* Every key that a prerequisite counts as satisfied by an output is an output
\* that was completed and not taken back by the removal of its task.
THEOREM SatisfiedWasCompleted ==
    ASSUME KeepsSatisfied
    PROVE  Spec => []SatisfiedByOutputs
<1>1. Backed(tp) => SatisfiedByOutputs
  BY DEF Backed, SatisfiedByOutputs
<1>2. QED
  BY <1>1, BackedInvariance, PTL

LEMMA QueueReadyInvariance ==
    ASSUME KeepsHistory
    PROVE  Spec => []QueueReady(tp)
<1>1. Init => QueueReady(tp)
  BY InitHistory
<1>2. History /\ QueueReady(tp) /\ [Next]_vars => QueueReady(tp)'
  BY QueueReadyNext DEF History
<1>3. QED
  BY <1>1, <1>2, HistoryInvariance, PTL DEF Spec
-----------------------------------------------------------------------------
(* The refinement.  Submitting a task begins it, a message of a job completes
   an output, clock-expiry expires a task, and everything else stutters. *)

FlowInv ==
    /\ Sound(tp)
    /\ Agree(tp)
    /\ Backed(tp)
    /\ QueueReady(tp)

LEMMA SameGraph ==
    ASSUME NEW i, NEW K
    PROVE  /\ Flow!Inst = Inst /\ Flow!Outputs = Outputs
           /\ Satisfied(i, K) => Flow!Satisfied(i, K)
<1>1. Flow!Inst = Inst
  BY DEF Flow!Inst, Inst
<1>2. Flow!Outputs = Outputs
  BY DEF Flow!Outputs, Outputs, Flow!FinalStatus, FinalStatus
<1>3. \A trg : /\ Flow!IsPreInitial(i, trg) <=> IsPreInitial(i, trg)
               /\ Flow!KeyOf(i, trg) = KeyOf(i, trg)
  BY DEF Flow!IsPreInitial, IsPreInitial, Flow!KeyOf, KeyOf
<1>4. Satisfied(i, K) => Flow!Satisfied(i, K)
  BY <1>3 DEF Flow!Satisfied, Satisfied
<1>5. QED
  BY <1>1, <1>2, <1>4

LEMMA ReleaseBegins ==
    ASSUME FlowInv, NEW i \in Inst, ReleaseTask(i)
    PROVE  [Flow!Next]_(Flow!flow)
<1>1. begun' = begun \cup {i} /\ tp'.recorded = tp.recorded
  BY ReleaseHistory DEF FlowInv, begun, Begun, Ended
<1>2. CASE i \in begun
  BY <1>1, <1>2 DEF Flow!flow
<1>3. CASE i \notin begun
  <2>1. i \in tp.queued
    BY DEF ReleaseTask
  <2>2. Satisfied(i, Of(tp.sat, i)) /\ Of(tp.sat, i) \subseteq tp.recorded
    BY <2>1 DEF FlowInv, QueueReady, Backed, Of
  <2>3. Satisfied(i, tp.recorded)
    BY <2>2, SatisfiedMonotone
  <2>4. Flow!Begin(i)
    BY <1>1, <1>3, <2>3, SameGraph DEF Flow!Begin
  <2>5. i \in Flow!Inst
    BY SameGraph
  <2>6. QED
    BY <2>4, <2>5 DEF Flow!Next
<1>4. QED
  BY <1>2, <1>3

LEMMA ProcessedCompletes ==
    ASSUME NEW s, Sound(s), Agree(s), NEW i \in s.pool, NEW output \in Outputs
    PROVE  LET t == ProcessMessage(s, i, output) IN
           /\ t.recorded = s.recorded \cup {<<i, output>>}
           /\ Begun(t) = IF output \in FinalStatus
                         THEN Begun(s) \cup {i} ELSE Begun(s)
<1> DEFINE u == CompleteOutput(s, i, output)
           t == ProcessMessage(s, i, output)
<1>1. i \in s.rows
  BY DEF Sound
<1>2. /\ u.recorded = Recorded(s, i, output)
      /\ Begun(u) = IF output \in FinalStatus THEN Begun(s) \cup {i} ELSE Begun(s)
  BY <1>1, Completed
<1>3. Follows(u, t)
  BY <1>1, Processed
<1> HIDE DEF u, t
<1>4. \A e : e \in s.recorded /\ e[1] = i <=> e \in s.outputs /\ e[1] = i
  BY DEF Agree
<1>5. Recorded(s, i, output) = s.recorded \cup {<<i, output>>}
  BY <1>4 DEF Recorded, Without
<1>6. Begun(t) = Begun(u)
  BY <1>3 DEF Follows, Begun, Ended
<1>7. QED
  BY <1>2, <1>3, <1>5, <1>6 DEF Follows, t

LEMMA MessageCompletes ==
    ASSUME FlowInv, NEW i \in Inst, NEW output \in Outputs, JobOutput(i, output)
    PROVE  Flow!Next
<1>1. /\ i \in tp.pool /\ i \in begun /\ <<i, output>> \notin tp.outputs
      /\ tp' = ProcessMessage(tp, i, output)
  BY DEF JobOutput, begun
<1>2. /\ tp'.recorded = tp.recorded \cup {<<i, output>>}
      /\ Begun(tp') = Begun(tp) \cup {i} \/ Begun(tp') = Begun(tp)
  BY <1>1, ProcessedCompletes DEF FlowInv
<1>3. begun' = begun
  BY <1>1, <1>2 DEF begun, Begun, Ended
<1>4. <<i, output>> \notin tp.recorded
  BY <1>1 DEF FlowInv, Agree
<1>5. Flow!Complete(i, output)
  BY <1>1, <1>2, <1>3, <1>4 DEF Flow!Complete
<1>6. i \in Flow!Inst /\ output \in Flow!Outputs
  BY SameGraph
<1>7. QED
  BY <1>5, <1>6 DEF Flow!Next

LEMMA ExpireExpires ==
    ASSUME FlowInv, NEW i \in Inst, Expire(i)
    PROVE  Flow!Next
<1>1. /\ i \in tp.pool /\ i \notin begun
      /\ tp' = ProcessMessage(tp, i, "expired")
  BY DEF Expire, begun, Waiting
<1>2. "expired" \in FinalStatus /\ "expired" \in Outputs
  BY DEF FinalStatus, Outputs
<1>3. /\ tp'.recorded = tp.recorded \cup {<<i, "expired">>}
      /\ Begun(tp') = Begun(tp) \cup {i}
  BY <1>1, <1>2, ProcessedCompletes DEF FlowInv
<1>4. begun' = begun \cup {i}
  BY <1>3 DEF begun, Begun, Ended
<1>5. Flow!Expire(i)
  BY <1>1, <1>3, <1>4 DEF Flow!Expire
<1>6. i \in Flow!Inst
  BY SameGraph
<1>7. QED
  BY <1>5, <1>6 DEF Flow!Next

LEMMA StepFlows ==
    ASSUME KeepsHistory, FlowInv, [Next]_vars
    PROVE  [Flow!Next]_(Flow!flow)
<1>1. ASSUME tp'.active = tp.active, tp'.ended = tp.ended, tp'.recorded = tp.recorded
      PROVE  [Flow!Next]_(Flow!flow)
  BY <1>1 DEF Flow!flow, begun, Ended
<1>2. ASSUME Quiet(tp, tp') PROVE [Flow!Next]_(Flow!flow)
  BY <1>1, <1>2 DEF Quiet
<1>3. ASSUME NEW i \in Inst, ReleaseTask(i) PROVE [Flow!Next]_(Flow!flow)
  BY <1>3, ReleaseBegins
<1>4. ASSUME NEW i \in Inst, NEW output \in Emits[i[1]], JobOutput(i, output)
      PROVE  [Flow!Next]_(Flow!flow)
  <2>1. output \in Outputs
    BY <1>4, InstType, PoolAssumption
  <2>2. QED
    BY <1>4, <2>1, MessageCompletes
<1>5. ASSUME NEW i \in Inst, Expire(i) PROVE [Flow!Next]_(Flow!flow)
  BY <1>5, ExpireExpires
<1>6. ASSUME NEW i \in Inst, \/ SetPrereqs(i) \/ RemoveTask(i)
                             \/ \E output \in Emits[i[1]] : SetOutput(i, output)
      PROVE  FALSE
  BY <1>6 DEF SetPrereqs, SetOutput, RemoveTask, Command, KeepsHistory, KeepsOutputs
<1>7. CASE Restart
  BY <1>1, <1>7, RestartHistory DEF FlowInv
<1>8. CASE UNCHANGED vars
  BY <1>1, <1>8 DEF vars
<1>9. QED
  BY <1>2, <1>3, <1>4, <1>5, <1>6, <1>7, <1>8, QuietActions DEF Next, FlowInv

\* The task pool implements the dataflow of its graph: submissions wait for
\* outputs that satisfy the prerequisites, and outputs are completed once,
\* whatever is held, stopped and restarted.
THEOREM ImplementsDataflow ==
    ASSUME KeepsHistory
    PROVE  Spec => Implements
<1>1. Init => Flow!Init
  <2>1. Init => tp.active = {} /\ tp.ended = {} /\ tp.recorded = {}
    BY InitQuiet DEF Quiet, EmptyPool
  <2>2. QED
    BY <2>1 DEF Flow!Init, begun, Ended
<1>2. FlowInv /\ [Next]_vars => [Flow!Next]_(Flow!flow)
  BY StepFlows
<1>3. Sound(tp) /\ Agree(tp) /\ Backed(tp) /\ QueueReady(tp) => FlowInv
  BY DEF FlowInv
<1>4. KeepsOutputs /\ KeepsSatisfied
  BY DEF KeepsHistory, KeepsSatisfied
<1>5. Inv => Sound(tp)
  BY DEF Inv
<1>6. QED
  BY <1>1, <1>2, <1>3, <1>4, <1>5, Invariance, AgreeInvariance, BackedInvariance,
     QueueReadyInvariance, PTL DEF Spec, Implements, Flow!Spec
===========================================================================
