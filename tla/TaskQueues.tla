---------------------------- MODULE TaskQueues ----------------------------
(***************************************************************************)
(* The limited task queue of task_queues/independent.py, as operators on   *)
(* a deque.  A deque is a sequence whose FIRST element is the left end     *)
(* (where appendleft puts a task) and whose LAST element is the right end  *)
(* (where pop takes one), so the oldest task is the last one.              *)
(*                                                                         *)
(* The deques of one manager are a function from queue names; every task   *)
(* belongs to exactly one queue (IndepQueueManager makes the configured    *)
(* queues independent), so one queue's release never changes what another  *)
(* may release.                                                            *)
(***************************************************************************)
EXTENDS Naturals, FiniteSets, SequencesExt, Selections

\* LimitedTaskQueue.push_task, for a task whose name is one of the members.
PushTask(d, t) == Cons(t, d)

\* The condition of LimitedTaskQueue.push_task_if_limited.  A limit of zero
\* means unlimited.
IsLimited(limit, nActive) == limit # 0 /\ nActive >= limit

\* LimitedTaskQueue.remove: the leftmost occurrence, if there is one.
RemoveTask(d, t) == RemoveFirst(d, t)

\* Mutant of IsPopped: the limit may be exceeded by one.
IsPoppedOverLimit(d, i, limit, nActive, held) ==
    \/ limit = 0
    \/ nActive + Cardinality({j \in i+1..Len(d) : d[j] \notin held}) <= limit

\* LimitedTaskQueue.release pops position i exactly when the tasks to its
\* right that are not held, each of which became active, left the count below
\* the limit.
IsPopped(d, i, limit, nActive, held) ==
    \/ limit = 0
    \/ nActive + Cardinality({j \in i+1..Len(d) : d[j] \notin held}) < limit

Popped(d, limit, nActive, held) ==
    {i \in 1..Len(d) : IsPopped(d, i, limit, nActive, held)}

\* The tasks that release returns: the popped ones that are not held.
Released(d, limit, nActive, held) ==
    {d[i] : i \in Popped(d, limit, nActive, held)} \ held

\* Mutant of AfterRelease: the popped held tasks are not put back.
AfterReleaseHeldLost(d, limit, nActive, held) ==
    SubSeq(d, 1, Len(d) - Cardinality(Popped(d, limit, nActive, held)))

\* The deque that release leaves behind.  The held tasks it popped go back on
\* at the LEFT: they lose their place to the tasks that stayed.
AfterRelease(d, limit, nActive, held) ==
    LET popped == Popped(d, limit, nActive, held)
    IN  Select(d, {i \in popped : d[i] \in held})
        \o Select(d, (1..Len(d)) \ popped)

\* IndepQueueManager.remove_task: from the first queue that holds the task.
\* A task is only ever pushed to the queue it is a member of.
RemoveFromQueues(deques, t) == [q \in DOMAIN deques |-> RemoveTask(deques[q], t)]

\* Number of occurrences of a task in a deque.
Occurrences(d, t) == Cardinality({i \in 1..Len(d) : d[i] = t})

===========================================================================
