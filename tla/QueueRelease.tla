---------------------------- MODULE QueueRelease ----------------------------
(***************************************************************************)
(* LimitedTaskQueue.release as the loop it is: one step per popped task,   *)
(* then one per held task that is put back.  TaskQueues says in closed     *)
(* form what the loop returns and what deque it leaves; SubmitPipeline     *)
(* uses the closed form.                                                   *)
(***************************************************************************)
EXTENDS TaskQueues

CONSTANTS
    QTasks,      \* tasks that may be queued
    MaxLen,     \* bound on the length of the deque
    MaxLimit    \* bound on the limit and on the count of active tasks

ASSUME QueueReleaseAssumption == MaxLen \in Nat /\ MaxLimit \in Nat

VARIABLES
    deque0, limit, active0, isHeld,      \* the call: queue, counter, held flags
    deque, nActive, released, held, pc   \* the locals of release

call == <<deque0, limit, active0, isHeld>>
relVars == <<deque0, limit, active0, isHeld, deque, nActive, released, held, pc>>

\* A task proxy is in a queue at most once (SubmitPipeline!QueueMatchesFlag).
Deques == {d \in UNION {[1..n -> QTasks] : n \in 0..MaxLen} : IsInjective(d)}

RelInit ==
    /\ deque0 \in Deques
    /\ limit \in 0..MaxLimit
    /\ active0 \in 0..MaxLimit
    /\ isHeld \in SUBSET QTasks
    /\ deque = deque0
    /\ nActive = active0
    /\ released = <<>>
    /\ held = <<>>
    /\ pc = "pop"

\* Mutant of Pop: from the end where tasks are pushed.
PopNewest ==
    /\ pc = "pop"
    /\ limit = 0 \/ nActive < limit
    /\ deque # <<>>
    /\ IF Head(deque) \in isHeld
       THEN /\ held' = Append(held, Head(deque))
            /\ UNCHANGED <<released, nActive>>
       ELSE /\ released' = Append(released, Head(deque))
            /\ nActive' = nActive + 1
            /\ UNCHANGED held
    /\ deque' = Tail(deque)
    /\ UNCHANGED <<call, pc>>

\* One turn of the while loop.
Pop ==
    /\ pc = "pop"
    /\ limit = 0 \/ nActive < limit
    /\ deque # <<>>
    /\ LET itask == Last(deque) IN
         IF itask \in isHeld
         THEN /\ held' = Append(held, itask)
              /\ UNCHANGED <<released, nActive>>
         ELSE /\ released' = Append(released, itask)
              /\ nActive' = nActive + 1
              /\ UNCHANGED held
    /\ deque' = Front(deque)
    /\ UNCHANGED <<call, pc>>

\* The limit is reached, or the deque is empty.
EndPop ==
    /\ pc = "pop"
    /\ deque = <<>> \/ (limit # 0 /\ nActive >= limit)
    /\ pc' = "put back"
    /\ UNCHANGED <<call, deque, nActive, released, held>>

\* One turn of the for loop over the held tasks.
PutBack ==
    /\ pc = "put back"
    /\ held # <<>>
    /\ deque' = Cons(Head(held), deque)
    /\ held' = Tail(held)
    /\ UNCHANGED <<call, nActive, released, pc>>

Return ==
    /\ pc = "put back"
    /\ held = <<>>
    /\ pc' = "done"
    /\ UNCHANGED <<call, deque, nActive, released, held>>

RelDone == pc = "done" /\ UNCHANGED relVars

RelNext == Pop \/ EndPop \/ PutBack \/ Return \/ RelDone

RelSpec == RelInit /\ [][RelNext]_relVars

---------------------------------------------------------------------------

\* The loop returns the tasks and leaves the deque that TaskQueues says, the
\* order included, and it returns the oldest task first.
ClosedForm ==
    pc = "done" =>
        /\ ToSet(released) = Released(deque0, limit, active0, isHeld)
        /\ deque = AfterRelease(deque0, limit, active0, isHeld)
        /\ \A i, j \in DOMAIN deque0, k, l \in DOMAIN released :
             deque0[i] = released[k] /\ deque0[j] = released[l] /\ k < l => i > j
===========================================================================
