---------------------------- MODULE QueueConfig ----------------------------
(***************************************************************************)
(* How IndepQueueManager turns the configured queues, whose membership     *)
(* lists may name families and may overlap, into independent queues        *)
(* (task_queues/__init__.py, task_queues/independent.py): one step per     *)
(* iteration of the loop of _make_indep.                                   *)
(***************************************************************************)
EXTENDS Naturals

CONSTANTS
    Tasks,        \* all_task_names
    Families,     \* the keys of descendants
    Descendants,  \* descendants: family -> family and task names
    NQueues       \* number of configured queues beside the default one

ASSUME QueueConfigAssumption ==
    /\ Tasks \cap Families = {}
    /\ Descendants \in [Families -> SUBSET (Tasks \cup Families)]
    /\ NQueues \in Nat

\* Queues are numbered in the order of the configuration; the default queue,
\* which the configuration specification defines, comes first.
Default == 0
QueueNames == 0..NQueues
Custom == 1..NQueues
None == NQueues + 1

VARIABLES
    config,   \* the configured membership lists of the custom queues
    members,  \* queues[qname]["members"]
    seen,     \* the custom queue each task was last assigned to
    next      \* the queue of the next iteration

vars == <<config, members, seen, next>>

TypeOK ==
    /\ config \in [Custom -> SUBSET (Tasks \cup Families)]
    /\ members \in [QueueNames -> SUBSET Tasks]
    /\ seen \in [Tasks -> Custom \cup {None}]
    /\ next \in 1..(NQueues + 1)

\* _expand_families: families become their member tasks.
ExpandFamilies(names) ==
    (names \cap Tasks)
    \cup {t \in Tasks : \E f \in names \cap Families : t \in Descendants[f]}

\* __init__: every task is a member of the default queue to begin with.
Init ==
    /\ config \in [Custom -> SUBSET (Tasks \cup Families)]
    /\ members = [q \in QueueNames |->
                    IF q = Default THEN Tasks ELSE ExpandFamilies(config[q])]
    /\ seen = [t \in Tasks |-> None]
    /\ next = 1

\* Mutant of AssignMembers: the first assignment takes precedence.
AssignMembersFirst ==
    /\ next <= NQueues
    /\ members' = [q \in QueueNames |->
                     IF q = Default THEN members[q] \ members[next]
                     ELSE IF q = next THEN {t \in members[q] : seen[t] = None}
                     ELSE members[q]]
    /\ seen' = [t \in Tasks |-> IF t \in members[next] /\ seen[t] = None
                                THEN next ELSE seen[t]]
    /\ next' = next + 1
    /\ UNCHANGED config

\* One custom queue: its members leave the default queue and the queue they
\* were assigned to before.
AssignMembers ==
    /\ next <= NQueues
    /\ members' = [q \in QueueNames |->
                     IF q = Default THEN members[q] \ members[next]
                     ELSE members[q] \ {t \in members[next] : seen[t] = q}]
    /\ seen' = [t \in Tasks |-> IF t \in members[next] THEN next ELSE seen[t]]
    /\ next' = next + 1
    /\ UNCHANGED config

Done ==
    /\ next > NQueues
    /\ UNCHANGED vars

Next == AssignMembers \/ Done

Spec == Init /\ [][Next]_vars

---------------------------------------------------------------------------

\* Once the queues are made, every task is a member of exactly one of them:
\* a task in two queues would be pushed to both and submitted twice, a task in
\* none would never be released.
OneQueueEach ==
    next > NQueues =>
        \A t \in Tasks : \E q \in QueueNames :
            t \in members[q] /\ \A r \in QueueNames : t \in members[r] => r = q

\* The last assignment takes precedence: a task is in the last of the custom
\* queues that it was given to.
LastAssignmentWins ==
    next > NQueues =>
        \A t \in Tasks : \A q \in Custom :
            t \in members[q] <=>
                /\ t \in ExpandFamilies(config[q])
                /\ \A r \in (q + 1)..NQueues : t \notin ExpandFamilies(config[r])
===========================================================================
