------------------------------ MODULE TaskPool ------------------------------
(***************************************************************************)
(* The task pool (task_pool.py) and the part of the scheduler that drives  *)
(* it: spawning on outputs and ahead of the runahead limit, release from   *)
(* runahead, queueing, completion and removal, expiry, holding, the stop   *)
(* point, the set and remove commands, automatic shutdown and restart.     *)
(*                                                                         *)
(* The pool, the flags and the statuses of the proxies are sets of task    *)
(* instances.  A proxy and its row in the run database share one status    *)
(* here, since the row is brought up to date in every main loop and on     *)
(* removal: rows are the instances that have one, active ones are          *)
(* preparing, submitted or running (what happens in between is             *)
(* SubmitPipeline), ended ones have a final status, the others wait.       *)
(* There is one flow, and no pause.                                        *)
(*                                                                         *)
(* The pool is one record, and the methods that change it are operators    *)
(* from records to records, which compose the way the methods call each    *)
(* other.                                                                  *)
(***************************************************************************)
EXTENDS CylcGraph

CONSTANTS
    RunaheadLimit,  \* [scheduling]runahead limit, P<n>
    InitialStop,    \* stop after cycle point; the final point if not set
    Emits,          \* the outputs that a name's job may send
    Renamed,        \* the custom outputs whose message is not their name
    Expires,        \* the names with a clock-expire time
    Commands,       \* the kinds of command a run explores
    MaxCommands     \* bound on the number of commands

ASSUME PoolAssumption ==
    /\ RunaheadLimit \in Nat
    /\ InitialStop \in 1..FinalPoint
    /\ Emits \in [Names -> SUBSET Outputs]
    /\ Renamed \subseteq Custom
    /\ Expires \subseteq Names
    /\ MaxCommands \in Nat

VARIABLES
    tp,         \* the TaskPool object, a record
    runState,   \* "running", "complete" after automatic shutdown, "stopped"
    nCommands   \* commands so far

vars == <<tp, runState, nCommands>>

\* The fields of a TaskPool and of its proxies.
PoolRecord ==
    [pool : SUBSET Inst,       \* active_tasks: the n=0 window
     rows : SUBSET Inst,       \* instances with a row in task_states
     active : SUBSET Inst,     \* preparing, submitted or running
     ended : SUBSET (Inst \X FinalStatus),
     outputs : SUBSET Key,     \* completed outputs, as the proxies know
     recorded : SUBSET Key,    \* completed outputs, in table task_outputs
     sat : SUBSET (Inst \X Key),          \* keys satisfied by an output
     forced : SUBSET (Inst \X AnyKey),    \* keys satisfied by cylc set --pre
     runahead : SUBSET Inst,   \* is_runahead
     queued : SUBSET Inst,     \* is_queued
     held : SUBSET Inst,       \* is_held
     toHold : SUBSET Inst,     \* tasks_to_hold
     limit : 0..FinalPoint,    \* runahead_limit_point, 0 for None
     base : 0..FinalPoint,     \* _prev_runahead_base_point, 0 for None
     holdPoint : 0..FinalPoint,    \* hold_point, 0 for None
     stopPoint : 1..FinalPoint]    \* stop_point

\* What the pairs S have for i, and the pairs of S for others than R.
Of(S, i) == {e[2] : e \in {e \in S : e[1] = i}}
Without(S, R) == {e \in S : e[1] \notin R}

Ended(s) == {e[1] : e \in s.ended}
Waiting(s) == s.rows \ (s.active \cup Ended(s))

SatisfiedKeys(s, i) == Of(s.sat \cup s.forced, i)
IsReady(s, i) == Satisfied(i, SatisfiedKeys(s, i))
-----------------------------------------------------------------------------
(* Spawning and removal. *)

\* spawn_task, for an instance that is not in the pool: the history in the
\* database tells whether it finished, or was removed by a suicide trigger.
IsSpawnable(s, i) ==
    /\ i \notin s.pool
    /\ \/ i \notin s.rows
       \/ /\ Of(s.recorded, i) # {}
          /\ ~(i \in Ended(s) /\ IsComplete(i, Of(s.recorded, i)))

HeldOnSpawn(s, i) == i \in s.toHold \/ (s.holdPoint # 0 /\ i[2] > s.holdPoint)

\* Proxies for N, with the outputs of their history; those in H are held.
AddToPool(s, N, H) ==
    [s EXCEPT !.pool = @ \cup N,
              !.rows = @ \cup N,
              !.runahead = @ \cup N,
              !.outputs = Without(@, N) \cup {e \in s.recorded : e[1] \in N},
              !.held = @ \cup H,
              !.toHold = @ \cup H]

\* Mutant of Spawn: hold_active_task leaves the list of tasks to hold alone.
SpawnUnlisted(s, C) ==
    LET N == {c \in C : IsSpawnable(s, c)}
        H == {c \in N : HeldOnSpawn(s, c)}
    IN  [AddToPool(s, N, H) EXCEPT !.toHold = s.toHold]

\* Mutant of Spawn: the history is not consulted.
SpawnAnew(s, C) ==
    LET N == C \ s.pool
        H == {c \in N : HeldOnSpawn(s, c)}
    IN  [AddToPool(s, N, H) EXCEPT !.ended = Without(@, N)]

\* spawn_task and add_to_pool, for those of C that can be spawned.
Spawn(s, C) ==
    LET N == {c \in C : IsSpawnable(s, c)}
        H == {c \in N : HeldOnSpawn(s, c)}
    IN  AddToPool(s, N, H)

SpawnNextParentless(s, R) ==
    Spawn(s, {j \in Inst : \E i \in R : j \in NextParentless(i)})

Drop(s, R) ==
    [s EXCEPT !.pool = @ \ R, !.runahead = @ \ R, !.queued = @ \ R,
              !.held = @ \ R, !.toHold = @ \ R,
              !.sat = Without(@, R), !.forced = Without(@, R)]

\* remove: the next instance of a runahead-limited task is spawned first.  The
\* satisfied prerequisites go with the proxies.
Remove(s, R) == Drop(SpawnNextParentless(s, R \cap s.runahead), R)

RemoveIfComplete(s, i) ==
    IF i \in Ended(s) /\ IsComplete(i, Of(s.outputs, i))
    THEN Remove(s, {i})
    ELSE s

\* satisfy_me, on the prerequisites of C: what was forced stays forced.
Satisfy(s, C, key) == [s EXCEPT !.sat = @ \cup ({<<c, key>> : c \in C} \ s.forced)]

\* spawn_on_output: spawn or update the children, remove those whose suicide
\* triggers are now satisfied, and the parent if it is complete.
SpawnOnOutput(s, i, output) ==
    LET spawned == Spawn(s, Children(i, output))
        kids == Children(i, output) \cap spawned.pool
        told == Satisfy(spawned, kids, <<i, output>>)
        suicide == {c \in kids : SuicideSatisfied(c, SatisfiedKeys(told, c))}
    IN  RemoveIfComplete(Remove(told, suicide), i)

\* The status of a proxy follows an output, if it is a final one.
EndWith(s, i, output) ==
    IF output \in FinalStatus
    THEN [s EXCEPT !.active = @ \ {i},
                   !.ended = Without(@, {i}) \cup {<<i, output>>}]
    ELSE s

\* process_message: complete the output, change the status, record.  Expiry
\* also clears is_runahead and is_queued (TaskProxy.state_reset).
CompleteOutput(s, i, output) ==
    LET gone == IF output = "expired" THEN {i} ELSE {} IN
    [EndWith(s, i, output) EXCEPT
        !.outputs = @ \cup {<<i, output>>},
        !.recorded = Without(@, {i}) \cup {e \in s.outputs : e[1] = i}
                                     \cup {<<i, output>>},
        !.runahead = @ \ gone,
        !.queued = @ \ gone]

ProcessMessage(s, i, output) ==
    SpawnOnOutput(CompleteOutput(s, i, output), i, output)
-----------------------------------------------------------------------------
(* The runahead limit. *)

BasePoint(s) ==
    IF s.pool = {} THEN Min(AllPoints) ELSE Min({i[2] : i \in s.pool})

\* The last of the RunaheadLimit + 1 cycle points from p on.
Window(p) ==
    LET ahead == {q \in AllPoints : q >= p}
        W == {q \in ahead : Cardinality({r \in ahead : r < q}) <= RunaheadLimit}
    IN  IF W = {} THEN p ELSE Max(W)

PreviousBase(s) == IF s.base = 0 THEN BasePoint(s) ELSE s.base

\* compute_runahead recomputes the limit.
IsLimitStale(s) ==
    \/ s.limit = 0
    \/ BasePoint(s) # PreviousBase(s) /\ s.limit # s.stopPoint

ComputeRunahead(s) ==
    IF IsLimitStale(s)
    THEN [s EXCEPT !.base = BasePoint(s),
                   !.limit = Min({Window(BasePoint(s)), s.stopPoint})]
    ELSE [s EXCEPT !.base = PreviousBase(s)]

\* Mutant of ReleaseRunahead: the next parentless instances are not spawned.
ReleaseRunaheadOnly(s) ==
    [s EXCEPT !.runahead = {i \in @ : i[2] > s.limit}]

\* Mutant of ReleaseRunahead: the cycle after the limit is released too.
ReleaseRunaheadNext(s) ==
    LET R == {i \in s.runahead : i[2] <= s.limit + 1} IN
    SpawnNextParentless([s EXCEPT !.runahead = @ \ R], R)

ReleaseRunahead(s) ==
    LET R == {i \in s.runahead : i[2] <= s.limit} IN
    SpawnNextParentless([s EXCEPT !.runahead = @ \ R], R)
-----------------------------------------------------------------------------
(* Start-up. *)

\* Mutant of CanQueue: the prerequisites are not looked at.
CanQueueUnready(s, i) ==
    /\ i \in s.pool \cap Waiting(s)
    /\ i \notin s.queued \cup s.runahead \cup s.held

\* queue_if_ready and is_ready_to_run.
CanQueue(s, i) ==
    /\ i \in s.pool \cap Waiting(s)
    /\ i \notin s.queued \cup s.runahead \cup s.held
    /\ IsReady(s, i)

EmptyPool ==
    [pool |-> {}, rows |-> {}, active |-> {}, ended |-> {}, outputs |-> {},
     recorded |-> {}, sat |-> {}, forced |-> {}, runahead |-> {}, queued |-> {},
     held |-> {}, toHold |-> {}, limit |-> 0, base |-> 0, holdPoint |-> 0,
     stopPoint |-> InitialStop]

\* spawn_to_runahead_limit makes ten passes, or as many as release anything.
Twice(s) == ReleaseRunahead(ReleaseRunahead(s))
SpawnToRunaheadLimit(s) == Twice(Twice(Twice(Twice(Twice(ComputeRunahead(s))))))

\* load_from_point.
LoadFromPoint ==
    SpawnToRunaheadLimit(Spawn(EmptyPool, {i \in Inst : i \in FirstParentless(i[1])}))

Init ==
    /\ tp = LET s == LoadFromPoint IN
                [s EXCEPT !.queued = {i \in s.pool : CanQueue(s, i)}]
    /\ runState = "running"
    /\ nCommands = 0
-----------------------------------------------------------------------------
(* The main loop. *)

\* is_stalled: nothing active or about to be, and something left behind.
IsStalled(s) ==
    /\ \A i \in s.pool :
         i \notin s.active /\ ~(i \in Waiting(s) \ s.runahead /\ IsReady(s, i))
    /\ \E i \in s.pool :
         \/ i \in Ended(s) /\ ~IsComplete(i, Of(s.outputs, i))
         \/ i[2] <= s.stopPoint /\ ~IsReady(s, i)

\* Mutant of CanShutDown: tasks beyond the stop point count as well.
CanShutDownEmpty(s) == ~IsStalled(s) /\ s.pool = {}

\* check_auto_shutdown.
CanShutDown(s) ==
    /\ ~IsStalled(s)
    /\ \A i \in s.pool : i \notin s.active /\ (i \in Waiting(s) => i \in s.runahead)

\* The top of _main_loop, up to and including workflow_shutdown.
MainLoop ==
    /\ runState = "running"
    /\ tp' = ReleaseRunahead(ComputeRunahead(tp))
    /\ runState' = IF CanShutDown(tp') THEN "complete" ELSE "running"
    /\ UNCHANGED nCommands

QueueIfReady(i) ==
    /\ runState = "running"
    /\ CanQueue(tp, i)
    /\ tp' = [tp EXCEPT !.queued = @ \cup {i}]
    /\ UNCHANGED <<runState, nCommands>>

\* start_job_submission, up to a submitted job: the status is preparing or later.
Submitted(s, i) ==
    [s EXCEPT !.queued = @ \ {i}, !.active = @ \cup {i},
              !.ended = Without(@, {i})]

\* release_tasks_to_run.
ReleaseTask(i) ==
    /\ runState = "running"
    /\ i \in tp.queued \ tp.held
    /\ tp' = Submitted(tp, i)
    /\ UNCHANGED <<runState, nCommands>>

\* A message of the job of i.
JobOutput(i, output) ==
    /\ runState = "running"
    /\ i \in tp.pool \cap tp.active
    /\ <<i, output>> \notin tp.outputs
    /\ tp' = ProcessMessage(tp, i, output)
    /\ UNCHANGED <<runState, nCommands>>

\* clock_expire_tasks, once the time is up.
Expire(i) ==
    /\ runState = "running"
    /\ i \in tp.pool \cap Waiting(tp)
    /\ i[1] \in Expires
    /\ tp' = ProcessMessage(tp, i, "expired")
    /\ UNCHANGED <<runState, nCommands>>
-----------------------------------------------------------------------------
(* Commands. *)

Command(kind) ==
    /\ runState = "running"
    /\ kind \in Commands
    /\ nCommands < MaxCommands
    /\ nCommands' = nCommands + 1
    /\ UNCHANGED runState

HoldTask(i) ==
    /\ Command("hold")
    /\ tp' = [tp EXCEPT !.held = @ \cup ({i} \cap tp.pool), !.toHold = @ \cup {i}]

\* release_held_active_task, for the proxies R; the list is left to the caller.
Unhold(s, R) ==
    LET free == [s EXCEPT !.held = @ \ R] IN
    [free EXCEPT !.queued = @ \cup {i \in R \cap s.held : CanQueue(free, i)}]

\* release_held_tasks matches the list of tasks to hold.
ReleaseHeldTask(i) ==
    /\ Command("hold")
    /\ i \in tp.toHold
    /\ tp' = [Unhold(tp, {i} \cap tp.pool) EXCEPT !.toHold = @ \ {i}]

SetHoldPoint(p) ==
    /\ Command("hold")
    /\ LET beyond == {i \in tp.pool : i[2] > p} IN
         tp' = [tp EXCEPT !.holdPoint = p,
                          !.held = @ \cup beyond, !.toHold = @ \cup beyond]

ReleaseHoldPoint ==
    /\ Command("hold")
    /\ tp' = [Unhold(tp, tp.pool) EXCEPT !.holdPoint = 0, !.toHold = {}]

\* Mutant of SetStopPoint: the limit stays where it is.
SetStopPointOnly(p) ==
    /\ Command("stop point")
    /\ p # tp.stopPoint
    /\ tp' = [tp EXCEPT !.stopPoint = p]

\* set_stop_point: the limit comes down with it, and waiting tasks beyond it go
\* back to runahead-limited.  Those that are queued stay in their queue.
SetStopPoint(p) ==
    /\ Command("stop point")
    /\ p # tp.stopPoint
    /\ LET back == {i \in tp.pool \cap Waiting(tp) : i[2] > p}
           moved == [tp EXCEPT !.stopPoint = p]
       IN  tp' = IF tp.limit > p
                 THEN [moved EXCEPT !.limit = p, !.runahead = @ \cup back]
                 ELSE moved

\* _set_prereqs_itask and, for a task that has to be spawned first,
\* _set_prereqs_tdef, which inserts an empty row of outputs.
SetPrereqs(i) ==
    /\ Command("set prereqs")
    /\ LET s == Spawn(tp, {i})
           keys == {KeyOf(i, trg) : trg \in
                      {trg \in UNION Requires[i[1]] : ~IsPreInitial(i, trg)}}
       IN  tp' = IF i \in s.pool
                 THEN [s EXCEPT
                        !.forced = @ \cup ({<<i, k>> : k \in keys} \ s.sat),
                        !.recorded = IF i \in tp.pool THEN @ ELSE Without(@, {i})]
                 ELSE s

\* A transient proxy, made with the default status, and runahead-limited.
Transient(s, i) ==
    [s EXCEPT !.rows = @ \cup {i}, !.active = @ \ {i}, !.ended = Without(@, {i}),
              !.outputs = Without(@, {i}) \cup {e \in s.recorded : e[1] = i},
              !.runahead = @ \cup {i}]

\* _set_outputs_itask: a task that is no longer waiting cannot be
\* runahead-limited or queued; a transient proxy is dropped.
AfterSet(s, i) ==
    IF i \in s.pool \cap Waiting(s) THEN s
    ELSE [s EXCEPT !.runahead = @ \ {i}, !.queued = @ \ {i}]

SetOutput(i, output) ==
    /\ Command("set outputs")
    /\ LET s == IF i \in tp.pool THEN tp ELSE Transient(tp, i) IN
         /\ <<i, output>> \notin s.outputs
         /\ tp' = AfterSet(ProcessMessage(s, i, output), i)

\* remove_task_from_flows, for the only flow.
EraseHistory(s, E) ==
    [s EXCEPT !.rows = @ \ E, !.active = @ \ E, !.ended = Without(@, E),
              !.outputs = Without(@, E), !.recorded = Without(@, E)]

HasSatisfied(s, i) ==
    \E trg \in UNION Requires[i[1]] :
        IsPreInitial(i, trg) \/ KeyOf(i, trg) \in SatisfiedKeys(s, i)

\* Mutant of StandDown: what the removed task had satisfied stays satisfied.
StandDownNone(s, i) == EraseHistory(s, {i})

\* The loop of _remove_matched_tasks over the children of the removed task:
\* what it satisfied is unset, children that are no longer ready are unqueued,
\* and those left without a satisfied prerequisite are removed and erased.
StandDown(s, i) ==
    LET lost == {e \in s.sat : e[2][1] = i}
        unset == [s EXCEPT !.sat = @ \ lost]
        down == {c \in {e[1] : e \in lost} :
                   /\ c \in Waiting(s) \/ <<c, "expired">> \in s.ended
                   /\ ~IsReady(unset, c)}
        out == {c \in down : c # i /\ ~HasSatisfied(unset, c)}
    IN  EraseHistory(Remove([unset EXCEPT !.queued = @ \ down], out), out \cup {i})

\* cylc remove: the pool, the history and the children, then the job is killed,
\* which puts the task on the list of those to hold.
RemoveTask(i) ==
    /\ Command("remove")
    /\ i \in tp.rows
    /\ LET gone == IF i \in tp.pool THEN Remove(tp, {i}) ELSE tp
           alone == StandDown(gone, i)
           killed == IF i \in tp.pool \cap tp.active
                     THEN [alone EXCEPT !.toHold = @ \cup {i}] ELSE alone
       IN  tp' = IF IsLimitStale(killed)
                 THEN ReleaseRunahead(ComputeRunahead(killed))
                 ELSE ComputeRunahead(killed)

\* cylc stop --now.
StopNow ==
    /\ runState = "running"
    /\ "stop" \in Commands
    /\ nCommands < MaxCommands
    /\ nCommands' = nCommands + 1
    /\ runState' = "stopped"
    /\ UNCHANGED tp

\* Mutant of RestoredOutputs: only finished tasks have outputs.
RestoredOutputsFinished ==
    Without(tp.outputs, tp.pool) \cup {e \in tp.recorded : e[1] \in tp.pool \cap Ended(tp)}

\* The outputs of the proxies that load_db_task_pool_for_restart makes: the
\* recorded names are taken for messages, and of some statuses only.
RestoredOutputs ==
    LET P == {i \in tp.pool : \/ i \in tp.active
                           \/ Of(tp.ended, i) \cap {"succeeded", "failed"} # {}}
    IN  Without(tp.outputs, tp.pool)
            \cup {e \in tp.recorded : e[1] \in P /\ e[2] \notin Renamed}

\* put_task_pool stores the prerequisites but not the suicide ones.
RestoredSat ==
    {e \in tp.sat : \E trg \in UNION Requires[e[1][1]] : KeyOf(e[1], trg) = e[2]}

\* Finished tasks are released at once, the others load as runahead-limited.
RestoredRunahead == tp.pool \ Ended(tp)

\* Submitted and running tasks are loaded as they were, and polled.
RestoredActive == tp.active

\* A restart, after a stop or an automatic shutdown with tasks left in the
\* pool.  The automatic shutdown forgot the stop point.
Restart ==
    /\ runState # "running"
    /\ "stop" \in Commands
    /\ tp.pool # {}
    /\ LET beyond == {i \in tp.pool : tp.holdPoint # 0 /\ i[2] > tp.holdPoint} IN
         tp' = [tp EXCEPT
                 !.outputs = RestoredOutputs,
                 !.sat = RestoredSat,
                 !.active = RestoredActive,
                 !.runahead = RestoredRunahead,
                 !.queued = {},
                 !.held = @ \cup beyond,
                 !.toHold = @ \cup beyond,
                 !.limit = 0,
                 !.base = 0,
                 !.stopPoint = IF runState = "complete" THEN FinalPoint ELSE @]
    /\ runState' = "running"
    /\ UNCHANGED nCommands

Next ==
    \/ MainLoop
    \/ \E i \in Inst :
         \/ QueueIfReady(i)
         \/ ReleaseTask(i)
         \/ \E output \in Emits[i[1]] : JobOutput(i, output)
         \/ Expire(i)
         \/ HoldTask(i)
         \/ ReleaseHeldTask(i)
         \/ SetPrereqs(i)
         \/ \E output \in Emits[i[1]] : SetOutput(i, output)
         \/ RemoveTask(i)
    \/ \E p \in AllPoints : SetHoldPoint(p) \/ SetStopPoint(p)
    \/ ReleaseHoldPoint
    \/ StopNow
    \/ Restart

\* Each part of the main loop gets its turn again and again, which task goes
\* first is left open, and no job runs for ever.
Fairness ==
    /\ WF_vars(MainLoop)
    /\ WF_vars(\E i \in Inst : QueueIfReady(i))
    /\ WF_vars(\E i \in Inst : ReleaseTask(i))
    /\ \A i \in Inst : []<>(runState # "running" \/ i \notin tp.active)

Spec == Init /\ [][Next]_vars
LiveSpec == Spec /\ Fairness
-----------------------------------------------------------------------------
(* Properties. *)

\* Every variable has its type; flags and satisfied prerequisites are those of
\* proxies in the pool, and an instance has one status.
TypeOK ==
    /\ tp \in PoolRecord
    /\ tp.pool \cup tp.active \cup Ended(tp) \subseteq tp.rows
    /\ tp.active \cap Ended(tp) = {}
    /\ tp.runahead \cup tp.queued \cup tp.held \subseteq tp.pool
    /\ \A e \in tp.sat \cup tp.forced : e[1] \in tp.pool
    /\ runState \in {"running", "complete", "stopped"}
    /\ nCommands \in 0..MaxCommands

\* The hold flag of a task in the pool and the list of tasks to hold agree,
\* however the two were changed: by name, by hold point, on spawning a task
\* that was held before it existed, on removal or through a restart.
HeldMatchesList == tp.held = tp.pool \cap tp.toHold

\* The waiting tasks that a step submits.
Started == tp.pool \cap Waiting(tp) \cap tp'.active

\* What a prerequisite records as satisfied by an output was really completed:
\* removing a task takes back what it had satisfied in every waiting child.
SatisfiedByOutputs == \A e \in tp.sat : e[2] \in tp.outputs \cup tp.recorded

\* A job runs only within the runahead limit of the oldest cycle in the pool,
\* though the limit is recomputed only when the base point is seen to change.
WithinRunaheadLimit ==
    \A i \in tp.pool \cap tp.active, j \in tp.pool :
        Cardinality({p \in AllPoints : j[2] <= p /\ p < i[2]}) <= RunaheadLimit

\* No waiting task is released from runahead beyond the stop point, however the
\* stop point and the base of the runahead limit move.
LimitedByStop ==
    [][\A i \in (tp.runahead \ tp'.runahead) \cap tp'.pool \cap Waiting(tp)' :
         i[2] <= tp.stopPoint]_vars

\* When the scheduler shuts down by itself, nothing that could run up to the
\* stop point was left behind: no break in a chain of parentless tasks, no
\* child that was never spawned, no held or incomplete task.
NothingMissed ==
    runState = "complete" =>
        \A i \in Inst :
            i[2] <= tp.stopPoint /\ Satisfied(i, tp.recorded)
                => i \in Ended(tp) /\ IsComplete(i, Of(tp.recorded, i))

\* A proxy in the pool and the database know the same outputs of its task: a
\* restart, or a spawn from history, runs on what was really completed.
OutputsAgree ==
    \A e \in tp.outputs \cup tp.recorded :
        e[1] \in tp.pool => e \in tp.outputs \cap tp.recorded

\* A task that succeeded is not run again: its history stops it from being
\* spawned by another parent, until it is removed.
RunsOnce == [][\A i \in Started : <<i, "succeeded">> \notin tp.recorded]_vars

\* Left alone, the workflow shuts down or stalls for good: no task is forgotten
\* in a state that neither the main loop nor is_stalled sees.
Settles == <>[](runState = "complete" \/ IsStalled(tp))

begun == tp.active \cup Ended(tp)

\* The pool implements the dataflow of the graph.
Flow == INSTANCE Dataflow WITH begun <- begun, done <- tp.recorded
Implements == Flow!Spec
===========================================================================
