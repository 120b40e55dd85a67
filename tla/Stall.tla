------------------------------- MODULE Stall -------------------------------
(***************************************************************************)
(* How the main loop judges the workflow as a whole.  It is stalled if     *)
(* nothing runs and tasks failed or wait for what will not come; it is     *)
(* complete if nothing is left to run.  A stall starts a timer, at the end *)
(* of which the scheduler may abort.  Any change of a task, and any        *)
(* command, ends a stall; a reload is not to end one.  A workflow that had *)
(* completed before it is restarted waits for the restart timer.           *)
(*                                                                         *)
(* One turn of the loop goes through Turns in order.  The pool is reduced  *)
(* to the statuses of a few tasks: a task that is not beyond the stop      *)
(* point is within the runahead limit, a queue has no limit, and a job     *)
(* that failed leaves its task incomplete.                                 *)
(***************************************************************************)
EXTENDS Naturals

CONSTANTS
    STasks,
    Workflows,        \* what each task needs, and the tasks beyond the stop point
    MaxInterventions  \* bound on the number of commands and restarts

ASSUME StallAssumption ==
    /\ Workflows \subseteq [needs : [STasks -> SUBSET STasks], beyond : SUBSET STasks]
    /\ MaxInterventions \in Nat

VARIABLES
    st,          \* status of each task, "none" outside the pool
    spawned,     \* the tasks that have been in the pool in this flow
    outs,        \* the tasks that succeeded
    forced,      \* the tasks whose prerequisites a trigger satisfied
    orphans,     \* the tasks that a reload took out of the graph
    isRunahead, isQueued, isUpdated,   \* the tasks with that flag of TaskState
    tasks_to_trigger_now,
    is_updated, is_stalled, is_reloaded, is_paused, is_restart_timeout_wait,
    was_paused_before_reload,
    timers,      \* the timers that run
    turn,        \* where the main loop is
    has_updated, \* of this turn
    workflow,    \* one of Workflows
    abort_on_stall,   \* whether the stall timer aborts the scheduler
    interventions,
    overtaken    \* history: a reload kept the stall of a pool not stalled

poolVars == <<st, spawned, outs, forced, isRunahead, isQueued, tasks_to_trigger_now>>
flagVars == <<is_updated, is_stalled, is_reloaded, is_paused,
              is_restart_timeout_wait, timers>>
settings == <<workflow, abort_on_stall>>
stallVars == <<poolVars, orphans, isUpdated, flagVars, was_paused_before_reload,
               turn, has_updated, settings, interventions, overtaken>>

Timers == {"stall", "restart"}
CommandTurns == {"commands 1", "commands 2"}
ReloadTurns == {"reload 1", "reload 2"}
Turns == {"release", "shutdown", "callbacks", "queue", "messages", "flags",
          "timers", "check", "shut down", "aborted"} \cup CommandTurns \cup ReloadTurns
WithJob == {"preparing", "running"}

STypeOK ==
    /\ st \in [STasks -> WithJob \cup {"none", "waiting", "failed"}]
    /\ \A set \in {spawned, outs, forced, orphans, isRunahead, isQueued,
                   isUpdated, tasks_to_trigger_now} : set \subseteq STasks
    /\ {is_updated, is_stalled, is_reloaded, is_paused, is_restart_timeout_wait,
        was_paused_before_reload, has_updated, abort_on_stall, overtaken} \subseteq BOOLEAN
    /\ timers \subseteq Timers
    /\ turn \in Turns
    /\ workflow \in Workflows
    /\ interventions \in 0..MaxInterventions

\* The tasks whose success a task needs, and those beyond the stop point.
Upstream(t) == workflow.needs[t]
beyond == workflow.beyond

InPool == {t \in STasks : st[t] # "none"}
WaitingTasks == {t \in STasks : st[t] = "waiting"}
Unsatisfied(t) == IF t \in forced THEN {} ELSE Upstream(t) \ outs
Ready == {t \in WaitingTasks \ isRunahead : Unsatisfied(t) = {}}
Over == turn \in {"shut down", "aborted"}

\* A completed workflow: there is nothing in the pool that is not beyond the
\* stop point.
HasCompleted(pool) == pool \subseteq beyond

\* A new run: the tasks without parents are in the pool.
SInit ==
    /\ workflow \in Workflows /\ abort_on_stall \in BOOLEAN
    /\ st = [t \in STasks |-> IF Upstream(t) = {} THEN "waiting" ELSE "none"]
    /\ spawned = InPool /\ isRunahead = InPool
    /\ outs = {} /\ forced = {} /\ orphans = {}
    /\ isQueued = {} /\ isUpdated = {} /\ tasks_to_trigger_now = {}
    /\ is_updated = TRUE
    /\ is_stalled = FALSE /\ is_reloaded = FALSE /\ is_restart_timeout_wait = FALSE
    /\ is_paused = FALSE /\ was_paused_before_reload = FALSE
    /\ timers = {}
    /\ turn = "release" /\ has_updated = FALSE
    /\ interventions = 0 /\ overtaken = FALSE

---------------------------------------------------------------------------
(* The judgement *)

Incomplete == \E t \in STasks : st[t] = "failed"

\* Prerequisites on tasks beyond the stop point do not count.
WaitsInVain == \E t \in WaitingTasks \ beyond : Unsatisfied(t) \ beyond # {}

PoolIsStalled ==
    /\ \A t \in STasks : st[t] \notin WithJob
    /\ Ready = {}
    /\ Incomplete \/ WaitsInVain

\* check_workflow_stalled finds a stall that was not reported before.
StallFound == ~is_stalled /\ ~is_paused /\ PoolIsStalled

ReportStall(found) ==
    /\ is_stalled' = (is_stalled \/ found)
    /\ timers' = IF found THEN timers \cup {"stall"} ELSE timers
    /\ overtaken' = (overtaken /\ ~found)

MoreToRun == \E t \in STasks : st[t] \in WithJob \/ t \in WaitingTasks \ isRunahead

---------------------------------------------------------------------------
(* A turn of the main loop *)

Releasable == isRunahead \ beyond

ReleaseRunaheadTasks ==
    /\ turn = "release" /\ turn' = "shutdown"
    /\ isRunahead' = isRunahead \ Releasable
    /\ isUpdated' = isUpdated \cup Releasable
    /\ UNCHANGED <<st, spawned, outs, forced, orphans, isQueued, tasks_to_trigger_now,
                   flagVars, was_paused_before_reload, has_updated, settings,
                   interventions, overtaken>>

\* check_auto_shutdown may report a stall, unless it returns before.
WorkflowShutdown ==
    /\ turn = "shutdown"
    /\ LET looks == ~is_paused /\ ~is_restart_timeout_wait
           found == looks /\ StallFound
       IN  /\ ReportStall(found)
           /\ turn' = IF looks /\ ~is_stalled /\ ~found /\ ~MoreToRun
                      THEN "shut down" ELSE "commands 1"
    /\ UNCHANGED <<poolVars, orphans, isUpdated, is_updated, is_reloaded, is_paused,
                   is_restart_timeout_wait, was_paused_before_reload, has_updated,
                   settings, interventions>>

\* The command queue is empty, or the callbacks and messages are handled.
GoOn ==
    /\ turn' = CASE turn = "commands 1" -> "callbacks"
                 [] turn = "callbacks" -> "queue"
                 [] turn = "messages" -> "commands 2"
                 [] turn = "commands 2" -> "flags"
                 [] OTHER -> turn
    /\ turn' # turn
    /\ UNCHANGED <<poolVars, orphans, isUpdated, flagVars, was_paused_before_reload,
                   has_updated, settings, interventions, overtaken>>

\* The job submission command returned; the job starts.
JobSubmitted(t) ==
    /\ turn \in {"callbacks"} \cup ReloadTurns
    /\ st[t] = "preparing"
    /\ \E status \in {"running", "failed"} : st' = [st EXCEPT ![t] = status]
    /\ isUpdated' = isUpdated \cup {t}
    /\ UNCHANGED <<spawned, outs, forced, orphans, isRunahead, isQueued,
                   tasks_to_trigger_now, flagVars, was_paused_before_reload, turn,
                   has_updated, settings, interventions, overtaken>>

\* queue_if_ready for each waiting task, then release_tasks_to_run.
QueueAndRelease ==
    /\ turn = "queue" /\ turn' = "messages"
    /\ LET queued == isQueued \cup (Ready \ tasks_to_trigger_now)
           released == (tasks_to_trigger_now \cap WaitingTasks)
                       \cup (IF is_paused THEN {} ELSE queued)
       IN  /\ st' = [t \in STasks |-> IF t \in released THEN "preparing" ELSE st[t]]
           /\ isQueued' = queued \ released
           /\ isUpdated' = isUpdated \cup (queued \ isQueued) \cup released
           /\ is_updated' = (is_updated \/ released # {} \/ tasks_to_trigger_now # {})
    /\ tasks_to_trigger_now' = {}
    /\ UNCHANGED <<spawned, outs, forced, orphans, isRunahead, is_stalled, is_reloaded,
                   is_paused, is_restart_timeout_wait, timers,
                   was_paused_before_reload, has_updated, settings, interventions,
                   overtaken>>

\* A task succeeds: it leaves the pool, with its flags, and its children are
\* added to the pool as runahead limited, which does not flag them as updated.
Succeed(t) ==
    LET children == {c \in STasks \ (spawned \cup orphans) :
                        t \in Upstream(c) /\ t \notin orphans}
    IN  /\ st' = [u \in STasks |-> IF u = t THEN "none"
                                   ELSE IF u \in children THEN "waiting" ELSE st[u]]
        /\ spawned' = spawned \cup children
        /\ outs' = outs \cup {t}
        /\ isRunahead' = (isRunahead \ {t}) \cup children
        /\ isUpdated' = isUpdated \ {t}

MessageOfSuccess(t) ==
    /\ turn \in {"messages"} \cup ReloadTurns
    /\ st[t] = "running" /\ Succeed(t)
    /\ UNCHANGED <<forced, orphans, isQueued, tasks_to_trigger_now, flagVars,
                   was_paused_before_reload, turn, has_updated, settings,
                   interventions, overtaken>>

MessageOfFailure(t) ==
    /\ turn \in {"messages"} \cup ReloadTurns
    /\ st[t] = "running" /\ st' = [st EXCEPT ![t] = "failed"]
    /\ isUpdated' = isUpdated \cup {t}
    /\ UNCHANGED <<spawned, outs, forced, orphans, isRunahead, isQueued,
                   tasks_to_trigger_now, flagVars, was_paused_before_reload, turn,
                   has_updated, settings, interventions, overtaken>>

\* Mutant of StallKept: an update of a task alone does not end a stall.
StallKeptLong == is_stalled /\ (is_updated => is_reloaded)

\* Any update ends a stall, unless there was a reload.
Updated == isUpdated \cap InPool
HasUpdated == Updated # {} \/ is_updated
StallKept == is_stalled /\ (HasUpdated => is_reloaded)

\* The flags of the turn are dealt with.  An update of a task also ends the wait
\* after a restart.
HandleUpdates ==
    /\ turn = "flags" /\ turn' = "timers"
    /\ has_updated' = HasUpdated
    /\ is_stalled' = StallKept
    /\ is_restart_timeout_wait' = (is_restart_timeout_wait /\ Updated = {})
    /\ timers' = timers \ ((IF HasUpdated /\ ~StallKept THEN {"stall"} ELSE {})
                           \cup (IF is_restart_timeout_wait /\ Updated # {}
                                 THEN {"restart"} ELSE {}))
    /\ overtaken' = IF HasUpdated THEN StallKept /\ is_reloaded /\ ~PoolIsStalled
                    ELSE overtaken
    /\ is_reloaded' = (is_reloaded /\ ~HasUpdated)
    /\ is_updated' = FALSE
    /\ isUpdated' = {}
    /\ UNCHANGED <<poolVars, orphans, is_paused, was_paused_before_reload, settings,
                   interventions>>

\* Mutant of WaitAfter: the flag is left set.
WaitAfterAll(off) == is_restart_timeout_wait

\* The end of the restart timer lets a complete workflow shut down.
WaitAfter(off) == is_restart_timeout_wait /\ "restart" \notin off

\* Some of the timers have run out.
CheckTimers(off) ==
    /\ turn = "timers"
    /\ timers' = timers \ off
    /\ IF abort_on_stall /\ "stall" \in off
       THEN turn' = "aborted" /\ UNCHANGED is_restart_timeout_wait
       ELSE /\ turn' = "check"
            /\ is_restart_timeout_wait' = WaitAfter(off)
    /\ UNCHANGED <<poolVars, orphans, isUpdated, is_updated, is_stalled, is_reloaded,
                   is_paused, was_paused_before_reload, has_updated, settings,
                   interventions, overtaken>>

CheckStalled ==
    /\ turn = "check" /\ turn' = "release"
    /\ ReportStall(~has_updated /\ StallFound)
    /\ UNCHANGED <<poolVars, orphans, isUpdated, is_updated, is_reloaded, is_paused,
                   is_restart_timeout_wait, was_paused_before_reload, has_updated,
                   settings, interventions>>

---------------------------------------------------------------------------
(* Commands *)

Intervene ==
    /\ interventions < MaxInterventions
    /\ interventions' = interventions + 1

\* A task that did not succeed and has no active job is put to run now: as it
\* is if it waits, or spawned anew.  Tasks within the runahead limit are released.
TriggerNow(t) ==
    /\ turn \in CommandTurns \cup ReloadTurns /\ Intervene
    /\ t \notin orphans \cup outs /\ st[t] \in {"none", "waiting", "failed"}
    /\ LET new == {t} \ WaitingTasks
           limited == isRunahead \cup new
       IN  /\ isRunahead' = limited \cap beyond
           /\ isUpdated' = (isUpdated \ new) \cup (limited \ beyond)
                           \cup (isQueued \cap {t})
    /\ st' = [st EXCEPT ![t] = "waiting"]
    /\ spawned' = spawned \cup {t} /\ forced' = forced \cup {t}
    /\ isQueued' = isQueued \ {t}
    /\ tasks_to_trigger_now' = tasks_to_trigger_now \cup {t}
    /\ is_updated' = TRUE
    /\ UNCHANGED <<outs, orphans, is_stalled, is_reloaded, is_paused,
                   is_restart_timeout_wait, timers, was_paused_before_reload, turn,
                   has_updated, settings, overtaken>>

\* The outputs of a failed task are set.
SetOutputs(t) ==
    /\ turn \in CommandTurns \cup ReloadTurns /\ Intervene
    /\ st[t] = "failed" /\ Succeed(t)
    /\ is_updated' = TRUE
    /\ UNCHANGED <<forced, orphans, isQueued, tasks_to_trigger_now, is_stalled,
                   is_reloaded, is_paused, is_restart_timeout_wait, timers,
                   was_paused_before_reload, turn, has_updated, settings, overtaken>>

PauseOrResume ==
    /\ turn \in CommandTurns /\ Intervene
    /\ is_paused' = ~is_paused
    /\ is_updated' = TRUE
    /\ UNCHANGED <<poolVars, orphans, isUpdated, is_stalled, is_reloaded,
                   is_restart_timeout_wait, timers, was_paused_before_reload, turn,
                   has_updated, settings, overtaken>>

\* A reload pauses the workflow, and handles commands, callbacks and messages
\* in a loop of its own while a task is preparing.
Reload ==
    /\ turn \in CommandTurns /\ Intervene
    /\ turn' = IF turn = "commands 1" THEN "reload 1" ELSE "reload 2"
    /\ was_paused_before_reload' = is_paused
    /\ is_paused' = TRUE
    /\ UNCHANGED <<poolVars, orphans, isUpdated, is_updated, is_stalled, is_reloaded,
                   is_restart_timeout_wait, timers, has_updated, settings, overtaken>>

\* The triggered tasks are submitted, to get them out of the way.
ReleaseInReload ==
    /\ turn \in ReloadTurns
    /\ LET released == tasks_to_trigger_now \cap WaitingTasks
       IN  /\ released # {}
           /\ st' = [t \in STasks |-> IF t \in released THEN "preparing" ELSE st[t]]
           /\ isUpdated' = isUpdated \cup released
    /\ is_updated' = TRUE
    /\ UNCHANGED <<spawned, outs, forced, orphans, isRunahead, isQueued,
                   tasks_to_trigger_now, is_stalled, is_reloaded, is_paused,
                   is_restart_timeout_wait, timers, was_paused_before_reload, turn,
                   has_updated, settings, interventions, overtaken>>

\* Nothing is preparing, or about to.
Flushed ==
    /\ turn \in ReloadTurns
    /\ tasks_to_trigger_now \cap WaitingTasks = {}
    /\ \A t \in STasks : st[t] # "preparing"

\* The new configuration may lack a task: it is removed unless it is active or
\* finished.  If the runahead limit changed tasks are released.
FinishReload ==
    /\ Flushed
    /\ turn' = IF turn = "reload 1" THEN "commands 1" ELSE "commands 2"
    /\ \E lost \in {{}} \cup {{t} : t \in STasks}, released \in {{}, Releasable} :
        LET removed == lost \cap WaitingTasks
        IN  /\ orphans' = orphans \cup lost
            /\ st' = [t \in STasks |-> IF t \in removed THEN "none" ELSE st[t]]
            /\ isRunahead' = isRunahead \ (removed \cup released)
            /\ isQueued' = {}
            /\ isUpdated' = (isUpdated \cup released) \ removed
    /\ is_reloaded' = TRUE /\ is_updated' = TRUE
    /\ is_paused' = was_paused_before_reload
    /\ was_paused_before_reload' = FALSE
    /\ UNCHANGED <<spawned, outs, forced, tasks_to_trigger_now, is_stalled,
                   is_restart_timeout_wait, timers,
                   has_updated, settings, interventions, overtaken>>

\* The configuration does not load: the workflow goes on with the old one.
FailReload ==
    /\ Flushed
    /\ turn' = IF turn = "reload 1" THEN "commands 1" ELSE "commands 2"
    /\ is_updated' = TRUE
    /\ is_paused' = was_paused_before_reload
    /\ was_paused_before_reload' = FALSE
    /\ UNCHANGED <<poolVars, orphans, isUpdated, is_stalled, is_reloaded,
                   is_restart_timeout_wait, timers, has_updated, settings,
                   interventions, overtaken>>

---------------------------------------------------------------------------
(* Restart, and the whole *)

\* Preparing tasks wait again.  The waiting ones are runahead limited, those
\* that failed are released at once; a completed workflow starts the timer.
SRestart ==
    /\ Over /\ Intervene
    /\ turn' = "release"
    /\ st' = [t \in STasks |-> IF st[t] = "preparing" THEN "waiting" ELSE st[t]]
    /\ isRunahead' = {t \in InPool : st[t] # "failed"}
    /\ isUpdated' = {t \in InPool : st[t] \in {"preparing", "failed"}}
    /\ isQueued' = {} /\ tasks_to_trigger_now' = {}
    /\ is_updated' = TRUE
    /\ is_stalled' = FALSE /\ is_reloaded' = FALSE /\ overtaken' = FALSE
    /\ is_restart_timeout_wait' = HasCompleted(InPool)
    /\ timers' = IF HasCompleted(InPool) THEN {"restart"} ELSE {}
    /\ has_updated' = FALSE
    /\ UNCHANGED <<spawned, outs, forced, orphans, is_paused,
                   was_paused_before_reload, settings>>

LoopStep ==
    \/ ReleaseRunaheadTasks \/ WorkflowShutdown \/ GoOn \/ QueueAndRelease
    \/ HandleUpdates \/ CheckStalled
    \/ ReleaseInReload \/ FinishReload \/ FailReload

SNext ==
    \/ LoopStep
    \/ \E off \in SUBSET timers : CheckTimers(off)
    \/ \E t \in STasks : JobSubmitted(t) \/ MessageOfSuccess(t) \/ MessageOfFailure(t)
    \/ \E t \in STasks : TriggerNow(t) \/ SetOutputs(t)
    \/ PauseOrResume \/ Reload \/ SRestart

\* The main loop goes on; jobs are submitted and come to an end; and time
\* passes, so that a timer that nothing stops runs out.
SFairness ==
    /\ WF_stallVars(LoopStep \/ CheckTimers({}))
    /\ \A t \in STasks : []<>(Over \/ st[t] \notin WithJob)
    /\ \A timer \in Timers : []<>(Over \/ timer \notin timers)

SSpec == SInit /\ [][SNext]_stallVars /\ SFairness

---------------------------------------------------------------------------
(* Properties *)

\* The stall timer runs out, which by default aborts the scheduler, only on a
\* pool that is stalled: no job is alive, nothing is about to run, and the
\* workflow is not complete.  Except that the update that ended the stall came
\* in one turn with a reload.
StallTimerMeansStalledBut ==
    [][turn = "timers" /\ "stall" \in timers \ timers'
       => PoolIsStalled \/ overtaken]_stallVars

\* A task within the stop point waits for tasks beyond it, and for no other.
WaitsBeyond ==
    \E t \in WaitingTasks \ beyond :
        Unsatisfied(t) # {} /\ Unsatisfied(t) \subseteq beyond

\* A workflow that is not paused comes to its end: it shuts down when complete,
\* the wait after a restart included, and if stalls abort it does not stay
\* stalled either.  Except with tasks that wait for tasks beyond the stop point:
\* they are not taken as a stall, and are taken as more to run.  And a complete
\* workflow whose stall outlived a reload ends only if the stall timer aborts it.
ComesToAnEndBut ==
    []<>(\/ Over \/ is_paused \/ WaitsBeyond
         \/ /\ ~abort_on_stall
            /\ overtaken \/ PoolIsStalled)
=============================================================================
