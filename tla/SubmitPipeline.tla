-------------------------- MODULE SubmitPipeline --------------------------
(***************************************************************************)
(* From "ready to run" to a live job: the internal queues, the operator's  *)
(* hold / release / trigger / kill / remove / pause / reload commands, job *)
(* preparation, the submit commands in flight and their callbacks          *)
(* (task_pool.py, scheduler.py, commands.py, task_job_mgr.py).             *)
(*                                                                         *)
(* The scheduler is one thread that runs the main loop of scheduler.py.    *)
(* The loop is the variable phase: what one iteration does, in its order,  *)
(*   commands -> callbacks -> queue -> release -> messages -> commands     *)
(* (the command queue is drained after the messages and again at the top   *)
(* of the next iteration; nothing of this module happens in between).  A   *)
(* reload runs a loop of its own inside the command that asked for it:     *)
(*   release -> callbacks -> messages -> commands -> release               *)
(*                                                                         *)
(* The flags of a TaskProxy are the sets of tasks that have them.  The     *)
(* statuses submitted and running are the single status "active" here and  *)
(* a task has one retry timer for submission and execution.  The runahead  *)
(* limit and the spawning of new tasks are not part of this module.        *)
(***************************************************************************)
EXTENDS TaskQueues

CONSTANTS
    Tasks,        \* task proxies
    Queues,       \* queue names
    QueueOf,      \* the queue each task is a member of
    Limit,        \* queue limits, 0 for none
    Platform,     \* the platform of each task; a submit command serves one
    Retries,      \* number of retries configured for every task
    Commands,     \* the commands the operator uses
    Results,      \* what can become of a submit command
    MaxCommands,  \* bound on the number of commands of a behaviour
    BatchSize     \* bound on the commands of one drain of the command queue

AllCommands == {"hold", "release", "trigger", "kill", "remove",
                "pause", "reload", "badreload"}

ASSUME ConstantsAssumption ==
    /\ IsFiniteSet(Tasks)
    /\ QueueOf \in [Tasks -> Queues]
    /\ Limit \in [Queues -> Nat]
    /\ Retries \in Nat
    /\ Commands \subseteq AllCommands
    /\ Results \subseteq {"ok", "fail", "255"}
    /\ MaxCommands \in Nat
    /\ BatchSize \in Nat

VARIABLES
    pool,       \* the tasks in active_tasks
    status,     \* TaskState.status
    held,       \* TaskState.is_held
    queued,     \* TaskState.is_queued
    manual,     \* TaskProxy.is_manual_submit
    prep,       \* TaskProxy.waiting_on_job_prep
    ready,      \* prerequisites and xtriggers (retry delay included) satisfied
    tries,      \* TaskActionTimer.num of the retry timer
    submitNum,  \* TaskProxy.submit_num
    deque,      \* LimitedTaskQueue.deque of each queue
    toTrigger,  \* TaskPool.tasks_to_trigger_now
    cmds,       \* submit commands put on the process pool
    live,       \* <<task, submit number>> of the jobs that exist
    play,       \* Scheduler.is_paused: "running" or "paused"
    reload,     \* Scheduler.reload_pending, and was_paused_before_reload
    phase, nCmds, batch

taskVars == <<status, held, queued, manual, prep, ready, tries, submitNum>>
poolVars == <<pool, deque, toTrigger>>
jobVars == <<cmds, live>>
loopVars == <<phase, nCmds, batch>>
vars == <<pool, status, held, queued, manual, prep, ready, tries, submitNum,
          deque, toTrigger, cmds, live, play, reload, phase, nCmds, batch>>

Status == {"waiting", "preparing", "submit-failed", "active", "failed",
           "succeeded"}
Phases == {"commands", "callbacks", "queue", "release", "messages"}

SubmitCommand == [tasks : SUBSET Tasks, jobs : SUBSET (Tasks \X Nat)]

TypeOK ==
    /\ pool \subseteq Tasks
    /\ status \in [Tasks -> Status]
    /\ held \subseteq Tasks /\ queued \subseteq Tasks /\ manual \subseteq Tasks
    /\ prep \subseteq Tasks /\ ready \subseteq Tasks
    /\ tries \in [Tasks -> 0..Retries]
    /\ submitNum \in [Tasks -> Nat]
    /\ toTrigger \subseteq Tasks
    /\ cmds \subseteq SubmitCommand
    /\ live \subseteq Tasks \X Nat
    /\ play \in {"running", "paused"}
    /\ reload \in {"no", "was running", "was paused"}
    /\ phase \in Phases
    /\ nCmds \in 0..MaxCommands
    /\ batch \in 0..BatchSize

Init ==
    /\ pool = Tasks
    /\ status = [t \in Tasks |-> "waiting"]
    /\ held = {} /\ queued = {} /\ manual = {} /\ prep = {} /\ ready = {}
    /\ tries = [t \in Tasks |-> 0]
    /\ submitNum = [t \in Tasks |-> 0]
    /\ deque = [q \in Queues |-> <<>>]
    /\ toTrigger = {}
    /\ cmds = {} /\ live = {}
    /\ play = "running"
    /\ reload = "no"
    /\ phase = "commands" /\ nCmds = 0 /\ batch = 0

---------------------------------------------------------------------------
(* Helpers *)

\* count_active_tasks: what counts toward a queue limit.
IsActive(t) == t \in pool /\ (t \in prep \/ status[t] \in {"preparing", "active"})

NActive(q) == Cardinality({t \in Tasks : QueueOf[t] = q /\ IsActive(t)})

\* TaskProxy.is_ready_to_run, but for the hold.
IsReadyToRun(t) == status[t] = "waiting" /\ t \in ready

\* TaskPool.queue_task: nothing if the flag is already set.
QueueTask(t) ==
    IF t \in queued
    THEN UNCHANGED <<queued, deque>>
    ELSE /\ queued' = queued \cup {t}
         /\ deque' = [deque EXCEPT ![QueueOf[t]] = PushTask(@, t)]

\* _process_message_check: a waiting task with a retry lined up takes no
\* message but expiry.
IgnoresMessages(t) == status[t] = "waiting" /\ tries[t] > 0

\* _process_message_submit_failed and _process_message_failed for the tasks of
\* F: back to waiting for the retry delay, or to the final status.
Fail(F, final) ==
    /\ status' = [t \in Tasks |-> IF t \notin F THEN status[t]
                                  ELSE IF tries[t] < Retries THEN "waiting"
                                  ELSE final]
    /\ tries' = [t \in Tasks |-> IF t \in F /\ tries[t] < Retries
                                 THEN tries[t] + 1 ELSE tries[t]]
    /\ ready' = ready \ {t \in F : tries[t] < Retries}

\* TaskPool.remove.  It starts by releasing the hold, which queues a task that
\* is ready and not yet queued; taking the task off the queues then undoes just
\* that.  The flags of a proxy that left the pool no longer matter.
LeavePool(t, isReady) ==
    /\ t \in pool
    /\ pool' = pool \ {t}
    /\ toTrigger' = toTrigger \ {t}
    /\ deque' = IF t \in held \ queued /\ isReady
                THEN deque ELSE RemoveFromQueues(deque, t)
    /\ queued' = queued \ {t}
    /\ held' = held \ {t}
    /\ prep' = prep \ {t}
    /\ manual' = manual \ {t}

---------------------------------------------------------------------------
(* Commands *)

IsCommand(name) ==
    /\ phase = "commands"
    /\ name \in Commands
    /\ nCmds < MaxCommands
    /\ batch < BatchSize
    /\ nCmds' = nCmds + 1
    /\ batch' = batch + 1

\* TaskPool.hold_active_task.
Hold(t) ==
    /\ IsCommand("hold")
    /\ t \in pool
    /\ held' = held \cup {t}
    /\ UNCHANGED <<pool, status, queued, manual, prep, ready, tries, submitNum,
                   deque, toTrigger, cmds, live, play, reload, phase>>

\* TaskPool.release_held_active_task: a task that was held and is ready is
\* queued.
ReleaseHold(t) ==
    /\ IsCommand("release")
    /\ t \in pool \cap held
    /\ held' = held \ {t}
    /\ IF IsReadyToRun(t) THEN QueueTask(t) ELSE UNCHANGED <<queued, deque>>
    /\ UNCHANGED <<pool, status, manual, prep, ready, tries, submitNum,
                   toTrigger, cmds, live, play, reload, phase>>

\* Mutant of Trigger: a task with a job in process is triggered too.
TriggerActive(t) ==
    /\ IsCommand("trigger")
    /\ t \in pool
    /\ ready' = ready \cup {t}
    /\ manual' = manual \cup {t}
    /\ status' = [status EXCEPT ![t] = "waiting"]
    /\ queued' = queued \ {t}
    /\ deque' = RemoveFromQueues(deque, t)
    /\ prep' = prep \cup {t}
    /\ toTrigger' = toTrigger \cup {t}
    /\ UNCHANGED <<pool, held, tries, submitNum, cmds, live, play, reload,
                   phase>>

\* TaskPool.queue_or_trigger: a queued task leaves its queue; any other task is
\* queued if its queue is full; what is not queued now runs now.
QueueOrTrigger(t) ==
    /\ manual' = manual \cup {t}
    /\ status' = [status EXCEPT ![t] = "waiting"]
    /\ LET q == QueueOf[t]
           pushed == t \notin queued /\ IsLimited(Limit[q], NActive(q))
           runNow == IF t \in queued THEN Occurrences(deque[q], t) > 0
                                     ELSE ~pushed
           now == IF runNow THEN {t} ELSE {}
       IN  /\ queued' = IF runNow THEN queued \ {t} ELSE queued \cup {t}
           /\ deque' = IF pushed
                       THEN [deque EXCEPT ![q] = PushTask(@, t)]
                       ELSE IF t \in queued THEN RemoveFromQueues(deque, t)
                       ELSE deque
           /\ prep' = prep \cup now
           /\ toTrigger' = toTrigger \cup now

\* _force_trigger_tasks on one task of the pool: a task with a job in process
\* is left alone, any other has all its prerequisites and xtriggers satisfied
\* by force.
Trigger(t) ==
    /\ IsCommand("trigger")
    /\ t \in pool
    /\ status[t] \notin {"preparing", "active"}
    /\ ready' = ready \cup {t}
    /\ QueueOrTrigger(t)
    /\ UNCHANGED <<pool, held, tries, submitNum, cmds, live, play, reload,
                   phase>>

\* Scheduler.kill_tasks on a preparing task: hold it, then kill_prep_task.
\* A submit command already on the process pool is not withdrawn.
KillPrepTask(t) ==
    /\ IsCommand("kill")
    /\ t \in pool
    /\ status[t] = "preparing"
    /\ held' = held \cup {t}
    /\ prep' = prep \ {t}
    /\ manual' = manual \ {t}
    /\ Fail({t}, "submit-failed")
    /\ UNCHANGED <<pool, queued, submitNum, deque, toTrigger, cmds, live,
                   play, reload, phase>>

\* The remove command.  The proxy is gone for good here; a new one for the
\* same task is the business of the task pool.
RemoveByRequest(t) ==
    /\ IsCommand("remove")
    /\ LeavePool(t, IsReadyToRun(t))
    /\ UNCHANGED <<status, ready, tries, submitNum, cmds, live, play, reload,
                   phase>>

\* Scheduler.pause_workflow.
Pause ==
    /\ IsCommand("pause")
    /\ play' = "paused"
    /\ UNCHANGED <<taskVars, poolVars, jobVars, reload, phase>>

\* Scheduler.resume_workflow: refused while a reload is pending.
Resume ==
    /\ IsCommand("pause")
    /\ reload = "no"
    /\ play' = "running"
    /\ UNCHANGED <<taskVars, poolVars, jobVars, reload, phase>>

\* The first part of commands.reload_workflow: pause, then flush the pipeline.
\* One reload at a time.
Reload ==
    /\ IsCommand("reload") \/ IsCommand("badreload")
    /\ reload = "no"
    /\ play' = "paused"
    /\ reload' = IF play = "paused" THEN "was paused" ELSE "was running"
    /\ phase' = "release"
    /\ UNCHANGED <<taskVars, poolVars, jobVars>>

---------------------------------------------------------------------------
(* Submission *)

\* reload_workflow goes on flushing while this holds.
Flushing == \E t \in pool : t \in prep \/ status[t] = "preparing"

\* What preparation does with a task passed to submit_livelike_task_jobs: it
\* is not complete yet (host selection, remote init, file install), it failed,
\* or it is complete.
Outcomes == {"wait", "fail", "submit"}

\* submit_task_jobs for the tasks S, prepping being those that wait on job
\* prep.  Tasks that are not preparing get a new submit number first.  A
\* completed task that does not wait on job prep is left out of the command,
\* yet not out of the callback's arguments.
SubmitTaskJobs(S, prepping, out) ==
    LET num == [t \in Tasks |-> IF t \in S /\ status[t] # "preparing"
                                THEN submitNum[t] + 1 ELSE submitNum[t]]
        failed == {t \in S : out[t] = "fail"}
        done == {t \in S : out[t] = "submit"}
        jobs == done \cap prepping
        on(p) == {t \in Tasks : Platform[t] = p}
    IN  /\ submitNum' = num
        /\ status' = [t \in Tasks |->
                        IF t \notin S THEN status[t]
                        ELSE IF t \notin failed THEN "preparing"
                        ELSE IF tries[t] < Retries THEN "waiting"
                        ELSE "submit-failed"]
        /\ tries' = [t \in Tasks |-> IF t \in failed /\ tries[t] < Retries
                                     THEN tries[t] + 1 ELSE tries[t]]
        /\ ready' = ready \ {t \in failed : tries[t] < Retries}
        /\ prep' = prepping \ (failed \cup done)
        /\ manual' = manual \ (failed \cup done)
        /\ cmds' = cmds \cup
             {[tasks |-> done \cap on(p),
               jobs |-> {<<t, num[t]>> : t \in jobs \cap on(p)}] :
               p \in {Platform[t] : t \in jobs}}

\* release_tasks_to_run with release_queued_tasks and start_job_submission.
\* Whatever waits on job prep in the pool is passed to submission in every
\* branch (the scheduler is neither stopping nor about to restart here).
ReleaseTasksToRun ==
    /\ phase = "release"
    /\ reload = "no" \/ Flushing
    /\ LET releasing == reload = "no" /\ play = "running"
           from(q) == IF releasing
                      THEN Released(deque[q], Limit[q], NActive(q), held)
                      ELSE {}
           released == {t \in Tasks : \E q \in Queues : t \in from(q)}
           triggered == IF reload = "no" THEN toTrigger ELSE {}
           prepping == prep \cup released
           S == triggered \cup released \cup (prep \cap pool)
       IN  /\ \E out \in [S -> Outcomes] : SubmitTaskJobs(S, prepping, out)
           /\ queued' = queued \ released
           /\ deque' = [q \in Queues |->
                          IF releasing
                          THEN AfterRelease(deque[q], Limit[q], NActive(q), held)
                          ELSE deque[q]]
           /\ toTrigger' = toTrigger \ triggered
    /\ phase' = IF reload = "no" THEN "messages" ELSE "callbacks"
    /\ UNCHANGED <<pool, held, live, play, reload, nCmds, batch>>

\* The last part of reload_workflow, the new configuration being good: each
\* task is replaced by a successor that is not in any queue, and the queues
\* are made anew.  The proxies left in tasks_to_trigger_now are the replaced
\* ones, whose submission no longer touches the pool.
ReloadApply ==
    /\ phase = "release"
    /\ reload # "no" /\ ~Flushing
    /\ "reload" \in Commands
    /\ queued' = {}
    /\ deque' = [q \in Queues |-> <<>>]
    /\ toTrigger' = {}
    /\ play' = IF reload = "was paused" THEN "paused" ELSE "running"
    /\ reload' = "no"
    /\ phase' = "commands"
    /\ UNCHANGED <<pool, status, held, manual, prep, ready, tries, submitNum,
                   cmds, live, nCmds, batch>>

\* The last part of reload_workflow, the new configuration being bad: the old
\* one stays, and the workflow is resumed all the same.
ReloadFail ==
    /\ phase = "release"
    /\ reload # "no" /\ ~Flushing
    /\ "badreload" \in Commands
    /\ play' = IF reload = "was paused" THEN "paused" ELSE "running"
    /\ reload' = "no"
    /\ phase' = "commands"
    /\ UNCHANGED <<taskVars, poolVars, jobVars, nCmds, batch>>

---------------------------------------------------------------------------
(* Callbacks of submit commands: _manip_task_jobs_callback looks up the      *)
(* tasks of the command by the submit numbers they have when it returns.     *)

\* _submit_task_jobs_callback.  Each job of the command succeeds or fails to
\* submit.  A task of the command whose present submit number is not in the
\* output is handled as a failure.
SubmitReturn(c) ==
    /\ phase = "callbacks"
    /\ \E good \in SUBSET c.jobs :
         LET heard == {t \in c.tasks \cap pool : ~IgnoresMessages(t)}
             ok == {t \in heard : <<t, submitNum[t]>> \in good}
             failed == heard \ ok
             submitted == {t \in ok : status[t] = "preparing"}
         IN  /\ good # {} => "ok" \in Results
             /\ good # c.jobs => "fail" \in Results
             /\ live' = live \cup good
             /\ status' = [t \in Tasks |->
                             IF t \in submitted THEN "active"
                             ELSE IF t \notin failed THEN status[t]
                             ELSE IF tries[t] < Retries THEN "waiting"
                             ELSE "submit-failed"]
             /\ tries' = [t \in Tasks |-> IF t \in failed /\ tries[t] < Retries
                                          THEN tries[t] + 1 ELSE tries[t]]
             /\ ready' = ready \ {t \in failed : tries[t] < Retries}
             /\ queued' = queued \ submitted
    /\ cmds' = cmds \ {c}
    /\ UNCHANGED <<pool, held, manual, prep, submitNum, deque, toTrigger,
                   play, reload, loopVars>>

\* Mutant of SubmitReturn255: the tasks are not sent back for submission.
SubmitReturn255Dropped(c) ==
    /\ phase = "callbacks"
    /\ "255" \in Results
    /\ cmds' = cmds \ {c}
    /\ UNCHANGED <<pool, status, held, queued, manual, prep, ready, tries,
                   submitNum, deque, toTrigger, live, play, reload, loopVars>>

\* _submit_task_jobs_callback_255: the host could not be reached, so every
\* task of the command goes back for submission.
SubmitReturn255(c) ==
    /\ phase = "callbacks"
    /\ "255" \in Results
    /\ prep' = prep \cup (c.tasks \cap pool)
    /\ cmds' = cmds \ {c}
    /\ UNCHANGED <<pool, status, held, queued, manual, ready, tries, submitNum,
                   deque, toTrigger, live, play, reload, loopVars>>

---------------------------------------------------------------------------
(* Messages *)

\* A job succeeds: the task is complete and leaves the pool.  The message of
\* a job that is not the task's present one is ignored.
JobSucceeded(t, n) ==
    /\ phase = "messages"
    /\ <<t, n>> \in live
    /\ live' = live \ {<<t, n>>}
    /\ IF t \in pool /\ n = submitNum[t] /\ ~IgnoresMessages(t)
       THEN /\ status' = [status EXCEPT ![t] = "succeeded"]
            /\ LeavePool(t, FALSE)
       ELSE UNCHANGED <<status, poolVars, queued, held, prep, manual>>
    /\ UNCHANGED <<ready, tries, submitNum, cmds, play, reload, loopVars>>

\* A job fails: the task retries, or is retained as failed.
JobFailed(t, n) ==
    /\ phase = "messages"
    /\ <<t, n>> \in live
    /\ live' = live \ {<<t, n>>}
    /\ IF t \in pool /\ n = submitNum[t] /\ ~IgnoresMessages(t)
       THEN Fail({t}, "failed")
       ELSE UNCHANGED <<status, tries, ready>>
    /\ UNCHANGED <<poolVars, held, queued, manual, prep, submitNum, cmds,
                   play, reload, loopVars>>

\* TaskPool.queue_if_ready's condition.
IsQueueable(t) ==
    /\ t \in pool
    /\ t \notin queued
    /\ t \notin manual
    /\ t \notin held
    /\ IsReadyToRun(t)

\* The output of a parent satisfies the last prerequisite of t:
\* spawn_on_output ends with queue_if_ready.
SatisfiedByParent(t) ==
    /\ phase = "messages"
    /\ t \in pool \ ready
    /\ status[t] = "waiting" /\ tries[t] = 0
    /\ ready' = ready \cup {t}
    /\ IF t \in queued \cup manual \cup held
       THEN UNCHANGED <<queued, deque>> ELSE QueueTask(t)
    /\ UNCHANGED <<pool, status, held, manual, prep, tries, submitNum,
                   toTrigger, jobVars, play, reload, loopVars>>

---------------------------------------------------------------------------
(* The queueing pass of the main loop *)

\* The last xtrigger of t, perhaps its retry delay, is satisfied.
SatisfiedByXtrigger(t) ==
    /\ phase = "queue"
    /\ t \in (pool \ ready) \ queued
    /\ status[t] = "waiting"
    /\ ready' = ready \cup {t}
    /\ UNCHANGED <<pool, status, held, queued, manual, prep, tries, submitNum,
                   deque, toTrigger, jobVars, play, reload, loopVars>>

QueueIfReady(t) ==
    /\ phase = "queue"
    /\ IsQueueable(t)
    /\ QueueTask(t)
    /\ UNCHANGED <<pool, status, held, manual, prep, ready, tries, submitNum,
                   toTrigger, jobVars, play, reload, loopVars>>

---------------------------------------------------------------------------
(* The loop *)

EndCommands ==
    /\ phase = "commands"
    /\ phase' = IF reload = "no" THEN "callbacks" ELSE "release"
    /\ batch' = 0
    /\ UNCHANGED <<taskVars, poolVars, jobVars, play, reload, nCmds>>

EndCallbacks ==
    /\ phase = "callbacks"
    /\ phase' = IF reload = "no" THEN "queue" ELSE "messages"
    /\ UNCHANGED <<taskVars, poolVars, jobVars, play, reload, nCmds, batch>>

\* The pass over the pool leaves no task that should have been queued.
EndQueue ==
    /\ phase = "queue"
    /\ \A t \in Tasks : ~IsQueueable(t)
    /\ phase' = "release"
    /\ UNCHANGED <<taskVars, poolVars, jobVars, play, reload, nCmds, batch>>

EndMessages ==
    /\ phase = "messages"
    /\ phase' = "commands"
    /\ UNCHANGED <<taskVars, poolVars, jobVars, play, reload, nCmds, batch>>

Next ==
    \/ \E t \in Tasks :
         \/ Hold(t) \/ ReleaseHold(t) \/ Trigger(t) \/ KillPrepTask(t)
         \/ RemoveByRequest(t)
         \/ SatisfiedByParent(t) \/ SatisfiedByXtrigger(t) \/ QueueIfReady(t)
    \/ Pause \/ Resume \/ Reload
    \/ ReleaseTasksToRun \/ ReloadApply \/ ReloadFail
    \/ \E c \in cmds : SubmitReturn(c) \/ SubmitReturn255(c)
    \/ \E j \in live : JobSucceeded(j[1], j[2]) \/ JobFailed(j[1], j[2])
    \/ EndCommands \/ EndCallbacks \/ EndQueue \/ EndMessages

Spec == Init /\ [][Next]_vars

JobEnds(t) ==
    \E j \in live : j[1] = t /\ (JobSucceeded(t, j[2]) \/ JobFailed(t, j[2]))

\* One turn of the loop.
Loop ==
    \/ EndCommands \/ EndCallbacks \/ EndQueue \/ EndMessages
    \/ \E t \in Tasks : QueueIfReady(t)
    \/ ReleaseTasksToRun \/ ReloadApply \/ ReloadFail

\* The scheduler keeps looping.  Preparation of a task that is passed to
\* submission again and again ends, a submit command returns other than by 255
\* in the end and a job ends: remote init, file install and submit commands run
\* under the timeout of the process pool, which fails them, unreachable hosts
\* become bad hosts, and a job has an execution time limit.
Fairness ==
    /\ WF_vars(Loop)
    /\ \A t \in Tasks :
         /\ SF_vars(t \in prep /\ ReleaseTasksToRun /\ t \notin prep')
         /\ SF_vars(\E c \in cmds : t \in c.tasks /\ SubmitReturn(c))
         /\ SF_vars(JobEnds(t))

FairSpec == Spec /\ Fairness

---------------------------------------------------------------------------
(* Properties *)

\* The is_queued flag and the queues agree: a task of the pool is in its queue
\* once if the flag is set and not at all if it is not, and a task that left
\* the pool is in no queue (a queue would release it all the same).
QueueMatchesFlag ==
    \A t \in Tasks : \A q \in Queues :
        Occurrences(deque[q], t) =
            IF t \in pool \cap queued /\ q = QueueOf[t] THEN 1 ELSE 0

\* A task of the pool never has two jobs, counting the jobs that exist and
\* those that a submit command in flight is about to create.
OneLiveJob ==
    \A t \in pool :
        Cardinality({j \in live : j[1] = t}
                    \cup {j \in UNION {c.jobs : c \in cmds} : j[1] = t}) <= 1

\* A preparing task is never stranded: it is passed to submission on the next
\* iteration, or the callback of a command in flight will move it on.
PreparingIsPushed ==
    \A t \in pool : status[t] = "preparing" =>
        \/ t \in prep
        \/ \E c \in cmds : <<t, submitNum[t]>> \in c.jobs /\ t \in c.tasks

\* A task that is ready and not held runs: it leaves the waiting status, or its
\* submission was tried and it waits for the delay of a retry, unless the
\* operator holds or removes it.  Queue limits only delay it.
ReadyRuns ==
    \A t \in Tasks :
        t \in (pool \cap ready) \ held /\ status[t] = "waiting"
            ~> \/ t \notin pool \/ t \in held
               \/ status[t] # "waiting" \/ t \notin ready

\* A step that releases tasks from a queue leaves no more active tasks of that
\* queue than its limit, however they became active.
QueueLimitKept ==
    [][\A q \in Queues :
         /\ phase = "release" /\ Limit[q] # 0
         /\ \E t \in queued \ queued' : QueueOf[t] = q /\ IsActive(t)'
         => NActive(q)' <= Limit[q]]_vars
===========================================================================
