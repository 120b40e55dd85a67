----------------------- MODULE SubmitPipelineProofs -----------------------
(* Type correctness of the submission pipeline, that no preparing task is ever
   stranded, and that no task has two jobs, for any tasks, queues, limits and
   platforms. *)
EXTENDS SubmitPipeline, TaskQueuesProofs

LEMMA Bounds == Retries \in Nat /\ MaxCommands \in Nat /\ BatchSize \in Nat
BY ConstantsAssumption

LEMMA InitType == Init => TypeOK
BY ConstantsAssumption DEF Init, TypeOK, Status, Phases

\* A command moves the counters of commands within their bounds.
LEMMA CommandCounts ==
    ASSUME TypeOK, NEW name, IsCommand(name)
    PROVE  nCmds' \in 0..MaxCommands /\ batch' \in 0..BatchSize
<1>1. nCmds \in 0..MaxCommands /\ batch \in 0..BatchSize
  BY DEF TypeOK
<1>2. /\ nCmds < MaxCommands /\ nCmds' = nCmds + 1
      /\ batch < BatchSize /\ batch' = batch + 1
  BY DEF IsCommand
<1>3. nCmds' \in 0..MaxCommands
  BY <1>1, <1>2, Bounds
<1>4. batch' \in 0..BatchSize
  BY <1>1, <1>2, Bounds
<1>5. QED
  BY <1>3, <1>4

\* One more try, if one is left.
LEMMA TriesType ==
    ASSUME tries \in [Tasks -> 0..Retries], NEW F,
           tries' = [t \in Tasks |-> IF t \in F /\ tries[t] < Retries
                                     THEN tries[t] + 1 ELSE tries[t]]
    PROVE  tries' \in [Tasks -> 0..Retries]
BY Bounds

LEMMA FailType ==
    ASSUME TypeOK, NEW F, NEW final \in Status, Fail(F, final)
    PROVE  /\ status' \in [Tasks -> Status]
           /\ tries' \in [Tasks -> 0..Retries]
           /\ ready' \subseteq Tasks
<1>1. status' \in [Tasks -> Status]
  BY DEF Fail, TypeOK, Status
<1>2. tries' \in [Tasks -> 0..Retries]
  BY TriesType DEF Fail, TypeOK
<1>3. QED
  BY <1>1, <1>2 DEF Fail, TypeOK

LEMMA CommandsType ==
    ASSUME TypeOK,
           NEW t \in Tasks,
           \/ Hold(t) \/ ReleaseHold(t) \/ Trigger(t) \/ KillPrepTask(t)
           \/ RemoveByRequest(t)
    PROVE  TypeOK'
<1>0. nCmds' \in 0..MaxCommands /\ batch' \in 0..BatchSize
  BY CommandCounts DEF Hold, ReleaseHold, Trigger, KillPrepTask,
     RemoveByRequest
<1>1. CASE Hold(t)
  BY <1>0, <1>1 DEF TypeOK, Hold
<1>2. CASE ReleaseHold(t)
  BY <1>0, <1>2 DEF TypeOK, ReleaseHold, QueueTask
<1>3. CASE Trigger(t)
  <2>1. /\ ready' \subseteq Tasks /\ manual' \subseteq Tasks
        /\ queued' \subseteq Tasks /\ prep' \subseteq Tasks
        /\ toTrigger' \subseteq Tasks
    BY <1>3 DEF TypeOK, Trigger, QueueOrTrigger
  <2>2. status' \in [Tasks -> Status]
    BY <1>3 DEF TypeOK, Trigger, QueueOrTrigger, Status
  <2>3. QED
    BY <1>0, <1>3, <2>1, <2>2 DEF TypeOK, Trigger, QueueOrTrigger
<1>4. CASE KillPrepTask(t)
  <2>1. /\ status' \in [Tasks -> Status]
        /\ tries' \in [Tasks -> 0..Retries]
        /\ ready' \subseteq Tasks
    BY <1>4, FailType DEF KillPrepTask, Status
  <2>2. QED
    BY <1>0, <1>4, <2>1 DEF TypeOK, KillPrepTask
<1>5. CASE RemoveByRequest(t)
  BY <1>0, <1>5 DEF TypeOK, RemoveByRequest, LeavePool
<1>6. QED
  BY <1>1, <1>2, <1>3, <1>4, <1>5

LEMMA WorkflowCommandsType == TypeOK /\ (Pause \/ Resume \/ Reload) => TypeOK'
<1> SUFFICES ASSUME TypeOK, Pause \/ Resume \/ Reload PROVE TypeOK'
  OBVIOUS
<1>1. nCmds' \in 0..MaxCommands /\ batch' \in 0..BatchSize
  BY CommandCounts DEF Pause, Resume, Reload
<1>2. /\ play' \in {"running", "paused"}
      /\ reload' \in {"no", "was running", "was paused"}
      /\ phase' \in Phases
      /\ UNCHANGED <<taskVars, poolVars, jobVars>>
  BY DEF TypeOK, Pause, Resume, Reload, Phases
<1>3. QED
  BY <1>1, <1>2 DEF TypeOK, taskVars, poolVars, jobVars

LEMMA SubmitType ==
    ASSUME TypeOK, NEW S \in SUBSET Tasks, NEW prepping \in SUBSET Tasks,
           NEW out \in [S -> Outcomes], SubmitTaskJobs(S, prepping, out)
    PROVE  /\ status' \in [Tasks -> Status]
           /\ submitNum' \in [Tasks -> Nat]
           /\ tries' \in [Tasks -> 0..Retries]
           /\ ready' \subseteq Tasks /\ prep' \subseteq Tasks
           /\ manual' \subseteq Tasks
           /\ cmds' \subseteq SubmitCommand
<1>1. submitNum' \in [Tasks -> Nat]
  <2>1. submitNum \in [Tasks -> Nat]
    BY DEF TypeOK
  <2>2. submitNum' = [t \in Tasks |-> IF t \in S /\ status[t] # "preparing"
                                     THEN submitNum[t] + 1 ELSE submitNum[t]]
    BY DEF SubmitTaskJobs
  <2>3. QED
    BY <2>1, <2>2
<1>2. status' \in [Tasks -> Status]
  BY DEF TypeOK, SubmitTaskJobs, Status
<1>3. tries' \in [Tasks -> 0..Retries]
  BY TriesType DEF TypeOK, SubmitTaskJobs
<1>4. /\ ready' \subseteq Tasks /\ prep' \subseteq Tasks
      /\ manual' \subseteq Tasks
  BY DEF TypeOK, SubmitTaskJobs
<1>5. cmds' \subseteq SubmitCommand
  <2> DEFINE done == {t \in S : out[t] = "submit"}
             on(p) == {t \in Tasks : Platform[t] = p}
             cmd(p) == [tasks |-> done \cap on(p),
                        jobs |-> {<<t, submitNum'[t]>> :
                                    t \in (done \cap prepping) \cap on(p)}]
  <2>1. cmds \subseteq SubmitCommand
    BY DEF TypeOK
  <2>2. cmds' = cmds \cup
          {cmd(p) : p \in {Platform[t] : t \in done \cap prepping}}
    BY DEF SubmitTaskJobs
  <2>3. \A p : cmd(p) \in SubmitCommand
    BY <1>1 DEF SubmitCommand
  <2> HIDE DEF cmd
  <2>4. QED
    BY <2>1, <2>2, <2>3
<1>6. QED
  BY <1>1, <1>2, <1>3, <1>4, <1>5

LEMMA ReleaseType == TypeOK /\ ReleaseTasksToRun => TypeOK'
<1> SUFFICES ASSUME TypeOK, ReleaseTasksToRun PROVE TypeOK'
  OBVIOUS
<1>1. PICK S \in SUBSET Tasks, prepping \in SUBSET Tasks :
        \E out \in [S -> Outcomes] : SubmitTaskJobs(S, prepping, out)
  BY DEF ReleaseTasksToRun, TypeOK
<1>2. /\ queued' \subseteq Tasks /\ toTrigger' \subseteq Tasks
      /\ phase' \in Phases
      /\ UNCHANGED <<pool, held, live, play, reload, nCmds, batch>>
  BY DEF ReleaseTasksToRun, TypeOK, Phases
<1>3. QED
  BY <1>1, <1>2, SubmitType DEF TypeOK

LEMMA ReloadType == TypeOK /\ (ReloadApply \/ ReloadFail) => TypeOK'
BY DEF TypeOK, ReloadApply, ReloadFail, taskVars, poolVars, jobVars, Phases

LEMMA CallbackType ==
    ASSUME TypeOK, NEW c \in cmds, SubmitReturn(c) \/ SubmitReturn255(c)
    PROVE  TypeOK'
<1>0. c.jobs \subseteq Tasks \X Nat /\ c.tasks \subseteq Tasks
  BY DEF TypeOK, SubmitCommand
<1>1. CASE SubmitReturn(c)
  <2>1. /\ live' \subseteq Tasks \X Nat
        /\ ready' \subseteq Tasks
        /\ queued' \subseteq Tasks
        /\ cmds' \subseteq SubmitCommand
    BY <1>0, <1>1 DEF SubmitReturn, TypeOK
  <2>2. status' \in [Tasks -> Status]
    BY <1>1 DEF SubmitReturn, TypeOK, Status
  <2>3. tries' \in [Tasks -> 0..Retries]
    BY <1>1, TriesType DEF SubmitReturn, TypeOK
  <2>4. QED
    BY <1>1, <2>1, <2>2, <2>3 DEF SubmitReturn, TypeOK, loopVars
<1>2. CASE SubmitReturn255(c)
  BY <1>0, <1>2 DEF SubmitReturn255, TypeOK, loopVars
<1>3. QED
  BY <1>1, <1>2

LEMMA MessageType ==
    ASSUME TypeOK, NEW t \in Tasks, NEW n,
           \/ JobSucceeded(t, n) \/ JobFailed(t, n)
           \/ SatisfiedByParent(t) \/ SatisfiedByXtrigger(t) \/ QueueIfReady(t)
    PROVE  TypeOK'
<1>1. CASE JobSucceeded(t, n)
  <2>1. CASE t \in pool /\ n = submitNum[t] /\ ~IgnoresMessages(t)
    BY <1>1, <2>1 DEF JobSucceeded, LeavePool, Status, TypeOK, loopVars
  <2>2. CASE ~(t \in pool /\ n = submitNum[t] /\ ~IgnoresMessages(t))
    BY <1>1, <2>2 DEF JobSucceeded, TypeOK, loopVars, poolVars
  <2>3. QED
    BY <2>1, <2>2
<1>2. CASE JobFailed(t, n)
  <2>1. /\ status' \in [Tasks -> Status]
        /\ tries' \in [Tasks -> 0..Retries]
        /\ ready' \subseteq Tasks
    <3>1. "failed" \in Status
      BY DEF Status
    <3>2. Fail({t}, "failed") \/ UNCHANGED <<status, tries, ready>>
      BY <1>2 DEF JobFailed
    <3>3. QED
      BY <3>1, <3>2, FailType DEF TypeOK
  <2>2. QED
    BY <1>2, <2>1 DEF JobFailed, TypeOK, loopVars, poolVars
<1>3. CASE SatisfiedByParent(t)
  BY <1>3 DEF SatisfiedByParent, QueueTask, TypeOK, loopVars, jobVars
<1>4. CASE SatisfiedByXtrigger(t)
  BY <1>4 DEF SatisfiedByXtrigger, TypeOK, loopVars, jobVars
<1>5. CASE QueueIfReady(t)
  BY <1>5 DEF QueueIfReady, QueueTask, TypeOK, loopVars, jobVars
<1>6. QED
  BY <1>1, <1>2, <1>3, <1>4, <1>5

LEMMA LoopType ==
    TypeOK /\ (EndCommands \/ EndCallbacks \/ EndQueue \/ EndMessages) => TypeOK'
<1> SUFFICES ASSUME TypeOK, EndCommands \/ EndCallbacks \/ EndQueue \/ EndMessages
             PROVE  TypeOK'
  OBVIOUS
<1>1. nCmds' = nCmds /\ batch' \in {0, batch}
  BY DEF EndCommands, EndCallbacks, EndQueue, EndMessages
<1>2. phase' \in Phases
  BY DEF EndCommands, EndCallbacks, EndQueue, EndMessages, Phases
<1>3. UNCHANGED <<taskVars, poolVars, jobVars, play, reload>>
  BY DEF EndCommands, EndCallbacks, EndQueue, EndMessages
<1>4. batch \in 0..BatchSize
  BY DEF TypeOK
<1>5. batch' \in 0..BatchSize
  BY <1>1, <1>4, Bounds
<1>6. QED
  BY <1>1, <1>2, <1>3, <1>5 DEF TypeOK, taskVars, poolVars, jobVars

LEMMA LiveJobs == ASSUME TypeOK, NEW j \in live PROVE j[1] \in Tasks
BY DEF TypeOK

\* Every operation of the pipeline keeps the types of its state.
THEOREM TypeCorrect == Spec => []TypeOK
<1>1. TypeOK /\ [Next]_vars => TypeOK'
  <2> SUFFICES ASSUME TypeOK, [Next]_vars PROVE TypeOK'
    OBVIOUS
  <2>1. CASE UNCHANGED vars
    BY <2>1 DEF vars, TypeOK
  <2>2. ASSUME NEW t \in Tasks,
               \/ Hold(t) \/ ReleaseHold(t) \/ Trigger(t) \/ KillPrepTask(t)
               \/ RemoveByRequest(t)
        PROVE  TypeOK'
    BY <2>2, CommandsType
  <2>3. ASSUME NEW t \in Tasks,
               \/ SatisfiedByParent(t) \/ SatisfiedByXtrigger(t)
               \/ QueueIfReady(t)
        PROVE  TypeOK'
    BY <2>3, MessageType
  <2>4. CASE Pause \/ Resume \/ Reload
    BY <2>4, WorkflowCommandsType
  <2>5. ASSUME NEW j \in live, JobSucceeded(j[1], j[2]) \/ JobFailed(j[1], j[2])
        PROVE  TypeOK'
    BY <2>5, LiveJobs, MessageType
  <2>6. ASSUME NEW c \in cmds, SubmitReturn(c) \/ SubmitReturn255(c)
        PROVE  TypeOK'
    BY <2>6, CallbackType
  <2>7. QED
    BY <2>1, <2>2, <2>3, <2>4, <2>5, <2>6, ReleaseType, ReloadType, LoopType
       DEF Next
<1>2. QED
  BY <1>1, InitType, PTL DEF Spec

---------------------------------------------------------------------------
(* No preparing task is stranded.                                            *)

\* What has been triggered to run now is in the pool, waits on job prep and is
\* not preparing yet.  While a reload is pending this need not be so: the
\* reload submits such a task without taking it out of tasks_to_trigger_now.
TriggeredAwaitsPrep ==
    reload = "no" => \A t \in toTrigger :
        t \in pool /\ t \in prep /\ status[t] # "preparing"

Pushed(t) ==
    \/ t \in prep
    \/ \E c \in cmds : <<t, submitNum[t]>> \in c.jobs /\ t \in c.tasks

\* A bad reload leaves what it submitted in tasks_to_trigger_now.  It matters
\* only if something is ever put there.
GoodReloads == "trigger" \in Commands => "badreload" \notin Commands

NothingTriggered == "trigger" \notin Commands => toTrigger = {}

PipelineInv == TriggeredAwaitsPrep /\ NothingTriggered /\ PreparingIsPushed

LEMMA CommandsInv ==
    ASSUME TypeOK, PipelineInv, NEW u \in Tasks,
           \/ Hold(u) \/ ReleaseHold(u) \/ Trigger(u) \/ KillPrepTask(u)
           \/ RemoveByRequest(u)
    PROVE  PipelineInv'
<1> USE DEF PipelineInv, TriggeredAwaitsPrep, NothingTriggered, PreparingIsPushed
<1>1. CASE Hold(u)
  BY <1>1 DEF Hold
<1>2. CASE ReleaseHold(u)
  BY <1>2 DEF ReleaseHold
<1>3. CASE Trigger(u)
  <2>1. PreparingIsPushed'
    BY <1>3 DEF Trigger, QueueOrTrigger, TypeOK
  <2>2. TriggeredAwaitsPrep'
    BY <1>3 DEF Trigger, QueueOrTrigger, TypeOK
  <2>3. NothingTriggered'
    BY <1>3 DEF Trigger, IsCommand
  <2>4. QED
    BY <2>1, <2>2, <2>3
<1>4. CASE KillPrepTask(u)
  <2>1. /\ status' = [status EXCEPT ![u] = status'[u]]
        /\ status'[u] # "preparing"
    BY <1>4 DEF KillPrepTask, Fail, TypeOK
  <2>2. PreparingIsPushed'
    BY <1>4, <2>1 DEF KillPrepTask, TypeOK
  <2>3. TriggeredAwaitsPrep'
    BY <1>4, <2>1 DEF KillPrepTask, TypeOK
  <2>4. NothingTriggered'
    BY <1>4 DEF KillPrepTask
  <2>5. QED
    BY <2>2, <2>3, <2>4
<1>5. CASE RemoveByRequest(u)
  BY <1>5 DEF RemoveByRequest, LeavePool
<1>6. QED
  BY <1>1, <1>2, <1>3, <1>4, <1>5

LEMMA ReleaseInv ==
    ASSUME TypeOK, PipelineInv, ReleaseTasksToRun
    PROVE  PipelineInv'
<1>1. PICK S, prepping, out :
        /\ SubmitTaskJobs(S, prepping, out)
        /\ out \in [S -> Outcomes]
        /\ prep \cap pool \subseteq S
        /\ S \subseteq prepping
        /\ S \subseteq Tasks
  <2>1. PICK released \in SUBSET Tasks, triggered \in SUBSET Tasks :
          /\ triggered = IF reload = "no" THEN toTrigger ELSE {}
          /\ \E out \in [triggered \cup released \cup (prep \cap pool) -> Outcomes] :
               SubmitTaskJobs(triggered \cup released \cup (prep \cap pool),
                              prep \cup released, out)
    BY DEF ReleaseTasksToRun, TypeOK
  <2>2. triggered \subseteq prep
    BY <2>1 DEF PipelineInv, TriggeredAwaitsPrep
  <2>3. prep \subseteq Tasks
    BY DEF TypeOK
  <2>4. QED
    BY <2>1, <2>2, <2>3
<1>2. /\ UNCHANGED <<pool, reload>>
      /\ reload = "no" => toTrigger' = {}
  BY DEF ReleaseTasksToRun
<1>3. TriggeredAwaitsPrep' /\ NothingTriggered'
  <2>1. toTrigger' \subseteq toTrigger
    BY DEF ReleaseTasksToRun
  <2>2. QED
    BY <1>2, <2>1 DEF TriggeredAwaitsPrep, NothingTriggered, PipelineInv
<1>4. ASSUME NEW t \in pool', status'[t] = "preparing"
      PROVE  Pushed(t)'
  <2>0. t \in pool /\ t \in Tasks
    BY <1>2, <1>4 DEF TypeOK
  <2>1. CASE t \notin S
    <3>1. status[t] = "preparing" /\ submitNum'[t] = submitNum[t]
      BY <1>1, <1>4, <2>0, <2>1 DEF SubmitTaskJobs
    <3>2. t \notin prep
      BY <1>1, <2>0, <2>1
    <3>3. \E c \in cmds : <<t, submitNum[t]>> \in c.jobs /\ t \in c.tasks
      BY <2>0, <3>1, <3>2 DEF PipelineInv, PreparingIsPushed
    <3>4. cmds \subseteq cmds'
      BY <1>1 DEF SubmitTaskJobs
    <3>5. QED
      BY <3>1, <3>3, <3>4 DEF Pushed
  <2>2. CASE t \in S /\ out[t] = "wait"
    BY <1>1, <2>2 DEF SubmitTaskJobs, Pushed
  <2>3. CASE t \in S /\ out[t] = "submit"
    <3> DEFINE done == {u \in S : out[u] = "submit"}
               on(p) == {u \in Tasks : Platform[u] = p}
               cmd(p) == [tasks |-> done \cap on(p),
                          jobs |-> {<<u, submitNum'[u]>> :
                                      u \in (done \cap prepping) \cap on(p)}]
    <3>1. cmds' = cmds \cup
            {cmd(p) : p \in {Platform[u] : u \in done \cap prepping}}
      BY <1>1 DEF SubmitTaskJobs
    <3>2. t \in done /\ t \in prepping /\ t \in on(Platform[t])
      BY <1>1, <2>0, <2>3
    <3>3. cmd(Platform[t]) \in cmds'
      <4> HIDE DEF cmd
      <4>1. QED
        BY <3>1, <3>2
    <3>4. /\ <<t, submitNum'[t]>> \in cmd(Platform[t]).jobs
          /\ t \in cmd(Platform[t]).tasks
      BY <3>2
    <3> HIDE DEF cmd
    <3>5. QED
      BY <3>3, <3>4 DEF Pushed
  <2>4. CASE t \in S /\ out[t] = "fail"
    BY <1>1, <1>4, <2>0, <2>4 DEF SubmitTaskJobs
  <2>5. QED
    BY <1>1, <2>1, <2>2, <2>3, <2>4 DEF Outcomes
<1>5. QED
  BY <1>3, <1>4 DEF PipelineInv, PreparingIsPushed, Pushed

LEMMA CallbackInv ==
    ASSUME TypeOK, PipelineInv, NEW c \in cmds,
           SubmitReturn(c) \/ SubmitReturn255(c)
    PROVE  PipelineInv'
<1>1. CASE SubmitReturn(c)
  <2>1. TriggeredAwaitsPrep'
    BY <1>1 DEF SubmitReturn, PipelineInv, TriggeredAwaitsPrep, TypeOK, loopVars
  <2>2. ASSUME NEW t \in pool', status'[t] = "preparing"
        PROVE  Pushed(t)'
    <3>1. /\ t \in pool /\ t \in Tasks
          /\ prep' = prep /\ submitNum' = submitNum /\ cmds' = cmds \ {c}
      BY <1>1, <2>2 DEF SubmitReturn, TypeOK
    <3>2. status[t] = "preparing"
      BY <1>1, <2>2, <3>1 DEF SubmitReturn
    <3>3. ~(<<t, submitNum[t]>> \in c.jobs /\ t \in c.tasks)
      BY <1>1, <2>2, <3>1, <3>2 DEF SubmitReturn, IgnoresMessages
    <3>4. QED
      BY <3>1, <3>2, <3>3 DEF PipelineInv, PreparingIsPushed, Pushed
  <2>3. NothingTriggered'
    BY <1>1 DEF SubmitReturn, PipelineInv, NothingTriggered
  <2>4. QED
    BY <2>1, <2>2, <2>3 DEF PipelineInv, PreparingIsPushed, Pushed
<1>2. CASE SubmitReturn255(c)
  BY <1>2 DEF SubmitReturn255, PipelineInv, TriggeredAwaitsPrep,
              NothingTriggered, PreparingIsPushed, TypeOK
<1>3. QED
  BY <1>1, <1>2

LEMMA MessageInv ==
    ASSUME TypeOK, PipelineInv, NEW u \in Tasks, NEW n,
           \/ JobSucceeded(u, n) \/ JobFailed(u, n)
           \/ SatisfiedByParent(u) \/ SatisfiedByXtrigger(u) \/ QueueIfReady(u)
    PROVE  PipelineInv'
<1> USE DEF PipelineInv, TriggeredAwaitsPrep, NothingTriggered, PreparingIsPushed
<1>1. CASE JobSucceeded(u, n)
  <2>1. CASE u \in pool /\ n = submitNum[u] /\ ~IgnoresMessages(u)
    BY <1>1, <2>1 DEF JobSucceeded, LeavePool, TypeOK
  <2>2. CASE ~(u \in pool /\ n = submitNum[u] /\ ~IgnoresMessages(u))
    BY <1>1, <2>2 DEF JobSucceeded, poolVars
  <2>3. QED
    BY <2>1, <2>2
<1>2. CASE JobFailed(u, n)
  <2>1. \A t \in Tasks : status'[t] = "preparing" => status[t] = "preparing"
    BY <1>2 DEF JobFailed, Fail
  <2>2. UNCHANGED <<pool, toTrigger, prep, submitNum, cmds, reload>>
    BY <1>2 DEF JobFailed, poolVars
  <2>3. QED
    BY <2>1, <2>2 DEF TypeOK
<1>3. CASE SatisfiedByParent(u)
  BY <1>3 DEF SatisfiedByParent, jobVars
<1>4. CASE SatisfiedByXtrigger(u)
  BY <1>4 DEF SatisfiedByXtrigger, jobVars
<1>5. CASE QueueIfReady(u)
  BY <1>5 DEF QueueIfReady, jobVars
<1>6. QED
  BY <1>1, <1>2, <1>3, <1>4, <1>5

LEMMA ControlInv ==
    ASSUME TypeOK, PipelineInv, GoodReloads,
           \/ Pause \/ Resume \/ Reload \/ ReloadApply \/ ReloadFail
           \/ EndCommands \/ EndCallbacks \/ EndQueue \/ EndMessages
           \/ UNCHANGED vars
    PROVE  PipelineInv'
<1>1. /\ UNCHANGED <<pool, status, prep, submitNum, cmds>>
      /\ toTrigger' \in {toTrigger, {}}
      /\ reload' = "no" =>
           reload = "no" \/ toTrigger' = {} \/ "badreload" \in Commands
  BY DEF Pause, Resume, Reload, ReloadApply, ReloadFail, EndCommands,
         EndCallbacks, EndQueue, EndMessages, vars, taskVars, poolVars, jobVars
<1>2. PreparingIsPushed' /\ NothingTriggered'
  BY <1>1 DEF PipelineInv, NothingTriggered, PreparingIsPushed
<1>3. reload' = "no" => reload = "no" \/ toTrigger' = {}
  BY <1>1 DEF GoodReloads, PipelineInv, NothingTriggered
<1>4. TriggeredAwaitsPrep'
  BY <1>1, <1>3 DEF PipelineInv, TriggeredAwaitsPrep
<1>5. QED
  BY <1>2, <1>4 DEF PipelineInv

LEMMA PipelineInvHolds ==
    ASSUME GoodReloads
    PROVE  Spec => []PipelineInv
<1>1. Init => PipelineInv
  BY DEF Init, PipelineInv, TriggeredAwaitsPrep, NothingTriggered,
         PreparingIsPushed
<1>2. TypeOK /\ PipelineInv /\ [Next]_vars => PipelineInv'
  <2> SUFFICES ASSUME TypeOK, PipelineInv, [Next]_vars PROVE PipelineInv'
    OBVIOUS
  <2>1. ASSUME NEW t \in Tasks,
               \/ Hold(t) \/ ReleaseHold(t) \/ Trigger(t) \/ KillPrepTask(t)
               \/ RemoveByRequest(t)
        PROVE  PipelineInv'
    BY <2>1, CommandsInv
  <2>2. ASSUME NEW t \in Tasks,
               \/ SatisfiedByParent(t) \/ SatisfiedByXtrigger(t)
               \/ QueueIfReady(t)
        PROVE  PipelineInv'
    BY <2>2, MessageInv
  <2>3. ASSUME NEW j \in live, JobSucceeded(j[1], j[2]) \/ JobFailed(j[1], j[2])
        PROVE  PipelineInv'
    BY <2>3, LiveJobs, MessageInv
  <2>4. ASSUME NEW c \in cmds, SubmitReturn(c) \/ SubmitReturn255(c)
        PROVE  PipelineInv'
    BY <2>4, CallbackInv
  <2>5. CASE \/ Pause \/ Resume \/ Reload \/ ReloadApply \/ ReloadFail
             \/ EndCommands \/ EndCallbacks \/ EndQueue \/ EndMessages
             \/ UNCHANGED vars
    BY <2>5, ControlInv
  <2>6. QED
    BY <2>1, <2>2, <2>3, <2>4, <2>5, ReleaseInv DEF Next
<1>3. QED
  BY <1>1, <1>2, TypeCorrect, PTL DEF Spec

\* Unless the operator both triggers tasks and reloads a bad configuration, a
\* preparing task is always passed to submission again on the next iteration of the main loop, or is in
\* a submit command whose callback will find it under its present submit
\* number: release_tasks_to_run and the callbacks strand no task in the
\* preparing status, whatever the operator holds, triggers, kills, removes,
\* pauses or reloads and however submission fails.
THEOREM PreparingNotStranded ==
    ASSUME GoodReloads
    PROVE  Spec => []PreparingIsPushed
<1>1. PipelineInv => PreparingIsPushed
  BY DEF PipelineInv
<1>2. QED
  BY <1>1, PipelineInvHolds, PTL
---------------------------------------------------------------------------
(* No task has two jobs.                                                     *)

\* Known ways to a second job: a killed task is triggered while its submit
\* command is in flight, a task is triggered twice between two turns of the
\* loop, or a bad reload leaves a submitted task in tasks_to_trigger_now.
OneAtATime ==
    /\ "kill" \notin Commands
    /\ "trigger" \in Commands => "badreload" \notin Commands /\ BatchSize <= 1

\* The job of a task is under way: it is not to be queued.
InProcess(t) == t \in prep \/ status[t] \in {"preparing", "active"}

InOneQueue(t) ==
    /\ t \in queued => ~InProcess(t)
    /\ \A q \in Queues : Contains(deque[q], t) =>
         t \in queued /\ q = QueueOf[t] /\ AtMostOnce(deque[q], t)

\* Triggered since the last release of tasks: the task waits for the next one
\* and is not queued before it.
Fresh(t) ==
    /\ "trigger" \in Commands
    /\ status[t] = "waiting" /\ t \in manual
    /\ phase # "messages"
    /\ phase = "commands" => batch > 0
    /\ phase = "callbacks" => reload = "no"

PreparesOnce(t) == t \in prep => status[t] = "preparing" \/ Fresh(t)

InOneCommand(t) ==
    /\ \A c \in cmds : t \in c.tasks => status[t] = "preparing" /\ t \notin prep
    /\ \A c, d \in cmds : t \in c.tasks /\ t \in d.tasks => c = d

JobIsCurrent(t) ==
    /\ \A c \in cmds : \A n : <<t, n>> \in c.jobs => t \in c.tasks /\ n = submitNum[t]
    /\ \A n : <<t, n>> \in live => n = submitNum[t] /\ status[t] = "active"

OneJob(t) ==
    InOneQueue(t) /\ PreparesOnce(t) /\ InOneCommand(t) /\ JobIsCurrent(t)

OneJobInv ==
    /\ deque \in [Queues -> Seq(Tasks)]
    /\ \A t \in pool : OneJob(t)

LEMMA BatchType == TypeOK => batch \in Nat /\ BatchSize \in Nat
<1> SUFFICES ASSUME TypeOK PROVE batch \in Nat /\ BatchSize \in Nat
  OBVIOUS
<1>1. batch \in 0..BatchSize
  BY DEF TypeOK
<1>2. QED
  BY <1>1, Bounds

\* A command finds no task that was triggered since the last release.
LEMMA NoneFresh ==
    ASSUME TypeOK, OneAtATime, NEW name, IsCommand(name), NEW t
    PROVE  ~Fresh(t)
<1>1. phase = "commands" /\ batch < BatchSize /\ batch \in Nat /\ BatchSize \in Nat
  BY BatchType DEF IsCommand
<1>2. QED
  BY <1>1 DEF Fresh, OneAtATime

LEMMA StillFresh ==
    ASSUME TypeOK, NEW name, IsCommand(name), NEW t, Fresh(t), phase' = phase,
           status'[t] = status[t], t \in manual'
    PROVE  Fresh(t)'
<1>1. phase = "commands" /\ batch' = batch + 1 /\ batch \in Nat
  BY BatchType DEF IsCommand
<1>2. QED
  BY <1>1 DEF Fresh

\* What a step must leave alone of a task to leave it with one job.
LEMMA Untouched ==
    ASSUME NEW t, OneJob(t), cmds' \subseteq cmds,
           \A n : <<t, n>> \in live' => <<t, n>> \in live,
           status'[t] = status[t], submitNum'[t] = submitNum[t],
           t \in prep' <=> t \in prep, t \in queued' <=> t \in queued,
           \A q \in Queues : /\ Contains(deque'[q], t) => Contains(deque[q], t)
                             /\ AtMostOnce(deque[q], t) => AtMostOnce(deque'[q], t),
           Fresh(t) => Fresh(t)'
    PROVE  OneJob(t)'
<1>1. InOneQueue(t)'
  BY DEF OneJob, InOneQueue, InProcess
<1>2. PreparesOnce(t)'
  BY DEF OneJob, PreparesOnce
<1>3. InOneCommand(t)' /\ JobIsCurrent(t)'
  BY DEF OneJob, InOneCommand, JobIsCurrent
<1>4. QED
  BY <1>1, <1>2, <1>3 DEF OneJob

LEMMA QueueTaskOne ==
    ASSUME TypeOK, OneJobInv, NEW u \in pool, ~InProcess(u), QueueTask(u)
    PROVE  /\ deque' \in [Queues -> Seq(Tasks)]
           /\ queued \subseteq queued' /\ queued' \subseteq queued \cup {u}
           /\ \A t : t # u => \A q \in Queues :
                /\ Contains(deque'[q], t) => Contains(deque[q], t)
                /\ AtMostOnce(deque[q], t) => AtMostOnce(deque'[q], t)
           /\ \A q \in Queues : Contains(deque'[q], u) =>
                /\ u \in queued' /\ q = QueueOf[u] /\ AtMostOnce(deque'[q], u)
<1>0. /\ deque \in [Queues -> Seq(Tasks)] /\ u \in Tasks
      /\ InOneQueue(u)
  BY DEF OneJobInv, OneJob, TypeOK
<1>1. CASE u \in queued
  <2>1. UNCHANGED <<queued, deque>>
    BY <1>1 DEF QueueTask
  <2>2. QED
    BY <1>0, <1>1, <2>1 DEF InOneQueue
<1>2. CASE u \notin queued
  <2> DEFINE p == QueueOf[u]
  <2>1. /\ queued' = queued \cup {u}
        /\ deque' = [deque EXCEPT ![p] = PushTask(deque[p], u)]
    BY <1>2 DEF QueueTask
  <2>2. p \in Queues
    BY <1>0, ConstantsAssumption
  <2>3. \A q \in Queues : ~Contains(deque[q], u)
    BY <1>0, <1>2 DEF InOneQueue
  <2>4. /\ PushTask(deque[p], u) \in Seq(Tasks)
        /\ \A t : t # u => /\ Contains(PushTask(deque[p], u), t) => Contains(deque[p], t)
                           /\ AtMostOnce(deque[p], t) => AtMostOnce(PushTask(deque[p], u), t)
        /\ AtMostOnce(PushTask(deque[p], u), u)
    BY <1>0, <2>2, <2>3, PushFact
  <2>5. \A q \in Queues : deque'[q] = IF q = p THEN PushTask(deque[p], u) ELSE deque[q]
    BY <1>0, <2>1, <2>2
  <2>6. deque' \in [Queues -> Seq(Tasks)]
    BY <1>0, <2>1, <2>2, <2>4
  <2>7. QED
    BY <2>1, <2>3, <2>4, <2>5, <2>6
<1>3. QED
  BY <1>1, <1>2

LEMMA RemoveFromQueuesOne ==
    ASSUME OneJobInv, NEW u
    PROVE  /\ RemoveFromQueues(deque, u) \in [Queues -> Seq(Tasks)]
           /\ \A t : \A q \in Queues :
                /\ Contains(RemoveFromQueues(deque, u)[q], t) => Contains(deque[q], t)
                /\ AtMostOnce(deque[q], t) => AtMostOnce(RemoveFromQueues(deque, u)[q], t)
           /\ u \in pool => \A q \in Queues : ~Contains(RemoveFromQueues(deque, u)[q], u)
<1>1. deque \in [Queues -> Seq(Tasks)]
  BY DEF OneJobInv
<1>2. RemoveFromQueues(deque, u) = [q \in Queues |-> RemoveTask(deque[q], u)]
  BY <1>1 DEF RemoveFromQueues
<1>3. \A q \in Queues :
        /\ RemoveTask(deque[q], u) \in Seq(Tasks)
        /\ \A t : /\ Contains(RemoveTask(deque[q], u), t) => Contains(deque[q], t)
                  /\ AtMostOnce(deque[q], t) => AtMostOnce(RemoveTask(deque[q], u), t)
        /\ AtMostOnce(deque[q], u) => ~Contains(RemoveTask(deque[q], u), u)
  <2> TAKE q \in Queues
  <2>1. deque[q] \in Seq(Tasks)
    BY <1>1
  <2>2. QED
    BY <2>1, RemoveFact
<1>4. ASSUME u \in pool, NEW q \in Queues PROVE ~Contains(RemoveTask(deque[q], u), u)
  <2>1. Contains(deque[q], u) => AtMostOnce(deque[q], u)
    BY <1>4 DEF OneJobInv, OneJob, InOneQueue
  <2>2. QED
    BY <1>3, <2>1
<1>5. QED
  BY <1>2, <1>3, <1>4
LEMMA CommandsOne ==
    ASSUME TypeOK, OneJobInv, OneAtATime, NEW u \in Tasks,
           \/ Hold(u) \/ ReleaseHold(u) \/ Trigger(u) \/ RemoveByRequest(u)
    PROVE  OneJobInv'
<1>0. \E name : IsCommand(name)
  BY DEF Hold, ReleaseHold, Trigger, RemoveByRequest
<1>1. UNCHANGED <<cmds, live, submitNum, phase>> /\ pool' \subseteq pool
  BY DEF Hold, ReleaseHold, Trigger, RemoveByRequest, LeavePool
<1>2. \A t : Fresh(t) /\ status'[t] = status[t] /\ t \in manual' => Fresh(t)'
  BY <1>0, <1>1, StillFresh
<1>3. /\ deque \in [Queues -> Seq(Tasks)]
      /\ \A t \in pool : OneJob(t)
      /\ pool \subseteq Tasks
  BY DEF OneJobInv, TypeOK
<1>4. CASE Hold(u)
  <2>1. UNCHANGED <<deque, status, prep, queued, manual>>
    BY <1>4 DEF Hold
  <2>2. \A t \in pool : OneJob(t)'
    BY <1>1, <1>2, <1>3, <2>1, Untouched DEF Fresh
  <2>3. QED
    BY <1>1, <1>3, <2>1, <2>2 DEF OneJobInv
<1>5. CASE ReleaseHold(u)
  <2>1. UNCHANGED <<status, prep, manual>>
    BY <1>5 DEF ReleaseHold
  <2>2. CASE IsReadyToRun(u)
    <3>1. u \in pool /\ QueueTask(u)
      BY <1>5, <2>2 DEF ReleaseHold
    <3>2. ~InProcess(u)
      BY <1>0, <1>3, <2>2, <3>1, NoneFresh
         DEF OneJob, PreparesOnce, InProcess, IsReadyToRun
    <3>3. /\ deque' \in [Queues -> Seq(Tasks)]
          /\ queued \subseteq queued' /\ queued' \subseteq queued \cup {u}
          /\ \A t : t # u => \A q \in Queues :
               /\ Contains(deque'[q], t) => Contains(deque[q], t)
               /\ AtMostOnce(deque[q], t) => AtMostOnce(deque'[q], t)
          /\ \A q \in Queues : Contains(deque'[q], u) =>
               /\ u \in queued' /\ q = QueueOf[u] /\ AtMostOnce(deque'[q], u)
      BY <3>1, <3>2, QueueTaskOne
    <3>4. ASSUME NEW t \in pool, t # u PROVE OneJob(t)'
      <4>1. \A q \in Queues : /\ Contains(deque'[q], t) => Contains(deque[q], t)
                              /\ AtMostOnce(deque[q], t) => AtMostOnce(deque'[q], t)
        BY <3>3, <3>4
      <4>2. Fresh(t) => Fresh(t)'
        BY <1>2, <2>1 DEF Fresh
      <4>3. t \in queued' <=> t \in queued
        BY <3>3, <3>4
      <4>4. QED
        BY <1>1, <1>3, <2>1, <4>1, <4>2, <4>3, Untouched
    <3>5. OneJob(u)'
      <4>1. InOneQueue(u)'
        BY <2>1, <3>2, <3>3 DEF InOneQueue, InProcess
      <4>2. PreparesOnce(u)' /\ InOneCommand(u)' /\ JobIsCurrent(u)'
        BY <1>1, <1>3, <2>1, <3>1, <3>2
           DEF OneJob, PreparesOnce, InOneCommand, JobIsCurrent, InProcess
      <4>3. QED
        BY <4>1, <4>2 DEF OneJob
    <3>6. QED
      BY <1>1, <3>3, <3>4, <3>5 DEF OneJobInv
  <2>3. CASE ~IsReadyToRun(u)
    <3>1. UNCHANGED <<queued, deque>>
      BY <1>5, <2>3 DEF ReleaseHold
    <3>2. \A t \in pool : OneJob(t)'
      BY <1>1, <1>2, <1>3, <2>1, <3>1, Untouched DEF Fresh
    <3>3. QED
      BY <1>1, <1>3, <3>1, <3>2 DEF OneJobInv
  <2>4. QED
    BY <2>2, <2>3
<1>6. CASE RemoveByRequest(u)
  <2>1. /\ u \in pool /\ pool' = pool \ {u} /\ status' = status
        /\ queued' = queued \ {u} /\ prep' = prep \ {u} /\ manual' = manual \ {u}
        /\ deque' \in {deque, RemoveFromQueues(deque, u)}
    BY <1>6 DEF RemoveByRequest, LeavePool
  <2>2. /\ deque' \in [Queues -> Seq(Tasks)]
        /\ \A t : \A q \in Queues :
             /\ Contains(deque'[q], t) => Contains(deque[q], t)
             /\ AtMostOnce(deque[q], t) => AtMostOnce(deque'[q], t)
    BY <1>3, <2>1, RemoveFromQueuesOne
  <2>3. ASSUME NEW t \in pool' PROVE OneJob(t)'
    <3>1. t \in pool /\ t # u
      BY <2>1
    <3>2. Fresh(t) => Fresh(t)'
      BY <1>2, <2>1, <3>1 DEF Fresh
    <3>3. QED
      BY <1>1, <1>3, <2>1, <2>2, <3>1, <3>2, Untouched
  <2>4. QED
    BY <2>2, <2>3 DEF OneJobInv
<1>7. CASE Trigger(u)
  <2>1. /\ u \in pool /\ status[u] \notin {"preparing", "active"}
        /\ status' = [status EXCEPT ![u] = "waiting"]
        /\ manual' = manual \cup {u}
        /\ pool' = pool /\ IsCommand("trigger")
    BY <1>7 DEF Trigger, QueueOrTrigger
  <2>2. status \in [Tasks -> Status]
    BY DEF TypeOK
  <2>3. /\ status'[u] = "waiting"
        /\ \A t \in Tasks : t # u => status'[t] = status[t]
    BY <1>3, <2>1, <2>2
  <2>4. ~InProcess(u)
    BY <1>0, <1>3, <2>1, NoneFresh DEF OneJob, PreparesOnce, InProcess
  <2>5. Fresh(u)'
    <3>1. phase' = "commands" /\ batch' = batch + 1 /\ batch \in Nat
      BY <1>1, <2>1, BatchType DEF IsCommand
    <3>2. QED
      BY <1>3, <2>1, <2>3, <3>1 DEF Fresh, IsCommand
  <2>6. \A t \in pool : t # u => (Fresh(t) => Fresh(t)')
    BY <1>2, <1>3, <2>1, <2>3 DEF Fresh
  <2>7. /\ deque' \in [Queues -> Seq(Tasks)]
        /\ \A t : t # u => \A q \in Queues :
             /\ Contains(deque'[q], t) => Contains(deque[q], t)
             /\ AtMostOnce(deque[q], t) => AtMostOnce(deque'[q], t)
        /\ \A q \in Queues : Contains(deque'[q], u) =>
             /\ u \in queued' /\ q = QueueOf[u] /\ AtMostOnce(deque'[q], u)
             /\ u \notin prep'
        /\ queued \ {u} \subseteq queued' /\ queued' \subseteq queued \cup {u}
        /\ u \in queued' => u \notin prep'
        /\ prep' \in {prep, prep \cup {u}}
    <3> DEFINE p == QueueOf[u]
               pushed == u \notin queued /\ IsLimited(Limit[p], NActive(p))
               runNow == IF u \in queued THEN Occurrences(deque[p], u) > 0 ELSE ~pushed
    <3>1. /\ queued' = IF runNow THEN queued \ {u} ELSE queued \cup {u}
          /\ deque' = IF pushed THEN [deque EXCEPT ![p] = PushTask(deque[p], u)]
                      ELSE IF u \in queued THEN RemoveFromQueues(deque, u)
                      ELSE deque
          /\ prep' = IF runNow THEN prep \cup {u} ELSE prep
      BY <1>7 DEF Trigger, QueueOrTrigger
    <3> HIDE DEF runNow
    <3>2. CASE u \in queued
      <4>1. deque' = RemoveFromQueues(deque, u)
        BY <3>1, <3>2
      <4>2. QED
        BY <2>1, <2>4, <3>1, <3>2, <4>1, RemoveFromQueuesOne DEF InProcess
    <3>3. CASE u \notin queued /\ pushed
      <4>1. ~runNow
        BY <3>3 DEF runNow
      <4>2. QueueTask(u)
        BY <3>1, <3>3, <4>1 DEF QueueTask
      <4>3. QED
        BY <2>1, <2>4, <3>1, <4>1, <4>2, QueueTaskOne DEF InProcess
    <3>4. CASE u \notin queued /\ ~pushed
      <4>1. \A q \in Queues : ~Contains(deque[q], u)
        BY <1>3, <2>1, <3>4 DEF OneJob, InOneQueue
      <4>2. deque' = deque
        BY <3>1, <3>4
      <4>3. QED
        BY <1>3, <2>4, <3>1, <3>3, <3>4, <4>1, <4>2 DEF InProcess
    <3>5. QED
      BY <3>2, <3>3, <3>4
  <2>8. ASSUME NEW t \in pool, t # u PROVE OneJob(t)'
    <3>1. \A q \in Queues : /\ Contains(deque'[q], t) => Contains(deque[q], t)
                            /\ AtMostOnce(deque[q], t) => AtMostOnce(deque'[q], t)
      BY <2>7, <2>8
    <3>2. /\ t \in queued' <=> t \in queued
          /\ t \in prep' <=> t \in prep
      BY <2>7, <2>8
    <3>3. QED
      BY <1>1, <1>3, <2>3, <2>6, <2>8, <3>1, <3>2, Untouched
  <2>9. OneJob(u)'
    <3>1. InOneQueue(u)'
      BY <2>3, <2>7 DEF InOneQueue, InProcess
    <3>2. PreparesOnce(u)'
      BY <2>5 DEF PreparesOnce
    <3>3. InOneCommand(u)' /\ JobIsCurrent(u)'
      BY <1>1, <1>3, <2>1 DEF OneJob, InOneCommand, JobIsCurrent
    <3>4. QED
      BY <3>1, <3>2, <3>3 DEF OneJob
  <2>10. QED
    BY <2>1, <2>7, <2>8, <2>9 DEF OneJobInv
<1>8. QED
  BY <1>4, <1>5, <1>6, <1>7
LEMMA QueuedOne ==
    ASSUME TypeOK, OneJobInv, NEW u \in pool, ~InProcess(u), QueueTask(u),
           UNCHANGED <<pool, status, prep, manual, submitNum, cmds, live, phase,
                       batch, reload>>
    PROVE  OneJobInv'
<1>1. /\ deque' \in [Queues -> Seq(Tasks)]
      /\ queued \subseteq queued' /\ queued' \subseteq queued \cup {u}
      /\ \A t : t # u => \A q \in Queues :
           /\ Contains(deque'[q], t) => Contains(deque[q], t)
           /\ AtMostOnce(deque[q], t) => AtMostOnce(deque'[q], t)
      /\ \A q \in Queues : Contains(deque'[q], u) =>
           /\ u \in queued' /\ q = QueueOf[u] /\ AtMostOnce(deque'[q], u)
  BY QueueTaskOne
<1>2. ASSUME NEW t \in pool, t # u PROVE OneJob(t)'
  <2>1. \A q \in Queues : /\ Contains(deque'[q], t) => Contains(deque[q], t)
                          /\ AtMostOnce(deque[q], t) => AtMostOnce(deque'[q], t)
    BY <1>1, <1>2
  <2>2. t \in queued' <=> t \in queued
    BY <1>1, <1>2
  <2>3. OneJob(t) /\ (Fresh(t) => Fresh(t)')
    BY DEF OneJobInv, Fresh
  <2>4. QED
    BY <2>1, <2>2, <2>3, Untouched
<1>3. OneJob(u)'
  <2>1. InOneQueue(u)'
    BY <1>1 DEF InOneQueue, InProcess
  <2>2. PreparesOnce(u)' /\ InOneCommand(u)' /\ JobIsCurrent(u)'
    BY DEF OneJobInv, OneJob, PreparesOnce, InOneCommand, JobIsCurrent, Fresh
  <2>3. QED
    BY <2>1, <2>2 DEF OneJob
<1>4. QED
  BY <1>1, <1>2, <1>3 DEF OneJobInv

LEMMA MessagesOne ==
    ASSUME TypeOK, OneJobInv, NEW u \in Tasks, NEW n,
           \/ JobSucceeded(u, n) \/ JobFailed(u, n)
           \/ SatisfiedByParent(u) \/ SatisfiedByXtrigger(u) \/ QueueIfReady(u)
    PROVE  OneJobInv'
<1>0. /\ deque \in [Queues -> Seq(Tasks)]
      /\ \A t \in pool : OneJob(t)
      /\ pool \subseteq Tasks
      /\ status \in [Tasks -> Status]
  BY DEF OneJobInv, TypeOK
<1>1. UNCHANGED <<cmds, submitNum, phase, batch, reload>>
  BY DEF JobSucceeded, JobFailed, SatisfiedByParent, SatisfiedByXtrigger,
         QueueIfReady, loopVars, jobVars
<1>2. CASE JobSucceeded(u, n)
  <2>1. CASE u \in pool /\ n = submitNum[u] /\ ~IgnoresMessages(u)
    <3>1. /\ pool' = pool \ {u} /\ status' = [status EXCEPT ![u] = "succeeded"]
          /\ queued' = queued \ {u} /\ prep' = prep \ {u} /\ manual' = manual \ {u}
          /\ deque' \in {deque, RemoveFromQueues(deque, u)}
          /\ live' \subseteq live
      BY <1>2, <2>1 DEF JobSucceeded, LeavePool
    <3>2. /\ deque' \in [Queues -> Seq(Tasks)]
          /\ \A t : \A q \in Queues :
               /\ Contains(deque'[q], t) => Contains(deque[q], t)
               /\ AtMostOnce(deque[q], t) => AtMostOnce(deque'[q], t)
      BY <1>0, <3>1, RemoveFromQueuesOne
    <3>3. ASSUME NEW t \in pool' PROVE OneJob(t)'
      <4>1. t \in pool /\ t # u /\ status'[t] = status[t]
        BY <1>0, <3>1
      <4>2. Fresh(t) => Fresh(t)'
        BY <1>1, <3>1, <4>1 DEF Fresh
      <4>3. QED
        BY <1>0, <1>1, <3>1, <3>2, <4>1, <4>2, Untouched
    <3>4. QED
      BY <3>2, <3>3 DEF OneJobInv
  <2>2. CASE ~(u \in pool /\ n = submitNum[u] /\ ~IgnoresMessages(u))
    <3>1. /\ UNCHANGED <<pool, deque, status, queued, prep, manual>>
          /\ live' \subseteq live
      BY <1>2, <2>2 DEF JobSucceeded, poolVars
    <3>2. \A t : Fresh(t) => Fresh(t)'
      BY <1>1, <3>1 DEF Fresh
    <3>3. \A t \in pool : OneJob(t)'
      BY <1>0, <1>1, <3>1, <3>2, Untouched
    <3>4. QED
      BY <1>0, <3>1, <3>3 DEF OneJobInv
  <2>3. QED
    BY <2>1, <2>2
<1>3. CASE JobFailed(u, n)
  <2>1. /\ UNCHANGED <<pool, deque, queued, prep, manual>>
        /\ live' = live \ {<<u, n>>} /\ <<u, n>> \in live
        /\ \A t \in Tasks : t # u => status'[t] = status[t]
        /\ status'[u] \in {status[u], "waiting", "failed"}
    BY <1>0, <1>3 DEF JobFailed, Fail, poolVars
  <2>2. ASSUME NEW t \in pool, t # u PROVE OneJob(t)'
    <3>1. status'[t] = status[t]
      BY <1>0, <2>1, <2>2
    <3>2. Fresh(t) => Fresh(t)'
      BY <1>1, <2>1, <3>1 DEF Fresh
    <3>3. QED
      BY <1>0, <1>1, <2>1, <3>1, <3>2, Untouched
  <2>3. ASSUME u \in pool PROVE OneJob(u)'
    <3>1. OneJob(u) /\ n = submitNum[u] /\ status[u] = "active"
      BY <1>0, <2>1, <2>3 DEF OneJob, JobIsCurrent
    <3>2. u \notin prep
      BY <3>1 DEF OneJob, PreparesOnce, Fresh
    <3>3. u \notin queued /\ \A q \in Queues : ~Contains(deque[q], u)
      BY <3>1 DEF OneJob, InOneQueue, InProcess
    <3>4. \A c \in cmds : u \notin c.tasks
      BY <3>1 DEF OneJob, InOneCommand
    <3>5. \A k : <<u, k>> \notin live'
      BY <2>1, <3>1 DEF OneJob, JobIsCurrent
    <3>6. \A c \in cmds : \A k : <<u, k>> \notin c.jobs
      BY <3>1, <3>4 DEF OneJob, JobIsCurrent
    <3>7. QED
      BY <1>1, <2>1, <3>2, <3>3, <3>4, <3>5, <3>6
         DEF OneJob, InOneQueue, PreparesOnce, InOneCommand, JobIsCurrent
  <2>4. QED
    BY <1>0, <2>1, <2>2, <2>3 DEF OneJobInv
<1>4. CASE SatisfiedByParent(u)
  <2>1. /\ u \in pool /\ status[u] = "waiting" /\ phase = "messages"
        /\ UNCHANGED <<pool, status, prep, manual, live>>
    BY <1>4 DEF SatisfiedByParent, jobVars
  <2>2. ~InProcess(u)
    BY <1>0, <2>1 DEF OneJob, PreparesOnce, InProcess, Fresh
  <2>3. CASE QueueTask(u)
    BY <1>1, <2>1, <2>2, <2>3, QueuedOne
  <2>4. CASE UNCHANGED <<queued, deque>>
    <3>1. \A t : Fresh(t) => Fresh(t)'
      BY <1>1, <2>1 DEF Fresh
    <3>2. \A t \in pool : OneJob(t)'
      BY <1>0, <1>1, <2>1, <2>4, <3>1, Untouched
    <3>3. QED
      BY <1>0, <2>1, <2>4, <3>2 DEF OneJobInv
  <2>5. QED
    BY <1>4, <2>3, <2>4 DEF SatisfiedByParent
<1>5. CASE SatisfiedByXtrigger(u)
  <2>1. UNCHANGED <<pool, status, prep, manual, live, queued, deque>>
    BY <1>5 DEF SatisfiedByXtrigger, jobVars
  <2>2. \A t : Fresh(t) => Fresh(t)'
    BY <1>1, <2>1 DEF Fresh
  <2>3. \A t \in pool : OneJob(t)'
    BY <1>0, <1>1, <2>1, <2>2, Untouched
  <2>4. QED
    BY <1>0, <2>1, <2>3 DEF OneJobInv
<1>6. CASE QueueIfReady(u)
  <2>1. /\ u \in pool /\ status[u] = "waiting" /\ u \notin manual
        /\ UNCHANGED <<pool, status, prep, manual, live>>
        /\ QueueTask(u)
    BY <1>6 DEF QueueIfReady, IsQueueable, IsReadyToRun, jobVars
  <2>2. ~InProcess(u)
    BY <1>0, <2>1 DEF OneJob, PreparesOnce, InProcess, Fresh
  <2>3. QED
    BY <1>1, <2>1, <2>2, QueuedOne
<1>7. QED
  BY <1>2, <1>3, <1>4, <1>5, <1>6

LEMMA ControlOne ==
    ASSUME TypeOK, OneJobInv, OneAtATime,
           \/ Pause \/ Resume \/ Reload \/ ReloadApply \/ ReloadFail
           \/ EndCommands \/ EndCallbacks \/ EndQueue \/ EndMessages
           \/ UNCHANGED vars
    PROVE  OneJobInv'
<1>0. /\ deque \in [Queues -> Seq(Tasks)]
      /\ \A t \in pool : OneJob(t)
  BY DEF OneJobInv
<1>1. UNCHANGED <<pool, cmds, live, submitNum, status, prep, manual>>
  BY DEF Pause, Resume, Reload, ReloadApply, ReloadFail, EndCommands,
         EndCallbacks, EndQueue, EndMessages, vars, taskVars, poolVars, jobVars
<1>2. ASSUME NEW t \in pool, t \in prep, Fresh(t) PROVE Fresh(t)'
  <2>1. CASE Pause \/ Resume \/ Reload
    <3>1. \E name : IsCommand(name)
      BY <2>1 DEF Pause, Resume, Reload
    <3>2. QED
      BY <1>2, <3>1, NoneFresh
  <2>2. CASE ReloadApply \/ ReloadFail
    BY <1>2, <2>2 DEF ReloadApply, ReloadFail, Flushing
  <2>3. CASE EndCommands
    BY <1>1, <1>2, <2>3 DEF EndCommands, Fresh
  <2>4. CASE EndCallbacks
    BY <1>1, <1>2, <2>4 DEF EndCallbacks, Fresh
  <2>5. CASE EndQueue
    BY <1>1, <1>2, <2>5 DEF EndQueue, Fresh
  <2>6. CASE EndMessages
    BY <1>2, <2>6 DEF EndMessages, Fresh
  <2>7. CASE UNCHANGED vars
    BY <1>2, <2>7 DEF vars, Fresh
  <2>8. QED
    BY <2>1, <2>2, <2>3, <2>4, <2>5, <2>6, <2>7
<1>3. /\ deque' \in [Queues -> Seq(Tasks)]
      /\ \A t \in pool : InOneQueue(t)'
  <2>1. CASE UNCHANGED <<deque, queued>>
    BY <1>0, <1>1, <2>1 DEF OneJob, InOneQueue, InProcess
  <2>2. CASE ReloadApply
    <3>1. deque' = [q \in Queues |-> <<>>] /\ queued' = {}
      BY <2>2 DEF ReloadApply
    <3>2. \A q \in Queues : \A t : ~Contains(deque'[q], t)
      BY <3>1 DEF Contains
    <3>3. QED
      BY <3>1, <3>2 DEF InOneQueue
  <2>3. QED
    BY <2>1, <2>2 DEF Pause, Resume, Reload, ReloadFail, EndCommands,
         EndCallbacks, EndQueue, EndMessages, vars, taskVars, poolVars
<1>4. \A t \in pool : PreparesOnce(t)'
  BY <1>0, <1>1, <1>2 DEF OneJob, PreparesOnce
<1>5. \A t \in pool : InOneCommand(t)' /\ JobIsCurrent(t)'
  BY <1>0, <1>1 DEF OneJob, InOneCommand, JobIsCurrent
<1>6. QED
  BY <1>1, <1>3, <1>4, <1>5 DEF OneJobInv, OneJob
LEMMA CallbackOne ==
    ASSUME TypeOK, OneJobInv, NEW c \in cmds, SubmitReturn(c) \/ SubmitReturn255(c)
    PROVE  OneJobInv'
<1>0. /\ deque \in [Queues -> Seq(Tasks)]
      /\ \A t \in pool : OneJob(t)
      /\ pool \subseteq Tasks
  BY DEF OneJobInv, TypeOK
<1>1. /\ UNCHANGED <<pool, deque, manual, submitNum, phase, batch, reload>>
      /\ cmds' = cmds \ {c}
  BY DEF SubmitReturn, SubmitReturn255, loopVars
<1>2. CASE SubmitReturn(c)
  <2>1. PICK good \in SUBSET c.jobs :
          LET heard == {t \in c.tasks \cap pool : ~IgnoresMessages(t)}
              ok == {t \in heard : <<t, submitNum[t]>> \in good}
              failed == heard \ ok
              submitted == {t \in ok : status[t] = "preparing"}
          IN  /\ live' = live \cup good
              /\ status' = [t \in Tasks |->
                              IF t \in submitted THEN "active"
                              ELSE IF t \notin failed THEN status[t]
                              ELSE IF tries[t] < Retries THEN "waiting"
                              ELSE "submit-failed"]
              /\ queued' = queued \ submitted
    BY <1>2 DEF SubmitReturn
  <2>2. prep' = prep
    BY <1>2 DEF SubmitReturn
  <2>3. ASSUME NEW t \in pool, t \notin c.tasks PROVE OneJob(t)'
    <3>1. status'[t] = status[t] /\ (t \in queued' <=> t \in queued)
      BY <1>0, <2>1, <2>3
    <3>2. \A n : <<t, n>> \in live' => <<t, n>> \in live
      <4>1. \A n : <<t, n>> \notin c.jobs
        BY <1>0, <2>3 DEF OneJob, JobIsCurrent
      <4>2. QED
        BY <2>1, <4>1
    <3>3. Fresh(t) => Fresh(t)'
      BY <1>1, <3>1 DEF Fresh
    <3>4. QED
      BY <1>0, <1>1, <2>2, <3>1, <3>2, <3>3, Untouched
  <2>4. ASSUME NEW t \in pool, t \in c.tasks PROVE OneJob(t)'
    <3>1. /\ OneJob(t) /\ status[t] = "preparing" /\ t \notin prep
          /\ \A d \in cmds' : t \notin d.tasks
          /\ t \in Tasks
      BY <1>0, <1>1, <2>4 DEF OneJob, InOneCommand
    <3>2. ~IgnoresMessages(t)
      BY <3>1 DEF IgnoresMessages
    <3>3. /\ <<t, submitNum[t]>> \in good => status'[t] = "active"
          /\ status'[t] \in {"active", "waiting", "submit-failed"}
      BY <2>1, <2>4, <3>1, <3>2
    <3>4. InOneQueue(t)'
      <4>1. t \notin queued'
        BY <2>1, <3>1 DEF OneJob, InOneQueue, InProcess
      <4>2. QED
        BY <1>1, <3>1, <4>1 DEF OneJob, InOneQueue, InProcess
    <3>5. PreparesOnce(t)'
      BY <2>2, <3>1 DEF PreparesOnce
    <3>6. InOneCommand(t)'
      BY <3>1 DEF InOneCommand
    <3>7. JobIsCurrent(t)'
      <4>1. \A d \in cmds : \A n : <<t, n>> \in d.jobs => t \in d.tasks /\ n = submitNum[t]
        BY <3>1 DEF OneJob, JobIsCurrent
      <4>2. \A n : <<t, n>> \notin live
        BY <3>1 DEF OneJob, JobIsCurrent
      <4>3. \A n : <<t, n>> \in live' => n = submitNum[t] /\ status'[t] = "active"
        BY <2>1, <3>3, <4>1, <4>2
      <4>4. QED
        BY <1>1, <4>1, <4>3 DEF JobIsCurrent
    <3>8. QED
      BY <3>4, <3>5, <3>6, <3>7 DEF OneJob
  <2>5. QED
    BY <1>0, <1>1, <2>3, <2>4 DEF OneJobInv
<1>3. CASE SubmitReturn255(c)
  <2>1. UNCHANGED <<status, queued, live>> /\ prep' = prep \cup (c.tasks \cap pool)
    BY <1>3 DEF SubmitReturn255
  <2>2. ASSUME NEW t \in pool, t \notin c.tasks PROVE OneJob(t)'
    <3>1. Fresh(t) => Fresh(t)'
      BY <1>1, <2>1 DEF Fresh
    <3>2. QED
      BY <1>0, <1>1, <2>1, <2>2, <3>1, Untouched
  <2>3. ASSUME NEW t \in pool, t \in c.tasks PROVE OneJob(t)'
    <3>1. /\ OneJob(t) /\ status[t] = "preparing"
          /\ \A d \in cmds' : t \notin d.tasks
      BY <1>0, <1>1, <2>3 DEF OneJob, InOneCommand
    <3>2. QED
      BY <1>1, <2>1, <3>1
         DEF OneJob, InOneQueue, InProcess, PreparesOnce, InOneCommand, JobIsCurrent
  <2>4. QED
    BY <1>0, <1>1, <2>2, <2>3 DEF OneJobInv
<1>4. QED
  BY <1>2, <1>3

LEMMA ReleaseOne ==
    ASSUME TypeOK, OneJobInv, PipelineInv, ReleaseTasksToRun
    PROVE  OneJobInv'
<1> DEFINE releasing == reload = "no" /\ play = "running"
           from(q) == IF releasing
                      THEN Released(deque[q], Limit[q], NActive(q), held)
                      ELSE {}
           released == {t \in Tasks : \E q \in Queues : t \in from(q)}
           triggered == IF reload = "no" THEN toTrigger ELSE {}
           prepping == prep \cup released
           S == triggered \cup released \cup (prep \cap pool)
<1>0. /\ deque \in [Queues -> Seq(Tasks)]
      /\ \A t \in pool : OneJob(t)
      /\ pool \subseteq Tasks /\ S \subseteq Tasks
  BY DEF OneJobInv, TypeOK
<1>1. PICK out \in [S -> Outcomes] : SubmitTaskJobs(S, prepping, out)
  BY DEF ReleaseTasksToRun
<1>2. /\ queued' = queued \ released
      /\ deque' = [q \in Queues |->
                     IF releasing
                     THEN AfterRelease(deque[q], Limit[q], NActive(q), held)
                     ELSE deque[q]]
      /\ UNCHANGED <<pool, live>>
  BY DEF ReleaseTasksToRun
<1>3. \A q \in Queues :
        /\ deque'[q] \in Seq(Tasks)
        /\ \A t : /\ Contains(deque'[q], t) => Contains(deque[q], t)
                  /\ AtMostOnce(deque[q], t) => AtMostOnce(deque'[q], t)
        /\ \A t \in from(q) : /\ Contains(deque[q], t)
                              /\ AtMostOnce(deque[q], t) => ~Contains(deque'[q], t)
  <2> TAKE q \in Queues
  <2>1. deque[q] \in Seq(Tasks)
    BY <1>0
  <2>2. CASE releasing
    <3> DEFINE e == AfterRelease(deque[q], Limit[q], NActive(q), held)
    <3>1. deque'[q] = e /\ from(q) = Released(deque[q], Limit[q], NActive(q), held)
      BY <1>2, <2>2
    <3>2. /\ e \in Seq(Tasks)
          /\ \A u : /\ Contains(e, u) => Contains(deque[q], u)
                    /\ AtMostOnce(deque[q], u) => AtMostOnce(e, u)
          /\ \A u \in Released(deque[q], Limit[q], NActive(q), held) :
               AtMostOnce(deque[q], u) => ~Contains(e, u)
          /\ \A u \in Released(deque[q], Limit[q], NActive(q), held) :
               Contains(deque[q], u)
      BY <2>1, ReleaseFact
    <3> HIDE DEF e, from
    <3>3. QED
      BY <3>1, <3>2
  <2>3. CASE ~releasing
    BY <1>2, <2>1, <2>3
  <2>4. QED
    BY <2>2, <2>3
<1>4. deque' \in [Queues -> Seq(Tasks)]
  BY <1>2, <1>3
<1>5. \A t \in triggered : t \in pool /\ t \in prep /\ status[t] # "preparing"
  BY DEF PipelineInv, TriggeredAwaitsPrep
<1>6. \A t \in released : \E q \in Queues : t \in from(q)
  OBVIOUS
<1>7. \A t \in S \cap pool :
        /\ t \in prepping
        /\ status[t] # "active"
        /\ \A c \in cmds : t \notin c.tasks
        /\ \A q \in Queues : ~Contains(deque'[q], t)
        /\ t \notin queued'
  <2> HIDE DEF from
  <2> TAKE t \in S \cap pool
  <2>1. OneJob(t)
    BY <1>0
  <2>2. CASE t \in prep
    <3>1. \A q \in Queues : ~Contains(deque[q], t)
      BY <2>1, <2>2 DEF OneJob, InOneQueue, InProcess
    <3>2. QED
      BY <1>2, <1>3, <2>1, <2>2, <3>1
         DEF OneJob, InOneQueue, InProcess, PreparesOnce, InOneCommand, Fresh
  <2>3. CASE t \notin prep
    <3>1. t \in released
      BY <1>5, <2>3
    <3>2. PICK q \in Queues : t \in from(q)
      BY <1>6, <3>1
    <3>3. Contains(deque[q], t)
      BY <1>3, <3>2
    <3>4. t \in queued /\ q = QueueOf[t] /\ AtMostOnce(deque[q], t)
      BY <2>1, <3>3 DEF OneJob, InOneQueue
    <3>5. \A r \in Queues : Contains(deque[r], t) => r = q
      BY <2>1, <3>4 DEF OneJob, InOneQueue
    <3>6. \A r \in Queues : ~Contains(deque'[r], t)
      BY <1>3, <3>2, <3>4, <3>5
    <3>7. ~InProcess(t)
      BY <2>1, <3>4 DEF OneJob, InOneQueue
    <3>8. QED
      BY <1>2, <2>1, <3>1, <3>6, <3>7 DEF OneJob, InOneCommand, InProcess
  <2>4. QED
    BY <2>2, <2>3
<1> DEFINE done == {u \in S : out[u] = "submit"}
           failed == {u \in S : out[u] = "fail"}
           on(p) == {u \in Tasks : Platform[u] = p}
           cmd(p) == [tasks |-> done \cap on(p),
                      jobs |-> {<<u, submitNum'[u]>> :
                                  u \in (done \cap prepping) \cap on(p)}]
<1>8. /\ cmds' = cmds \cup {cmd(p) : p \in {Platform[u] : u \in done \cap prepping}}
      /\ prep' = prepping \ (failed \cup done)
  BY <1>1 DEF SubmitTaskJobs
<1>9. \A t \in Tasks :
        IF t \in S
        THEN status'[t] \in IF out[t] = "fail" THEN {"waiting", "submit-failed"}
                            ELSE {"preparing"}
        ELSE status'[t] = status[t] /\ submitNum'[t] = submitNum[t]
  BY <1>1 DEF SubmitTaskJobs
<1>10. prep \cap pool \subseteq S /\ released \subseteq S
  OBVIOUS
<1>11. \A p : \A t \in cmd(p).tasks : t \in S /\ out[t] = "submit" /\ p = Platform[t]
  OBVIOUS
<1>12. \A p : \A t, n : <<t, n>> \in cmd(p).jobs => t \in cmd(p).tasks /\ n = submitNum'[t]
  OBVIOUS
<1> HIDE DEF cmd, S, prepping, released, triggered, done, failed
<1>13. \A c \in cmds' : c \in cmds \/ \E p : c = cmd(p)
  BY <1>8
<1>14. ASSUME NEW t \in pool, t \notin S PROVE OneJob(t)'
  <2>1. /\ t \in Tasks /\ OneJob(t) /\ t \notin prep /\ t \notin released
        /\ status'[t] = status[t] /\ submitNum'[t] = submitNum[t]
    BY <1>0, <1>9, <1>10, <1>14
  <2>2. t \notin prep'
    BY <1>8, <2>1 DEF prepping
  <2>3. \A c \in cmds' : t \in c.tasks => c \in cmds
    BY <1>11, <1>13, <1>14
  <2>4. InOneQueue(t)'
    BY <1>2, <1>3, <2>1, <2>2 DEF OneJob, InOneQueue, InProcess
  <2>5. PreparesOnce(t)'
    BY <2>2 DEF PreparesOnce
  <2>6. InOneCommand(t)'
    BY <2>1, <2>2, <2>3 DEF OneJob, InOneCommand
  <2>7. JobIsCurrent(t)'
    BY <1>2, <1>12, <1>13, <2>1, <2>3 DEF OneJob, JobIsCurrent
  <2>8. QED
    BY <2>4, <2>5, <2>6, <2>7 DEF OneJob
<1>15. ASSUME NEW t \in pool, t \in S PROVE OneJob(t)'
  <2>1. /\ t \in Tasks /\ OneJob(t) /\ status[t] # "active"
        /\ \A c \in cmds : t \notin c.tasks
        /\ \A q \in Queues : ~Contains(deque'[q], t)
        /\ t \notin queued'
    BY <1>0, <1>7, <1>15
  <2>2. \A n : <<t, n>> \notin live'
    BY <1>2, <2>1 DEF OneJob, JobIsCurrent
  <2>3. \A c \in cmds' : t \in c.tasks => c = cmd(Platform[t]) /\ out[t] = "submit"
    BY <1>11, <1>13, <2>1
  <2>4. out[t] = "submit" => status'[t] = "preparing" /\ t \notin prep'
    BY <1>8, <1>9, <1>15, <2>1 DEF done
  <2>5. t \in prep' => status'[t] = "preparing"
    BY <1>8, <1>9, <1>15, <2>1 DEF failed
  <2>6. InOneQueue(t)' /\ PreparesOnce(t)'
    BY <2>1, <2>5 DEF InOneQueue, PreparesOnce
  <2>7. InOneCommand(t)'
    BY <2>3, <2>4 DEF InOneCommand
  <2>8. \A c \in cmds' : \A n : <<t, n>> \in c.jobs => t \in c.tasks /\ n = submitNum'[t]
    <3>1. \A c \in cmds : \A n : <<t, n>> \notin c.jobs
      BY <2>1 DEF OneJob, JobIsCurrent
    <3>2. QED
      BY <1>12, <1>13, <3>1
  <2>9. JobIsCurrent(t)'
    BY <2>2, <2>8 DEF JobIsCurrent
  <2>10. QED
    BY <2>6, <2>7, <2>9 DEF OneJob
<1>16. QED
  BY <1>2, <1>4, <1>14, <1>15 DEF OneJobInv
LEMMA CurrentIsOne ==
    ASSUME TypeOK, OneJobInv
    PROVE  OneLiveJob
<1> SUFFICES ASSUME NEW t \in pool
             PROVE  Cardinality({j \in live : j[1] = t}
                      \cup {j \in UNION {c.jobs : c \in cmds} : j[1] = t}) <= 1
  BY DEF OneLiveJob
<1> DEFINE jobs == {j \in live : j[1] = t}
                   \cup {j \in UNION {c.jobs : c \in cmds} : j[1] = t}
           one == {<<t, submitNum[t]>>}
<1>1. OneJob(t)
  BY DEF OneJobInv
<1>2. ASSUME NEW j \in jobs PROVE j \in one
  <2>1. CASE j \in live
    <3>0. live \subseteq Tasks \X Nat
      BY DEF TypeOK
    <3>1. j = <<t, j[2]>>
      BY <1>2, <2>1, <3>0
    <3>2. j[2] = submitNum[t]
      BY <1>1, <2>1, <3>1 DEF OneJob, JobIsCurrent
    <3>3. QED
      BY <3>1, <3>2
  <2>2. ASSUME NEW c \in cmds, j \in c.jobs PROVE j \in one
    <3>1. c.jobs \subseteq Tasks \X Nat
      BY DEF TypeOK, SubmitCommand
    <3>2. j = <<t, j[2]>>
      BY <1>2, <2>2, <3>1
    <3>3. j[2] = submitNum[t]
      BY <1>1, <2>2, <3>2 DEF OneJob, JobIsCurrent
    <3>4. QED
      BY <3>2, <3>3
  <2>3. QED
    BY <1>2, <2>1, <2>2
<1>3. jobs \in SUBSET one
  BY <1>2
<1> HIDE DEF jobs
<1>4. IsFiniteSet(one) /\ Cardinality(one) = 1
  BY FS_Singleton
<1>5. Cardinality(jobs) <= Cardinality(one)
  BY <1>3, <1>4, FS_Subset
<1>6. Cardinality(jobs) <= 1
  BY <1>4, <1>5
<1>7. QED
  BY <1>6 DEF jobs

LEMMA OneJobInvHolds ==
    ASSUME OneAtATime
    PROVE  Spec => [](TypeOK /\ PipelineInv /\ OneJobInv)
<1>1. GoodReloads
  BY DEF OneAtATime, GoodReloads
<1>2. Init => OneJobInv
  <2>1. Init => deque \in [Queues -> Seq(Tasks)] /\ \A q \in Queues : deque[q] = <<>>
    BY DEF Init
  <2>2. QED
    BY <2>1 DEF Init, OneJobInv, OneJob, InOneQueue, Contains, PreparesOnce,
                InOneCommand, JobIsCurrent
<1>3. TypeOK /\ PipelineInv /\ OneJobInv /\ [Next]_vars => OneJobInv'
  <2> SUFFICES ASSUME TypeOK, PipelineInv, OneJobInv, [Next]_vars PROVE OneJobInv'
    OBVIOUS
  <2>1. ASSUME NEW t \in Tasks,
               Hold(t) \/ ReleaseHold(t) \/ Trigger(t) \/ RemoveByRequest(t)
        PROVE  OneJobInv'
    BY <2>1, CommandsOne
  <2>2. ASSUME NEW t \in Tasks, KillPrepTask(t) PROVE OneJobInv'
    BY <2>2 DEF KillPrepTask, IsCommand, OneAtATime
  <2>3. ASSUME NEW t \in Tasks,
               \/ SatisfiedByParent(t) \/ SatisfiedByXtrigger(t)
               \/ QueueIfReady(t)
        PROVE  OneJobInv'
    BY <2>3, MessagesOne
  <2>4. ASSUME NEW j \in live, JobSucceeded(j[1], j[2]) \/ JobFailed(j[1], j[2])
        PROVE  OneJobInv'
    BY <2>4, LiveJobs, MessagesOne
  <2>5. ASSUME NEW c \in cmds, SubmitReturn(c) \/ SubmitReturn255(c)
        PROVE  OneJobInv'
    BY <2>5, CallbackOne
  <2>6. CASE \/ Pause \/ Resume \/ Reload \/ ReloadApply \/ ReloadFail
             \/ EndCommands \/ EndCallbacks \/ EndQueue \/ EndMessages
             \/ UNCHANGED vars
    BY <2>6, ControlOne
  <2>7. QED
    BY <2>1, <2>2, <2>3, <2>4, <2>5, <2>6, ReleaseOne DEF Next
<1>4. QED
  BY <1>1, <1>2, <1>3, TypeCorrect, PipelineInvHolds, PTL DEF Spec

\* A task of the pool never has two jobs, counting those that a submit command
\* in flight is about to create: whatever the queues release, whatever is
\* triggered, held, removed, paused or reloaded, however submit commands return
\* and in whatever order results and messages come.  It takes that no
\* preparing task is killed and that trigger commands are not repeated before
\* the next release of tasks nor left over by a bad reload.
THEOREM NeverTwoJobs ==
    ASSUME OneAtATime
    PROVE  Spec => []OneLiveJob
<1>1. TypeOK /\ OneJobInv => OneLiveJob
  BY CurrentIsOne
<1>2. QED
  BY <1>1, OneJobInvHolds, PTL

---------------------------------------------------------------------------
(* Queue limits.                                                             *)

ActiveIn(q) == {t \in Tasks : QueueOf[t] = q /\ IsActive(t)}

\* Of the tasks of the pool, a release of tasks makes only those active that
\* are active already or that their queue releases.
LEMMA ReleaseActivates ==
    ASSUME TypeOK, OneJobInv, PipelineInv, ReleaseTasksToRun, NEW q \in Queues
    PROVE  /\ ActiveIn(q)' \subseteq
                ActiveIn(q) \cup Released(deque[q], Limit[q], NActive(q), held)
           /\ \A t \in pool : t \in queued /\ t \notin queued' /\ QueueOf[t] = q =>
                t \in Released(deque[q], Limit[q], NActive(q), held)
<1> DEFINE releasing == reload = "no" /\ play = "running"
           from(r) == IF releasing
                      THEN Released(deque[r], Limit[r], NActive(r), held)
                      ELSE {}
           released == {t \in Tasks : \E r \in Queues : t \in from(r)}
           triggered == IF reload = "no" THEN toTrigger ELSE {}
           prepping == prep \cup released
           S == triggered \cup released \cup (prep \cap pool)
<1>0. /\ deque \in [Queues -> Seq(Tasks)]
      /\ \A t \in pool : OneJob(t)
      /\ pool \subseteq Tasks
  BY DEF OneJobInv, TypeOK
<1>1. PICK out \in [S -> Outcomes] : SubmitTaskJobs(S, prepping, out)
  BY DEF ReleaseTasksToRun
<1>2. /\ queued' = queued \ released
      /\ pool' = pool
  BY DEF ReleaseTasksToRun
<1>3. \A t \in Tasks :
        /\ t \notin S => status'[t] = status[t]
        /\ t \in prep' => t \in prepping
  BY <1>1 DEF SubmitTaskJobs
<1>4. \A t \in triggered : t \in prep
  BY DEF PipelineInv, TriggeredAwaitsPrep
<1>5. ASSUME NEW t \in released, t \in pool
      PROVE  t \in from(QueueOf[t])
  <2>1. PICK r \in Queues : t \in from(r)
    OBVIOUS
  <2>2. t \in Released(deque[r], Limit[r], NActive(r), held)
    BY <2>1
  <2>3. Contains(deque[r], t)
    BY <1>0, <2>2, ReleaseFact
  <2>4. r = QueueOf[t]
    BY <1>0, <1>5, <2>3 DEF OneJob, InOneQueue
  <2>5. QED
    BY <2>1, <2>4
<1>6. ASSUME NEW t \in Tasks, t \in pool, IsActive(t)', ~IsActive(t)
      PROVE  t \in released
  <2>1. t \notin prep /\ status[t] \notin {"preparing", "active"}
    BY <1>6 DEF IsActive
  <2>2. t \in prep' \/ status'[t] \in {"preparing", "active"}
    BY <1>6 DEF IsActive
  <2>3. t \in S \/ t \in prepping
    BY <1>3, <2>1, <2>2
  <2>4. QED
    BY <1>4, <2>1, <2>3
<1>7. \A r : from(r) \subseteq Released(deque[r], Limit[r], NActive(r), held)
  OBVIOUS
<1> HIDE DEF from, released
<1>8. ASSUME NEW t \in ActiveIn(q)', t \notin ActiveIn(q)
      PROVE  t \in Released(deque[q], Limit[q], NActive(q), held)
  <2>1. t \in Tasks /\ QueueOf[t] = q /\ IsActive(t)' /\ ~IsActive(t)
    BY <1>8 DEF ActiveIn
  <2>2. t \in pool
    BY <1>2, <2>1 DEF IsActive
  <2>3. QED
    BY <1>5, <1>6, <1>7, <2>1, <2>2
<1>9. QED
  BY <1>0, <1>2, <1>5, <1>7, <1>8

LEMMA ReleaseKeepsLimit ==
    ASSUME TypeOK, OneJobInv, PipelineInv, ReleaseTasksToRun, NEW q \in Queues,
           Limit[q] # 0, NEW t \in queued \ queued', QueueOf[t] = q, IsActive(t)'
    PROVE  NActive(q)' <= Limit[q]
<1> DEFINE R == Released(deque[q], Limit[q], NActive(q), held)
<1>1. t \in pool
  <2>1. pool' = pool
    BY DEF ReleaseTasksToRun
  <2>2. QED
    BY <2>1 DEF IsActive
<1>2. t \in R /\ ActiveIn(q)' \subseteq ActiveIn(q) \cup R
  BY <1>1, ReleaseActivates
<1>3. IsFiniteSet(ActiveIn(q)) /\ Cardinality(ActiveIn(q)) \in Nat
  <2>1. IsFiniteSet(Tasks) /\ ActiveIn(q) \in SUBSET Tasks
    BY ConstantsAssumption DEF ActiveIn
  <2>2. QED
    BY <2>1, FS_Subset, FS_CardinalityType
<1>4. NActive(q) = Cardinality(ActiveIn(q)) /\ NActive(q)' = Cardinality(ActiveIn(q)')
  BY DEF NActive, ActiveIn
<1>5. deque[q] \in Seq(Tasks) /\ Limit[q] \in Nat
  BY ConstantsAssumption DEF OneJobInv
<1>6. /\ IsFiniteSet(R) /\ Cardinality(R) \in Nat
      /\ NActive(q) + Cardinality(R) <= Limit[q]
  BY <1>2, <1>3, <1>4, <1>5, ReleaseCount
<1> HIDE DEF R
<1>7. /\ IsFiniteSet(ActiveIn(q) \cup R)
      /\ Cardinality(ActiveIn(q) \cup R) <= Cardinality(ActiveIn(q)) + Cardinality(R)
      /\ Cardinality(ActiveIn(q) \cup R) \in Nat
  <2>1. /\ IsFiniteSet(ActiveIn(q) \cup R)
        /\ Cardinality(ActiveIn(q) \cup R) = Cardinality(ActiveIn(q))
             + Cardinality(R) - Cardinality(ActiveIn(q) \cap R)
    BY <1>3, <1>6, FS_Union
  <2>2. Cardinality(ActiveIn(q) \cap R) \in Nat
    BY <1>3, FS_Subset, FS_CardinalityType
  <2>3. QED
    BY <1>3, <1>6, <2>1, <2>2, FS_CardinalityType
<1>8. Cardinality(ActiveIn(q)') \in Nat
      /\ Cardinality(ActiveIn(q)') <= Cardinality(ActiveIn(q) \cup R)
  BY <1>2, <1>7, FS_Subset, FS_CardinalityType
<1>9. QED
  BY <1>3, <1>4, <1>5, <1>6, <1>7, <1>8

\* Releasing tasks from a queue never leaves more of its tasks active than the
\* limit of the queue, whatever made the other tasks active: triggers, 255
\* returns and reloads included.
THEOREM LimitsKept ==
    ASSUME OneAtATime
    PROVE  Spec => QueueLimitKept
<1>1. TypeOK /\ PipelineInv /\ OneJobInv /\ [Next]_vars =>
        [\A q \in Queues :
           /\ phase = "release" /\ Limit[q] # 0
           /\ \E t \in queued \ queued' : QueueOf[t] = q /\ IsActive(t)'
           => NActive(q)' <= Limit[q]]_vars
  <2> SUFFICES ASSUME TypeOK, PipelineInv, OneJobInv, Next,
                      NEW q \in Queues, phase = "release", Limit[q] # 0,
                      NEW t \in queued \ queued', QueueOf[t] = q, IsActive(t)'
               PROVE  NActive(q)' <= Limit[q]
    OBVIOUS
  <2>1. CASE ReleaseTasksToRun
    BY <2>1, ReleaseKeepsLimit
  <2>2. CASE ReloadApply
    <3>1. t \in pool /\ t \notin prep /\ status[t] # "preparing"
          /\ status[t] = "active"
      BY <2>2 DEF ReloadApply, Flushing, IsActive
    <3>2. QED
      BY <3>1 DEF OneJobInv, OneJob, InOneQueue, InProcess
  <2>3. CASE ReloadFail
    BY <2>3 DEF ReloadFail, taskVars
  <2>4. QED
    BY <2>1, <2>2, <2>3
       DEF Next, Hold, ReleaseHold, Trigger, KillPrepTask, RemoveByRequest,
           SatisfiedByParent, SatisfiedByXtrigger, QueueIfReady, Pause, Resume,
           Reload, SubmitReturn, SubmitReturn255, JobSucceeded, JobFailed,
           EndCommands, EndCallbacks, EndQueue, EndMessages, IsCommand
<1>2. QED
  BY <1>1, OneJobInvHolds, PTL DEF Spec, QueueLimitKept
===========================================================================
