# TLA+ models of the Cylc scheduler

Cylc (`cylc/flow`) is a workflow engine for cycling workflows.  One process, the
*scheduler*, runs a single-threaded asyncio main loop over a *task pool*; jobs
run elsewhere and talk to it by messages, and helper processes (job submission,
polling, killing, remote initialisation, event handlers, xtrigger functions) run
in a *process pool* whose callbacks re-enter the loop.  There is no parallelism
inside the scheduler.  What is hard is the order in which commands, callbacks,
messages, reloads and restarts meet the flags of a task, and the number of
sources of truth that have to agree: flags of the proxy, queues, lists kept by
the pool, rows of the run database, commands in flight.

Paths below are relative to `src/cylc/flow/`.

## 1. Inventory

| component | state it keeps | operations | interacts with |
|---|---|---|---|
| Scheduler main loop, shutdown (`scheduler.py`, `timer.py`) | pause, stop, reload, update and stall flags; timers; command and message queues | one iteration: commands, process pool callbacks, xtriggers and queueing, release to run, messages, updates, DB writes, timers, stall and stop checks | everything |
| Commands (`commands.py`) | none; coroutines that may await between two changes | hold, release, set, remove, trigger, kill, pause, resume, reload, stop, poll, broadcast | scheduler, pool |
| Task pool (`task_pool.py`) | `active_tasks`, `tasks_to_hold`, `tasks_to_trigger_now`, hold, stop and runahead points | spawn on output, spawn ahead, release from runahead, queue, remove, hold, expire, reload, load from DB | graph, queues, flows, DB |
| Graph: outputs and prerequisites (`taskdef.py`, `task_trigger.py`, `prerequisite.py`, `task_outputs.py`) | satisfied conditions and completed outputs of each proxy | satisfy, unset, complete, is_complete, next parentless point | pool |
| Internal queues (`task_queues/`) | a deque, members and a limit per queue | make independent, push, push if limited, release, remove, adopt | pool |
| Job manager (`task_job_mgr.py`) | `waiting_on_job_prep`, commands put on the process pool, bad hosts | prepare, submit, poll, kill, and their callbacks | process pool, events |
| Task events manager (`task_events_mgr.py`) | retry timers, event timers | process a message, complete outputs, retry, events | pool, DB |
| Process pool (`subprocpool.py`) | queued and running commands | put, process, time out, close | all callers |
| Xtriggers (`xtrigger_mgr.py`) | satisfied and active signatures | call, callback, housekeep, sequential spawning | pool, process pool |
| Flow manager (`flow_mgr.py`) | flow counter, flow descriptions | new flow, merge, flow-wait | pool, DB |
| Run database (`workflow_db_mgr.py`, `rundb.py`) | tables of states, outputs, prerequisites, jobs, holds, parameters | queued inserts and updates, write in one transaction, restart queries | pool, events |
| Broadcasts (`broadcast_mgr.py`) | settings by point and namespace | put, clear, expire | jobs, DB |
| Remote initialisation, platforms (`task_remote_mgr.py`, `platforms.py`) | status per install target | init, file install, callbacks | job manager |
| Data store (`data_store_mgr.py`) | nodes, edges and walks about the pool, delta batches | window of a spawned task, pruning, resizing, reload | fed by the pool, read by clients |
| Cycling (`cycling/`) | sequences of cycle points | next, previous, first point; validity | task definitions, pool |
| Configuration, graph parser (`config.py`, `graph_parser.py`, `parsec/`) | parsed workflow | parse, validate | pool, at start and reload |
| Start and end of schedulers (`scheduler.py`, `scheduler_cli.py`, `workflow_files.py`, `clean.py`, `main_loop/health_check.py`) | contact file, keys, run directory | play, resume, shut down, clean, health check | other processes only |
| Job on its host (`job_runner_mgr.py`, `etc/job.sh`) | job status file, process | start, end, poll, kill | messages, job manager |
| Network, other plugins, file tools, command line | - | I/O | scheduler |

### What is hard, and what makes each part correct

* **Queues.**  Overlapping, family-valued memberships must become independent
  queues.  A release pops past held tasks up to a limit: no task may be lost,
  duplicated or overtaken.
* **From ready to a job.**  One task may be queued, triggered, held, killed,
  removed, reloaded and sent back by an unreachable host, all while a submit
  command that still names it is in flight.  It must never get two jobs, never
  stay "preparing" with nobody to move it on, never run while held unless
  triggered, and always run in the end if it is ready.
* **Reload.**  A command that runs a main loop of its own (commands, callbacks
  and messages go on) while it flushes the pipeline; it may then fail.
* **Task pool.**  The pool is a small window on the graph that moves by itself:
  every instance must be spawned exactly when due, once, and only run after its
  prerequisites, whatever combination of outputs, suicide triggers, expiry,
  runahead release, `cylc set`, `cylc remove` and history in the database leads
  to it.  The limit is cached and recomputed only on some conditions.
* **Shutdown, stall.**  The scheduler decides from the pool alone that nothing is
  left to do.  Wrong one way it stops early, the other way it never stops.  A stall
  starts a timer that by default aborts the scheduler, so it must be taken back in time.
* **Restart.**  Proxies are rebuilt from tables that record less than they knew.
* **A kill.**  Statements are queued and written at several points of the main
  loop; the pool is written at its end only.
* **Jobs.**  Messages are lost, polls come back late, a retry is lined up while
  news of the failed job is still under way.  No live job may be forgotten or
  doubled, no failure counted twice, and the end of every job must be heard of.
* **Flows.**  A flow meets tasks that wait, run, ended, were removed, or wait
  for the user; what was completed before has to be spawned on, once.
* **Process pool, xtriggers, remote initialisation.**  Callbacks find a world that
  has moved on; every one of them is owed to somebody who waits.
* **Processes.**  Two plays, a clean and a client share files without a lock.
* **Window.**  Walks are filled in from older walks whose nodes may be gone.

`PROJECT.json` lists the hazards one by one with the line where each bites and
the properties that would catch it.

## 2. Modules

| module | what it is | code |
|---|---|---|
| `TaskQueues` | the limited queue as operators on a deque, `release` in closed form | `task_queues/independent.py` |
| `Selections` | what a loop over a list leaves of it, by position | (used by `TaskQueues` and `ProcPool`) |
| `QueueRelease` | `LimitedTaskQueue.release` as the loop it is, compared with the closed form | same |
| `QueueConfig` | `_make_indep`, one step per custom queue | `task_queues/__init__.py`, `independent.py` |
| `SubmitPipeline`, `MCSubmitPipeline` | from ready to a live job | `task_pool.py`, `scheduler.py`, `commands.py`, `task_job_mgr.py`, `task_events_mgr.py` |
| `TaskJob` | a task and its successive jobs | `task_events_mgr.py`, `task_job_mgr.py`, `task_action_timer.py`, `job_runner_mgr.py`, `etc/job.sh` |
| `CylcGraph` | the graph: instances, triggers, children, parentless points, completion | `taskdef.py`, `task_trigger.py`, `prerequisite.py`, `task_outputs.py` |
| `Dataflow` | the abstract specification of a workflow | (a promise; no code of its own) |
| `TaskPool`, `MCTaskPool` | the task pool over that graph | `task_pool.py`, `scheduler.py`, `commands.py`, `task_events_mgr.py`, `workflow_db_mgr.py` |
| `Stall`, `MCStall` | how the main loop judges the workflow: stalled, complete, or going on | `scheduler.py`, `timer.py`, `task_pool.py`, `commands.py` |
| `Flows`, `MCFlows` | several flows in one pool, trigger and remove of groups | `task_pool.py`, `commands.py`, `workflow_db_mgr.py`, `rundb.py` |
| `FlowMgr` | flow numbers | `flow_mgr.py` |
| `CrashRestart`, `MCCrashRestart` | the database of a scheduler that is killed | `workflow_db_mgr.py`, `rundb.py`, `task_pool.py`, `scheduler.py` |
| `ProcPool` | the subprocess pool | `subprocpool.py` |
| `Xtriggers` | xtriggers over a process pool (EXTENDS `ProcPool`) | `xtrigger_mgr.py`, `task_pool.py`, `scheduler.py` |
| `RemoteInit` | remote initialisation, file installation, bad hosts | `task_remote_mgr.py`, `platforms.py`, `task_job_mgr.py` |
| `Broadcasts` | broadcasts and the two databases | `broadcast_mgr.py`, `workflow_db_mgr.py`, `rundb.py` |
| `Lifecycle` | plays, cleans, clients, contact file, keys | `scheduler.py`, `scheduler_cli.py`, `workflow_files.py`, `clean.py`, `network/` |
| `DataStore` | the window of the data store | `data_store_mgr.py` |
| `IntegerCycling` | integer recurrences and the walk over them | `cycling/integer.py`, `taskdef.py` |
| `MCParts`, `MCJobs`, `MCServices`, and `MCStall` with `TaskPool` | components that share no state, put together for TLC | |
| `PartsProofs` | theorems of `QueueConfig`, `FlowMgr`, `Broadcasts`, `QueueRelease`, `Stall` and `IntegerCycling` | |
| `JobsProofs` | theorems of `TaskJob` and `CrashRestart` | |
| `TaskQueuesProofs`, `SubmitPipelineProofs` | what the operators of `TaskQueues` and `Selections` keep; theorems of `SubmitPipeline` | |
| `TaskPoolProofs`, `DataflowProofs`, `RunaheadProofs` | theorems of `TaskPool`, each module on top of the one before | |
| `ServicesProofs` | theorems of `Lifecycle`, `Xtriggers` and `RemoteInit` | |

A composite module runs components that share no state, **one of them in each
behaviour**: the others sit in a fixed state, so that nothing is gained or lost
by their being together, and their state spaces add up instead of multiplying.

Definitions named "Mutant of X" are wrong variants of X, each the way a plausible
slip in the code would make it.  Nothing uses them; `PROJECT.json` pairs each
with the property that notices it.  Some properties have two forms: the name
of what a docstring promises (`PriInSync`, `NotStranded`, `WindowIsNear`,
`FreshFiles`, `OneScheduler`, `StartsAlone`, `InGroupOrder`, `EveryCycleSpawned`,
`JobEndKnown`), which the code breaks in cases section 6 describes, and the same
name with `But`, which excludes exactly those cases, by a history variable, and is
checked for all the others.

### TaskQueues, QueueRelease, QueueConfig

A deque is a sequence; `appendleft` puts a task in front, `pop` takes the last.
`IsPopped` says in closed form which positions the loop of `release` pops, and
`AfterRelease` that the held tasks it popped return at the *left*, behind the
tasks that stayed.  Both are sequences of the elements at some positions (`Select`).
`SubmitPipeline` uses the closed form; `QueueRelease` justifies
it by running the loop from every queue, limit, count and set of held tasks.
`QueueConfig` starts from any configured membership lists, whose families
`ExpandFamilies` replaces by their tasks, and processes the custom queues in
their order, as `_make_indep` does.

### SubmitPipeline

The variables are the flags of the proxies as sets (`held`, `queued`, `manual`,
`prep`, `ready`), `status`, `tries` and `submitNum`, the deques, the list
`toTrigger` (`tasks_to_trigger_now`), the submit commands in flight with the
tasks their callback is told of and the jobs they create, and the jobs alive.

The main loop is the variable `phase`; an iteration goes through

    commands -> callbacks -> queue -> release -> messages -> commands

as `_main_loop` does, and the actions of each phase may happen any number of
times in it.  `Reload` jumps from commands into the loop inside
`reload_workflow` (release, callbacks, messages, commands) until the pipeline is
empty, when `ReloadApply` or `ReloadFail` ends it.  `ReleaseTasksToRun` is one
action for `release_tasks_to_run`, `release_queued_tasks`, `start_job_submission`
and `submit_task_jobs` together, since no await separates them: which tasks are
released, what became of the preparation of each (still waiting, failed,
complete), new submit numbers, and one submit command per platform.  The
callbacks find the tasks by the submit numbers they have when the command
*returns*, which is where most of the interleavings bite.

Submitted and running are one status, `active`; submission and execution share a
retry timer.  Xtriggers are satisfied at any time.

### TaskJob

One proxy (`itask`: status, submit number, flags, retry counts, outputs, poll
timer), its jobs by submit number with the status file each writes, the messages
each has sent (`net`, in order, some may be lost), and the commands in the process
pool.  `ProcessMessage` follows `process_message`: check by submit number, status
and retry timers, then the branch of each message, the retry or the final
output, the poll timers.  A poll reads the status file when it runs and is heard
of when its callback runs, with anything in between.  `LiveJobIsActive`: while a
job lives, its task is active or about to hear of it; `OneTryPerJob`: no job takes
two retries; `JobEndKnownBut`: the end of every job is heard of in the end.
A submit command returns before a retry delay is over (`SlowSubmit = FALSE`); the
job id is recorded with the acceptance of the job; vacated jobs, custom outputs and
deleted job directories are left out.

### CylcGraph, Dataflow, TaskPool

A graph is given by constants: the cycle points of each name, its prerequisites
as sets of alternative triggers, its suicide triggers, and the sets of outputs
that complete it.  `TaskPool` keeps one record `tp`, and each method of the pool
is an operator from records to records, so that they compose the way the methods
call each other: `ProcessMessage` is `CompleteOutput` followed by `SpawnOnOutput`,
which spawns the children, satisfies them, removes those whose suicide triggers
hold and then the parent if it is complete; `Remove` first spawns the next
instance of a runahead-limited task.  A proxy and its row in the database share
one status, but not the outputs: `outputs` is what proxies know, `recorded` what
table `task_outputs` has, and the two really differ after `cylc set` and restart.

The actions are the top of the main loop (`MainLoop`: recompute the runahead
limit, release, check for automatic shutdown), queueing, release to run, a job's
message, expiry, the commands hold and release by name and by hold point, stop
point, set prerequisites, set outputs, remove, `stop --now`, and restart.
`submit-failed` and the states between preparing and running belong to
`SubmitPipeline` and `TaskJob`; here such a task is `active`.

`Dataflow` is what a user is promised: an instance begins at most once, after
outputs that satisfy its prerequisites, and completes outputs only once begun.
`TaskPool!Implements` maps `begun` to the instances that are active or ended and
`done` to the recorded outputs.

### Stall

The variables are the flags of the scheduler (`is_updated`, `is_stalled`, `is_reloaded`,
`is_paused`, `is_restart_timeout_wait`), the timers that run, the update flags of the
tasks, and of the pool what the judgement reads: status, runahead-limited, queued,
prerequisites.  `turn` is the main loop, step by step,

    release -> shutdown -> commands 1 -> callbacks -> queue -> messages
            -> commands 2 -> flags -> timers -> check -> release

with a loop of its own for a reload in either drain of the command queue.  A stall may
be found at `shutdown` and at `check`; `HandleUpdates` is the block of `_main_loop` that
ends stalls and waits and clears the flags.  A task that leaves the pool takes its
update flag along, and a child that is added to it has none: the flags are modelled
task by task for that reason.  `StallTimerMeansStalledBut`: the stall timer runs out only on a
stalled workflow; `ComesToAnEndBut`: a workflow ends.  A task not beyond the stop point
is within the runahead limit, queues have no limit, a failed job leaves its task
incomplete, `abort on stall timeout` is a constant of a behaviour and `abort on restart
timeout` is not set.  `overtaken` remembers that a reload kept the stall of a pool that
is not stalled.

### Flows, FlowMgr

`TaskPool` has one flow; `Flows` is the same pool seen from what flows change:
`pool` (flow numbers, status, outputs, satisfied keys, flow-wait, held) and `rows`
(`task_states` and `task_outputs`, by task and flow numbers).  Spawning consults
the history of the task in these flows (`History`, `SpawnTask`), a flow that
arrives merges (`MergeFlows`), completes what it finds complete (`SpawnOnAllOutputs`),
and a triggered group is removed, respawned and satisfied from outside and from
the active start tasks (`TriggerGroup`, after `_force_trigger_tasks`).  One
cycle point, AND-prerequisites, no queue limits, xtriggers or retries.  Each connected
group of a command is a command of its own.  Creation times of rows
are left out: "the latest flows" are those of any row.

`NotStrandedBut`: no task of the pool waits for an output that its flow has
already completed; `RunsOnceAFlow`: a task that succeeded in all its flows does not run again;
`TriggeredHasRun`: when nothing is left to start or report, every task that was to
run from scratch has run, which, job steps being finite, is the liveness
statement; `InGroupOrderBut`: a triggered group runs in its order.  `FlowMgr` is
the counter, the numbers chosen by users and what a restart loads of them.

### CrashRestart

`mem` is the scheduler's memory, `queued` the tables as the statements queued will
leave them, `db` the tables as written.  The main loop goes step by step (callbacks
and messages, release, launch, end); `WriteNow` occurs in the middle of it where
a task is removed and in the trigger command, `PutTaskPool` at its end only; `Kill` may
happen between any two steps and `RestartScheduler` rebuilds `mem` from `db`.  `torn`
remembers a kill between a write without the pool and the next one with it.

### ProcPool, Xtriggers, RemoteInit

`ProcPool` is the queue of commands, the running ones, time limits, launch
failures, stopping, closing and terminating.  `Xtriggers` puts it under the
xtrigger manager, one sequence of tasks and the submission of their jobs, all
through a pool of one place: calls shared by signature, intervals, results,
housekeeping, forcing with `cylc set`, sequential spawning, every mode of `cylc
stop`, restart.  One turn of the main loop is one step.  What a child prints is its
result only; a timed-out function may have printed its result before.  A restart
follows a shutdown; `stop --now --now`, which may forget a submission it launched,
is not among the stops after which `NoJobForgotten` is claimed.  What `process` keeps, takes
and starts is written by positions (`Lasting`, `Taken`, `Select`), the loop in closed form.

`RemoteInit` is the way of a preparing task through platform choice, host choice,
initialisation and file installation, for platforms that share hosts and install
targets and are chosen from groups; each command ends well, in error, or with 255,
which makes its host a bad host.  Reload clears the map of initialisations
(`overtaken` remembers commands in flight then); a kill and restart may come
before a submit command was launched.  An exception that ends the scheduler is
the phase "dead".

### Broadcasts

The thread of the server sets and clears, the main loop expires and writes.
Either changes the settings under a lock and queues statements without it;
`writing` splits `process_queued_ops` where it takes the deletes, then the inserts.  Of the
inserts queued for a setting the last one counts, so the queue is a value for each setting.
`raced` remembers that both were between the two at once; `PriInSyncBut` holds for
all other behaviours, through failed writes of the public database and its
replacement.

### Lifecycle

Each play, clean and client is a process at a step of its own; they share the
contact file, the key files and the run directory.  A play detects an old contact
file, resumes the scheduler of it or makes keys, starts a server, checks again and
writes its own contact file, runs with the health check of the main loop, and
shuts down in several steps; any process may be killed at any step.  Play 0 stands
for what an earlier scheduler left behind; an automatic restart is one more play;
the four key files are one value.  Timeouts of the check of an old contact file
leave it undecided, as in `detect_old_contact_file`.

### DataStore

`ds` is the manager: nodes and edges added and pruned in the current batch and
before, the walk of every active task (locations by depth, boundary nodes),
prune triggers and flagged nodes.  `Spawn` and `Leave` are what the pool calls;
`UpdateDataStructure` is the end of a main loop iteration: resize, prune, apply the
deltas, find the depths.  `WindowIsNearBut`: once the deltas are applied, the
window is exactly the nodes within the extent of an active task, each at its
distance, with the edges that touch the pool, and no edge to a node that is not
shown.  What is
shown of a task, families, jobs and the deltas sent to clients are left out.

### IntegerCycling

A recurrence is what the regular expressions match: format, repetitions, start or
end, interval, exclusions.  `SequenceOf` follows `IntegerSequence.__init__`,
clipping included; the queries are recursive functions as the methods are
recursive.  `SequenceAsWrittenBut` compares them with `Written`, the set the
comments at the head of the file describe; `EveryCycleSpawnedBut` walks a task
with two recurrences through `next_point_parentless`.

## 3. Model checking

Runs that pass (distinct states in brackets):

| run | instance | shows |
|---|---|---|
| `parts` (0.9 million) | queues of up to 3 tasks, limits and counts 0..3, any held tasks; 3 tasks, 2 nested families, 2 custom queues, any lists; 3 broadcast requests, 1 failed write; 5 flow numbers, 2 restarts; `a => b => c`, `a:x => c` in 2 flows, 2 commands on one task or all, all flow options; a chain of 4 with windows of 1 and 2 edges, 1 command; recurrences on points 2..7 | `ClosedForm`, `LastAssignmentWins`, `PriInSyncBut`, `NewIsNew`, `NotStrandedBut`, `TriggeredHasRun`, `InGroupOrderBut`, `RunsOnceAFlow`, `WindowIsNearBut`, `SequenceAsWrittenBut`, `EveryCycleSpawnedBut` |
| `pipeline` | 2 tasks, 1 queue of limit 1, 1 platform, 1 retry, 3 commands, one in each drain of the command queue; submission succeeds, fails or finds its host unreachable | `OneLiveJob`, `PreparingIsPushed`, `QueueLimitKept` |
| `pipeline_live` | same tasks on 2 platforms, commands hold, release, kill and a reload that fails | `ReadyRuns`: a ready task that is not held runs |
| `pool` (3,700) | `a? => !r`, `a:fail? => r`, `a \| r => c`, `c[-P1] => c`, 4 cycles, stop point 3, runahead P1, `c` may expire | the pool implements `Dataflow`, `WithinRunaheadLimit`, `Settles`: the workflow completes or stalls for good |
| `pool_restart` (427,000) | `a? => b`, `b[-P1] => b`, custom output, 3 cycles, stop point 2, 3 commands of hold and stop, restarts; `a => c` with `b`, and `a & b => c` with `b` beyond the stop point, 2 commands or restarts | `OutputsAgree` (outputs of proxies and database), `NothingMissed`; `StallTimerMeansStalledBut`, `ComesToAnEndBut` |
| `pool_commands` (147,000) | `a \| b => c`, 2 cycles, 3 commands of remove, set, stop point, hold, stop, restarts | `SatisfiedByOutputs`, `HeldMatchesList`, `RunsOnce`, `LimitedByStop` |
| `jobs` (167,000) | one task, 2 jobs, 1 execution and 1 submission retry, 1 trouble (lost message, failed command, poll, kill, restart); 3 tasks, 2 kills, 1 trigger | `LiveJobIsActive`, `OneTryPerJob`, `JobEndKnownBut`; `StartsAfterParents`, `NoRerun`, `EveryTaskRunsBut` |
| `services` (220,000) | one xtrigger shared and one clock, 2 points, a pool of one place, 2 troubles; 2 platforms that share a host, 2 tasks; 2 plays, 1 clean, 1 kill | `OneCallAtATime`, `ResultsKept`, `NoJobForgotten`, `EveryoneRuns`; `FreshFilesBut`, `PreparingEnds`; `OneSchedulerBut`, `StartsAloneBut` |

Runs that end in a counterexample, section 6: `double_trigger` (`OneLiveJob`),
`restart_stops_polling` (`JobEndKnown`), `group_order` (`InGroupOrder`),
`late_sequence` (`EveryCycleSpawned`).

**Bounds.**  `MaxCommands`, `MaxTroubles`, `MaxUsed`, `MaxRequests`, `MaxFlowCommands`,
`MaxWindowCommands`, `MaxInterventions` and `BatchSize` bound the operator and what goes wrong, `Retries`,
`ExecRetries`, `SubmitRetries` and `MaxSubmits` the jobs, `MaxLen` and `MaxLimit` the
queues, `FinalPoint` and `LastPoint` the cycles, `MaxFlow` and `MaxFlowNum` the flows,
`MaxKills`, `MaxProcKills` and `MaxRestarts` the deaths.  Two tasks and a limit of one
make a queue full while another task waits in it.  Three commands suffice for hold,
trigger, release of one task, or for a trigger and two commands during a reload;
every command history that broke a property while the models were written needed
at most three.  Two interventions are an update and a reload in one turn, or a
command and the restart after it.  Four cycles with a runahead limit of one let the window move twice
and reach the final point.  One trouble is one lost message or one restart at any
moment of the life of two jobs; two kills put a kill into the recovery from a kill.
Two flows and two group commands are what it takes to merge a flow into a task that
a command has changed.  A chain of four with a window of two has nodes at
every distance and one outside.  Points 2 to 7 with intervals of up to 3 put every
form of recurrence across either bound.

Larger instances passed when the models were written, each beyond what the runs
repeat: `pool` with stop point 4 (14,000 states, 3 minutes); `pool_commands` with 4 commands of remove, set and
stop point; `TaskJob` with more troubles,
safety only (585,000); `Xtriggers` with 3 points, runahead 1 (166,000) and with two asynchronous
labels (89,000); `RemoteInit` with 3 uses (235,000) and with two tasks on one target
(49,000); `Lifecycle` with a client (203,000); `Flows` with every group of tasks and two removable
tasks (988,000); `DataStore` with two commands (387,000) and on a graph that joins (257,000).
`QueueMatchesFlag`, `NothingMissed` in that of `pool`, `SecondSchedulerGoes` (of two schedulers
after a race one goes) and the type invariants hold in the instances of the runs too.

No symmetry is used.  `SubmitPipeline` checks for deadlock.  The others do not,
since what they describe may really stop: a workflow completes or stalls until the
operator acts, jobs come to their end, a scheduler shuts down, a task has
visited its last cycle.

**Fairness.**  `SubmitPipeline`: the main loop goes on (weak fairness of a turn of
the loop); preparation, submit commands and jobs end (strong fairness, since
each is enabled in one phase only).  Remote initialisation, file installation
and submit commands run under the timeout of the process pool, which fails
them; an unreachable host becomes a bad host and is not chosen again; a job has an
execution time limit after which it is polled.  `TaskPool`: each part of the main
loop gets its turn, and no job stays active for ever while the scheduler runs.
`Stall`: the main loop goes on, no job stays alive and no timer goes on for ever (it is stopped,
or runs out) while the scheduler runs.
`TaskJob`: commands run and return (the pool has a timeout), a poll timer that is set
goes off, a message that arrived is received; that a message arrives, or
that a job ends, is not assumed.  `CrashRestart`: the loop goes on, jobs and news of them
advance; kills are finite.  `Xtriggers`: a turn of the main loop, the shutdown, the end of
each child process (its time limit ends it), the passing of an interval, the end of
each job, and each external condition comes true in the end.  `RemoteInit`: the
main loop turns, and some callback comes.  `Lifecycle`: a process that lives takes its
next step.  Nothing is assumed of commands, requests, kills or expiry.  The
other modules state no fairness and have no liveness property.

**Scope of some properties.**  They are stated where the code keeps them:
`OneLiveJob` with one command in each drain of the command queue (see
`double_trigger`), no kill of a preparing task, and no trigger together with a reload that
fails; `PreparingIsPushed` without triggers together with a reload that fails;
`WithinRunaheadLimit` without `cylc set`, which may put a task into the pool that is earlier
than all others; `OutputsAgree` and `SatisfiedByOutputs` without `cylc set` of prerequisites,
whose empty row takes recorded outputs away; `RunsOnce` where `cylc set` sets final
outputs only; `JobEndKnownBut` unless a restart found the task submitted;
`EveryTaskRunsBut` and `NoRerun` unless a kill fell between a removal's write and
the pool's (`torn`); `PriInSyncBut` unless the two threads met (`raced`);
`FreshFilesBut` unless a reload overtook a command on the target (`overtaken`);
`OneSchedulerBut` and `StartsAloneBut` up to the races of section 6; `NotStrandedBut`
except for tasks of commands that do not run them from scratch (`odd`);
`StallTimerMeansStalledBut` unless a reload kept a stall that another update had
ended (`overtaken` in `Stall`), and `ComesToAnEndBut` unless that or a task that waits for tasks beyond the
stop point only (`WaitsBeyond`);
`InGroupOrderBut` except for outputs of start tasks that had a job (`early`);
`WindowIsNearBut` unless a task was spawned away from the pool in a window of two edges
(`strayed`); the cycling ones except for the recurrences of `Misplaced` and `BeginsLate`.

## 4. Proofs

For every value of the constants that satisfies the named assumptions.

* `PartsProofs`: **TypeCorrect**, **QueuesAreIndependent** (`OneQueueEach`),
  **LastAssignment** (`LastAssignmentWins`), from `QueueConfigAssumption` (tasks and
  families differ, descendants are tasks or families).  Both safety properties
  speak of the end of the loop only.  The inductive invariant says what is true
  in the middle: a queue still to come has its expanded list, a task is in
  the custom queue where it was last seen and in no other processed one, and in
  the default queue exactly if it was not seen.
  **NumbersAreNew** (`NewIsNew`) from `FlowAssumption`, for any number of flows and restarts: a
  recorded number beyond the counter, which only a user can have chosen, is known to the flow
  manager, so the counter skips it, and a restart counts on from the greatest recorded one.
  **TablesInSync** (`PriInSyncBut`) from `BroadcastAssumption`.  The property speaks of
  moments when nothing is under way; the invariant says at all times what the table will be once all
  that is taken, queued and still to be queued is executed (`Promised`): the settings, as long as
  the threads did not meet.
  **LoopIsClosedForm** (`ClosedForm`): the loop of `LimitedTaskQueue.release` and the closed form
  that the other modules use in its place agree for any deque without duplicates, limit and held tasks.  The
  loop invariant `Popping` says what the positions popped so far have become, counted and sorted into two
  lists; `PuttingBack` says that the held ones, put back in reverse, give the closed form.
  **StallTypeCorrect** and **StallTimerIsRight** (`StallTimerMeansStalledBut`) from
  `StallAssumption`, for any graph, stop point, commands, reloads and restarts.  The invariant
  (`Unchanged`): as long as the stall timer runs no task has a job and the pool is stalled, or an update
  is flagged that will end the stall, or a reload kept it.  The point is that each step by which a
  pool ceases to be stalled flags a task or the workflow, and that the one flag that is lost, that of a task
  which leaves the pool, is lost with a job that was not there.
  **SequencesAreAsWritten** (`SequenceAsWrittenBut`) and **NoCycleMissed**
  (`EveryCycleSpawnedBut`) from `CyclingAssumption`, for any initial and final point, starts, ends,
  intervals, repetitions and exclusions.  Each recursive query equals a function that is given
  outright, the soonest or the latest of the points on one side: that function solves the
  recursive equation, and two solutions agree, since from a point where they differ the equation leads to
  another one nearer the end of the sequence (`OneSolution`).  Each form of recurrence is a stretch
  of a grid, counted from either end, and clipping leaves it right unless it is one of `Misplaced`
  (`PointsAsWritten`).  For the walk, `WalkInv`: unless a recurrence begins late, what was
  visited is what lies behind the present point.
* `TaskQueuesProofs` has no theorem of a component, but what the proofs about deques need:
  the elements of `Select(d, S)` are those of `d` at the positions in `S`, each once if `d`
  has each once (`SelectFact`); `Push`, `Remove` and `AfterRelease` keep the elements they should
  (`PushFact`, `RemoveFact`, `ReleaseFact`), and a release hands out no more tasks than the
  limit leaves room for (`ReleaseCount`).  `SelectAt`, `ConcatAt` and `RestAt` say where
  something is in a selection, a concatenation and a rest, and when it is there once.
* `SubmitPipelineProofs`: **TypeCorrect** from `ConstantsAssumption`.
  **PreparingNotStranded** (`PreparingIsPushed`) under `GoodReloads`: not both triggers and
  a reload that fails, with which it is false (section 6).  The property is not
  inductive by itself: a triggered task that no longer waits on job prep would be passed to
  submission, become preparing and be left out of the command.  `TriggeredAwaitsPrep`
  excludes this: while no reload is pending, a task to be triggered now is in the pool,
  waits on job prep and is not preparing.
  **NeverTwoJobs** (`OneLiveJob`) under `OneAtATime`: no kill, and triggers only
  one command a batch and without a reload that fails; TLC has a counterexample without
  each of these.  Its invariant `OneJobInv` follows a task through the pipeline: it is in one
  queue at most and only while queued, a task in process is not queued, what a
  task prepares is a submit number no job has yet, it is in one submit command, and a job
  alive or to be created has the present submit number of an active or preparing task.
  **LimitsKept** (`QueueLimitKept`) follows from that invariant and `ReleaseCount`: the tasks
  that count as active are those of the queue before, and those released.
* `TaskPoolProofs`: **TypeCorrect**, **HeldAgrees** (`HeldMatchesList`) and
  **ReleasedWithinStop** (`LimitedByStop`) from `GraphAssumption` and
  `PoolAssumption`.  The invariant `Inv` adds to the types that the runahead limit is
  never beyond the stop point, which `LimitedByStop` needs in every step that
  releases, and that a satisfied key is never of a later cycle than the task it
  satisfies: without this a removed task might be what the removal of its own
  child spawns.  Between calls, a transient proxy of `cylc set` is
  runahead-limited though not in the pool; `Sound` is the part of the invariant that
  holds there too and `Loose` the flags outside the pool, which every action
  leaves empty.  Each method is shown to keep `Sound` and to relate its argument to
  its result (`Keeps`); each action is then a composition (`Advances`).

* `DataflowProofs` goes on from there.  `Follows` relates a pool to what a method that
  spawns, satisfies or removes makes of it, `Quiet` to what an action makes of it in which no
  task begins and no output is completed.  The invariant says that recorded outputs are of tasks
  that have begun (`Began`), that a proxy has the outputs the database has (`Agree`),
  that a satisfied key is such an output (`Backed`), and that a queued task has its
  prerequisites satisfied (`QueueReady`).  Each needs less of the commands than the next:
  **NoSecondRun** (`RunsOnce`), that `cylc set` sets final outputs only (`SetsFinal`);
  **PoolMatchesDatabase** (`OutputsAgree`), that prerequisites are not set and, if the scheduler
  is restarted, that outputs are recorded under their messages, none expires and `SetsFinal`
  (`KeepsOutputs`);
  **SatisfiedWasCompleted** (`SatisfiedByOutputs`), the same also if tasks are removed
  (`KeepsSatisfied`); **ImplementsDataflow** (`Implements`), the refinement, that there is no `cylc
  set` and no removal (`KeepsHistory`): these are the operator's way around the dataflow.
* `RunaheadProofs`: **RunsWithinLimit** (`WithinRunaheadLimit`) without `cylc set`
  (`NothingSet`).  The limit is recomputed only at times, while the base point moves with
  every removal.  The invariant `InWindow` speaks of every task that runs or may without
  another release: it is within the window of the present base point, and so is the limit.
  Methods make the pool later and what may run smaller (`Onward`, `Narrow`), and the window
  grows with its base (`WindowMoves`).
  **ShutDownLeavesNothing** (`NothingMissed`) with commands of hold and stop, for graphs
  without suicide triggers whose parentless tasks do not expire and whose instances that pre-initial
  outputs satisfy are parentless (`LeavesNothing`; section 6 has what happens to the others).
  The invariant `Left` says that nothing is lost: an instance with a row is in the pool or
  complete, the next parentless instance is there or will be when the present one is released,
  children of recorded outputs are there, and the first instances are (`Whole`, `Rooted`).
  At a shutdown all that is in the pool is beyond the stop point.  A parentless instance
  missing before it would have a least one in its chain, whose predecessor has a row and was
  released; any other missing instance is a child of recorded outputs.
* `ServicesProofs`: **ContactFileKeepsOne** (`OneSchedulerBut`) for any number of plays,
  cleans and clients and any kills.  `SchedulerInv` says who may be where: a play that wrote the
  contact file is past starting; without a race the contact file is that of whichever of
  these is alive, one other play at most is starting or stopping, it got past the check only
  if no scheduler is up, and a server has the keys on disk.
  **NothingLeftInTheWay** (`TakesOver`), also after races: a play that begins when no other process
  is about is not turned away by what others left, and when it runs the contact file and the keys
  are its own; that it does come to run is liveness, `StartsAloneBut`,
  which a run checks and of which this is the safety part.  `ContactIsPast` says that the contact
  file is of a play past starting, so never of one that is looking at it; `AloneInv` that nobody
  else is up, the directory is there, the contact file is as it was read, and the keys are those of
  the server.
  **ResultsNotLost** (`ResultsKept`), without a hypothesis.  `OwedIsKept`: what is owed is owed
  to an instance in the pool, is a row of the database, and is among the results while the scheduler
  is up.  The property alone is lost at a shutdown and again at a restart.
  **NoSecondCall** (`OneCallAtATime`) and **NoJobForgottenAtStop** (`NoJobForgotten`), without a
  hypothesis on what happens.  A command that is in the pool at all is there at one position, of the
  queue or of the running ones; `ProcessAt` says where `process` moves it and
  `CalledFact` when it calls it back, so that what is active stays in the pool until it is called
  back (`CallMoves`).  `CallsInv` adds that what was launched runs, for a task that is preparing.
  **FilesAreFresh** (`FreshFilesBut`) from `RemoteAssumption`.  `FilesInv` counts
  the configurations: on a target that no reload overtook, installations in flight are of the configuration
  in use or the coming one, a target marked as done has it, and a submission is of no later one
  than is in use.
* `JobsProofs`, of `TaskJob` if a submit command returns before the delay of a retry is
  over (`~SlowSubmit`; otherwise `LiveJobIsActive` is false, section 6): **TypeCorrect**,
  **NoJobForgottenOrDoubled** (`LiveJobIsActive`) and **TriesAreNotDoubled** (`OneTryPerJob`), for any
  numbers of retries, submissions, commands in flight and troubles.  The invariant `JobInv` says what can
  be believed: a status file and a last message tell of an end only after it, a poll or kill that
  returned is still true of its job, one submission is under way at most, of a job that does not
  exist, and a task waits only for a retry that is lined up.  So `process_message` hears
  of an end only if there was one (`MessageKeeps`), and a try is used for each ended job at most.
  Of `CrashRestart`, for any graph and any kills: **ParentsFirst** (`StartsAfterParents`) and
  **NoRerunAfterKill** (`NoRerun`).  `CrashInv` has two parts: what is satisfied without a trigger has
  run, in memory, in the queued and in the written tables alike (`Supported`); and while no kill fell between a
  removal's write and that of the pool, no task of the pool, in memory or in its table, is written
  as succeeded (`Remembered`).

Only model-checked: liveness; `Flows` and `DataStore` (recursive operators).
Liveness and ENABLED, and the library's induction theorems, are out of the prover's reach: where a
definition is recursive, a least counterexample stands in for induction.

## 5. Not modelled

The models cover about a ninth of the implementation's lines.  Most of the rest has no
state of its own to get wrong: the configuration schemas (`cfgspec/`), the parser and
its upgraders (`parsec/`, `config.py`, `graph_parser.py`), the GraphQL schema
(`network/schema.py`), the command line (`scripts/`, with the linter and the
reports), the terminal interface (`tui/`), wrappers of batch systems (`job_runner_handlers/`), profiling
and log formatting are declarative or plain input and output.

* *Configuration and graph parsing* run before the scheduler starts and at a
  reload; their results are the constants of these models.
* *ISO 8601 cycling* is calendar arithmetic of a library; cycle points are integers.
* *Absolute and future triggers, warm start, Cylc 7 compatibility* in `CylcGraph`
  and `TaskPool`; *ghost proxies* of `_set_prereqs_tdef` in `Flows` only leave rows.
* *`adopt_tasks`*, which gives the default queue the tasks that a reload added or orphaned.
* *Event handlers, mail, log retrieval; inactivity and workflow timers*, which start with
  the scheduler or an event and only run handlers or abort.
* *The rest of the data store*: families, jobs, totals, broadcast of deltas; a view
  that scheduling does not read.
* *Network queries and subscriptions, authentication beyond the keys' owner*.
* *Validation of broadcasts, commands and xtrigger functions; broadcasts of xtrigger
  results; external triggers*.
* *Subshell platforms, remote tidy, choice of the host of the scheduler*.
* *Installation, and selective or remote cleaning*.

## 6. Where the code departs from what it says

Four runs end in a counterexample; `PROJECT.json` quotes the lines concerned.

* `double_trigger` - `queue_or_trigger` (`task_pool.py:2344`) asks whether the task
  is queued, not whether it is already to run now.  Triggered twice in one batch,
  its queue having filled up in between, a task is both, and gets two jobs.
* `restart_stops_polling` - the poll timer of a submitted task is restored from the
  database in another shape than it is compared with (`workflow_db_mgr.py:547`,
  `task_events_mgr.py:546`), so the task is polled once at the restart and not again.
* `group_order` - a group is triggered while its first member has a job: which
  prerequisites its outputs satisfy is worked out by task, not by output
  (`commands.py:870`), so a submitted member starts those that wait for its success.
* `late_sequence` - `get_next_point` (`cycling/integer.py:494`) takes a point more than
  one step before the start of a sequence to be out of its bounds, so a task with
  `R1` and a recurrence that begins later never gets to the latter.

The rest was found with the same models under other constants, with more
commands, or as the property without `But`, and decided the scope of the
properties above.

*Pipeline and pool*

* `release_tasks_to_run` (`scheduler.py:1351`) during a reload submits a triggered
  task but leaves it in `tasks_to_trigger_now`.  If the reload fails, the task is
  submitted a second time and stays preparing for ever (`PreparingIsPushed` with
  `badreload`).
* Expiry clears `is_runahead` before `remove` (`task_pool.py:880`) looks at it, so the next instance
  of a runahead-limited parentless task is never spawned and the scheduler shuts down with
  cycles to run (`NothingMissed` where a parentless task may expire).
* An instance that pre-initial parents satisfy but that has other parents too, c at the first point of
  `a[-P1] | b => c`, is not parentless (`taskdef.py:456`) and waits for b to be completed, though
  its prerequisites are satisfied from the start (`NothingMissed`).
* `cylc set` on a finished task outside the pool writes the default status over its
  history (`task_pool.py:2135`, `2263`); the next parent to complete runs it again
  (`RunsOnce` where there are outputs other than `succeeded`).
* A preparing task is killed, its submit command then returns 255: the callback
  (`task_job_mgr.py:1100`) sends the held, submit-failed task back to submission.
* A reload empties the queues while `is_manual_submit` stays set
  (`task_pool.py:1191`): a task that was triggered into a full queue is not
  queued again by `queue_if_ready` (`ReadyRuns` with trigger and reload).
* A reload that fails tells the operator to un-pause the workflow in order to go
  on with the old configuration (`commands.py:588`), but resumes it by itself if
  it was running before (`commands.py:643`).
* The stop point is lowered below the oldest cycle in the pool and raised again:
  `compute_runahead` (`task_pool.py:460`) recomputes the limit only when the base
  point moves, so the limit stays below every task and the scheduler shuts down
  with cycles to run (`NothingMissed` with two stop point commands).
* The stop point is lowered below a queued task: it goes back to
  runahead-limited but stays queued and runs (`task_pool.py:1218`).
* The stop point is lowered when the limit has already come down:
  tasks released before keep their release (`task_pool.py:1208`; the comment at
  `scheduler.py:2031` takes every waiting task beyond the stop point to be
  runahead-limited).
* Restart takes recorded output *names* for messages (`task_pool.py:657`): a custom
  output whose message differs is not known to the proxy (`OutputsAgree` with
  `Renamed = {"x"}`).
* Restart does not read suicide prerequisites back (`task_pool.py:678`).
* `cylc set --pre` on a finished task that must be spawned again inserts an empty
  row of outputs over the recorded ones (`task_pool.py:2301`).
* `cylc remove` of an active task takes it off the hold list and then kills it,
  which holds it again by name (`commands.py:258`, `scheduler.py:1077`); the
  comment at `task_pool.py:873` says why it must not stay on the list.

*Stalls* (`Stall`)

* "A reload cannot un-stall workflow by itself" (`scheduler.py:1722`): it keeps a stall also
  when something else ends it in the same turn, a trigger, `cylc set`, or the new configuration that
  lacks the task which waited.  The stall timer goes on and by default aborts the
  scheduler while a job is alive, unless another update comes first; a workflow that then
  completes does not shut down by itself, since `check_auto_shutdown` returns on the flag
  and a task that leaves the pool takes its update flag along.
* A child that a message spawns late in a turn is runahead-limited until the next one and sets
  no update flag.  With another task failed, `check_workflow_stalled` reports a stall and runs its event
  handlers while the child is about to run (`task_pool.py:1341` does not see it); the next
  turn takes it back, before the timer can run out.
* A task within the stop point that waits for tasks beyond it only counts neither as a
  stall (`log_unsatisfied_prereqs`) nor as nothing to run (`check_auto_shutdown`): the
  scheduler stays up for ever (`WaitsBeyond`).
* A runahead-limited task beyond the stop point, triggered in the second drain of the
  command queue of a turn, is limited still when the next turn checks for shutdown: the scheduler
  may shut down first, and the task runs at the restart.

*Jobs* (`TaskJob`)

* "If a message would take the task state backward, issue a poll to confirm
  instead" (`process_message`): only a message that a job sends is treated so
  (`task_events_mgr.py:797`, `814`).  A poll result that comes late does take a task from
  succeeded or failed back to running (`NoStepBack`).
* The submit command of a job may return after the job ran and failed and its
  retry delay is over: the callback (`task_job_mgr.py:791`) then speaks of the job
  that the retry prepares (`SlowSubmit = TRUE`).

*Crash* (`CrashRestart`)

* `spawn_task` takes a task with a history and no outputs for one that was removed
  (`task_pool.py:1832`).  `TaskPool.remove` writes the rows of newly spawned children
  (`task_pool.py:930`) before the pool is written: killed in between, the parent
  succeeds once more after the restart and its child is refused and never runs
  (`HistoryMeansRemoved`).  So with a kill before the first end of the loop, or
  between the write of a trigger command (`commands.py:832`) and the end of the loop.

*Remote initialisation* (`RemoteInit`)

* A target that leaves the map of initialisations while it is still in
  `incomplete_ri_map` ends the scheduler with a `KeyError` (`scheduler.py:929`):
  `task_job_mgr.py:452` removes one that failed, and a reload
  clears the map (`commands.py:628`) (`StaysUp`).
* A reload clears the map of initialisations, but not what is in flight: the callback
  marks the target as done, and the files of the new configuration are not
  installed there, which `cylc reload` says will happen (`FreshFiles`).

*Broadcasts and flow numbers*

* The thread of the server clears a broadcast (`network/resolvers.py:761-791`) while the
  main loop writes the queued statements or expires others: delete and insert may swap,
  and the database keeps what was cleared, "needs to be always in sync"
  (`workflow_db_mgr.py:281`) notwithstanding (`PriInSync`).
* After a failed write the public database keeps cancelled rows until it is
  replaced.  A key of a broadcast setting with several items is recorded by its first.
* After a restart a flow number that a user chose and that is no longer in the pool counts
  as new, and its description is overwritten.

*Processes* (`Lifecycle`)

* Two plays at once: both check for a contact file before either has written its own
  ("Make sure another workflow of the same name hasn't started", `scheduler.py:1150`), and
  both run; the later play replaces the keys of the running one before it looks.  A
  check that finds the old scheduler dead unlinks the contact file that a new one
  has written meanwhile, and the scheduler that the health check finds to have lost
  unlinks the contact file of the other as it shuts down (`OneScheduler`).
* A scheduler is killed between removing its keys and its contact file: the next
  `cylc play` finds the contact file, cannot ask the scheduler without keys and gives
  up, at every attempt (`StartsAlone`).

*Flows* (`Flows`; the first two break `NotStranded`)

* `cylc trigger --wait b` while its child c waits in the pool: when the flow catches
  up, `spawn_on_all_outputs` skips children that are in the pool
  (`task_pool.py:1650`), and c is never told of b.
* "Remove non group start and final-status group start tasks, and trigger them
  from scratch" (`commands.py:757`): a failed group start task stays in the pool with its
  outputs; a custom output sent before it failed counts as complete when it is sent again,
  and an in-group child of that output is not spawned.
* `cylc remove --flow=1 a` takes back what a satisfied of a child in flows 1 and 2, also if
  a succeeded in flow 2 as well.
* A member of a triggered group that is in the pool in another flow is left as it is:
  its history stays and its off-group prerequisites are not satisfied.
* The default trigger of a group whose only active members are no-flow tasks passes
  no flow numbers on to the removal, which reads them as all flows.
* A parent in flows 1 and 2 does not spawn a child that is finished in flow 2; flow 1's
  child, spawned later by another parent, waits for it for ever.
* A start task triggered with `--wait` goes on waiting when triggered again without;
  `--flow=new` on several unconnected tasks makes a flow for each connected group;
  `merge_flows` with flows the task already has replaces its rows, without the outputs; "If
  not flowing on, update existing children" (`spawn_on_output`) is not what the code does.

*Window* (`DataStore`, `WindowIsNear`)

* With a window of two edges or more and a task spawned by a command away from the pool:
  a walk that another task began names nodes pruned since, which are not made again ("If
  child/parent nodes have been pruned we will need to regenerate them",
  `increment_graph_window`), so the window lacks them and has edges to them.  With a => b =>
  c => d, a and b active, then b gone and c triggered, d is not shown.
* Proxies keep the ids of edges that were pruned in the batch they were added in.
* Edges between the outer nodes of two windows are missing.
* A reload forgets a pending resize; setting the extent back does not cancel one.
* The result of `difference` at `data_store_mgr.py:2018` is thrown away.

*Cycling* (`IntegerCycling`, `Misplaced`)

* "Start from first point >= context start" (`cycling/integer.py:393`) adds the remainder
  where the step minus the remainder is meant: with the initial point 3, `R3/1/P5`
  begins at 5, not at 6.  The end is clipped wrongly too (`integer.py:404`): `R10/1/P1`
  with the final point 5 ends at 4.
* `INTV/END` without repetitions counts back from the final point, not from END.
* `Rn/START/END`, of which a comment gives `R3/0/10` as an example, is never
  accepted: its step is a float that does not parse.
* `get_prev_point` with an exclusion sequence raises `TypeError` before the first point;
  `get_nearest_prev_point` recurses for ever if the first point is excluded.

## 7. Plan

1. Event handlers with their retries across a restart; the inactivity timer;
   `adopt_tasks`.
2. Absolute and future triggers in `CylcGraph`; warm start.
3. The rest of the data store: families and totals, which must agree with the pool.
