---------------------------- MODULE CrashRestart ----------------------------
(***************************************************************************)
(* The run database as the scheduler's memory of a run that is killed:     *)
(* which tables are written when in a main loop (workflow_db_mgr.py,       *)
(* task_pool.py, scheduler.py), and what a restart makes of them           *)
(* (rundb.py, task_pool.py).                                               *)
(*                                                                         *)
(* Statements are queued and written by process_queued_ops: at the end of  *)
(* every main loop, after put_task_pool has queued the tables of the pool, *)
(* but also in the middle of it, when a task leaves the pool and in the    *)
(* trigger command.  Such a write holds the history of the tasks           *)
(* (task_states, task_outputs) and not the pool.  The scheduler can be     *)
(* killed between any two steps.                                           *)
(*                                                                         *)
(* One cycle point, one flow, and tasks that need the success of all their *)
(* parents.  Jobs are accepted and succeed: what can go wrong with them is *)
(* TaskJob.  An orderly shutdown is a kill at the start of a main loop.    *)
(***************************************************************************)
EXTENDS Naturals, FiniteSets

CONSTANTS
    CTasks,       \* the tasks of the graph
    Parents,      \* the tasks whose success a task needs
    MaxKills,     \* bound on the kills of the scheduler
    MaxTriggers   \* bound on the trigger commands

ASSUME CrashAssumption ==
    /\ Parents \in [CTasks -> SUBSET CTasks]
    /\ MaxKills \in Nat /\ MaxTriggers \in Nat

Status == {"none", "waiting", "preparing", "submitted", "succeeded"}
MaxSubmit == MaxTriggers + 1

\* The tables, for the tasks in the flow; "none" is for no row.
Tables ==
    [state : [CTasks -> Status],        \* task_states: status
     snum : [CTasks -> 0..MaxSubmit],   \* task_states: submit_num, of any flow
     outs : [CTasks -> SUBSET {"submitted", "succeeded"}],    \* task_outputs
     pool : [CTasks -> Status],         \* task_pool
     pre : [CTasks -> SUBSET CTasks],   \* task_prerequisites, satisfied
     forced : SUBSET CTasks]            \* those, satisfied by the command

\* The task pool in memory: its fields are those of the proxies.
Memory ==
    [pool : [CTasks -> Status \ {"succeeded"}],
     snum : [CTasks -> 0..MaxSubmit],
     sat : [CTasks -> SUBSET CTasks],
     forced : SUBSET CTasks,
     submit : [CTasks -> {"none", "queued", "launched"}]]  \* in the process pool

\* The parts of _main_loop that matter here, in their order.
Loop == <<"commands", "callbacks", "launches", "release", "messages", "again">>
Phases == {Loop[i] : i \in 1..6} \cup
          {"triggering", "triggering again", "dead", "over"}

VARIABLES
    mem,       \* the memory of the scheduler
    queued,    \* the tables as the queued statements will leave them
    db,        \* the tables as they are written
    phase,     \* where the main loop is
    target,    \* the task that a trigger command is about
    live,      \* the jobs that run, as tasks with their submit number
    done,      \* the jobs whose status file tells of their success
    ran,       \* the tasks whose job has ever finished
    split,     \* a write since the last one with the pool
    torn,      \* the scheduler was killed after such a write
    kills, triggers

cvars == <<mem, queued, db, phase, target, live, done, ran, split, torn, kills,
           triggers>>

Pool == {t \in CTasks : mem.pool[t] # "none"}
Children(t) == {c \in CTasks : t \in Parents[c]}

Fresh(a) == [t \in CTasks |-> a]
-----------------------------------------------------------------------------
(* Writing the database. *)

\* Mutant of PutTaskPool: the table of prerequisites is left as it was.
PutTaskPoolBare(tables) ==
    [tables EXCEPT
        !.state = [t \in CTasks |-> IF t \in Pool THEN mem.pool[t] ELSE @[t]],
        !.snum = [t \in CTasks |-> IF t \in Pool THEN mem.snum[t] ELSE @[t]],
        !.pool = mem.pool]

\* Mutant of PutTaskPool: the old rows of the pool are not deleted.
PutTaskPoolKeep(tables) ==
    [PutTaskPoolBare(tables) EXCEPT
        !.pool = [t \in CTasks |-> IF t \in Pool THEN mem.pool[t] ELSE tables.pool[t]],
        !.pre = mem.sat, !.forced = mem.forced]

\* put_task_pool: the tables of the pool anew, and the rows of its tasks.
PutTaskPool(tables) ==
    [PutTaskPoolBare(tables) EXCEPT !.pre = mem.sat, !.forced = mem.forced]

\* db_add_new_flow_rows.
AddRows(tables, N) ==
    [tables EXCEPT
        !.state = [t \in CTasks |-> IF t \in N THEN "waiting" ELSE @[t]],
        !.outs = [t \in CTasks |-> IF t \in N THEN {} ELSE @[t]]]

\* remove_task_from_flows: the rows are no longer of the flow, but the submit
\* number is found in them.
Erase(tables, N) ==
    [tables EXCEPT
        !.state = [t \in CTasks |-> IF t \in N THEN "none" ELSE @[t]],
        !.outs = [t \in CTasks |-> IF t \in N THEN {} ELSE @[t]]]

\* process_queued_ops, in the middle of the main loop.
WriteNow(tables) ==
    /\ queued' = tables
    /\ db' = tables
    /\ split' = TRUE
-----------------------------------------------------------------------------
(* The start of the run, and the main loop. *)

\* The parentless tasks are spawned, and their history is written before the
\* main loop starts; the pool is not.
CInit ==
    LET first == {t \in CTasks : Parents[t] = {}}
        none == [state |-> Fresh("none"), snum |-> Fresh(0), outs |-> Fresh({}),
                 pool |-> Fresh("none"), pre |-> Fresh({}), forced |-> {}]
    IN  /\ mem = [pool |-> [t \in CTasks |-> IF t \in first THEN "waiting"
                                                            ELSE "none"],
                  snum |-> Fresh(0), sat |-> Fresh({}), forced |-> {},
                  submit |-> Fresh("none")]
        /\ queued = AddRows(none, first)
        /\ db = queued
        /\ phase = "commands"
        /\ target \in {CHOOSE t \in CTasks : TRUE}
        /\ live = {} /\ done = {} /\ ran = {}
        /\ split = TRUE /\ torn = FALSE
        /\ kills = 0 /\ triggers = 0

IsReady(t) == mem.pool[t] = "waiting" /\ mem.sat[t] = Parents[t]

\* From one part of the main loop to the next, when it has done its work.
Advance ==
    /\ \E i \in 1..5 : phase = Loop[i] /\ phase' = Loop[i + 1]
    /\ phase = "launches" => \A t \in CTasks : mem.submit[t] # "queued"
    /\ phase = "release" => \A t \in CTasks : ~IsReady(t)
    /\ UNCHANGED <<mem, queued, db, target, live, done, ran, split, torn, kills,
                   triggers>>

\* update_data_structure and process_workflow_db_queue; then the workflow is
\* complete if no task is left (check_auto_shutdown).
EndLoop ==
    /\ phase = "again"
    /\ queued' = PutTaskPool(queued)
    /\ db' = queued'
    /\ split' = FALSE
    /\ phase' = IF Pool = {} THEN "over" ELSE "commands"
    /\ UNCHANGED <<mem, target, live, done, ran, torn, kills, triggers>>

\* release_tasks_to_run, prep_submit_task_jobs: a submit command is queued.
ReleaseToRun(t) ==
    /\ phase = "release"
    /\ IsReady(t)
    /\ mem.snum[t] < MaxSubmit
    /\ mem' = [mem EXCEPT !.pool[t] = "preparing", !.snum[t] = @ + 1,
                          !.submit[t] = "queued"]
    /\ UNCHANGED <<queued, db, phase, target, live, done, ran, split, torn, kills,
                   triggers>>

\* SubProcPool.process starts the command, and the command the job, with a new
\* status file.
Launch(t) ==
    /\ phase = "launches"
    /\ mem.submit[t] = "queued"
    /\ mem' = [mem EXCEPT !.submit[t] = "launched"]
    /\ live' = live \cup {<<t, mem.snum[t]>>}
    /\ done' = done \ {<<t, mem.snum[t]>>}
    /\ UNCHANGED <<queued, db, phase, target, ran, split, torn, kills, triggers>>

\* The callback of the submit command: message submitted.
Submitted(t) ==
    /\ phase = "callbacks"
    /\ mem.submit[t] = "launched"
    /\ mem.pool[t] = "preparing"
    /\ mem' = [mem EXCEPT !.pool[t] = "submitted", !.submit[t] = "none"]
    /\ queued' = [queued EXCEPT !.outs[t] = {"submitted"}]
    /\ UNCHANGED <<db, phase, target, live, done, ran, split, torn, kills, triggers>>

JobFinishes(t, n) ==
    /\ <<t, n>> \in live
    /\ live' = live \ {<<t, n>>}
    /\ done' = done \cup {<<t, n>>}
    /\ ran' = ran \cup {t}
    /\ UNCHANGED <<mem, queued, db, phase, target, split, torn, kills, triggers>>

\* spawn_task: by what is written of it, c did not finish, nor was it removed.
MaySpawn(c) ==
    db.state[c] = "none" \/ (db.outs[c] # {} /\ "succeeded" \notin db.outs[c])

\* process_message of a success that a job sends or a poll finds: spawn_on_output
\* and remove, which writes what is queued.
Succeeded(t) ==
    /\ phase \in {"callbacks", "messages"}
    /\ mem.pool[t] = "submitted" \/ mem.submit[t] = "launched"
    /\ <<t, mem.snum[t]>> \in done
    /\ LET spawn == {c \in Children(t) \ Pool : MaySpawn(c)}
           new == {c \in spawn : db.state[c] = "none"}
           all == AddRows(queued, new)
       IN  /\ mem' =
                [mem EXCEPT
                    !.pool = [c \in CTasks |->
                                IF c = t THEN "none"
                                ELSE IF c \in new THEN "waiting"
                                ELSE IF c \in spawn THEN db.state[c] ELSE @[c]],
                    !.snum = [c \in CTasks |->
                                IF c = t THEN 0
                                ELSE IF c \in spawn THEN db.snum[c] ELSE @[c]],
                    !.sat = [c \in CTasks |->
                                IF c = t THEN {}
                                ELSE IF c \in spawn THEN {t}
                                ELSE IF c \in Children(t) \cap Pool THEN @[c] \cup {t}
                                ELSE @[c]],
                    !.forced = @ \ {t},
                    !.submit[t] = "none"]
           /\ WriteNow([all EXCEPT !.state[t] = "succeeded",
                                   !.snum[t] = mem.snum[t],
                                   !.outs[t] = {"submitted", "succeeded"}])
    /\ UNCHANGED <<phase, target, live, done, ran, torn, kills, triggers>>
-----------------------------------------------------------------------------
(* The trigger command, for a task that is not in the pool. *)

\* _remove_matched_tasks: its history is erased, and what it satisfied is taken
\* back; a child that nothing else satisfied goes too.  Then that is written.
TriggerRemove(t) ==
    /\ phase \in {"commands", "again"}
    /\ triggers < MaxTriggers
    /\ t \notin Pool
    /\ LET back == {c \in Children(t) \cap Pool : t \in mem.sat[c] /\ c \notin mem.forced}
           gone == {c \in back : mem.pool[c] = "waiting" /\ mem.sat[c] = {t}}
       IN  /\ mem' =
                [mem EXCEPT
                    !.pool = [c \in CTasks |-> IF c \in gone THEN "none" ELSE @[c]],
                    !.snum = [c \in CTasks |-> IF c \in gone THEN 0 ELSE @[c]],
                    !.sat = [c \in CTasks |-> IF c \in back THEN @[c] \ {t} ELSE @[c]]]
           /\ WriteNow(Erase([queued EXCEPT
                               !.snum = [c \in CTasks |-> IF c \in gone THEN mem.snum[c]
                                                                        ELSE @[c]]],
                             gone \cup {t}))
    /\ target' = t
    /\ phase' = IF phase = "commands" THEN "triggering" ELSE "triggering again"
    /\ triggers' = triggers + 1
    /\ UNCHANGED <<live, done, ran, torn, kills>>

\* _set_prereqs_tdef: the task is spawned again with its prerequisites satisfied.
TriggerSpawn ==
    /\ phase \in {"triggering", "triggering again"}
    /\ mem' = [mem EXCEPT !.pool[target] = "waiting",
                          !.snum[target] = db.snum[target],
                          !.sat[target] = Parents[target],
                          !.forced = @ \cup {target}]
    /\ queued' = AddRows(queued, {target})
    /\ phase' = IF phase = "triggering" THEN "commands" ELSE "again"
    /\ UNCHANGED <<db, target, live, done, ran, split, torn, kills, triggers>>
-----------------------------------------------------------------------------
(* The end of the scheduler, and its restart. *)

Kill ==
    /\ phase \notin {"dead", "over"}
    /\ kills < MaxKills
    /\ phase' = "dead"
    /\ kills' = kills + 1
    /\ torn' = (torn \/ split)
    /\ UNCHANGED <<mem, queued, db, target, live, done, ran, split, triggers>>

\* Mutant of Restored: a prerequisite is satisfied unless the table denies it.
RestoredTrusting(t) == Parents[t]

\* load_db_task_pool_for_restart: satisfaction is what the table says.
Restored(t) == db.pre[t]

\* load_db_task_pool_for_restart: a task is prepared anew.
Loaded(t) == IF db.pool[t] = "preparing" THEN "waiting" ELSE db.pool[t]

\* select_task_pool_for_restart: the rows of the pool that have one in the
\* history.  The active tasks are polled.
RestartScheduler ==
    /\ phase = "dead"
    /\ LET in == {t \in CTasks : db.pool[t] # "none" /\ db.state[t] # "none"}
           again == {t \in in : db.pool[t] = "preparing"}
       IN  mem' = [pool |-> [t \in CTasks |-> IF t \in in THEN Loaded(t) ELSE "none"],
                   snum |-> [t \in CTasks |-> IF t \in again THEN db.snum[t] - 1
                                              ELSE IF t \in in THEN db.snum[t] ELSE 0],
                   sat |-> [t \in CTasks |-> IF t \in in THEN Restored(t) ELSE {}],
                   forced |-> db.forced \cap in,
                   submit |-> Fresh("none")]
    /\ queued' = db
    /\ split' = FALSE
    /\ phase' = "commands"
    /\ UNCHANGED <<db, target, live, done, ran, torn, kills, triggers>>

\* What the main loop does by itself, and the operator's restart.
LoopStep ==
    \/ Advance \/ EndLoop \/ TriggerSpawn \/ RestartScheduler
    \/ \E t \in CTasks : ReleaseToRun(t) \/ Launch(t)
News == \E t \in CTasks : Submitted(t) \/ Succeeded(t)
JobStep == \E t \in CTasks : \E n \in 1..MaxSubmit : JobFinishes(t, n)

CNext ==
    \/ LoopStep \/ News \/ JobStep \/ Kill
    \/ \E t \in CTasks : TriggerRemove(t)

\* The main loop turns, a submit command returns and a success is heard of in
\* the end, a job ends, and a killed scheduler is restarted.  There are finitely
\* many of the last three, so that none of them waits for ever.
CFairness == WF_cvars(LoopStep) /\ SF_cvars(News) /\ WF_cvars(JobStep)

CSpec == CInit /\ [][CNext]_cvars /\ CFairness
-----------------------------------------------------------------------------
(* Properties. *)

\* Every variable has its type.
CTypeOK ==
    /\ mem \in Memory
    /\ queued \in Tables /\ db \in Tables
    /\ phase \in Phases
    /\ target \in CTasks
    /\ live \cup done \subseteq CTasks \X (1..MaxSubmit)
    /\ ran \subseteq CTasks
    /\ split \in BOOLEAN /\ torn \in BOOLEAN
    /\ kills \in 0..MaxKills /\ triggers \in 0..MaxTriggers

\* Whenever the scheduler is killed, and whatever it then finds in the
\* database, no job is started before the jobs of all the task's parents have
\* finished, unless the task was triggered.
StartsAfterParents ==
    [][\A t \in CTasks :
         Launch(t) => t \in mem.forced \/ Parents[t] \subseteq ran]_cvars

\* A task whose success is in the database is not run again, unless it is
\* triggered, through kills that do not fall between the write of a task's
\* removal (TaskPool.remove) and the write of the pool.
NoRerun ==
    [][\A t \in CTasks :
         Launch(t) /\ ~torn => "succeeded" \notin db.outs[t]]_cvars

\* Every task of the graph runs to its end, through kills that do not fall
\* between such writes.
EveryTaskRunsBut == <>(ran = CTasks \/ torn)

\* A child that spawn_task finds to have a history but no completed outputs was
\* removed before: no task is here, for there are no suicide triggers.
HistoryMeansRemoved ==
    [][\A t \in CTasks :
         Succeeded(t) => \A c \in Children(t) \ Pool :
                            db.state[c] # "none" => db.outs[c] # {}]_cvars
=============================================================================
