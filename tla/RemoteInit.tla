----------------------------- MODULE RemoteInit -----------------------------
(***************************************************************************)
(* Remote initialisation and file installation (task_remote_mgr.py) and    *)
(* the part of the job manager that takes a preparing task through them:   *)
(* platform choice, host choice, remote init, file install, submission.    *)
(*                                                                         *)
(* A platform has some hosts and an install target; platforms may share    *)
(* both.  A task is configured with a group of platforms, a plain platform *)
(* being a group of one.  Every command may end well, in error, or with    *)
(* ssh's 255 (the host cannot be contacted); then the host is a bad host.  *)
(*                                                                         *)
(* The main loop is synchronous: `phase` says how far its current turn is. *)
(***************************************************************************)
EXTENDS Integers, Sequences, SequencesExt, FiniteSets

CONSTANTS
    RTasks,         \* the tasks
    Group,          \* the platforms each task may use
    HostsOf,        \* the hosts of each platform
    TargetOf,       \* the install target of each platform
    Active,         \* the tasks whose jobs may be live at a restart, and where
    MaxUsed         \* bound: how many of a reload by the user, a kill of a
                    \* preparing task and a reset of the bad hosts by the plugin
                    \* there are, each of them at most once

Platforms == DOMAIN HostsOf
Hosts == UNION {HostsOf[p] : p \in Platforms}
Targets == {TargetOf[p] : p \in Platforms}
None == "none"

ASSUME RemoteAssumption ==
    /\ DOMAIN TargetOf = Platforms
    /\ DOMAIN Group = RTasks
    /\ \A t \in RTasks : Group[t] \subseteq Platforms /\ Group[t] # {}
    /\ \A p \in Platforms : HostsOf[p] # {}
    /\ DOMAIN Active \subseteq RTasks
    /\ \A t \in DOMAIN Active : Active[t] \in Group[t]
    /\ MaxUsed \in 0..3

VARIABLES
    phase,          \* "restart", "manage", "process", "prepare", "submit"
                    \* or "dead": an exception ended the scheduler
    todo,           \* what the phase still has to go through
    status,         \* the status of each task
    job_prep,       \* the tasks with waiting_on_job_prep
    job_file,       \* the tasks with a local_job_file_path
    platform,       \* the platform of each task, once it has one
    remote_init_map, incomplete_ri_map,
    bad_hosts, bad_hosts_to_clear,
    pool,           \* the commands in the process pool
    reloading,      \* a reload waits for the preparing tasks
    files,          \* which reload the files in the run directory are for
    there,          \* which reload the files on each target are for
    overtaken,      \* history: the targets a reload found with a command in flight
    used            \* which of the bounded inputs were used

taskv == <<status, job_prep, job_file, platform>>
hostv == <<bad_hosts, bad_hosts_to_clear>>
mapv == <<remote_init_map, incomplete_ri_map>>
outside == <<files, there, overtaken>>
rvars == <<phase, todo, taskv, hostv, mapv, pool, reloading, outside, used>>

UseTry(kind) ==
    /\ kind \notin used /\ Cardinality(used) < MaxUsed
    /\ used' = used \cup {kind}

\* A command: the hosts it goes to, and the files it installs or, if it submits
\* jobs, those that belong to the configuration in use.
Cmd(kind, p, host, ts) ==
    [kind |-> kind, platform |-> p, host |-> host, tasks |-> ts,
     files |-> IF kind = "submit" /\ reloading THEN files - 1 ELSE files]

\* A cold start, or a restart that finds the jobs of some tasks live.
RInit ==
    /\ \E live \in SUBSET DOMAIN Active :
        /\ phase = IF live = {} THEN "process" ELSE "restart"
        /\ todo = {Active[t] : t \in live}
        /\ status = [t \in RTasks |-> IF t \in live THEN "submitted" ELSE "waiting"]
        /\ platform = [t \in RTasks |-> IF t \in live THEN Active[t] ELSE None]
    /\ job_prep = {}
    /\ job_file = {}
    /\ remote_init_map = [g \in Targets |-> None]
    /\ incomplete_ri_map = [g \in Targets |-> None]
    /\ bad_hosts = {}
    /\ bad_hosts_to_clear = {}
    /\ pool = <<>>
    /\ reloading = FALSE
    /\ files = 0
    /\ there = [g \in Targets |-> -1]
    /\ overtaken = {}
    /\ used = {}

-----------------------------------------------------------------------------
\* get_host_from_platform(): any host that is not known to be bad.
GoodHosts(p) == HostsOf[p] \ bad_hosts

\* remote_init() and file_install(): the target is in progress and the command
\* is in the pool; or all the hosts are bad, the step failed at once, and they
\* get another chance.
StartOn(kind, doing, failed, p) ==
    \/ \E h \in GoodHosts(p) :
        /\ remote_init_map' = [remote_init_map EXCEPT ![TargetOf[p]] = doing]
        /\ pool' = Append(pool, Cmd(kind, p, h, {}))
        /\ UNCHANGED bad_hosts
    \/ /\ GoodHosts(p) = {}
       /\ remote_init_map' = [remote_init_map EXCEPT ![TargetOf[p]] = failed]
       /\ bad_hosts' = bad_hosts \ HostsOf[p]
       /\ UNCHANGED pool

remote_init(p) == StartOn("init", "initialising", "init-failed", p)
file_install(p) == StartOn("install", "installing", "install-failed", p)

\* Mutant of Outcome: the file installation is skipped.
OutcomeNoInstall(kind, end) ==
    IF end = "good" THEN "install-done"
    ELSE IF end = "bad" THEN "init-failed" ELSE "init-255"

\* _remote_init_callback, _file_install_callback and their _255 forms.
Outcome(kind, end) ==
    CASE kind = "init" /\ end = "good" -> "init-done"
      [] kind = "init" /\ end = "bad" -> "init-failed"
      [] kind = "init" /\ end = "255" -> "init-255"
      [] kind = "install" /\ end = "good" -> "install-done"
      [] kind = "install" /\ end = "bad" -> "install-failed"
      [] kind = "install" /\ end = "255" -> "install-255"

\* Mutant of Blame: the host that cannot be contacted is not remembered.
BlameNobody(end, host) == bad_hosts

\* The pool adds the host of a command that ends with 255 to the bad hosts.
Blame(end, host) == IF end = "255" THEN bad_hosts \cup {host} ELSE bad_hosts

\* The tasks ts are submit-failed; the flags are reset for a retry.
SubmitFail(ts) ==
    /\ status' = [t \in RTasks |-> IF t \in ts THEN "submit-failed" ELSE status[t]]
    /\ job_prep' = job_prep \ ts
    /\ job_file' = job_file \ ts

-----------------------------------------------------------------------------
\* The next turn of the main loop starts with manage_remote_init(), which has
\* work if an initialisation of the restart is not complete.
TurnOver ==
    LET left == {g \in Targets : incomplete_ri_map'[g] # None}
    IN  /\ phase' = IF left = {} THEN "process" ELSE "manage"
        /\ todo' = left

\* restart_remote_init(): one initialisation for each target where a job is
\* live, on the platform of one of those jobs.
RestartInit ==
    /\ phase = "restart"
    /\ \E p \in todo :
        /\ remote_init(p)
        /\ incomplete_ri_map' = [incomplete_ri_map EXCEPT ![TargetOf[p]] = p]
        /\ LET rest == {q \in todo : TargetOf[q] # TargetOf[p]}
           IN  IF rest = {} THEN TurnOver
               ELSE todo' = rest /\ UNCHANGED phase
    /\ UNCHANGED <<taskv, bad_hosts_to_clear, reloading, outside, used>>

\* manage_remote_init(): for each initialisation of the restart, start the file
\* installation when it is done and forget it when it ended otherwise.  The
\* entry it looks up may have been deleted: then the lookup raises.
Manage ==
    /\ phase = "manage"
    /\ \E g \in todo :
        \/ /\ remote_init_map[g] = None
           /\ phase' = "dead"
           /\ UNCHANGED <<todo, mapv, pool, bad_hosts>>
        \/ /\ remote_init_map[g] # None
           /\ todo' = todo \ {g}
           /\ phase' = IF todo' = {} THEN "process" ELSE "manage"
           /\ \/ /\ remote_init_map[g] = "init-done"
                 /\ file_install(incomplete_ri_map[g])
                 /\ UNCHANGED incomplete_ri_map
              \/ /\ remote_init_map[g] \in {"initialising", "installing"}
                 /\ UNCHANGED <<mapv, pool, bad_hosts>>
              \/ /\ remote_init_map[g] \notin {"init-done", "initialising", "installing"}
                 /\ incomplete_ri_map' = [incomplete_ri_map EXCEPT ![g] = None]
                 /\ UNCHANGED <<remote_init_map, pool, bad_hosts>>
    /\ UNCHANGED <<taskv, bad_hosts_to_clear, reloading, outside, used>>

\* process(): the callback of a command that has ended.  A submission that ends
\* well reports on each of its tasks.
Callback(i, end) ==
    /\ phase = "process"
    /\ LET c == pool[i]
           g == TargetOf[c.platform]
       IN  /\ bad_hosts' = Blame(end, c.host)
           /\ IF c.kind = "submit"
              THEN /\ CASE end = "good" -> \E ok \in SUBSET c.tasks :
                            /\ status' = [t \in RTasks |->
                                    IF t \in ok THEN "submitted"
                                    ELSE IF t \in c.tasks THEN "submit-failed"
                                    ELSE status[t]]
                            /\ UNCHANGED <<job_prep, job_file>>
                        [] end = "bad" -> SubmitFail(c.tasks)
                        [] end = "255" ->
                            /\ job_prep' = job_prep \cup c.tasks
                            /\ UNCHANGED <<status, job_file>>
                   /\ UNCHANGED <<remote_init_map, there>>
              ELSE /\ remote_init_map' = [remote_init_map EXCEPT ![g] = Outcome(c.kind, end)]
                   /\ there' = IF c.kind = "install" /\ end = "good"
                               THEN [there EXCEPT ![g] = c.files] ELSE there
                   /\ UNCHANGED <<status, job_prep, job_file>>
    /\ pool' = RemoveAt(pool, i)
    /\ UNCHANGED <<phase, todo, platform, bad_hosts_to_clear, incomplete_ri_map,
                   reloading, files, overtaken, used>>

\* The process pool has been looked at; release_tasks_to_run() takes the tasks
\* that are waiting to be prepared, with some that leave the queue unless a
\* reload is pending.
ReleaseTasks(released) ==
    /\ phase = "process"
    /\ released \subseteq {t \in RTasks : status[t] = "waiting"}
    /\ reloading => released = {}
    /\ phase' = "prepare"
    /\ job_prep' = job_prep \cup released
    /\ status' = [t \in RTasks |-> IF t \in released THEN "preparing" ELSE status[t]]
    /\ todo' = job_prep'
    /\ UNCHANGED <<job_file, platform, hostv, mapv, pool, reloading, outside, used>>

-----------------------------------------------------------------------------
\* The tasks that are to be submitted, by platform, and what the turn does next.
ByPlatform(ts) ==
    {[platform |-> p, tasks |-> {t \in ts : platform[t] = p}, out |-> FALSE] :
        p \in {platform[t] : t \in ts}}

\* get_platform(): a plain platform is taken as it is; from a group one that has
\* a host that is not bad, if there is one.
PlatformsFor(t) ==
    IF Cardinality(Group[t]) = 1 THEN Group[t]
    ELSE {p \in Group[t] : GoodHosts(p) # {}}

\* _prep_submit_task_job(): a task that has no job file gets a platform and a
\* job file.  When a group has no host left the task is submit-failed and the
\* hosts of the group get another chance.
Prepare ==
    /\ phase = "prepare"
    /\ \E t \in todo :
        /\ todo' = todo \ {t}
        /\ \/ /\ t \in job_file
              /\ UNCHANGED <<taskv, bad_hosts>>
           \/ /\ t \notin job_file
              /\ \E p \in PlatformsFor(t) : platform' = [platform EXCEPT ![t] = p]
              /\ job_file' = job_file \cup {t}
              /\ UNCHANGED <<status, job_prep, bad_hosts>>
           \/ /\ t \notin job_file
              /\ PlatformsFor(t) = {}
              /\ SubmitFail({t})
              /\ bad_hosts' = bad_hosts \ UNION {HostsOf[p] : p \in Group[t]}
              /\ UNCHANGED platform
    /\ UNCHANGED <<phase, bad_hosts_to_clear, mapv, pool, reloading, outside, used>>

Prepared ==
    /\ phase = "prepare"
    /\ todo = {}
    /\ phase' = "submit"
    /\ todo' = ByPlatform(job_prep)
    /\ UNCHANGED <<taskv, hostv, mapv, pool, reloading, outside, used>>

\* submit_livelike_task_jobs(), for the tasks of one platform that has a host:
\* start whatever the target needs next, wait for what is in progress, fail the
\* tasks of a target that failed so that others start it afresh, or submit.
SubmitOn(b) ==
    LET p == b.platform
        now == remote_init_map[TargetOf[p]]
    IN  \/ /\ now \in {None, "init-255"}
           /\ remote_init(p)
           /\ UNCHANGED taskv
        \/ /\ now \in {"init-done", "install-255"}
           /\ file_install(p)
           /\ UNCHANGED taskv
        \/ /\ now \in {"initialising", "installing"}
           /\ UNCHANGED <<taskv, remote_init_map, pool, bad_hosts>>
        \/ /\ now \in {"init-failed", "install-failed"}
           /\ remote_init_map' = [remote_init_map EXCEPT ![TargetOf[p]] = None]
           /\ SubmitFail(b.tasks)
           /\ UNCHANGED <<platform, pool, bad_hosts>>
        \/ /\ now = "install-done"
           /\ \E h \in GoodHosts(p) : pool' = Append(pool, Cmd("submit", p, h, b.tasks))
           /\ job_prep' = job_prep \ b.tasks
           /\ job_file' = job_file \ b.tasks
           /\ UNCHANGED <<status, platform, remote_init_map, bad_hosts>>

\* Which of the platforms is next: one that is out of hosts is gone through
\* task by task, and to the end, before another one is looked at.
Foremost(b) == b \in todo /\ (b.out \/ \A c \in todo : ~c.out)

SubmitPlatform ==
    /\ phase = "submit"
    /\ \E b \in todo :
        /\ Foremost(b) /\ ~b.out
        /\ \/ /\ GoodHosts(b.platform) # {}
              /\ SubmitOn(b)
              /\ todo' = todo \ {b}
           \/ /\ GoodHosts(b.platform) = {}
              /\ todo' = (todo \ {b}) \cup {[b EXCEPT !.out = TRUE]}
              /\ UNCHANGED <<taskv, remote_init_map, pool, bad_hosts>>
    /\ UNCHANGED <<phase, bad_hosts_to_clear, incomplete_ri_map, reloading, outside, used>>

\* _select_new_platform() and _platform_submit_failure(), for one task of a
\* platform that is out of hosts: another platform of its group, or submit-failed
\* and another chance for all the hosts that were tried.
OutOfHosts ==
    /\ phase = "submit"
    /\ \E b \in todo : b.out /\ \E t \in b.tasks :
        /\ todo' = (todo \ {b}) \cup
                    (IF b.tasks = {t} THEN {} ELSE {[b EXCEPT !.tasks = @ \ {t}]})
        /\ \/ \E p \in PlatformsFor(t) \ {platform[t]} :
                /\ bad_hosts_to_clear' = bad_hosts_to_clear \cup HostsOf[platform[t]]
                /\ platform' = [platform EXCEPT ![t] = p]
                /\ UNCHANGED <<status, job_prep, job_file, bad_hosts>>
           \/ /\ PlatformsFor(t) \subseteq {platform[t]} \/ platform[t] \in PlatformsFor(t)
              /\ SubmitFail({t})
              /\ bad_hosts' = (bad_hosts \ HostsOf[platform[t]]) \ bad_hosts_to_clear
              /\ bad_hosts_to_clear' = {}
              /\ UNCHANGED platform
    /\ UNCHANGED <<phase, mapv, pool, reloading, outside, used>>

\* The end of the turn.  While a reload waits for preparing tasks to be
\* submitted the next turn is of the reload's own loop, which does not manage
\* the initialisations of the restart.
EndTurn ==
    /\ phase = "submit"
    /\ todo = {}
    /\ ~reloading
    /\ UNCHANGED <<taskv, hostv, mapv, pool, reloading, outside, used>>
    /\ TurnOver

Flush ==
    /\ phase = "submit"
    /\ todo = {}
    /\ reloading
    /\ \E t \in RTasks : status[t] = "preparing"
    /\ phase' = "process"
    /\ UNCHANGED <<todo, taskv, hostv, mapv, pool, reloading, outside, used>>

\* No task is preparing: the configuration is reloaded and the remote init map
\* is cleared.
FinishReload ==
    /\ phase = "submit"
    /\ todo = {}
    /\ reloading
    /\ \A t \in RTasks : status[t] # "preparing"
    /\ phase' = "process"
    /\ reloading' = FALSE
    /\ remote_init_map' = [g \in Targets |-> None]
    /\ overtaken' = overtaken \cup {TargetOf[c.platform] : c \in Range(pool)}
    /\ UNCHANGED <<todo, taskv, hostv, incomplete_ri_map, pool, files, there, used>>

-----------------------------------------------------------------------------
\* The user reinstalls the workflow and reloads it; kills a preparing task; the
\* plugin reset_bad_hosts runs.
ReloadCommand ==
    /\ phase = "process"
    /\ ~reloading
    /\ UseTry("reload")
    /\ files' = files + 1
    /\ reloading' = TRUE
    /\ phase' = "prepare"
    /\ todo' = job_prep
    /\ UNCHANGED <<taskv, hostv, mapv, pool, there, overtaken>>

KillPreparing(t) ==
    /\ phase = "process"
    /\ t \in job_prep
    /\ UseTry("kill")
    /\ SubmitFail({t})
    /\ UNCHANGED <<phase, todo, platform, hostv, mapv, pool, reloading, outside>>

ResetBadHosts ==
    /\ phase = "process"
    /\ bad_hosts # {}
    /\ UseTry("reset")
    /\ bad_hosts' = {}
    /\ UNCHANGED <<phase, todo, taskv, bad_hosts_to_clear, mapv, pool, reloading, outside>>

Turn ==
    \/ RestartInit
    \/ Manage
    \/ \E released \in SUBSET RTasks : ReleaseTasks(released)
    \/ Prepare
    \/ Prepared
    \/ SubmitPlatform
    \/ OutOfHosts
    \/ EndTurn
    \/ Flush
    \/ FinishReload

RNext ==
    \/ Turn
    \/ \E i \in DOMAIN pool, end \in {"good", "bad", "255"} : Callback(i, end)
    \/ ReloadCommand
    \/ \E t \in RTasks : KillPreparing(t)
    \/ ResetBadHosts

\* The main loop turns, and every command ends: the pool kills it when it is over
\* its time limit.
RFairness ==
    /\ WF_rvars(Turn)
    /\ SF_rvars(pool # <<>> /\ \E end \in {"good", "bad", "255"} : Callback(1, end))

RSpec == RInit /\ [][RNext]_rvars /\ RFairness

-----------------------------------------------------------------------------
\* Types, and what the sets of tasks say of each other: only a preparing task
\* waits for its preparation or has a job file, and it waits, or its submission
\* is in flight, never both.
RTypeOK ==
    /\ phase \in {"restart", "manage", "process", "prepare", "submit", "dead"}
    /\ status \in [RTasks -> {"waiting", "preparing", "submitted", "submit-failed"}]
    /\ job_file \subseteq job_prep /\ job_prep \subseteq {t \in RTasks : status[t] = "preparing"}
    /\ platform \in [RTasks -> Platforms \cup {None}]
    /\ bad_hosts \subseteq Hosts /\ bad_hosts_to_clear \subseteq Hosts
    /\ \A t \in RTasks : status[t] = "preparing" =>
            (t \in job_prep) = (\A c \in Range(pool) : t \notin c.tasks)

\* A job is submitted only to a target where the files of the workflow are, those
\* of the configuration that it is submitted with.
FreshFiles ==
    \A c \in Range(pool) : c.kind = "submit" => there[TargetOf[c.platform]] >= c.files

\* ... unless a reload found a command of that target in flight.
FreshFilesBut ==
    \A c \in Range(pool) : c.kind = "submit" =>
        there[TargetOf[c.platform]] >= c.files \/ TargetOf[c.platform] \in overtaken

\* The main loop never dies of a lookup in the map.
StaysUp == phase # "dead"

\* However often hosts cannot be contacted, a preparing task is submitted or
\* submit-failed in the end (unless the scheduler dies).
PreparingEnds ==
    \A t \in RTasks : status[t] = "preparing" ~> (status[t] # "preparing" \/ phase = "dead")
=============================================================================
