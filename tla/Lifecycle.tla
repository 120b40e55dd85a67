----------------------------- MODULE Lifecycle -----------------------------
(***************************************************************************)
(* Who runs a workflow: `cylc play`, `cylc clean` and client commands are  *)
(* operating system processes that share nothing but the run directory.    *)
(* In it the contact file says which scheduler is running and where, and   *)
(* four key files let clients connect to its server.  A play asks the      *)
(* scheduler of the contact file to resume, or becomes a scheduler: it     *)
(* makes new keys, starts its server, checks the contact file again and    *)
(* writes its own.  Any process may be killed at any step.                 *)
(***************************************************************************)
EXTENDS Naturals

CONSTANTS
    NPlays,     \* number of invocations of cylc play
    Cleans,     \* invocations of cylc clean
    Clients,    \* invocations of other commands that connect to the scheduler
    Nobody,     \* no process
    MaxProcKills    \* bound on the number of processes that are killed

ASSUME LifecycleAssumption ==
    /\ NPlays \in Nat
    /\ Nobody \notin (0..NPlays) \cup Cleans \cup Clients
    /\ (0..NPlays) \cap (Cleans \cup Clients) = {} /\ Cleans \cap Clients = {}
    /\ MaxProcKills \in Nat

\* Plays are numbered in the order they begin; each becomes at most one
\* scheduler.  Play 0 is one that is over.
Plays == 0..NPlays
Procs == Plays \cup Cleans \cup Clients

VARIABLES
    at,        \* the step each process is at
    seen,      \* the contact data it loaded: the scheduler it is of
    announced, \* plays with contact_data set: they wrote the contact file
    served,    \* the key files the server of a play was started with
    contact,   \* whose data the contact file holds, Nobody if there is none
    keys,      \* who made the key files, Nobody if there are none
    runDir,    \* whether the run directory exists
    procKills,
    raced,     \* history: one of the races of OneSchedulerBut took place
    alone      \* history: the play that began, and ran since, as the only process

dirVars == <<contact, keys, runDir>>
lvars == <<at, seen, announced, served, contact, keys, runDir, procKills, raced, alone>>

Starting == {"ping", "ping load", "ping judge", "install", "serve",
             "check load", "check judge", "dump"}
Stopping == {"remove keys", "unlink"}
Steps == Starting \cup Stopping
         \cup {"idle", "run", "clean load", "clean judge", "rmtree", "exit", "dead"}

LTypeOK ==
    /\ at \in [Procs -> Steps]
    /\ seen \in [Procs -> Plays \cup {Nobody}]
    /\ announced \subseteq Plays
    /\ served \in [Plays -> Plays \cup {Nobody}]
    /\ contact \in Plays \cup {Nobody}
    /\ keys \in Plays \cup {Nobody}
    /\ runDir \in BOOLEAN
    /\ procKills \in 0..MaxProcKills
    /\ raced \in BOOLEAN
    /\ alone \in Plays \cup {Nobody}

Up(x) == at[x] \notin {"idle", "exit", "dead"}

\* The scheduler of play 0 was killed, at whatever step, or it shut down.
LInit ==
    /\ at = [x \in Procs |-> IF x = 0 THEN "dead" ELSE "idle"]
    /\ seen = [x \in Procs |-> Nobody]
    /\ announced = {}
    /\ served = [p \in Plays |-> Nobody]
    /\ contact \in {Nobody, 0} /\ keys \in {Nobody, 0}
    /\ runDir = TRUE
    /\ procKills = 0
    /\ raced = FALSE
    /\ alone = Nobody

Goto(x, step) == at' = [at EXCEPT ![x] = step]

\* WorkflowStopped: a play goes on to start a scheduler, a client gives up.
Stopped(x) == Goto(x, IF x \in Plays THEN "install" ELSE "exit")

---------------------------------------------------------------------------
(* Commands that connect: _resume of a play, and the clients *)

\* The contact file is read; without one the workflow is not running.
Connect(x) ==
    /\ x \in Plays \cup Clients
    /\ at[x] = "idle" /\ runDir
    /\ \A p \in Plays : x \in Plays /\ p < x => at[p] # "idle"
    /\ IF contact = Nobody THEN Stopped(x) ELSE Goto(x, "ping")
    /\ seen' = [seen EXCEPT ![x] = contact]
    /\ raced' = (raced \/ (x \in Plays
                           /\ \E p \in Plays : Up(p) /\ p \notin announced))
    /\ alone' = IF x \in Plays /\ \A y \in Procs : ~Up(y) THEN x ELSE Nobody
    /\ UNCHANGED <<announced, served, dirVars, procKills>>

\* The server of the scheduler answers those who have its keys: a play resumes
\* it and leaves.
Answered(x) ==
    /\ at[x] = "ping"
    /\ at[seen[x]] = "run" /\ keys # Nobody /\ keys = served[seen[x]]
    /\ Goto(x, "exit")
    /\ UNCHANGED <<seen, announced, served, dirVars, procKills, raced, alone>>

\* ClientError: the socket is not connected without the key files.
NoKeys(x) ==
    /\ at[x] = "ping" /\ keys = Nobody
    /\ Goto(x, "exit")
    /\ UNCHANGED <<seen, announced, served, dirVars, procKills, raced, alone>>

\* Mutant of TimedOut: the process of the contact data is not looked for.
TimedOutOnly(x) ==
    /\ at[x] = "ping" /\ keys # Nobody
    /\ IF contact = Nobody THEN Stopped(x) ELSE Goto(x, "exit")
    /\ UNCHANGED <<seen, announced, served, dirVars, procKills, raced, alone>>

\* No answer in time: timeout_handler looks whether the workflow stopped, or
\* moved, which is an error.
TimedOut(x) ==
    /\ at[x] = "ping" /\ keys # Nobody
    /\ \/ contact = Nobody /\ Stopped(x)
       \/ contact \notin {Nobody, seen[x]} /\ Goto(x, "exit")
       \/ contact = seen[x] /\ Goto(x, "ping load")
    /\ UNCHANGED <<seen, announced, served, dirVars, procKills, raced, alone>>

---------------------------------------------------------------------------
(* detect_old_contact_file, of three callers *)

Loads == {"ping load", "check load", "clean load"}
Judge(step) == CASE step = "ping load" -> "ping judge"
                 [] step = "check load" -> "check judge"
                 [] step = "clean load" -> "clean judge"

\* The process of the contact data is not running, or there is no contact file.
NotRunning(x) ==
    CASE at[x] \in {"ping judge", "ping load"} -> Stopped(x)
      [] at[x] \in {"check judge", "check load"} -> Goto(x, "dump")
      [] at[x] \in {"clean judge", "clean load"} -> Goto(x, "rmtree")

\* SchedulerAlive: a play that asks to resume, a client or a clean ends with an
\* error; a scheduler that is starting shuts down.
Alive(x) == Goto(x, IF at[x] = "check judge" THEN "remove keys" ELSE "exit")

Load(x) ==
    /\ at[x] \in Loads
    /\ seen' = [seen EXCEPT ![x] = contact]
    /\ IF contact = Nobody THEN NotRunning(x) ELSE Goto(x, Judge(at[x]))
    /\ UNCHANGED <<announced, served, dirVars, procKills, raced, alone>>

\* Mutant of Detect: the process is not looked for.
DetectUnchecked(x) ==
    /\ at[x] \in {"ping judge", "check judge", "clean judge"}
    /\ NotRunning(x)
    /\ contact' = Nobody
    /\ raced' = (raced \/ contact \notin {Nobody, seen[x]})
    /\ UNCHANGED <<seen, announced, served, keys, runDir, procKills, alone>>

\* _is_process_running, then the contact file is removed, whose ever it is now.
Detect(x) ==
    /\ at[x] \in {"ping judge", "check judge", "clean judge"}
    /\ IF Up(seen[x])
       THEN Alive(x) /\ UNCHANGED <<contact, raced>>
       ELSE /\ NotRunning(x)
            /\ contact' = Nobody
            /\ raced' = (raced \/ contact \notin {Nobody, seen[x]})
    /\ UNCHANGED <<seen, announced, served, keys, runDir, procKills, alone>>

---------------------------------------------------------------------------
(* A scheduler *)

\* install: new keys replace what is there.  It fails without the workflow.
Install(p) ==
    /\ at[p] = "install"
    /\ IF runDir THEN keys' = p /\ Goto(p, "serve")
                 ELSE Goto(p, "exit") /\ UNCHANGED keys
    /\ UNCHANGED <<seen, announced, served, contact, runDir, procKills, raced, alone>>

\* start: the thread of the server loads the keys from the files.
Serve(p) ==
    /\ at[p] = "serve"
    /\ served' = [served EXCEPT ![p] = keys]
    /\ Goto(p, IF keys = Nobody THEN "remove keys" ELSE "check load")
    /\ UNCHANGED <<seen, announced, dirVars, procKills, raced, alone>>

\* _configure_contact, after detect_old_contact_file.
Dump(p) ==
    /\ at[p] = "dump"
    /\ IF runDir
       THEN contact' = p /\ announced' = announced \cup {p} /\ Goto(p, "run")
       ELSE Goto(p, "remove keys") /\ UNCHANGED <<contact, announced>>
    /\ UNCHANGED <<seen, served, keys, runDir, procKills, raced, alone>>

\* The health check of the main loop fails.
HealthCheck(p) ==
    /\ at[p] = "run"
    /\ contact # p \/ ~runDir
    /\ Goto(p, "remove keys")
    /\ UNCHANGED <<seen, announced, served, dirVars, procKills, raced, alone>>

\* The workflow is finished, was told to stop, or met an error.
StopScheduler(p) ==
    /\ at[p] = "run"
    /\ Goto(p, "remove keys")
    /\ alone' = IF alone = p THEN Nobody ELSE alone
    /\ UNCHANGED <<seen, announced, served, dirVars, procKills, raced>>

\* _shutdown, after the server has stopped: the keys, the database, and last of
\* all the contact file of a scheduler that had written one.
ShutDown(p) ==
    \/ /\ at[p] = "remove keys"
       /\ keys' = Nobody
       /\ Goto(p, "unlink")
       /\ UNCHANGED <<seen, announced, served, contact, runDir, procKills, raced, alone>>
    \/ /\ at[p] = "unlink"
       /\ contact' = IF p \in announced THEN Nobody ELSE contact
       /\ Goto(p, "exit")
       /\ UNCHANGED <<seen, announced, served, keys, runDir, procKills, raced, alone>>

---------------------------------------------------------------------------
(* cylc clean *)

CleanCheck(c) ==
    /\ c \in Cleans
    /\ at[c] = "idle" /\ runDir
    /\ Goto(c, "clean load")
    /\ alone' = Nobody
    /\ UNCHANGED <<seen, announced, served, dirVars, procKills, raced>>

\* clean, after remote_clean: the run directory goes with all that is in it.
Rmtree(c) ==
    /\ at[c] = "rmtree"
    /\ runDir' = FALSE /\ contact' = Nobody /\ keys' = Nobody
    /\ raced' = (raced \/ \E p \in Plays : Up(p))
    /\ Goto(c, "exit")
    /\ UNCHANGED <<seen, announced, served, procKills, alone>>

\* A process is killed, or its host is.
KillProcess(x) ==
    /\ Up(x) /\ procKills < MaxProcKills
    /\ procKills' = procKills + 1
    /\ Goto(x, "dead")
    /\ alone' = IF alone = x THEN Nobody ELSE alone
    /\ UNCHANGED <<seen, announced, served, dirVars, raced>>

---------------------------------------------------------------------------

\* The next step of a process that is running.
Step(x) ==
    \/ Answered(x) \/ NoKeys(x) \/ TimedOut(x) \/ Load(x) \/ Detect(x) \/ Rmtree(x)
    \/ x \in Plays /\ (Install(x) \/ Serve(x) \/ Dump(x) \/ HealthCheck(x) \/ ShutDown(x))

LNext ==
    \/ \E x \in Procs : Connect(x) \/ CleanCheck(x) \/ Step(x) \/ KillProcess(x)
    \/ \E p \in Plays : StopScheduler(p)

\* A process that is not killed takes its next step; the health check is run
\* again and again by the main loop.
LFairness == \A x \in Procs : WF_lvars(Step(x))

LSpec == LInit /\ [][LNext]_lvars /\ LFairness

---------------------------------------------------------------------------

Running(p) == at[p] = "run"

\* There is never more than one scheduler in its main loop, both writing the
\* one database and submitting jobs, and the contact file and the keys are its
\* own, so that its jobs and its users reach it.
OneScheduler ==
    \A p \in Plays : Running(p) =>
        /\ \A q \in Plays : Running(q) => q = p
        /\ contact = p
        /\ keys = served[p]

\* OneScheduler holds whatever is killed at whatever step, and whatever files
\* that leaves, except after a race: a play began while another was starting,
\* or had failed to start and was shutting down; a process removed as old the
\* contact file of a scheduler that had started meanwhile; or the directory was
\* cleaned under a play that began after the check.
OneSchedulerBut == ~raced => OneScheduler

\* After a race two schedulers do not run side by side for ever: the health
\* check ends one of them.
SecondSchedulerGoes ==
    []<>(\A p, q \in Plays : Running(p) /\ Running(q) => p = q)

\* A play that begins when no other process is about, whatever a previous
\* scheduler left when it was killed, comes to run unless it is disturbed.
Begun(p) == runDir /\ at[p] \in {"ping", "install"}
StartsAlone ==
    alone # Nobody /\ Begun(alone) ~> alone = Nobody \/ Running(alone)

\* StartsAlone, unless a contact file was left without the keys.
StartsAloneBut ==
    alone # Nobody /\ Begun(alone) /\ (at[alone] = "ping" => keys # Nobody)
        ~> alone = Nobody \/ Running(alone)

\* On its way to its main loop, or in it with its own contact file and keys.
OnCourse(p) == at[p] \in Starting \/ (Running(p) /\ contact = p /\ keys = served[p])

\* The safety part, also after races and for any leftovers: no step takes such a
\* play off its course, nor lets it run beside files that are not its own, but
\* the missing of the keys and what ends it as alone.
TakesOver ==
    [][alone # Nobody /\ alone' = alone /\ OnCourse(alone)
       /\ (at[alone] = "ping" => keys # Nobody) => OnCourse(alone)']_lvars
===========================================================================
