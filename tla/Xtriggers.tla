----------------------------- MODULE Xtriggers -----------------------------
(***************************************************************************)
(* External triggers (xtrigger_mgr.py), the subprocess pool that calls     *)
(* their functions, and the part of the main loop and of the task pool     *)
(* that they drive: one parentless task, with an instance at every point   *)
(* of 1..LastPoint, that waits on the xtriggers in Labels.                 *)
(*                                                                         *)
(* If one of the labels is sequential an instance is spawned when the      *)
(* sequential xtriggers of the one before it are satisfied, or when that   *)
(* one leaves the pool; if none is, instances are spawned out to the       *)
(* runahead limit.  The xtrigger functions share the pool with the         *)
(* commands that submit the jobs.                                          *)
(***************************************************************************)
EXTENDS ProcPool

CONSTANTS
    LastPoint,      \* the instances are at 1..LastPoint
    Runahead,       \* how far the pool may run ahead of its lowest point
    Labels,         \* the xtriggers of the task
    Sequential,     \* ... those that are sequential
    Clocks,         \* ... those that are clocks, checked on the spot
    Shared,         \* ... those whose arguments do not depend on the point
    Troubles,       \* the commands and faults of the run
    MaxTroubles     \* bound: how many of them

ASSUME XtrigAssumption ==
    /\ LastPoint \in Nat \ {0}
    /\ Runahead \in Nat
    /\ IsFiniteSet(Labels)
    /\ Sequential \subseteq Labels /\ Clocks \subseteq Labels
    /\ Shared \subseteq Labels
    /\ MaxTroubles \in Nat

VARIABLES
    task,           \* the state of each instance
    runahead,       \* the instances held back by the runahead limit
    held,           \* the instances held by the user
    xsat,           \* the instances and labels that are satisfied, as pairs
    sat_xtrig,      \* the signatures with a result
    active,         \* the signatures with a call under way
    t_next_call,    \* when a signature may be called again
    rows,           \* the xtriggers table of the run database
    world,          \* the signatures whose condition holds by now
    owed,           \* history: a result came while this instance waited for it
    launched,       \* history: submitted by a command that was not called back
    stop,           \* the stop mode, and how far the shutdown is
    troubles        \* how many commands and faults there were

xtrigVars == <<sat_xtrig, active, t_next_call, rows>>
taskVars == <<task, runahead, held, xsat>>
history == <<owed, launched>>
xvars == <<poolVars, xtrigVars, taskVars, world, history, stop, troubles>>

Points == 1..LastPoint
Sig(p, l) == <<l, IF l \in Shared THEN 0 ELSE p>>
Sigs == {Sig(p, l) : p \in Points, l \in Labels}
Pairs(ps, ls) == {<<p, l>> : p \in ps, l \in ls}
XCmd(sig) == [key |-> "xtrigger", id |-> sig]
SubmitCmd(p) == [key |-> "jobs-submit", id |-> <<"job", p>>]

\* The order in which one turn of the main loop puts its commands.
Order == SetToSeq({XCmd(s) : s \in Sigs}) \o [p \in Points |-> SubmitCmd(p)]

Pooled == {"waiting", "triggered", "queued", "preparing", "live", "failed"}
InTaskPool(p) == task[p] \in Pooled

\* Instances that spawn_task() makes: never spawned, or erased by `cylc remove`.
Spawnable == {"out", "removed"}

Spend(kind) ==
    /\ kind \in Troubles
    /\ troubles < MaxTroubles
    /\ troubles' = troubles + 1

XInit ==
    /\ PoolInit
    /\ task = [p \in Points |-> IF p = 1 THEN "waiting" ELSE "out"]
    /\ runahead = {1}
    /\ held = {}
    /\ xsat = {}
    /\ sat_xtrig = {}
    /\ active = {}
    /\ t_next_call = [s \in Sigs |-> "never"]
    /\ rows = {}
    /\ world = {}
    /\ owed = {}
    /\ launched = {}
    /\ stop = "none"
    /\ troubles = 0

-----------------------------------------------------------------------------
\* spawn_next_parentless() for every instance in ps.
NextOf(ps) == {p \in Points : p - 1 \in ps /\ task[p] \in Spawnable}

\* The signatures that a set of instances still waits for.
Wanted(ps, xs) == {Sig(x[1], x[2]) : x \in Pairs(ps, Labels) \ xs}

\* release_runahead_tasks(): the instances up to the limit are released.
Limit == Min({p \in Points : InTaskPool(p)}) + Runahead
RunaheadReleased == {p \in runahead : p <= Limit}

\* Which instances the main loop looks at: waiting, not queued, not runahead.
Eligible(p) == task[p] \in {"waiting", "triggered"} /\ p \notin runahead \ RunaheadReleased

\* The results that process() brings in, and the signatures it hears of.
Results(called) ==
    {c.cmd.id : c \in {x \in called : x.cmd.key = "xtrigger" /\ x.good}}

\* Mutant of Returned: a call that failed is not taken off the active ones.
ReturnedGood(called) == Results(called)

Returned(called) == {c.cmd.id : c \in {x \in called : x.cmd.key = "xtrigger"}}

\* The callback of the command that submits the job of an instance.
Submitted(called, p) ==
    IF [cmd |-> SubmitCmd(p), good |-> TRUE] \in called THEN "live"
    ELSE IF [cmd |-> SubmitCmd(p), good |-> FALSE] \in called THEN "failed"
    ELSE task[p]

\* The clocks of the instances of ps that have newly struck, as results.
Struck(ps) ==
    ({Sig(x[1], x[2]) : x \in Pairs(ps, Clocks) \ xsat} \cap world) \ sat_xtrig

\* Mutant of Needed: instances that cannot run yet do not count.
NeededReleased(ps, xs, sat) == sat \cap Wanted(ps \ runahead, xs)

\* housekeep(): the results that some instance in the pool still waits for.
Needed(ps, xs, sat) == sat \cap Wanted(ps, xs)

\* Mutant of CallNow: a call that is under way does not matter.
CallNowAnyway(ps, xs, sat, act) ==
    {s \in Wanted(ps, xs) : s[1] \notin Clocks /\ s \notin sat /\ t_next_call[s] # "wait"}

\* call_xtriggers_async(): the signatures to call now.
CallNow(ps, xs, sat, act) ==
    {s \in Wanted(ps, xs) :
        /\ s[1] \notin Clocks
        /\ s \notin sat \cup act
        /\ t_next_call[s] # "wait"}

\* What process() adds to the history.
Owing(results, fresh) ==
    owed \cup {x \in Pairs({p \in Points : InTaskPool(p)} \ fresh, Labels) :
                  Sig(x[1], x[2]) \in results}

Launches ==
    launched' = {p \in Points :
                    /\ task'[p] = "preparing"
                    /\ \/ p \in launched
                       \/ \E r \in Range(runnings') : r.cmd = SubmitCmd(p)}

\* can_stop(): a clean stop waits for the jobs, any other does not.  (Preparing
\* tasks are not waited for: they are reset to waiting on restart.)
CanStop ==
    \/ stop \in {"now", "nownow"}
    \/ stop = "clean" /\ \A p \in Points : task[p] # "live"

\* What process() brings in: the commands it calls back, the results known and
\* the signatures still active after it.
Returns(broken) ==
    LET called == Called(broken)
        elig == {p \in Points : Eligible(p)}
    IN  [called |-> called,
         results |-> Results(called) \cup Struck(elig),
         eligible |-> elig]

\* What the check of the xtriggers of every eligible instance leads to: the pairs
\* that are satisfied and the instances to spawn and to run.
Checks(r) ==
    LET sat == sat_xtrig \cup r.results
        xs == xsat \cup {x \in Pairs(r.eligible, Labels) : Sig(x[1], x[2]) \in sat}
        spawners == IF Sequential = {} THEN RunaheadReleased
                    ELSE {p \in r.eligible : Pairs({p}, Sequential) \subseteq xs}
    IN  [sat |-> sat,
         xs |-> {x \in xs : x[1] \notin NextOf(spawners)},
         calls |-> CallNow(r.eligible, xs, sat, active \ Returned(r.called)),
         fresh |-> NextOf(spawners),
         ready |-> {p \in r.eligible : Pairs({p}, Labels) \subseteq xs /\ p \notin held}
                   \cup {p \in Points : task[p] \in {"queued", "triggered"}}]

(***************************************************************************)
(* One turn of the main loop: runahead release, process() with its         *)
(* callbacks, the xtriggers of every eligible instance, the spawning of    *)
(* the next instances, queueing, housekeeping, and the release of queued   *)
(* and triggered instances to job submission.                              *)
(***************************************************************************)
MainLoop(broken) ==
    /\ IF broken # {} THEN Spend("broken") ELSE UNCHANGED troubles
    /\ stop \in {"none", "clean"} /\ ~CanStop
    /\ \E p \in Points : InTaskPool(p)
    /\ \E r \in {Returns(broken)} : \E c \in {Checks(r)} :
        \E kept \in {IF r.results = {} THEN c.sat
                     ELSE Needed({p \in Points : InTaskPool(p)} \cup c.fresh, c.xs, c.sat)} :
            /\ Process(broken,
                       Select(Order, {i \in DOMAIN Order :
                           \/ Order[i] \in {XCmd(s) : s \in c.calls}
                           \/ stop = "none" /\ Order[i] \in {SubmitCmd(p) : p \in c.ready}}))
            /\ task' = [p \in Points |->
                           IF p \in c.fresh THEN "waiting"
                           ELSE IF p \in c.ready
                                THEN IF stop = "none" THEN "preparing"
                                     ELSE IF task[p] = "waiting" THEN "queued" ELSE task[p]
                           ELSE Submitted(r.called, p)]
            /\ runahead' = (runahead \ RunaheadReleased) \cup c.fresh
            /\ xsat' = c.xs
            /\ sat_xtrig' = kept
            /\ active' = (active \ Returned(r.called)) \cup c.calls
            /\ t_next_call' = [s \in Sigs |-> IF s \in c.calls THEN "wait"
                                              ELSE IF s \in c.sat \ kept THEN "never"
                                              ELSE t_next_call[s]]
            /\ rows' = rows \cup r.results
            /\ owed' = Owing(Results(r.called), c.fresh) \ c.xs
    /\ Launches
    /\ UNCHANGED <<stopping, closed, held, world, stop>>

-----------------------------------------------------------------------------
\* The condition of a signature comes true; a call interval passes; a child
\* process ends, or runs out of time.
WorldAdvances(s) ==
    /\ s \notin world
    /\ world' = world \cup {s}
    /\ UNCHANGED <<poolVars, xtrigVars, taskVars, history, stop, troubles>>

IntervalPasses(s) ==
    /\ t_next_call[s] = "wait"
    /\ t_next_call' = [t_next_call EXCEPT ![s] = "due"]
    /\ UNCHANGED <<poolVars, sat_xtrig, active, rows, taskVars, world, history, stop,
                   troubles>>

\* Whether a running command can have done its work by now.
CanBeGood(i) ==
    runnings[i].cmd.key = "jobs-submit" \/ runnings[i].cmd.id \in world

ChildEnds(i) ==
    /\ \/ CanBeGood(i) /\ ProcExit(i, "good") /\ UNCHANGED troubles
       \/ ~CanBeGood(i) /\ ProcExit(i, "bad") /\ UNCHANGED troubles
       \/ CanBeGood(i) /\ ProcExit(i, "bad") /\ Spend("error")
    /\ UNCHANGED <<xtrigVars, taskVars, world, history, stop>>

ChildIsLate(i) ==
    /\ \/ ProcTimeout(i, "late")
       \/ CanBeGood(i) /\ ProcTimeout(i, "lategood")
    /\ Spend("timeout")
    /\ UNCHANGED <<xtrigVars, taskVars, world, history, stop>>

-----------------------------------------------------------------------------
\* remove(): an instance leaves the pool.  The next one is spawned first if the
\* instance is runahead limited or sequential.
LeavePool(p, gone) ==
    LET fresh == IF Sequential # {} \/ p \in runahead THEN NextOf({p}) ELSE {}
    IN  /\ task' = [q \in Points |-> IF q = p THEN gone
                                     ELSE IF q \in fresh THEN "waiting" ELSE task[q]]
        /\ runahead' = (runahead \ {p}) \cup fresh
        /\ held' = held \ {p}
        /\ xsat' = {x \in xsat : x[1] \notin fresh} \cup Pairs({p}, Labels)
        /\ owed' = {x \in owed : x[1] # p}

\* The job of an instance ends: the instance completes and leaves the pool, or
\* stays in it as incomplete.
JobEnds(p) ==
    /\ task[p] = "live"
    /\ stop \in {"none", "clean"}
    /\ \/ LeavePool(p, "done") /\ UNCHANGED troubles
       \/ /\ task' = [task EXCEPT ![p] = "failed"]
          /\ Spend("error")
          /\ UNCHANGED <<runahead, held, xsat, owed>>
    /\ UNCHANGED <<poolVars, xtrigVars, world, launched, stop>>

\* `cylc remove` of an instance that is not being submitted.
RemoveInstance(p) ==
    /\ stop = "none"
    /\ InTaskPool(p) /\ task[p] # "preparing"
    /\ LeavePool(p, "removed")
    /\ Spend("remove")
    /\ UNCHANGED <<poolVars, xtrigVars, world, launched, stop>>

\* `cylc set --pre=xtrigger/<label>`, and with :failed: the prerequisite of one
\* instance is satisfied or unsatisfied, the xtrigger itself is not touched.
ForceSatisfy(p, l) ==
    /\ stop = "none"
    /\ task[p] = "waiting"
    /\ xsat' = IF <<p, l>> \in xsat THEN xsat \ {<<p, l>>} ELSE xsat \cup {<<p, l>>}
    /\ owed' = owed \ {<<p, l>>}
    /\ Spend("set")
    /\ UNCHANGED <<poolVars, xtrigVars, task, runahead, held, world, launched, stop>>

\* `cylc trigger`: everything is satisfied, and the instance runs now or, if its
\* internal queue is full, waits in that queue.
Trigger(p, queue) ==
    /\ stop = "none"
    /\ task[p] \in {"waiting", "failed"}
    /\ task' = [task EXCEPT ![p] = queue]
    /\ xsat' = xsat \cup Pairs({p}, Labels)
    /\ owed' = {x \in owed : x[1] # p}
    /\ Spend("trigger")
    /\ UNCHANGED <<poolVars, xtrigVars, runahead, held, world, launched, stop>>

HoldOrRelease(p) ==
    /\ stop = "none"
    /\ task[p] = "waiting"
    /\ held' = IF p \in held THEN held \ {p} ELSE held \cup {p}
    /\ Spend("hold")
    /\ UNCHANGED <<poolVars, xtrigVars, task, runahead, xsat, world, history, stop>>

-----------------------------------------------------------------------------
\* `cylc stop`, in one of its modes: _set_stop().
Stop(mode) ==
    /\ stop = "none"
    /\ stop' = mode
    /\ stopping' = TRUE
    /\ Spend("stop")
    /\ UNCHANGED <<queuings, runnings, closed, xtrigVars, taskVars, world, history>>

\* workflow_shutdown() and _shutdown(): the pool is closed; unless the stop is
\* --now --now process() is called until the pool is empty; what is left of
\* it is then terminated.
CloseDown ==
    /\ CanStop
    /\ closed' = TRUE
    /\ IF stop = "nownow"
       THEN /\ Terminate
            /\ task' = [p \in Points |-> Submitted(Called({}), p)]
            /\ stop' = "killed"
            /\ Launches
       ELSE /\ stop' = "closing"
            /\ UNCHANGED <<queuings, runnings, stopping, task, launched>>
    /\ UNCHANGED <<xtrigVars, runahead, held, xsat, world, owed, troubles>>

WaitForPool ==
    LET called == Called({})
    IN  /\ stop = "closing"
        /\ IF InPool = {}
           THEN /\ Terminate
                /\ stop' = "down"
                /\ UNCHANGED <<task, sat_xtrig, active, rows, history>>
           ELSE /\ Process({}, <<>>)
                /\ task' = [p \in Points |-> Submitted(called, p)]
                /\ sat_xtrig' = sat_xtrig \cup Results(called)
                /\ active' = active \ Returned(called)
                /\ rows' = rows \cup Results(called)
                /\ owed' = Owing(Results(called), {}) \ xsat
                /\ Launches
                /\ UNCHANGED <<stopping, closed, stop>>
        /\ UNCHANGED <<t_next_call, runahead, held, xsat, world, troubles>>

\* A restart: the pool of tasks as it was saved, with the preparing ones back to
\* waiting, and every result that was ever recorded.
Restart ==
    /\ stop \in {"down", "killed"}
    /\ queuings' = <<>> /\ runnings' = <<>>
    /\ stopping' = FALSE /\ closed' = FALSE
    /\ task' = [p \in Points |->
                   IF task[p] \in {"preparing", "queued", "triggered"} THEN "waiting"
                   ELSE task[p]]
    /\ runahead' = {p \in Points : task'[p] = "waiting"}
    /\ sat_xtrig' = rows
    /\ active' = {}
    /\ t_next_call' = [s \in Sigs |-> "never"]
    /\ stop' = "none"
    /\ launched' = {}
    /\ UNCHANGED <<rows, held, xsat, world, owed, troubles>>

-----------------------------------------------------------------------------
MainLoops ==
    \/ MainLoop({})
    \/ \E c \in Range(queuings) : MainLoop({c})

Commands ==
    \/ \E p \in Points : RemoveInstance(p) \/ HoldOrRelease(p)
    \/ \E p \in Points, l \in Labels : ForceSatisfy(p, l)
    \/ \E p \in Points, queue \in {"triggered", "queued"} : Trigger(p, queue)
    \/ \E mode \in {"clean", "now", "nownow"} : Stop(mode)

Surroundings ==
    \/ \E s \in Sigs : WorldAdvances(s) \/ IntervalPasses(s)
    \/ \E i \in DOMAIN runnings : ChildEnds(i) \/ ChildIsLate(i)
    \/ \E p \in Points : JobEnds(p)

Shutdown == CloseDown \/ WaitForPool \/ Restart

XNext == MainLoops \/ Commands \/ Surroundings \/ Shutdown

\* The scheduler loops, and restarts are made; functions and jobs end, intervals
\* pass, and the conditions waited for come true.
XFairness ==
    /\ WF_xvars(MainLoop({}))
    /\ WF_xvars(Shutdown)
    /\ WF_xvars(\E s \in Sigs : WorldAdvances(s))
    /\ \A s \in Sigs : WF_xvars(IntervalPasses(s))
    /\ \A i \in 1..Size : WF_xvars(i \in DOMAIN runnings /\ ChildEnds(i))
    /\ \A p \in Points : WF_xvars(JobEnds(p))

XSpec == XInit /\ [][XNext]_xvars /\ XFairness

-----------------------------------------------------------------------------
\* What the variables hold; and the pool never runs more than Size commands.
XTypeOK ==
    /\ queuings \in Seq({XCmd(s) : s \in Sigs} \cup {SubmitCmd(p) : p \in Points})
    /\ \A r \in Range(runnings) : r.end \in {"live", "good", "bad", "late", "lategood"}
    /\ Len(runnings) <= Size
    /\ stopping \in BOOLEAN /\ closed \in BOOLEAN
    /\ task \in [Points -> Pooled \cup {"out", "done", "removed"}]
    /\ runahead \subseteq Points /\ held \subseteq Points
    /\ xsat \subseteq Points \X Labels
    /\ sat_xtrig \subseteq Sigs /\ active \subseteq Sigs /\ rows \subseteq Sigs
    /\ t_next_call \in [Sigs -> {"never", "wait", "due"}]
    /\ world \subseteq Sigs
    /\ owed \subseteq Points \X Labels /\ launched \subseteq Points
    /\ stop \in {"none", "clean", "now", "nownow", "closing", "down", "killed"}
    /\ troubles \in 0..MaxTroubles

\* While the scheduler is up a signature is active exactly if one call of it is
\* queued or running: no second call is made before the first returned, and no
\* signature stays active with no call to end it, whatever was killed, could not
\* be launched, timed out or was cut off by a restart (xtrigger_mgr.py: "A new
\* call will not be made before the previous one has returned").
OneCallAtATime ==
    stop \notin {"killed", "down"} =>
        \A s \in Sigs : CountInPool(XCmd(s)) = IF s \in active THEN 1 ELSE 0

\* A result is not forgotten while an instance that was in the pool when it came
\* still waits for it: neither housekeeping nor a restart loses it, also if
\* the instance was runahead limited and could not be told at the time.
ResultsKept ==
    stop \notin {"killed", "down"} =>
        \A x \in owed : Sig(x[1], x[2]) \in sat_xtrig

\* After a stop that waited for the process pool no job was submitted that the
\* scheduler does not know of: a job submission whose callback was not called
\* was not started.
NoJobForgotten == stop = "down" => launched = {}

\* Every instance gets its turn: its xtriggers are called until they succeed, its
\* job is submitted and it leaves the pool, with a pool of one process that all
\* of that goes through, unless it or one before it failed or was held.
EveryoneRuns ==
    \A p \in Points :
        <>(\/ task[p] \in {"done", "removed"}
           \/ \E q \in 1..p : task[q] = "failed" \/ q \in held)
=============================================================================
