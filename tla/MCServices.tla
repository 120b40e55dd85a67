----------------------------- MODULE MCServices -----------------------------
(***************************************************************************)
(* Three components that share no state, for TLC: xtriggers with the       *)
(* process pool, remote initialisation, and the start and end of           *)
(* schedulers.  In each behaviour one of them is at work and the others    *)
(* are over: they are in a state that has no next step.                    *)
(*                                                                         *)
(* Remote initialisation has two platforms, each with its install target,  *)
(* that share a host, and one of them has another host; a task on either,  *)
(* and one on the platform with one host, which may be live at a restart.  *)
(***************************************************************************)
EXTENDS Xtriggers, RemoteInit, Lifecycle

MCGroup == [a |-> {"p", "q"}, b |-> {"p"}]
MCHostsOf == [p |-> {"h1"}, q |-> {"h1", "h2"}]
MCTargetOf == [p |-> "g", q |-> "k"]
MCActive == [b |-> "p"]

\* Every instance was removed.
XOver ==
    /\ PoolInit
    /\ task = [p \in Points |-> "removed"]
    /\ runahead = {} /\ held = {} /\ xsat = {}
    /\ sat_xtrig = {} /\ active = {} /\ rows = {}
    /\ t_next_call = [s \in Sigs |-> "never"]
    /\ world = Sigs /\ owed = {} /\ launched = {}
    /\ stop = "none" /\ troubles = MaxTroubles

\* The scheduler died.
ROver ==
    /\ phase = "dead" /\ todo = {}
    /\ status = [t \in RTasks |-> "waiting"]
    /\ platform = [t \in RTasks |-> None]
    /\ job_prep = {} /\ job_file = {}
    /\ remote_init_map = [g \in Targets |-> None]
    /\ incomplete_ri_map = [g \in Targets |-> None]
    /\ bad_hosts = {} /\ bad_hosts_to_clear = {} /\ pool = <<>>
    /\ reloading = FALSE /\ files = 0 /\ there = [g \in Targets |-> -1]
    /\ overtaken = {} /\ used = {}

\* Every process was killed.
LOver ==
    /\ at = [x \in Procs |-> "dead"]
    /\ seen = [x \in Procs |-> Nobody]
    /\ announced = {} /\ served = [p \in Plays |-> Nobody]
    /\ contact = Nobody /\ keys = Nobody /\ runDir = TRUE
    /\ procKills = 0 /\ raced = FALSE /\ alone = Nobody

MCInit ==
    \/ XInit /\ ROver /\ LOver
    \/ XOver /\ RInit /\ LOver
    \/ XOver /\ ROver /\ LInit

MCNext ==
    \/ XNext /\ UNCHANGED <<rvars, lvars>>
    \/ RNext /\ UNCHANGED <<xvars, lvars>>
    \/ LNext /\ UNCHANGED <<xvars, rvars>>

MCSpec ==
    /\ MCInit
    /\ [][MCNext]_<<xvars, rvars, lvars>>
    /\ XFairness /\ RFairness /\ LFairness
=============================================================================
