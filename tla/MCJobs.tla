------------------------------- MODULE MCJobs -------------------------------
(***************************************************************************)
(* Two models that share no state, for TLC: one task and its jobs, and a   *)
(* scheduler that is killed.  In each behaviour one of them is at work and *)
(* the other is over: it is in a state that has no next step.              *)
(***************************************************************************)
EXTENDS TaskJob, MCCrashRestart

\* The first job of the task failed, and there is no retry left.
JobOver ==
    /\ itask = [status |-> "failed", num |-> 1, held |-> FALSE, exec |-> 0,
                sub |-> 0, done |-> {"submitted", "started", "failed"},
                timer |-> NoTimer]
    /\ job = [n \in Nums |-> IF n = 1
                            THEN [st |-> "gone", file |-> [NoFile EXCEPT !.exit = "ERR"]]
                            ELSE [st |-> "none", file |-> NoFile]]
    /\ net = [n \in Nums |-> <<>>]
    /\ cmds = {}
    /\ troubles = MaxTroubles /\ restarted = FALSE

\* Every task ran, and the workflow is complete.
CrashOver ==
    LET tables == [state |-> Fresh("succeeded"), snum |-> Fresh(1),
                   outs |-> Fresh({"submitted", "succeeded"}),
                   pool |-> Fresh("none"), pre |-> Fresh({}), forced |-> {}]
    IN  /\ mem = [pool |-> Fresh("none"), snum |-> Fresh(0), sat |-> Fresh({}),
                  forced |-> {}, submit |-> Fresh("none")]
        /\ queued = tables /\ db = tables
        /\ phase = "over"
        /\ target \in {CHOOSE t \in CTasks : TRUE}
        /\ live = {} /\ done = CTasks \X {1} /\ ran = CTasks
        /\ split = FALSE /\ torn = FALSE
        /\ kills = 0 /\ triggers = 0

MCInit ==
    \/ Init /\ CrashOver
    \/ JobOver /\ CInit

MCNext ==
    \/ Next /\ UNCHANGED cvars
    \/ CNext /\ UNCHANGED vars

MCSpec ==
    /\ MCInit
    /\ [][MCNext]_<<vars, cvars>>
    /\ Fairness /\ CFairness
=============================================================================
