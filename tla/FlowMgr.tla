------------------------------ MODULE FlowMgr -------------------------------
(***************************************************************************)
(* Flow numbers (flow_mgr.py): a counter for new flows, numbers that users *)
(* choose, and what a restart loads of them.                               *)
(*                                                                         *)
(* A flow is given out by a command (trigger or set) whose tasks then are  *)
(* in the pool with that flow number; it leaves the pool with the last     *)
(* task that has it.                                                       *)
(***************************************************************************)
EXTENDS Integers, FiniteSets, FiniteSetsExt

CONSTANTS MaxFlow,      \* bound on flow numbers
          MaxRestarts   \* bound on restarts

ASSUME FlowAssumption == MaxFlow \in Nat \ {0} /\ MaxRestarts \in Nat

VARIABLES
    flows,      \* FlowMgr.flows: the numbers that are known
    counter,    \* FlowMgr.counter
    recorded,   \* table workflow_flows
    inPool,     \* the flow numbers of the tasks in the pool
    restarts

fvars == <<flows, counter, recorded, inPool, restarts>>

\* The original flow.
FInit ==
    /\ flows = {1} /\ counter = 1 /\ recorded = {1} /\ inPool = {1}
    /\ restarts = 0

\* get_flow records a number that is not known.
Known(n) ==
    /\ flows' = flows \cup {n}
    /\ recorded' = recorded \cup {n}
    /\ inPool' = inPool \cup {n}
    /\ UNCHANGED restarts

\* get_flow, without a number: the next one that is not known.
NewNumber == CHOOSE n \in (counter + 1)..(MaxFlow + 1) :
                 /\ n \notin flows
                 /\ \A k \in (counter + 1)..(n - 1) : k \in flows

NewFlow ==
    /\ NewNumber <= MaxFlow
    /\ counter' = NewNumber
    /\ Known(NewNumber)

\* get_flow, with a number.
GivenFlow(n) == Known(n) /\ UNCHANGED counter

FlowEnds(n) ==
    /\ n \in inPool
    /\ inPool' = inPool \ {n}
    /\ UNCHANGED <<flows, counter, recorded, restarts>>

\* Mutant of LoadedCounter: the highest of the flows that are loaded.
LoadedCounterOfPool == Max(inPool \cup {0})

\* select_workflow_flows_max_flow_num.
LoadedCounter == Max(recorded)

\* load_from_db.
RestartFlows ==
    /\ restarts < MaxRestarts
    /\ counter' = LoadedCounter
    /\ flows' = recorded \cap inPool
    /\ restarts' = restarts + 1
    /\ UNCHANGED <<recorded, inPool>>

FNext == \/ NewFlow \/ RestartFlows
         \/ \E n \in 1..MaxFlow : GivenFlow(n) \/ FlowEnds(n)

FSpec == FInit /\ [][FNext]_fvars
-----------------------------------------------------------------------------
(* Properties. *)

\* A new flow gets a number that no flow of this workflow ever had, whatever
\* numbers users chose before, and whatever flows were over at a restart.
NewIsNew == [][counter' # counter /\ restarts' = restarts
               => counter' \notin recorded]_fvars
=============================================================================
