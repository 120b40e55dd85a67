------------------------------ MODULE MCParts ------------------------------
(***************************************************************************)
(* Seven components that share no state, for TLC, one of them in each      *)
(* behaviour: the release of tasks from a queue, the configuration of the  *)
(* queues, the broadcasts, the flow numbers, the flows in the pool, the    *)
(* window of the data store, and the recurrences of integer cycling.       *)
(***************************************************************************)
EXTENDS QueueRelease, QueueConfig, Broadcasts, FlowMgr, MCFlows,
        DataStore, IntegerCycling

VARIABLE part   \* the component that a behaviour is about

\* A family F of two tasks, nested in a family G of all.
MCDescendants == [F |-> {"t1", "t2"}, G |-> {"F", "t1", "t2", "t3"}]
MCAncestry == <<"task", "root">>
MCWindowGraph == {<<"a", "b">>, <<"b", "c">>, <<"c", "d">>}

Rest == <<relVars, vars, bvars, fvars, gvars, dvars, cycVars>>

\* The state of a component that a behaviour is not about is one initial state.
IdleRelease ==
    /\ deque0 = <<>> /\ limit = 0 /\ active0 = 0 /\ isHeld = {}
    /\ deque = <<>> /\ nActive = 0 /\ released = <<>> /\ held = <<>> /\ pc = "pop"
IdleConfig ==
    /\ config = [q \in Custom |-> {}]
    /\ members = [q \in QueueNames |-> IF q = Default THEN Tasks ELSE {}]
    /\ seen = [t \in Tasks |-> None]
    /\ next = 1
IdleCycling == recs = {} /\ now = NoPoint /\ visited = {}

MCInit ==
    /\ BInit /\ FInit /\ GInit
    /\ \/ part = "release" /\ RelInit /\ IdleConfig
       \/ part = "config" /\ IdleRelease /\ Init
       \/ part \in {"broadcasts", "flow numbers", "flows", "window", "cycling"}
          /\ IdleRelease /\ IdleConfig
    /\ DInit /\ (part = "window" \/ extent = MaxExtent)
    /\ IF part = "cycling" THEN CycInit ELSE IdleCycling

MCNext ==
    /\ part' = part
    /\ \/ part = "release" /\ RelNext /\ UNCHANGED <<vars, bvars, fvars, gvars, dvars, cycVars>>
       \/ part = "config" /\ Next /\ UNCHANGED <<relVars, bvars, fvars, gvars, dvars, cycVars>>
       \/ part = "broadcasts" /\ BNext /\ UNCHANGED <<relVars, vars, fvars, gvars, dvars, cycVars>>
       \/ part = "flow numbers" /\ FNext /\ UNCHANGED <<relVars, vars, bvars, gvars, dvars, cycVars>>
       \/ part = "flows" /\ GNext /\ UNCHANGED <<relVars, vars, bvars, fvars, dvars, cycVars>>
       \/ part = "window" /\ DNext /\ UNCHANGED <<relVars, vars, bvars, fvars, gvars, cycVars>>
       \/ part = "cycling" /\ SpawnAndGoOn /\ UNCHANGED <<relVars, vars, bvars, fvars, gvars, dvars>>

MCSpec == MCInit /\ [][MCNext]_<<part, Rest>>
===========================================================================
