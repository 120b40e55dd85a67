------------------------------ MODULE Dataflow ------------------------------
(***************************************************************************)
(* What a workflow promises, without a task pool: every task instance of   *)
(* the graph begins at most once, only after outputs that satisfy its      *)
(* prerequisites, and completes outputs only once it has begun.            *)
(***************************************************************************)
EXTENDS CylcGraph

VARIABLES
    begun,   \* instances that were submitted, or skipped by expiring
    done     \* <<instance, output>> of the completed outputs

flow == <<begun, done>>

Init == begun = {} /\ done = {}

Begin(i) ==
    /\ i \notin begun
    /\ Satisfied(i, done)
    /\ begun' = begun \cup {i}
    /\ UNCHANGED done

\* Clock-expiry does not wait for the prerequisites.
Expire(i) ==
    /\ i \notin begun
    /\ begun' = begun \cup {i}
    /\ done' = done \cup {<<i, "expired">>}

Complete(i, output) ==
    /\ i \in begun
    /\ <<i, output>> \notin done
    /\ done' = done \cup {<<i, output>>}
    /\ UNCHANGED begun

Next ==
    \E i \in Inst :
        Begin(i) \/ Expire(i) \/ \E output \in Outputs : Complete(i, output)

Spec == Init /\ [][Next]_flow
===========================================================================
