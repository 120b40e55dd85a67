------------------------------ MODULE MCStall ------------------------------
(***************************************************************************)
(* Two models that share no state, for TLC, one of them in each behaviour: *)
(* the task pool, and the judgement of the main loop on the workflow.      *)
(*                                                                         *)
(* The main loop judges a workflow of a => c with b, and one of a & b => c *)
(* with b beyond the stop point.                                           *)
(***************************************************************************)
EXTENDS MCTaskPool, Stall

VARIABLE part   \* the model that a behaviour is about

MCWorkflows ==
    {[needs |-> [a |-> {}, b |-> {}, c |-> {"a"}], beyond |-> {}],
     [needs |-> [a |-> {}, b |-> {}, c |-> {"a", "b"}], beyond |-> {"b"}]}

\* The state of the model that a behaviour is not about is one initial state.
OneWorkflow ==
    /\ workflow = CHOOSE w \in Workflows : TRUE
    /\ abort_on_stall = TRUE

MCInit ==
    /\ Init /\ SInit
    /\ part \in {"pool", "stall"}
    /\ part = "pool" => OneWorkflow

MCNext ==
    \/ part = "pool" /\ Next /\ UNCHANGED <<part, stallVars>>
    \/ part = "stall" /\ SNext /\ UNCHANGED <<part, vars>>

MCSpec ==
    /\ MCInit
    /\ [][MCNext]_<<part, vars, stallVars>>
    /\ SFairness
=============================================================================
