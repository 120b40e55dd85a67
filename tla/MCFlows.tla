------------------------------ MODULE MCFlows ------------------------------
(***************************************************************************)
(* Flows for TLC: a => b => c, and c needs the custom output x of a.       *)
(***************************************************************************)
EXTENDS Flows

MCNeeds ==
    [a |-> {}, b |-> {<<"a", "succeeded">>},
     c |-> {<<"a", "x">>, <<"b", "succeeded">>}]
===========================================================================
