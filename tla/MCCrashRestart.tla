--------------------------- MODULE MCCrashRestart ---------------------------
(***************************************************************************)
(* CrashRestart for TLC: a => b => c, and c needs a as well.               *)
(***************************************************************************)
EXTENDS CrashRestart

MCParents == [a |-> {}, b |-> {"a"}, c |-> {"a", "b"}]
=============================================================================
