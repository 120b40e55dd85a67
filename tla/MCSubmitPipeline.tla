------------------------- MODULE MCSubmitPipeline -------------------------
(***************************************************************************)
(* Two tasks for SubmitPipeline, in one queue, whose jobs go to one        *)
(* platform and share its submit commands, or to two.                      *)
(***************************************************************************)
EXTENDS SubmitPipeline

CONSTANTS t1, t2, qa

TwoTasks == {t1, t2}
OneQueue == {qa}
AllInOne == [t \in TwoTasks |-> qa]
LimitOne == [q \in OneQueue |-> 1]
LimitTwo == [q \in OneQueue |-> 2]
OnePlatform == [t \in TwoTasks |-> "p"]
TwoPlatforms == [t \in TwoTasks |-> IF t = t1 THEN "p" ELSE "q"]
===========================================================================
