----------------------------- MODULE MCTaskPool -----------------------------
(***************************************************************************)
(* Small workflows for TaskPool.                                           *)
(***************************************************************************)
EXTENDS TaskPool, TLC

On(task, output, back) == [task |-> task, output |-> output, back |-> back]

\* A function from names, with a default.
Fill(f, default) == f @@ [n \in Names |-> default]

EveryPoint == Fill(<<>>, 1..FinalPoint)
NoSuicide == Fill(<<>>, {})
Success == Fill(<<>>, {{"succeeded"}})
EmitsSuccess == Fill(<<>>, {"succeeded"})

\* a? => b, b[-P1] => b: a is parentless everywhere, and may fail.
ChainRequires ==
    Fill([b |-> {{On("a", "succeeded", 0)}, {On("b", "succeeded", 1)}}], {})
ChainCompletion ==
    Fill([a |-> {{"succeeded"}, {"failed"}}], {{"succeeded"}})
ChainEmits == Fill([a |-> {"succeeded", "failed", "x"}], {"succeeded"})

\* a? => !r, a:fail? => r, a | r => c, c[-P1] => c: a may fail, r recovers, and
\* a that succeeds removes r; c may expire.
RecoveryRequires ==
    Fill([r |-> {{On("a", "failed", 0)}},
          c |-> {{On("a", "succeeded", 0), On("r", "succeeded", 0)},
                 {On("c", "succeeded", 1), On("c", "expired", 1)}}], {})
RecoverySuicide == Fill([r |-> {On("a", "succeeded", 0)}], {})
RecoveryCompletion ==
    Fill([a |-> {{"succeeded"}, {"failed"}}, c |-> {{"succeeded"}, {"expired"}}],
         {{"succeeded"}})
RecoveryEmits == Fill([a |-> {"succeeded", "failed"}], {"succeeded"})

\* a | b => c.
EitherRequires ==
    Fill([c |-> {{On("a", "succeeded", 0), On("b", "succeeded", 0)}}], {})
===========================================================================
