----------------------------- MODULE CylcGraph -----------------------------
(***************************************************************************)
(* The graph of a cycling workflow, as TaskDef and TaskTrigger present it  *)
(* to the task pool (taskdef.py, task_trigger.py): task instances, their   *)
(* prerequisites, the children of an output, and the parentless instances  *)
(* that the pool must spawn by itself.                                     *)
(*                                                                         *)
(* An instance is a pair <<name, cycle point>>, points are integers and    *)
(* the initial point is 1.  A trigger is a record: an output of a task,    *)
(* back cycle points earlier.  Triggers on later cycle points, absolute    *)
(* triggers and warm starts are not covered.                               *)
(***************************************************************************)
EXTENDS Integers, FiniteSets, FiniteSetsExt

CONSTANTS
    Names,       \* task names
    FinalPoint,  \* final cycle point
    Points,      \* the cycle points of each name, one recurrence each
    Custom,      \* custom outputs
    Requires,    \* the prerequisites of a name, each a set of triggers one of
                 \* which satisfies it
    SuicideOn,   \* the triggers that together remove the instance
    Completion   \* the sets of outputs, any of which completes the task

FinalStatus == {"succeeded", "failed", "expired"}
Outputs == FinalStatus \cup Custom

Trigger == [task : Names, output : Outputs, back : Nat]

ASSUME GraphAssumption ==
    /\ FinalPoint \in Nat
    /\ Points \in [Names -> SUBSET (1..FinalPoint)]
    /\ \E n \in Names : Points[n] # {}
    /\ Requires \in [Names -> SUBSET SUBSET Trigger]
    /\ SuicideOn \in [Names -> SUBSET Trigger]
    /\ Completion \in [Names -> SUBSET SUBSET Outputs]

Inst ==
    {i \in {<<n, p>> : n \in Names, p \in 1..FinalPoint} : i[2] \in Points[i[1]]}

\* The cycle points of the workflow's sequences.
AllPoints == {p \in 1..FinalPoint : \E n \in Names : p \in Points[n]}

\* An output of an instance, as the key of a prerequisite.
Key == Inst \X Outputs

\* A key that a trigger may name, off the sequences of its task or not.
AnyKey == (Names \X Int) \X Outputs

\* Dependency.get_prerequisite: dependence on a point before the initial one is
\* satisfied from the start.
IsPreInitial(i, trg) == i[2] - trg.back < 1

KeyOf(i, trg) == <<<<trg.task, i[2] - trg.back>>, trg.output>>

\* The prerequisites of i hold when the keys K are satisfied.
Satisfied(i, K) ==
    \A clause \in Requires[i[1]] :
        \E trg \in clause : IsPreInitial(i, trg) \/ KeyOf(i, trg) \in K

\* suicide_prerequisites_all_satisfied, for a task that has any.
SuicideSatisfied(i, K) ==
    /\ SuicideOn[i[1]] # {}
    /\ \A trg \in SuicideOn[i[1]] : IsPreInitial(i, trg) \/ KeyOf(i, trg) \in K

\* generate_graph_children, for one output.
Children(i, output) ==
    {c \in Inst : \E trg \in (UNION Requires[c[1]]) \cup SuicideOn[c[1]] :
                      KeyOf(c, trg) = <<i, output>>}

\* TaskDef.is_parentless: no parent, or only pre-initial ones.
IsParentless(i) == \A trg \in UNION Requires[i[1]] : IsPreInitial(i, trg)

\* The first of the points P of name, if it is parentless.
ParentlessAt(name, P) ==
    {i \in Inst : /\ i[1] = name /\ i[2] \in P
                  /\ \A p \in P : i[2] <= p
                  /\ IsParentless(i)}

\* TaskDef.next_point_parentless, from the start point and after an instance:
\* the next point of the recurrence, and not the next parentless one.
FirstParentless(name) == ParentlessAt(name, Points[name])
NextParentless(i) == ParentlessAt(i[1], {p \in Points[i[1]] : p > i[2]})

\* TaskOutputs.is_complete.
IsComplete(i, completed) == \E S \in Completion[i[1]] : S \subseteq completed
===========================================================================
