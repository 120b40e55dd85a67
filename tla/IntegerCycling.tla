--------------------------- MODULE IntegerCycling ---------------------------
(***************************************************************************)
(* The recurrences of integer cycling (cycling/integer.py), and the walk   *)
(* of a task without parents over the points of its recurrences            *)
(* (TaskDef.next_point_parentless), by which the pool spawns it.           *)
(*                                                                         *)
(* A recurrence is given after the text was matched:                       *)
(*    fmt 3, Rn/START/INTV: at is START, fmt 4, Rn/INTV/END: at is END;    *)
(*    reps is 0 if n was left out, intv is 0 if INTV was.                  *)
(* START and END left out are the initial and the final point.  Rn/START/  *)
(* END with n > 1 never gets here: its step is a float and not parsed.     *)
(* excl has the excluded points, however they were given.                  *)
(***************************************************************************)
EXTENDS Integers, FiniteSets, FiniteSetsExt

CONSTANTS
    Icp, Fcp,      \* the initial and the final cycle point
    Ats,           \* the points that START and END may be
    MaxReps, MaxIntv,
    MaxExcluded,   \* bound on the number of excluded points
    NoPoint        \* None

ASSUME CyclingAssumption ==
    /\ Icp \in Int /\ Fcp \in Int /\ Icp <= Fcp
    /\ Ats \subseteq Int
    /\ MaxReps \in Nat /\ MaxIntv \in Nat /\ MaxExcluded \in Nat
    /\ NoPoint \notin Int

Cycles == Icp..Fcp

Recurrences ==
    {r \in [fmt : {3, 4}, reps : 0..MaxReps, at : Ats, intv : 0..MaxIntv,
            excl : {x \in SUBSET Cycles : Cardinality(x) <= MaxExcluded}] :
        /\ r.intv = 0 => r.reps = 1
        /\ r.reps = 1 => r.excl = {}}

VARIABLES
    recs,     \* the recurrences of the task, one or two
    now,      \* the cycle point of the latest instance, or NoPoint at the end
    visited   \* the points where the task was spawned

cycVars == <<recs, now, visited>>
-----------------------------------------------------------------------------
(* IntegerSequence.__init__. *)

\* The first and last points and the step, 0 for a one-off.
OneOff(r) == r.intv = 0 \/ r.reps = 1
Unclipped(r) ==
    IF OneOff(r) THEN [start |-> r.at, stop |-> r.at, step |-> 0]
    ELSE IF r.fmt = 3
    THEN [start |-> r.at, step |-> r.intv,
          stop |-> IF r.reps > 0 THEN r.at + r.intv * (r.reps - 1)
                                 ELSE Fcp - ((Fcp - r.at) % r.intv)]
    ELSE [stop |-> r.at, step |-> r.intv,
          start |-> IF r.reps > 0 THEN r.at - r.intv * (r.reps - 1)
                                  ELSE Icp - ((Fcp - Icp) % r.intv)]

ClipStart(s) ==
    IF s.step # 0 /\ s.start < Icp
    THEN [s EXCEPT !.start = Icp + ((Icp - s.start) % s.step)]
    ELSE s
ClipStop(s) ==
    IF s.step # 0 /\ s.stop > Fcp
    THEN [s EXCEPT !.stop = Fcp - s.step + ((Fcp - s.start) % s.step)]
    ELSE s

SequenceOf(r) ==
    LET s == ClipStop(ClipStart(Unclipped(r)))
    IN  [start |-> s.start, stop |-> s.stop, step |-> s.step, excl |-> r.excl]
-----------------------------------------------------------------------------
(* Queries. *)

InBounds(s, p) == IF s.start <= p /\ p <= s.stop THEN p ELSE NoPoint
IsOnSequence(s, p) ==
    /\ p \notin s.excl
    /\ IF s.step = 0 THEN p = s.start ELSE (p - s.start) % s.step = 0
IsValid(s, p) == IsOnSequence(s, p) /\ InBounds(s, p) = p

\* Mutant of GetNextPoint: an excluded point ends the sequence.
GetNextPointUpToExcluded(s, p) ==
    IF s.step = 0 THEN IF p < s.start THEN s.start ELSE NoPoint
    ELSE LET q == InBounds(s, p + s.step - ((p - s.start) % s.step))
         IN  IF q \in s.excl THEN NoPoint ELSE q

GetNextPoint(s, p) ==
    LET Next[k \in Int] ==
          LET q == InBounds(s, k + s.step - ((k - s.start) % s.step))
          IN  IF q \in s.excl THEN Next[q] ELSE q
    IN  IF s.step = 0 THEN IF p < s.start THEN s.start ELSE NoPoint
                      ELSE Next[p]

GetNextPointOnSequence(s, p) ==
    LET Next[k \in Int] ==
          LET q == InBounds(s, k + s.step)
          IN  IF q \in s.excl THEN Next[q] ELSE q
    IN  IF s.step = 0 THEN NoPoint ELSE Next[p]

GetPrevPoint(s, p) ==
    LET Prev[k \in Int] ==
          LET back == (k - s.start) % s.step
              q == InBounds(s, k - (IF back = 0 THEN s.step ELSE back))
          IN  IF q \in s.excl THEN Prev[q] ELSE q
    IN  IF s.step = 0 THEN NoPoint ELSE Prev[p]

\* Mutant of GetFirstPoint: the first point may be excluded.
GetFirstPointAnyway(s, p) ==
    IF p <= s.start THEN InBounds(s, s.start)
    ELSE IF IsOnSequence(s, p) THEN InBounds(s, p)
    ELSE GetNextPoint(s, p)

GetFirstPoint(s, p) ==
    LET q == IF p <= s.start THEN InBounds(s, s.start)
             ELSE IF IsOnSequence(s, p) THEN InBounds(s, p)
             ELSE GetNextPoint(s, p)
    IN  IF q \in s.excl THEN GetNextPointOnSequence(s, q) ELSE q

\* The loop from the first point; it never returns if that point is excluded.
GetNearestPrevPoint(s, p) ==
    LET Walk[k \in Int] ==
          LET q == GetNextPoint(s, k)
          IN  IF q = NoPoint \/ q > p THEN k ELSE Walk[q]
    IN  IF IsOnSequence(s, p) THEN GetPrevPoint(s, p)
        ELSE IF InBounds(s, s.start) = NoPoint \/ s.start > p THEN NoPoint
        ELSE Walk[s.start]
-----------------------------------------------------------------------------
(* TaskDef.next_point_parentless, for a task without parents. *)

Earliest(points) ==
    IF points \subseteq {NoPoint} THEN NoPoint ELSE Min(points \ {NoPoint})
FirstCycle == Earliest({GetFirstPoint(SequenceOf(r), Icp) : r \in recs})
NextCycle == Earliest({GetNextPoint(SequenceOf(r), now) : r \in recs})

CycInit ==
    /\ \E r, q \in Recurrences : q.excl = {} /\ recs = {r, q}
    /\ now = FirstCycle
    /\ visited = {}

\* The pool spawns the task and goes on to its next point.
SpawnAndGoOn ==
    /\ now # NoPoint
    /\ visited' = visited \cup {now}
    /\ now' = NextCycle
    /\ recs' = recs

CycSpec == CycInit /\ [][SpawnAndGoOn]_cycVars
-----------------------------------------------------------------------------
(* Properties. *)

\* What a recurrence stands for, as the comments at the head of the file say:
\* "start at START, keep adding INTV (if n, only for n points)", "start at END, keep
\* subtracting INTV", between the initial and the final point; without n, as often
\* as fits before the other end of the cycles even if INTV is 1.
Written(r) ==
    LET many == IF OneOff(r) THEN 0
                ELSE IF r.reps > 0 THEN r.reps - 1
                ELSE IF r.fmt = 3 THEN Fcp - r.at ELSE r.at - Icp
        sign == IF r.fmt = 3 THEN 1 ELSE -1
    IN  ({r.at + sign * k * r.intv : k \in 0..many} \cap Cycles) \ r.excl

\* Recurrences that leave the initial or the final point behind, or that count
\* back from another END than the final point without a number of repetitions:
\* their new bounds are wrong.
Misplaced(r) ==
    \/ Unclipped(r).start < Icp /\ ~ (r.fmt = 4 /\ r.reps = 0)
    \/ Unclipped(r).stop > Fcp
    \/ r.fmt = 4 /\ r.reps = 0 /\ r.at # Fcp

\* The points of the sequence made of a recurrence are those that are written,
\* and every query agrees about them: the next one, the previous one, the first
\* from a point on, the nearest before a point on no sequence.  Not for the
\* recurrences of Misplaced; not the nearest one if the first point is excluded.
SequenceAsWrittenBut ==
    \A r \in recs : ~ Misplaced(r) =>
        LET s == SequenceOf(r)
            all == Written(r)
            Least(q) == IF q = {} THEN NoPoint ELSE Min(q)
            Most(q) == IF q = {} THEN NoPoint ELSE Max(q)
        IN  /\ {p \in Cycles : IsValid(s, p)} = all
            /\ \A p \in Cycles :
                 /\ GetFirstPoint(s, p) = Least({q \in all : q >= p})
                 /\ p >= s.start => GetNextPoint(s, p) = Least({q \in all : q > p})
                 /\ p <= s.stop /\ s.step # 0 =>
                        GetPrevPoint(s, p) = Most({q \in all : q < p})
                 /\ s.start \notin s.excl /\ p <= s.stop /\ s.step # 0 =>
                        GetNearestPrevPoint(s, p) = Most({q \in all : q < p})

Due == {p \in Cycles : \E r \in recs : IsValid(SequenceOf(r), p)}

\* A task without parents is spawned at every point of its recurrences ("the first
\* parentless cycle > point", next_point_parentless).
EveryCycleSpawned == now = NoPoint => visited \cap Cycles = Due

\* A recurrence that begins more than a step after an earlier point of the task.
BeginsLate(r) ==
    LET s == SequenceOf(r) IN s.step # 0 /\ \E p \in Due : p < s.start - s.step

\* The same unless a recurrence of the task begins late: get_next_point takes a
\* point more than a step before its start to be out of bounds.
EveryCycleSpawnedBut == EveryCycleSpawned \/ \E r \in recs : BeginsLate(r)
=============================================================================
