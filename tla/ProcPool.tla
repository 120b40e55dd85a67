------------------------------ MODULE ProcPool ------------------------------
(***************************************************************************)
(* The subprocess pool (subprocpool.py): commands wait in a first-in       *)
(* first-out queue, at most Size of them run at a time, and the callback   *)
(* of a command is called by the process() that finds it gone.             *)
(*                                                                         *)
(* A command is a record with a key, "jobs-submit" or another, and the id  *)
(* its owner knows it by.  A child process is "live", has ended "good" or  *)
(* "bad", or is over its time limit and not ended: "late", or "lategood"   *)
(* if its work was done and said so before.                                *)
(***************************************************************************)
EXTENDS Integers, Sequences, SequencesExt, FiniteSets, FiniteSetsExt, Selections

CONSTANT
    \* [scheduler]process pool size
    Size

ASSUME SizeAssumption == Size \in Nat \ {0}

VARIABLES
    queuings,   \* commands that wait for a place, in the order they were put
    runnings,   \* the running commands: [cmd, end]
    stopping,   \* no more job submission
    closed      \* no more commands at all

poolVars == <<queuings, runnings, stopping, closed>>

\* Mutant of InPool: what runs is not waited for.
InPoolQueued == Range(queuings)

InPool == Range(queuings) \cup {r.cmd : r \in Range(runnings)}

CountInPool(cmd) ==
    Cardinality({i \in DOMAIN queuings : queuings[i] = cmd})
    + Cardinality({i \in DOMAIN runnings : runnings[i].cmd = cmd})

PoolInit ==
    /\ queuings = <<>>
    /\ runnings = <<>>
    /\ stopping = FALSE
    /\ closed = FALSE

-----------------------------------------------------------------------------
\* The environment: a child process ends, in its time or after it, or the time
\* limit of the pool passes while it runs.
ProcExit(i, end) ==
    /\ runnings[i].end \notin {"good", "bad"}
    /\ runnings' = [runnings EXCEPT ![i].end = end]
    /\ UNCHANGED <<queuings, stopping, closed>>

ProcTimeout(i, end) ==
    /\ runnings[i].end = "live"
    /\ runnings' = [runnings EXCEPT ![i].end = end]
    /\ UNCHANGED <<queuings, stopping, closed>>

-----------------------------------------------------------------------------
\* A job submission that is taken off the queue of a stopping pool is dropped:
\* its callback is not called.
Dropped(cmd) == stopping /\ cmd.key = "jobs-submit"

\* How many of the first n queued commands take a place in the pool.  A command
\* in broken cannot be launched (OSError): it ends at once and takes none.
Places(n, broken) ==
    Cardinality({i \in 1..n : ~Dropped(queuings[i]) /\ queuings[i] \notin broken})

\* The positions of the running commands that process() leaves running.
Lasting == {i \in DOMAIN runnings : runnings[i].end = "live"}

\* How many commands are taken off the queue: those before which there was still
\* a free place.
Taken(broken) ==
    Cardinality({n \in 1..Len(queuings) :
                    Places(n - 1, broken) < Size - Cardinality(Lasting)})

\* The commands whose callback process() calls, and whether they did their work:
\* the children that are gone, those over their time, which it kills, and those
\* that could not be launched.
Called(broken) ==
    LET gone == {r \in Range(runnings) : r.end # "live"}
        unlaunched == {c \in {queuings[i] : i \in 1..Taken(broken)} :
                            c \in broken /\ ~Dropped(c)}
    IN  {[cmd |-> r.cmd, good |-> r.end \in {"good", "lategood"}] : r \in gone}
        \cup {[cmd |-> c, good |-> FALSE] : c \in unlaunched}

\* put_command(): a closed pool takes nothing, and a stopping one no job
\* submission; what is refused is called back with RET_CODE_WORKFLOW_STOPPING.
Put(cmds) == Select(cmds, {i \in DOMAIN cmds : ~closed /\ ~Dropped(cmds[i])})

\* process(), with the commands that its callbacks and the rest of the main
\* loop put after it.
Process(broken, put) ==
    LET n == Taken(broken)
        started == Select(queuings, {i \in 1..n : /\ ~Dropped(queuings[i])
                                                  /\ queuings[i] \notin broken})
    IN  /\ runnings' = Select(runnings, Lasting)
                       \o [i \in DOMAIN started |-> [cmd |-> started[i], end |-> "live"]]
        /\ queuings' = SubSeq(queuings, n + 1, Len(queuings)) \o Put(put)

\* terminate(): the queue is drained without callbacks, the children are killed
\* and process() runs once more; a child that is not seen dead by then is left.
Terminate ==
    /\ stopping' = TRUE
    /\ closed' = TRUE
    /\ queuings' = <<>>
    /\ runnings' = Select(runnings, Lasting)
=============================================================================
