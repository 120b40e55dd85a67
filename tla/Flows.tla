-------------------------------- MODULE Flows --------------------------------
(***************************************************************************)
(* Several flows in one task pool: merging, flow-wait and no-flow tasks,   *)
(* what the history in the run database means for a flow that arrives      *)
(* later (task_pool.py, workflow_db_mgr.py, rundb.py), and the trigger and *)
(* remove commands on groups of tasks (commands.py).                       *)
(*                                                                         *)
(* One cycle point, AND-prerequisites, no queue limits, no xtriggers, no   *)
(* retries; success is the one required output.  A job is accepted and     *)
(* starts: TaskJob has what can go wrong with it.  A trigger command       *)
(* splits its tasks into connected groups and handles each by itself: here *)
(* each group is a command.  Loops over sets take some fixed order.  The   *)
(* tables are read and written at once: no handler reads a row that it has *)
(* changed and not yet written.                                            *)
(***************************************************************************)
EXTENDS Naturals, FiniteSets, FiniteSetsExt

CONSTANTS
    GTasks,        \* the tasks of the graph
    Needs,         \* the outputs that a task needs, as <<task, output>>
    CanFail,       \* the tasks whose job may fail
    FlowOptions,   \* --flow: "default", "new", "none", "given" (a number)
    WaitOptions,   \* --wait: a subset of BOOLEAN
    Groups,        \* the groups that trigger commands are about
    Removable,     \* the tasks that remove commands are about
    MaxFlowNum,       \* bound on the flow numbers
    MaxFlowCommands

GOutputs == {"started", "x", "succeeded"}   \* x is a custom output
GKeys == GTasks \X GOutputs

ASSUME FlowsAssumption ==
    /\ Needs \in [GTasks -> SUBSET GKeys]
    /\ CanFail \subseteq GTasks
    /\ FlowOptions \subseteq {"default", "new", "none", "given"}
    /\ WaitOptions \subseteq BOOLEAN
    /\ Groups \subseteq SUBSET GTasks /\ {} \notin Groups
    /\ Removable \subseteq GTasks
    /\ MaxFlowNum \in Nat \ {0} /\ MaxFlowCommands \in Nat

FlowNums == 1..MaxFlowNum
LiveStatus == {"preparing", "submitted", "running"}
EndStatus == {"failed", "succeeded"}
ProxyStatus == {"none", "waiting"} \cup LiveStatus \cup EndStatus
AnyOutput == GOutputs \cup {"submitted", "failed"}

\* A TaskProxy, and a row of task_states with its row of task_outputs: both
\* tables have the task and its flow numbers as their key.
Proxies ==
    [flows : SUBSET FlowNums, status : ProxyStatus, outs : SUBSET AnyOutput,
     sat : SUBSET GKeys,       \* prerequisites satisfied by an output
     pushed : SUBSET GKeys,    \* prerequisites satisfied by force
     wait : BOOLEAN,           \* flow_wait
     held : BOOLEAN,           \* is_held
     go : {"no", "queue", "now"}]   \* queued, or in tasks_to_trigger_now
FlowRows ==
    [task : GTasks, flows : SUBSET FlowNums, status : ProxyStatus \ {"none"},
     outs : SUBSET AnyOutput, wait : BOOLEAN]

NoProxy ==
    [flows |-> {}, status |-> "none", outs |-> {}, sat |-> {}, pushed |-> {},
     wait |-> FALSE, held |-> FALSE, go |-> "no"]

VARIABLES
    fs,        \* [pool, rows, toHold]: the task pool, the tables, tasks_to_hold
    lastFlow,   \* the last flow number
    nfc,       \* commands so far
    \* What the properties remember:
    owed,      \* task was triggered in these flows in a group with key[1],
               \* and key has not been completed since; early: key[1] was a
               \* start task with a job
    finished,  \* <<t, f>>: t succeeded in flow f, and was not removed from it
    due,       \* the tasks that were triggered and have not run since, if no
               \* job has failed since
    odd        \* the tasks of commands that do not run them from scratch

gvars == <<fs, lastFlow, nfc, owed, finished, due, odd>>

InPool(s, t) == s.pool[t].status # "none"
KidsOf(t, o) == {c \in GTasks : <<t, o>> \in Needs[c]}
IsDone(p) == "succeeded" \in p.outs
AllSatisfied(t, p) == Needs[t] \subseteq p.sat \cup p.pushed
-----------------------------------------------------------------------------
(* The tables. *)

\* The order of the rows of a task: that of their flow numbers, as text.
Before(F, G) ==
    F # G /\ Min((F \ G) \cup (G \ F)) \in F

RowsOf(s, t) == {r \in s.rows : r.task = t}
Overlapping(R, F) == {r \in R : r.flows \cap F # {}}
FirstRow(R) == CHOOSE r \in R : \A q \in R : q = r \/ Before(r.flows, q.flows)
LastRow(R) == CHOOSE r \in R : \A q \in R : q = r \/ Before(q.flows, r.flows)

\* Mutant of History: only a row with the very same flows counts.
HistoryOfSame(s, t, F) ==
    LET R == {r \in RowsOf(s, t) : r.flows = F} IN
    IF R = {} THEN [status |-> "none", wait |-> FALSE]
    ELSE [status |-> FirstRow(R).status, wait |-> FirstRow(R).wait]

\* _get_task_history: a finished row if there is one.
History(s, t, F) ==
    LET R == Overlapping(RowsOf(s, t), F)
        ended == {r \in R : r.status \in EndStatus}
    IN  IF R = {} THEN [status |-> "none", wait |-> FALSE]
        ELSE LET r == IF ended # {} THEN FirstRow(ended) ELSE LastRow(R) IN
             [status |-> r.status, wait |-> r.wait]

\* select_task_outputs is keyed by the outputs: of rows with equal outputs the
\* last remains.
VisibleRows(s, t) ==
    {r \in RowsOf(s, t) :
        ~\E q \in RowsOf(s, t) : q.outs = r.outs /\ Before(r.flows, q.flows)}

\* db_add_new_flow_rows: insert or replace.
AddFlowRows(s, t, p) ==
    [s EXCEPT !.rows =
        {r \in @ : ~(r.task = t /\ r.flows = p.flows)} \cup
        {[task |-> t, flows |-> p.flows, status |-> p.status, outs |-> {},
          wait |-> p.wait]}]

\* put_update_task_state, put_task_pool and put_update_task_outputs, for the
\* proxy of t.
Recorded(s, t) ==
    LET p == s.pool[t] IN
    [s EXCEPT !.rows =
        {IF r.task = t /\ r.flows = p.flows
         THEN [r EXCEPT !.status = p.status, !.outs = p.outs, !.wait = p.wait]
         ELSE r : r \in @}]

\* put_update_task_flow_wait, for a proxy p of t.
WaitOver(s, t, p) ==
    [s EXCEPT !.rows =
        {IF r.task = t /\ r.flows = p.flows THEN [r EXCEPT !.wait = FALSE] ELSE r :
            r \in @}]

\* remove_task_from_flows: no flows stand for all.  A row may take the place of
\* another.
EraseFlows(s, t, F) ==
    LET hit == IF F = {} THEN RowsOf(s, t) ELSE Overlapping(RowsOf(s, t), F)
        Rest(r) == IF F = {} THEN {} ELSE r.flows \ F
        last == {r \in hit :
                   \A q \in hit : q # r /\ Rest(q) = Rest(r) => Before(q.flows, r.flows)}
        replaced == {r \in RowsOf(s, t) : \E q \in hit : r.flows = Rest(q)}
    IN  [s EXCEPT !.rows = (@ \ (hit \cup replaced)) \cup
                           {[r EXCEPT !.flows = Rest(r)] : r \in last}]
-----------------------------------------------------------------------------
(* Spawning. *)

RECURSIVE SpawnTask(_, _, _, _), SpawnOnAllOutputs(_, _, _)

Told(p, t, key) ==
    IF key \in Needs[t] \ p.pushed THEN [p EXCEPT !.sat = @ \cup {key}] ELSE p

\* A child that is not in the pool: spawn_task, satisfy_me and add_to_pool.
SpawnChild(s, c, F, key) ==
    LET Placed(r) == IF r.p = NoProxy THEN r.s
                     ELSE [r.s EXCEPT !.pool[c] = Told(r.p, c, key)]
    IN  Placed(SpawnTask(s, c, F, FALSE))

\* spawn_on_all_outputs, of the completed outputs of a proxy p of t: a child
\* in the pool is left as it is.
SpawnOnAllOutputs(s, t, p) ==
    LET Done(o) == IF o \in p.outs THEN {<<o, c>> : c \in KidsOf(t, o)} ELSE {}
    IN  IF p.flows = {} THEN s
        ELSE FoldSet(LAMBDA k, a : IF InPool(a, k[2]) THEN a
                                   ELSE SpawnChild(a, k[2], p.flows, <<t, k[1]>>),
                     s, UNION {Done(o) : o \in GOutputs})

\* _spawn_after_flow_wait.
SpawnAfterFlowWait(s, t, p) == WaitOver(SpawnOnAllOutputs(s, t, p), t, p)

\* spawn_task, with _load_db_task_proxy and _load_historical_outputs: the new
\* proxy, or NoProxy, and what has changed in any case.
SpawnTask(s, t, F, wait) ==
    LET Settled(h, p, known) ==
          IF h.status # "none" /\ p.outs = {} THEN [s |-> known, p |-> NoProxy]
          ELSE IF h.status \notin EndStatus THEN [s |-> known, p |-> p]
          ELSE [s |-> IF h.wait THEN SpawnAfterFlowWait(known, t, p) ELSE known,
                p |-> IF IsDone(p) THEN NoProxy ELSE [p EXCEPT !.wait = @ /\ ~h.wait]]
        Loaded(h, seen, p) ==
          Settled(h, p, IF seen = {} THEN AddFlowRows(s, t, p) ELSE s)
        Read(h, seen) ==
          Loaded(h, seen,
                 [NoProxy EXCEPT !.flows = F, !.wait = wait, !.held = t \in s.toHold,
                    !.status = IF h.status = "none" THEN "waiting" ELSE h.status,
                    !.outs = UNION {r.outs : r \in seen}])
    IN  Read(History(s, t, F), Overlapping(VisibleRows(s, t), F))

\* merge_flows, for a proxy in the pool.
MergeFlows(s, t, F) ==
    LET p == s.pool[t]
        Merged(q, m) ==
          CASE p.status \in EndStatus /\ ~IsDone(p) ->
                 [m EXCEPT !.pool[t].status = "waiting",
                           !.pool[t].go = IF @ = "no" THEN "queue" ELSE @]
            [] /\ ~(p.status \in EndStatus /\ ~IsDone(p))
               /\ p.flows = {} \/ p.wait ->
                 SpawnOnAllOutputs([m EXCEPT !.pool[t].wait = FALSE], t, q)
            [] OTHER -> m
        Grown(q) == Merged(q, AddFlowRows([s EXCEPT !.pool[t] = q], t, q))
    IN  IF F = {} \/ F = p.flows THEN s ELSE Grown([p EXCEPT !.flows = @ \cup F])

\* remove: the held state goes with the proxy.
RemoveProxy(s, t) ==
    [Recorded(s, t) EXCEPT !.pool[t] = NoProxy, !.toHold = @ \ {t}]

DropIfComplete(s, t) ==
    IF s.pool[t].status \in EndStatus /\ IsDone(s.pool[t])
    THEN RemoveProxy(s, t)
    ELSE s

\* Mutant of SpawnOn: a child in the pool is merged with and not told.
SpawnOnUntold(s, t, o) ==
    LET p == s.pool[t]
        kids == IF p.flows = {} THEN {} ELSE KidsOf(t, o)
        Tell(c, acc) ==
          IF InPool(acc, c) THEN MergeFlows(acc, c, p.flows)
          ELSE SpawnChild(acc, c, p.flows, <<t, o>>)
    IN  DropIfComplete(IF p.wait THEN s ELSE FoldSet(Tell, s, kids), t)

\* spawn_on_output.
SpawnOn(s, t, o) ==
    LET p == s.pool[t]
        kids == IF p.flows = {} THEN {} ELSE KidsOf(t, o)
        Tell(c, acc) ==
          IF InPool(acc, c)
          THEN LET m == MergeFlows(acc, c, p.flows) IN
               [m EXCEPT !.pool[c] = Told(@, c, <<t, o>>)]
          ELSE SpawnChild(acc, c, p.flows, <<t, o>>)
    IN  DropIfComplete(IF p.wait THEN s ELSE FoldSet(Tell, s, kids), t)
-----------------------------------------------------------------------------
(* Removal from flows. *)

\* match_flows: no flows stand for all, and a no-flow task matches none.
MatchFlows(p, F) == IF F = {} \/ p.flows = {} THEN p.flows ELSE p.flows \cap F

\* The loop of _remove_matched_tasks over the children of t: what t has
\* satisfied is unset, and a child that has no other reason to be in the pool
\* leaves it.  ids are the tasks that the command is about.
StandDownChild(s, t, c, F, ids) ==
    LET p == s.pool[c]
        m == MatchFlows(p, F)
        lost == {k \in p.sat : k[1] = t}
        unset == [s EXCEPT !.pool[c].sat = @ \ lost]
        idle == [unset EXCEPT !.pool[c].go = IF @ = "queue" THEN "no" ELSE @]
    IN  IF m = {} \/ lost = {} THEN s
        ELSE IF p.status # "waiting" \/ p.flows # m THEN unset
        ELSE IF c \in ids \/ (p.sat \cup p.pushed) \ lost # {} THEN idle
        ELSE EraseFlows(RemoveProxy(idle, c), c, m)

\* _remove_matched_tasks, for one of its tasks.
RemoveFromFlows(s, t, F, ids) ==
    LET p == s.pool[t]
        m == MatchFlows(p, F)
        out == IF ~InPool(s, t) THEN s
               ELSE IF m = p.flows THEN RemoveProxy(s, t)
               ELSE [s EXCEPT !.pool[t].flows = @ \ m]
        kids == UNION {KidsOf(t, o) : o \in GOutputs}
        alone == FoldSet(LAMBDA c, acc : IF InPool(acc, c)
                                         THEN StandDownChild(acc, t, c, F, ids)
                                         ELSE acc,
                         out, kids)
    IN  IF InPool(s, t) /\ m = {} THEN s ELSE EraseFlows(alone, t, F)

\* _remove_matched_tasks: the jobs of removed tasks are killed, which puts the
\* tasks on the list of those to hold.
RemoveMatched(s, ids, F) ==
    LET gone == FoldSet(LAMBDA t, acc : RemoveFromFlows(acc, t, F, ids), s, ids)
        killed == {t \in ids : s.pool[t].status \in LiveStatus /\ ~InPool(gone, t)}
    IN  [gone EXCEPT !.toHold = @ \cup killed]
-----------------------------------------------------------------------------
(* The trigger command, on a connected group. *)

IsStart(t, group) == \A k \in Needs[t] : k[1] \notin group

\* queue_or_trigger.
TriggerNow(s, t) ==
    [s EXCEPT !.pool[t].status = "waiting", !.pool[t].go = "now"]

\* A start task of the group that is in the pool.
TriggerStart(s, t, F) ==
    IF s.pool[t].status \in LiveStatus THEN MergeFlows(s, t, F)
    ELSE TriggerNow(MergeFlows([s EXCEPT
             !.pool[t].pushed = @ \cup (Needs[t] \ s.pool[t].sat)], t, F), t)

\* Mutant of ReleaseGroup: what the removal put on hold stays on hold.
ReleaseGroupNone(s, ids) == s

\* release_held_tasks, for the tasks of the group that were or are inactive.
ReleaseGroup(s, ids) ==
    [s EXCEPT !.toHold = @ \ ids,
              !.pool = [t \in GTasks |-> IF t \in ids \cap s.toHold
                                         THEN [s.pool[t] EXCEPT !.held = FALSE]
                                         ELSE s.pool[t]]]

\* Mutant of GroupKeys: the prerequisites in the group are satisfied too.
GroupKeysAll(t, group, early) == Needs[t]

\* The prerequisites of t that the command satisfies: those on tasks that are
\* not in the group, and all of those on the tasks in early.
GroupKeys(t, group, early) ==
    {k \in Needs[t] : k[1] \notin group \/ k[1] \in early}

\* _set_prereqs_tdef, unless there is no prerequisite to set.  A task that
\* is still in the pool stays as it is, and gets new rows.
SpawnInGroup(s, t, F, wait, group, early) ==
    LET keys == GroupKeys(t, group, early)
        Start(a) == IF IsStart(t, group) THEN TriggerNow(a, t) ELSE a
        Placed(r, added) ==
          IF r.p = NoProxy THEN r.s
          ELSE IF InPool(r.s, t) THEN added
          ELSE Start([added EXCEPT !.pool[t] = [r.p EXCEPT !.pushed = keys \ r.p.sat]])
        Spawned(r) == Placed(r, AddFlowRows(r.s, t, r.p))
    IN  IF Needs[t] # {} /\ keys = {} THEN s ELSE Spawned(SpawnTask(s, t, F, wait))

\* The start tasks with a job, whose prerequisites the command takes as done.
EarlyStarts(s, group, none) ==
    {t \in group : /\ InPool(s, t) /\ IsStart(t, group)
                   /\ s.pool[t].status \in {"submitted", "running"}
                   /\ s.pool[t].outs # {}
                   /\ ~(none /\ s.pool[t].flows # {})}

\* _force_trigger_tasks, in the flows F; none is for --flow=none.
ForceTrigger(s, group, F, wait, none) ==
    LET active == {t \in group : InPool(s, t)}
        starts == {t \in active : /\ IsStart(t, group)
                                  /\ ~(none /\ s.pool[t].flows # {})}
        rest == group \ {t \in active : IsStart(t, group)}
        begun == FoldSet(LAMBDA t, acc : TriggerStart(acc, t, F), s, starts)
        clear == IF none THEN begun
                 ELSE ReleaseGroup(RemoveMatched(begun, rest, F), rest)
        early == EarlyStarts(s, group, none)
    IN  FoldSet(LAMBDA t, acc : SpawnInGroup(acc, t, F, wait, group, early),
                clear, rest)
-----------------------------------------------------------------------------
(* Actions. *)

GInit ==
    /\ LET born == {t \in GTasks : Needs[t] = {}}
           p == [NoProxy EXCEPT !.flows = {1}, !.status = "waiting"]
           empty == [pool |-> [t \in GTasks |-> IF t \in born THEN p ELSE NoProxy],
                     rows |-> {}, toHold |-> {}]
       IN  fs = FoldSet(LAMBDA t, acc : AddFlowRows(acc, t, p), empty, born)
    /\ lastFlow = 1
    /\ nfc = 0
    /\ owed = {} /\ finished = {} /\ due = {} /\ odd = {}

\* release_tasks_to_run: what is to trigger now, and what is queued or ready.
CanStart(t) ==
    LET p == fs.pool[t] IN
    /\ p.status = "waiting"
    /\ p.go = "now" \/ (~p.held /\ (p.go = "queue" \/ AllSatisfied(t, p)))

StartJob(t) ==
    /\ CanStart(t)
    /\ fs' = Recorded([fs EXCEPT !.pool[t].status = "preparing",
                                 !.pool[t].go = "no"], t)
    /\ due' = due \ {t}
    /\ UNCHANGED <<lastFlow, nfc, owed, finished, odd>>

\* What the job of t may report next.  It sends x before it succeeds.
Reports(t) ==
    LET p == fs.pool[t]
        hasX == KidsOf(t, "x") # {}
    IN  CASE p.status = "preparing" -> {"submitted"}
          [] p.status = "submitted" -> {"started"}
          [] p.status = "running" ->
               {o \in {"x"} : hasX /\ "x" \notin p.outs} \cup
               {o \in {"succeeded"} : hasX => "x" \in p.outs} \cup
               {o \in {"failed"} : t \in CanFail}
          [] OTHER -> {}

\* process_message.  A custom output that is complete already is unhandled.
Report(t, o) ==
    /\ o \in Reports(t)
    /\ LET status == CASE o = "started" -> "running"
                       [] o = "x" -> "running"
                       [] OTHER -> o
           told == [fs EXCEPT !.pool[t].status = status, !.pool[t].outs = @ \cup {o}]
       IN  fs' = SpawnOn(Recorded(told, t), t, o)
    /\ owed' = {e \in owed : e.key # <<t, o>>}
    /\ finished' = IF o = "succeeded"
                   THEN finished \cup {<<t, f>> : f \in fs.pool[t].flows}
                   ELSE finished
    /\ due' = IF o = "failed" THEN {} ELSE due
    /\ UNCHANGED <<lastFlow, nfc, odd>>

\* _get_active_flow_nums.  The latest flows of the history can be those of any
\* row: creation times are left out.
ActiveFlows ==
    LET inPool == UNION {fs.pool[t].flows : t \in GTasks}
        past == {r.flows : r \in fs.rows} \ {{}}
    IN  IF inPool # {} THEN {inPool} ELSE IF past # {} THEN past ELSE {{1}}

\* The flows of a trigger command.
FlowsFor(option, group) ==
    LET active == {t \in group : InPool(fs, t)} IN
    CASE option = "none" -> {{}}
      [] option = "new" -> {{lastFlow + 1}} 
      [] option = "given" -> {{f} : f \in 1..lastFlow}
      [] option = "default" ->
           IF active = {} THEN ActiveFlows
           ELSE {UNION {fs.pool[t].flows : t \in active}}

FlowCommand ==
    /\ \E t \in GTasks : InPool(fs, t)
    /\ nfc < MaxFlowCommands
    /\ nfc' = nfc + 1

\* A removal of t from the flows F leaves it in other flows.
RemovedInPart(t, F) == F # {} /\ \E r \in RowsOf(fs, t) : ~(r.flows \subseteq F)

\* The members of a group that are not run from scratch in the flows F: tasks
\* in the pool in other flows, tasks with a history in other flows, and start
\* tasks that have failed, which keep their outputs, or wait for a flow.
NotFromScratch(group, F) ==
    {t \in group :
        LET p == fs.pool[t] IN
        \/ RemovedInPart(t, F)
        \/ /\ InPool(fs, t) /\ ~IsStart(t, group)
           /\ p.flows = {} \/ MatchFlows(p, F) # p.flows
        \/ IsStart(t, group) /\ ("failed" \in p.outs \/ p.wait)}

Trigger(group, option, wait) ==
    /\ FlowCommand
    /\ option = "none" => ~wait
    /\ option = "new" => lastFlow < MaxFlowNum
    /\ lastFlow' = IF option = "new" THEN lastFlow + 1 ELSE lastFlow
    /\ \E F \in FlowsFor(option, group) :
         LET none == option = "none"
             live == {t \in group : fs.pool[t].status \in LiveStatus /\ IsStart(t, group)}
             known == {k \in GKeys : k[1] \in live /\ k[2] \in fs.pool[k[1]].outs}
             unlike == IF wait \/ F = {} THEN group ELSE NotFromScratch(group, F)
             rerun == group \ (live \cup unlike)
         IN  /\ fs' = ForceTrigger(fs, group, F, wait, none)
             /\ owed' = {e \in owed : e.task \notin group} \cup
                  {e \in [task : rerun, key : GKeys \ known, flows : {F}, early : BOOLEAN] :
                     /\ e.key \in Needs[e.task] /\ e.key[1] \in group
                     /\ e.early = (e.key[1] \in EarlyStarts(fs, group, none))}
             /\ due' = IF unlike = {} THEN due \cup rerun ELSE {}
             /\ odd' = odd \cup unlike
    /\ finished' = {e \in finished : e[1] \notin group}

\* cylc remove; no flows stand for all.
RemoveTasks(t, F) ==
    /\ FlowCommand
    /\ fs' = RemoveMatched(fs, {t}, F)
    /\ fs' # fs
    /\ finished' = {e \in finished : e[1] # t}
    /\ due' = {}
    /\ owed' = {e \in owed : e.task # t}
    /\ odd' = IF RemovedInPart(t, F) THEN odd \cup {t} ELSE odd
    /\ UNCHANGED lastFlow

GNext ==
    \/ \E t \in GTasks : StartJob(t)
    \/ \E t \in GTasks : \E o \in AnyOutput : Report(t, o)
    \/ \E group \in Groups : \E option \in FlowOptions : \E wait \in WaitOptions :
         Trigger(group, option, wait)
    \/ \E t \in Removable : \E F \in {{}} \cup {{f} : f \in 1..lastFlow} :
         RemoveTasks(t, F)

GSpec == GInit /\ [][GNext]_gvars
-----------------------------------------------------------------------------
(* Properties. *)

GTypeOK ==
    /\ fs.pool \in [GTasks -> Proxies]
    /\ fs.rows \subseteq FlowRows
    /\ fs.toHold \subseteq GTasks
    /\ lastFlow \in FlowNums /\ nfc \in 0..MaxFlowCommands
    /\ owed \subseteq [task : GTasks, key : GKeys, flows : SUBSET FlowNums,
                       early : BOOLEAN]
    /\ finished \subseteq GTasks \X FlowNums
    /\ due \subseteq GTasks /\ odd \subseteq GTasks

Starts(t) == fs.pool[t].status = "waiting" /\ fs'.pool[t].status = "preparing"

\* t still owes what e says, in the flows it is in.
Owes(e, t) ==
    LET F == fs.pool[t].flows IN
    e.task = t /\ (e.flows = F \/ e.flows \cap F # {})

\* Of the tasks of a triggered group, one that depends on another waits for it:
\* its job does not start before the other has completed the output, after the
\* command or in the job that it had at the time (_force_trigger_tasks).
InGroupOrder ==
    [][\A t \in GTasks : Starts(t) => ~\E e \in owed : Owes(e, t)]_gvars

\* The same, except for outputs of start tasks of the group that were submitted
\* or running at the time: the command satisfies all prerequisites on them.
InGroupOrderBut ==
    [][\A t \in GTasks : Starts(t) => ~\E e \in owed : Owes(e, t) /\ ~e.early]_gvars

\* A task that has succeeded in all the flows it is in does not run again unless
\* a command is about it, whichever flows have merged since: the history in the
\* database is found for every flow (spawn_task, merge_flows).
RunsOnceAFlow ==
    [][\A t \in GTasks : Starts(t) /\ fs.pool[t].flows # {} =>
         \E f \in fs.pool[t].flows : <<t, f>> \notin finished]_gvars

\* <<c, k>>: c waits in the pool for an output k that was completed in its flows
\* by a task that has since succeeded, and left.
Stranded ==
    {e \in GTasks \X GKeys :
        LET c == e[1]  k == e[2]  p == fs.pool[c] IN
        /\ p.status = "waiting" /\ p.go = "no"
        /\ k \in Needs[c] \ (p.sat \cup p.pushed)
        /\ ~InPool(fs, k[1])
        /\ \E r \in RowsOf(fs, k[1]) :
             /\ r.flows # {} /\ r.flows \subseteq p.flows
             /\ r.status = "succeeded" /\ k[2] \in r.outs /\ ~r.wait
             /\ \A f \in r.flows : <<c, f>> \notin finished}

\* No task waits for ever for an output that its flow has already completed,
\* in whatever order flows spawn it, merge with it and pass it.
NotStranded == Stranded = {}

\* The same, except after commands that do not run a task from scratch.
NotStrandedBut == \A e \in Stranded : e[1] \in odd \/ e[2][1] \in odd

\* Every task that a command was to run from scratch has run by the time nothing
\* is left to start and no job is left to report, if no job has failed: the
\* removal and the kill of the old ones and the holding that comes with it do
\* not keep any from running (_force_trigger_tasks, _remove_matched_tasks).
TriggeredHasRun ==
    (\A t \in GTasks : ~CanStart(t) /\ Reports(t) = {}) => due = {}
=============================================================================
