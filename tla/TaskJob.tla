------------------------------ MODULE TaskJob ------------------------------
(***************************************************************************)
(* One task and its successive jobs: what the scheduler believes           *)
(* (TaskEventsManager.process_message and its helpers), what the job host  *)
(* knows (the job status file written by job.sh and "cylc message", the    *)
(* job runner) and how the second reaches the first: messages that a job   *)
(* sends and that may be lost, polls and kills that run as commands on the *)
(* job host and whose results come back later, timers that ask for polls.  *)
(*                                                                         *)
(* A command is put on the process pool with the submit number the task    *)
(* has at that moment; its callback finds the task by the submit number    *)
(* the task has when the command returns.  The route of a task from ready  *)
(* to preparing is SubmitPipeline's; here it is one step.  Vacated jobs    *)
(* (a feature of one withdrawn job runner), custom outputs and deleted job *)
(* directories are left out.                                               *)
(***************************************************************************)
EXTENDS Naturals, Sequences, FiniteSets

CONSTANTS
    ExecRetries,    \* number of execution retry delays
    SubmitRetries,  \* number of submission retry delays
    MaxSubmits,     \* bound on the submit number
    MaxPolls,       \* bound on the poll commands in flight
    Troubles,       \* what may happen: "fault", "request", "restart"
    MaxTroubles,    \* bound on lost messages, failed commands, polls and
                    \* kills the operator asks for, and restarts, together
    Push,           \* the platform's communication method is not "poll"
    SlowSubmit      \* a submit command may return after a retry delay is over

ASSUME TaskJobAssumption ==
    /\ {ExecRetries, SubmitRetries, MaxSubmits, MaxPolls,
        MaxTroubles} \subseteq Nat
    /\ Troubles \subseteq {"fault", "request", "restart"}
    /\ Push \in BOOLEAN /\ SlowSubmit \in BOOLEAN

VARIABLES
    itask,     \* the TaskProxy
    job,       \* the jobs by submit number: state and status file
    net,       \* messages each job has sent, in order, not yet received
    cmds,      \* commands on the process pool
    troubles,  \* how many troubles there were
    restarted  \* whether the scheduler was restarted

vars == <<itask, job, net, cmds, troubles, restarted>>
counters == <<troubles, restarted>>

(* TASK_STATUSES_ORDERED, without expired *)
Ordered == <<"waiting", "preparing", "submit-failed", "submitted", "running",
             "failed", "succeeded">>
Rank(s) == CHOOSE i \in DOMAIN Ordered : Ordered[i] = s
Active == {"submitted", "running"}

Nums == 1 .. MaxSubmits
Outputs == {"submitted", "started", "succeeded", "failed", "submit-failed"}
NoTimer == <<0, "none">>

(* What "cylc message" and the job runner manager write in job.status *)
StatusFile == [id : BOOLEAN, init : BOOLEAN, polled : BOOLEAN,
               exit : {"none", "succeeded", "ERR", "SIG"}]
NoFile == [id |-> FALSE, init |-> FALSE, polled |-> FALSE, exit |-> "none"]

(* A job in the queue of the job runner, running, told to end by a signal, *)
(* past its last message but still in the job runner, and out of it.       *)
JobStates == {"none", "pending", "running", "signalled", "exiting", "gone"}
Live(n) == job[n].st \in {"pending", "running"}

Kinds == {"submit", "poll", "kill"}
Steps == {"put", "asking", "ok", "fail", "255"}
Command == [kind : Kinds, n : Nums, step : Steps, ctx : StatusFile]
NewCommand(kind, n) == [kind |-> kind, n |-> n, step |-> "put", ctx |-> NoFile]

TypeOK ==
    /\ itask \in [status : {Ordered[i] : i \in DOMAIN Ordered},
                  num : 0 .. MaxSubmits, held : BOOLEAN,
                  exec : 0 .. ExecRetries, sub : 0 .. SubmitRetries,
                  done : SUBSET Outputs,
                  timer : (0 .. MaxSubmits) \X (Active \cup {"none"})]
    /\ job \in [Nums -> [st : JobStates, file : StatusFile]]
    /\ net \in [Nums -> Seq({"started", "succeeded", "failed"})]
    /\ cmds \subseteq Command
    /\ troubles \in 0 .. MaxTroubles
    /\ restarted \in BOOLEAN

Init ==
    /\ itask = [status |-> "waiting", num |-> 0, held |-> FALSE, exec |-> 0,
                sub |-> 0, done |-> {}, timer |-> NoTimer]
    /\ job = [n \in Nums |-> [st |-> "none", file |-> NoFile]]
    /\ net = [n \in Nums |-> <<>>]
    /\ cmds = {}
    /\ troubles = 0 /\ restarted = FALSE

Trouble(kind) ==
    /\ kind \in Troubles /\ troubles < MaxTroubles
    /\ troubles' = troubles + 1
    /\ restarted' = (restarted \/ kind = "restart")

-----------------------------------------------------------------------------
(* The scheduler's side: process_message                                   *)

\* Mutant of ResetJobTimers: a timer that is set is not looked at again.
ResetJobTimersOnce(t) ==
    [t EXCEPT !.timer =
        IF t.status \notin Active THEN NoTimer
        ELSE IF @ # NoTimer THEN @ ELSE <<t.num, t.status>>]

(* A poll timer belongs to one submit number and one status. *)
ResetJobTimers(t) ==
    [t EXCEPT !.timer =
        IF t.status \in Active THEN <<t.num, t.status>> ELSE NoTimer]

RetryLinedUp(t) == t.status = "waiting" /\ (t.sub > 0 \/ t.exec > 0)

\* Mutants of MessageCheck: old jobs are heard; retries do not matter.
MessageCheckNoRetry(t, flag, n) == ~ (flag = "received" /\ n # t.num)

MessageCheck(t, flag, n) ==
    /\ ~ (flag = "received" /\ n # t.num)
    /\ ~ RetryLinedUp(t)

MessageSubmitted(t) ==
    IF t.status = "preparing"
    THEN ResetJobTimers([t EXCEPT !.status = "submitted"])
    ELSE t

MessageStarted(t) ==
    [ResetJobTimers([t EXCEPT !.status = "running"]) EXCEPT !.sub = 0]

MessageSucceeded(t) == ResetJobTimers([t EXCEPT !.status = "succeeded"])

MessageFailed(t) ==
    ResetJobTimers(
        IF t.exec < ExecRetries
        THEN [t EXCEPT !.status = "waiting", !.exec = @ + 1]
        ELSE [t EXCEPT !.status = "failed", !.done = @ \cup {"failed"}])

MessageSubmitFailed(t) ==
    ResetJobTimers(
        IF t.sub < SubmitRetries
        THEN [t EXCEPT !.status = "waiting", !.sub = @ + 1]
        ELSE [t EXCEPT !.status = "submit-failed",
                       !.done = @ \cup {"submit-failed"}])

(* An output, and the earlier ones it implies, in their order. *)
Implied(m) ==
    CASE m \in {"succeeded", "failed"} -> {"submitted", "started"}
      [] m = "started"                 -> {"submitted"}
      [] OTHER                         -> {}

Complete(t, m) ==
    LET own == IF m \in {"failed", "submit-failed"} THEN t
               ELSE [t EXCEPT !.done = @ \cup {m}]
        missing == Implied(m) \ own.done
        sub == IF "submitted" \in missing
               THEN MessageSubmitted([own EXCEPT !.done = @ \cup {"submitted"}])
               ELSE own
    IN  IF "started" \in missing
        THEN MessageStarted([sub EXCEPT !.done = @ \cup {"started"}])
        ELSE sub

(* A received message that would take the state back: poll instead. *)
Reverses(t, m, flag) ==
    /\ flag = "received"
    /\ \/ m = "started" /\ Rank(t.status) > Rank("running")
       \/ m = "failed" /\ Rank(t.status) > Rank("failed")

Handle(t, m) ==
    CASE m = "submitted"     -> MessageSubmitted(t)
      [] m = "started"       -> MessageStarted(t)
      [] m = "succeeded"     -> MessageSucceeded(t)
      [] m = "failed"        -> MessageFailed(t)
      [] m = "submit-failed" -> MessageSubmitFailed(t)

ProcessMessage(t, m, flag, n) ==
    LET done == Complete(t, m)
    IN  IF ~ MessageCheck(t, flag, n) THEN t
        ELSE IF Reverses(done, m, flag) THEN done
        ELSE Handle(done, m)

NeedsPoll(t, m, flag, n) ==
    MessageCheck(t, flag, n) /\ Reverses(Complete(t, m), m, flag)

-----------------------------------------------------------------------------
(* Commands and their callbacks                                            *)

InFlight(kind) == {c \in cmds : c.kind = kind}

(* poll_task_jobs: a waiting task has no job to poll. *)
PollCommand(t) ==
    IF t.status = "waiting" THEN {} ELSE {NewCommand("poll", t.num)}

(* The next submission, be it the first or a retry whose delay is over. *)
Prepare ==
    /\ itask.status = "waiting" /\ ~ itask.held /\ itask.num < MaxSubmits
    /\ SlowSubmit \/ InFlight("submit") = {}
    /\ itask' = [itask EXCEPT !.num = @ + 1, !.status = "preparing"]
    /\ cmds' = cmds \cup {NewCommand("submit", itask.num + 1)}
    /\ UNCHANGED <<job, net, counters>>

(* check_poll_time, check_job_time, check_task_jobs *)
PollTimer ==
    /\ itask.status \in Active
    /\ itask.timer = <<itask.num, itask.status>>
    /\ Cardinality(InFlight("poll")) < MaxPolls
    /\ cmds' = cmds \cup PollCommand(itask)
    /\ UNCHANGED <<itask, job, net, counters>>

(* commands.poll_tasks *)
PollRequest ==
    /\ itask.num > 0
    /\ Cardinality(InFlight("poll")) < MaxPolls
    /\ cmds' = cmds \cup PollCommand(itask)
    /\ Trouble("request")
    /\ UNCHANGED <<itask, job, net>>

(* Scheduler.kill_tasks: the task is held so that it does not retry. *)
KillRequest ==
    /\ itask.status \in Active
    /\ itask' = [itask EXCEPT !.held = TRUE]
    /\ cmds' = cmds \cup {NewCommand("kill", itask.num)}
    /\ Trouble("request")
    /\ UNCHANGED <<job, net>>

Release ==
    /\ itask.held
    /\ itask' = [itask EXCEPT !.held = FALSE]
    /\ UNCHANGED <<job, net, cmds, counters>>

Return(c, step, ctx) ==
    cmds' = (cmds \ {c}) \cup {[c EXCEPT !.step = step, !.ctx = ctx]}

(* JobRunnerManager.jobs_submit: the job runner takes the job, and its id  *)
(* goes to the status file, or it rejects it.                              *)
SubmitAtHost(c) ==
    /\ c.kind = "submit" /\ c.step = "put"
    /\ \/ /\ job' = [job EXCEPT ![c.n] =
                        [st |-> "pending", file |-> [NoFile EXCEPT !.id = TRUE]]]
          /\ Return(c, "ok", NoFile)
       \/ /\ job' = [job EXCEPT ![c.n].st = "gone"]
          /\ Return(c, "fail", NoFile)
    /\ UNCHANGED <<itask, net, counters>>

(* jobs_poll: first the status file is read.  Nothing more is asked when   *)
(* the file tells the end, was polled out before, or names no job id.      *)
Trusted(f) == f.polled \/ f.exit \in {"succeeded", "ERR"}

PollFile(c) ==
    LET f == [job[c.n].file EXCEPT !.polled = @ \/ ~ job[c.n].file.id]
    IN  /\ c.kind = "poll" /\ c.step = "put"
        /\ \/ job[c.n].st = "none" /\ Return(c, "fail", NoFile)
           \/ job[c.n].st # "none" /\ Return(c, IF Trusted(f) THEN "ok"
                                               ELSE "asking", f)
        /\ UNCHANGED <<itask, job, net, counters>>

(* Then the job runner.  A job it does not list is noted in the file as    *)
(* polled out, and the file is read again.                                 *)
PollRunner(c) ==
    LET gone == [job[c.n].file EXCEPT !.polled = TRUE]
    IN  /\ c.kind = "poll" /\ c.step = "asking"
        /\ \/ /\ job[c.n].st # "gone"
              /\ Return(c, "ok", c.ctx)
              /\ UNCHANGED job
           \/ /\ job[c.n].st = "gone"
              /\ job' = [job EXCEPT ![c.n].file = gone]
              /\ Return(c, "ok", gone)
        /\ UNCHANGED <<itask, net, counters>>

(* job_kill: the job's processes are killed at once, or it gets a signal   *)
(* that its trap reports; a job that is out of the job runner is an error. *)
KillAtHost(c) ==
    /\ c.kind = "kill" /\ c.step = "put"
    /\ \/ /\ job[c.n].st \in {"pending", "running", "exiting"}
          /\ job' = [job EXCEPT ![c.n].st = "gone"]
          /\ Return(c, "ok", NoFile)
       \/ /\ job[c.n].st = "running"
          /\ job' = [job EXCEPT ![c.n].st = "signalled"]
          /\ Return(c, "ok", NoFile)
       \/ /\ job[c.n].st \in {"none", "signalled", "gone"}
          /\ Return(c, "fail", NoFile)
          /\ UNCHANGED job
    /\ UNCHANGED <<itask, net, counters>>

(* A command that fails, or that cannot reach the host (255). *)
CommandFails(c) ==
    /\ c.step \in {"put", "asking"}
    /\ c.kind = "submit" => c.step = "put"
    /\ \E step \in {"fail", "255"} : Return(c, step, NoFile)
    /\ Trouble("fault")
    /\ UNCHANGED <<itask, job, net>>

(* What a poll result says of the job: the branches of                     *)
(* _poll_task_job_callback.                                                *)
PollMessage(f) ==
    CASE f.exit = "ERR"               -> "failed"
      [] f.exit = "SIG" /\ f.polled   -> "failed"
      [] f.exit = "SIG" /\ ~ f.polled -> "started"
      [] f.exit = "succeeded"         -> "succeeded"
      [] f.exit = "none" /\ f.init /\ f.polled     -> "failed"
      [] f.exit = "none" /\ f.init /\ ~ f.polled   -> "started"
      [] f.exit = "none" /\ ~ f.init /\ f.polled   -> "submit-failed"
      [] f.exit = "none" /\ ~ f.init /\ ~ f.polled -> "submitted"

\* Mutant of Reported: the result is taken for the present job.
ReportedOfAny(c) == c.step = "ok"

(* _manip_task_jobs_callback: the task is looked up by its present submit  *)
(* number.  A result of another job is not handled, and the job that has   *)
(* no result is taken as failed.                                           *)
Reported(c) == c.n = itask.num /\ c.step = "ok"

SubmitCallback(c) ==
    /\ c.kind = "submit" /\ c.step \in {"ok", "fail"}
    /\ itask' = ProcessMessage(itask,
                    IF Reported(c) THEN "submitted" ELSE "submit-failed",
                    "internal", itask.num)
    /\ cmds' = cmds \ {c}
    /\ UNCHANGED <<job, net, counters>>

(* _submit_task_job_callback_255: submit the same job again. *)
SubmitCallback255(c) ==
    /\ c.kind = "submit" /\ c.step = "255"
    /\ cmds' = (cmds \ {c}) \cup {NewCommand("submit", itask.num)}
    /\ UNCHANGED <<itask, job, net, counters>>

PollCallback(c) ==
    /\ c.kind = "poll" /\ c.step \in {"ok", "fail"}
    /\ itask' = IF Reported(c)
                THEN ProcessMessage(itask, PollMessage(c.ctx), "polled",
                                    itask.num)
                ELSE itask
    /\ cmds' = cmds \ {c}
    /\ UNCHANGED <<job, net, counters>>

(* _poll_task_job_callback_255: another host is tried, when there is one. *)
PollCallback255(c) ==
    /\ c.kind = "poll" /\ c.step = "255"
    /\ \/ cmds' = (cmds \ {c}) \cup PollCommand(itask)
       \/ cmds' = cmds \ {c}
    /\ UNCHANGED <<itask, job, net, counters>>

KillCallback(c) ==
    /\ c.kind = "kill" /\ c.step \in {"ok", "fail"}
    /\ itask' = IF Reported(c) /\ itask.status = "submitted"
                THEN ProcessMessage(itask, "submit-failed", "internal", c.n)
                ELSE IF Reported(c) /\ itask.status = "running"
                THEN ProcessMessage(itask, "failed", "internal", c.n)
                ELSE itask
    /\ cmds' = cmds \ {c}
    /\ UNCHANGED <<job, net, counters>>

KillCallback255(c) ==
    /\ c.kind = "kill" /\ c.step = "255"
    /\ \/ cmds' = (cmds \ {c}) \cup {NewCommand("kill", itask.num)}
       \/ cmds' = cmds \ {c}
    /\ UNCHANGED <<itask, job, net, counters>>

-----------------------------------------------------------------------------
(* The job: job.sh and "cylc message", which writes the status file first  *)
(* and then sends, when the platform lets jobs send at all.                *)

Sends(n, m) == net' = IF Push THEN [net EXCEPT ![n] = Append(@, m)] ELSE net

JobStarts(n) ==
    /\ job[n].st = "pending"
    /\ job' = [job EXCEPT ![n].st = "running", ![n].file.init = TRUE]
    /\ Sends(n, "started")
    /\ UNCHANGED <<itask, cmds, counters>>

JobEnds(n) ==
    /\ \E exit \in {"succeeded", "ERR", "SIG"} :
          /\ job[n].st = IF exit = "SIG" THEN "signalled" ELSE "running"
          /\ job' = [job EXCEPT ![n].st = "exiting", ![n].file.exit = exit]
          /\ Sends(n, IF exit = "succeeded" THEN "succeeded" ELSE "failed")
    /\ UNCHANGED <<itask, cmds, counters>>

(* It leaves the job runner after its last message, or before: deleted     *)
(* from the queue, or killed by something no trap can catch.               *)
JobLeaves(n) ==
    /\ job[n].st \in {"pending", "running", "exiting"}
    /\ job' = [job EXCEPT ![n].st = "gone"]
    /\ UNCHANGED <<itask, net, cmds, counters>>

(* process_queued_task_messages *)
Receive(n) ==
    /\ net[n] # <<>>
    /\ LET m == Head(net[n])
       IN  /\ itask' = ProcessMessage(itask, m, "received", n)
           /\ cmds' = IF NeedsPoll(itask, m, "received", n)
                      THEN cmds \cup PollCommand(itask') ELSE cmds
    /\ net' = [net EXCEPT ![n] = Tail(@)]
    /\ UNCHANGED <<job, counters>>

Lose(n) ==
    /\ net[n] # <<>>
    /\ net' = [net EXCEPT ![n] = Tail(@)]
    /\ Trouble("fault")
    /\ UNCHANGED <<itask, job, cmds>>

(* The scheduler stops and starts again with the task as it was written to *)
(* the database.  Messages and results on their way are lost; every task   *)
(* but a waiting one is polled.  load_db_task_action_timers gives the poll *)
(* timer back with a context that no (submit number, status) pair equals,  *)
(* so that check_poll_time drops it.                                       *)
RestoredTimer(t) == NoTimer

Restart ==
    /\ itask.status # "preparing"
    /\ LET t == [itask EXCEPT
                    !.done = IF itask.status \in {"running", "failed",
                                                  "succeeded"} THEN @ ELSE {},
                    !.timer = RestoredTimer(itask)]
       IN  itask' = t /\ cmds' = PollCommand(t)
    /\ net' = [n \in Nums |-> <<>>]
    /\ Trouble("restart")
    /\ UNCHANGED <<job>>

CommandStep ==
    \E c \in cmds :
        \/ SubmitAtHost(c) \/ PollFile(c) \/ PollRunner(c) \/ KillAtHost(c)
        \/ SubmitCallback(c) \/ SubmitCallback255(c)
        \/ PollCallback(c) \/ PollCallback255(c)
        \/ KillCallback(c) \/ KillCallback255(c)

Next ==
    \/ Prepare \/ PollTimer \/ PollRequest \/ KillRequest \/ Release
    \/ CommandStep
    \/ \E c \in cmds : CommandFails(c)
    \/ \E n \in Nums :
          JobStarts(n) \/ JobEnds(n) \/ JobLeaves(n) \/ Receive(n) \/ Lose(n)
    \/ Restart

Spec == Init /\ [][Next]_vars

(* The process pool runs every command to its end and calls it back, and   *)
(* the main loop looks at the timers and at the messages.  The job itself  *)
(* owes nothing.                                                           *)
Fairness ==
    /\ WF_vars(CommandStep)
    /\ WF_vars(PollTimer)
    /\ WF_vars(\E n \in Nums : Receive(n))

LiveSpec == Spec /\ Fairness

-----------------------------------------------------------------------------
(* Properties                                                              *)

(* A job that can still run is the latest job of its task, and the task is *)
(* shown preparing, submitted or running: no late message, poll, kill or   *)
(* retry makes the scheduler forget a job or start a second one beside it. *)
LiveJobIsActive ==
    \A n \in Nums : Live(n) =>
        n = itask.num /\ itask.status \in Active \cup {"preparing"}

(* The failure of a job uses at most one try, however many messages, polls *)
(* and kills report it: a retry or the failed state stand for a job each.  *)
OneTryPerJob ==
    itask.exec + (IF itask.status = "failed" THEN 1 ELSE 0)
        <= Cardinality({n \in Nums :
                           job[n].st \in {"signalled", "exiting", "gone"}})

(* Once the job of a task has left the job runner the scheduler comes to   *)
(* know that it ended, and does not fall back to believing it active.      *)
KnownToHaveEnded(n) ==
    itask.num # n \/ itask.status \notin Active \cup {"preparing"}

JobEndKnown ==
    \A n \in Nums :
        itask.num = n /\ job[n].st = "gone" ~> []KnownToHaveEnded(n)

(* The same for every task but one that a restart found submitted.         *)
JobEndKnownBut ==
    \A n \in Nums :
        itask.num = n /\ job[n].st = "gone"
            ~> [](\/ KnownToHaveEnded(n)
                  \/ restarted /\ itask.status = "submitted")

(* process_message: a message that would take the task state backward asks *)
(* for a poll to confirm, instead of changing the state.                   *)
NoStepBack ==
    [][itask.status \in {"failed", "succeeded"} /\ itask'.num = itask.num
          => itask'.status # "running"]_vars
=============================================================================
