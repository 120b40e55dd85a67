----------------------------- MODULE JobsProofs -----------------------------
(***************************************************************************)
(* Theorems about the jobs of a task (TaskJob), proved for any numbers of  *)
(* retries, submissions, polls and troubles, with or without messages; and *)
(* about a scheduler that is killed (CrashRestart), for any graph and any  *)
(* number of kills and triggers.                                           *)
(***************************************************************************)
EXTENDS TaskJob, CrashRestart, Integers, FiniteSetTheorems, TLAPS

Statuses == {"waiting", "preparing", "submit-failed", "submitted", "running",
             "failed", "succeeded"}

\* TASK_STATUSES_ORDERED has these statuses.
LEMMA StatusesOrdered == {Ordered[i] : i \in DOMAIN Ordered} = Statuses
<1>1. DOMAIN Ordered = 1..7
  BY DEF Ordered
<1>2. /\ Ordered[1] = "waiting" /\ Ordered[2] = "preparing"
      /\ Ordered[3] = "submit-failed" /\ Ordered[4] = "submitted"
      /\ Ordered[5] = "running" /\ Ordered[6] = "failed" /\ Ordered[7] = "succeeded"
  BY DEF Ordered
<1>3. \A i \in 1..7 : i \in {1, 2, 3, 4, 5, 6, 7}
  OBVIOUS
<1>4. {Ordered[i] : i \in 1..7} \subseteq Statuses
  BY <1>2, <1>3 DEF Statuses
<1>5. Statuses \subseteq {Ordered[i] : i \in 1..7}
  BY <1>2 DEF Statuses
<1>6. QED
  BY <1>1, <1>4, <1>5

Proxy == [status : Statuses, num : 0 .. MaxSubmits, held : BOOLEAN,
          exec : 0 .. ExecRetries, sub : 0 .. SubmitRetries,
          done : SUBSET Outputs,
          timer : (0 .. MaxSubmits) \X (Active \cup {"none"})]

---------------------------------------------------------------------------
(* What a message makes of a task. *)

\* What is assumed of the bounds.
LEMMA Numbers == ExecRetries \in Nat /\ SubmitRetries \in Nat /\ MaxSubmits \in Nat
BY TaskJobAssumption

\* A message leaves the submit number and the hold alone; and what it makes of
\* the status and of the tries, Turned says.
Turned(t, m, r) ==
    \/ r.status \in Active \cup {t.status} /\ r.exec = t.exec
    \/ m = "succeeded" /\ r.status = "succeeded" /\ r.exec = t.exec
    \/ m = "failed" /\ r.status = "failed" /\ r.exec = t.exec
    \/ m = "failed" /\ r.status = "waiting" /\ r.exec = t.exec + 1
    \/ m = "submit-failed" /\ r.status = "submit-failed" /\ r.exec = t.exec
    \/ m = "submit-failed" /\ r.status = "waiting" /\ r.sub > 0 /\ r.exec = t.exec

\* _reset_job_timers changes the poll timer only.
LEMMA TimersFact ==
    ASSUME NEW t \in Proxy
    PROVE  /\ ResetJobTimers(t) \in Proxy
           /\ ResetJobTimers(t).status = t.status /\ ResetJobTimers(t).num = t.num
           /\ ResetJobTimers(t).exec = t.exec /\ ResetJobTimers(t).sub = t.sub
           /\ ResetJobTimers(t).held = t.held
<1>1. NoTimer \in (0 .. MaxSubmits) \X (Active \cup {"none"})
  BY Numbers DEF NoTimer
<1>2. t.status \in Active => <<t.num, t.status>> \in (0 .. MaxSubmits) \X (Active \cup {"none"})
  BY DEF Proxy
<1>3. QED
  BY <1>1, <1>2 DEF ResetJobTimers, Proxy

\* _process_message_submitted makes a task submitted, or leaves it.
LEMMA SubmittedFact ==
    ASSUME NEW t \in Proxy
    PROVE  LET r == MessageSubmitted(t) IN
           /\ r \in Proxy /\ r.num = t.num /\ r.exec = t.exec
           /\ r.status \in Active \cup {t.status}
<1> DEFINE u == [t EXCEPT !.status = "submitted"]
<1>1. u \in Proxy /\ u.num = t.num /\ u.exec = t.exec /\ u.status \in Active
  BY DEF Proxy, Statuses, Active
<1> HIDE DEF u
<1>2. QED
  BY <1>1, TimersFact DEF MessageSubmitted, u

\* _process_message_started makes a task running.
LEMMA StartedFact ==
    ASSUME NEW t \in Proxy
    PROVE  LET r == MessageStarted(t) IN
           /\ r \in Proxy /\ r.num = t.num /\ r.exec = t.exec
           /\ r.status \in Active
<1> DEFINE u == [t EXCEPT !.status = "running"]
           v == ResetJobTimers(u)
<1>1. u \in Proxy /\ u.num = t.num /\ u.exec = t.exec /\ u.status \in Active
  BY DEF Proxy, Statuses, Active
<1> HIDE DEF u
<1>2. v \in Proxy /\ v.num = t.num /\ v.exec = t.exec /\ v.status \in Active
  BY <1>1, TimersFact
<1> HIDE DEF v
<1>3. MessageStarted(t) = [v EXCEPT !.sub = 0]
  BY DEF MessageStarted, u, v
<1>4. 0 \in 0..SubmitRetries
  BY Numbers
<1>5. QED
  BY <1>2, <1>3, <1>4 DEF Proxy

\* _process_message_succeeded makes a task succeeded.
LEMMA SucceededFact ==
    ASSUME NEW t \in Proxy
    PROVE  LET r == MessageSucceeded(t) IN
           /\ r \in Proxy /\ r.num = t.num /\ r.exec = t.exec
           /\ r.status = "succeeded"
<1> DEFINE u == [t EXCEPT !.status = "succeeded"]
<1>1. u \in Proxy /\ u.num = t.num /\ u.exec = t.exec /\ u.status = "succeeded"
  BY DEF Proxy, Statuses
<1> HIDE DEF u
<1>2. QED
  BY <1>1, TimersFact DEF MessageSucceeded, u

\* _process_message_failed uses up a try, or makes the task failed.
LEMMA FailedFact ==
    ASSUME NEW t \in Proxy
    PROVE  LET r == MessageFailed(t) IN
           /\ r \in Proxy /\ r.num = t.num
           /\ \/ r.status = "failed" /\ r.exec = t.exec
              \/ r.status = "waiting" /\ r.exec = t.exec + 1
<1> DEFINE u == [t EXCEPT !.status = "waiting", !.exec = @ + 1]
           v == [t EXCEPT !.status = "failed", !.done = @ \cup {"failed"}]
<1>1. ASSUME t.exec < ExecRetries
      PROVE  u \in Proxy /\ u.num = t.num /\ u.exec = t.exec + 1 /\ u.status = "waiting"
  <2>1. t.exec + 1 \in 0..ExecRetries
    BY <1>1, Numbers DEF Proxy
  <2>2. QED
    BY <2>1 DEF Proxy, Statuses
<1>2. v \in Proxy /\ v.num = t.num /\ v.exec = t.exec /\ v.status = "failed"
  BY DEF Proxy, Statuses, Outputs
<1>3. MessageFailed(t) = ResetJobTimers(IF t.exec < ExecRetries THEN u ELSE v)
  BY DEF MessageFailed
<1> HIDE DEF u, v
<1>4. QED
  BY <1>1, <1>2, <1>3, TimersFact

\* _process_message_submit_failed lines a retry up, or gives the task up.
LEMMA SubmitFailedFact ==
    ASSUME NEW t \in Proxy
    PROVE  LET r == MessageSubmitFailed(t) IN
           /\ r \in Proxy /\ r.num = t.num /\ r.exec = t.exec
           /\ \/ r.status = "submit-failed"
              \/ r.status = "waiting" /\ r.sub > 0
<1> DEFINE u == [t EXCEPT !.status = "waiting", !.sub = @ + 1]
           v == [t EXCEPT !.status = "submit-failed", !.done = @ \cup {"submit-failed"}]
<1>1. ASSUME t.sub < SubmitRetries
      PROVE  /\ u \in Proxy /\ u.num = t.num /\ u.exec = t.exec
             /\ u.status = "waiting" /\ u.sub > 0
  <2>1. t.sub + 1 \in 0..SubmitRetries /\ t.sub + 1 > 0
    BY <1>1, Numbers DEF Proxy
  <2>2. QED
    BY <2>1 DEF Proxy, Statuses
<1>2. v \in Proxy /\ v.num = t.num /\ v.exec = t.exec /\ v.status = "submit-failed"
  BY DEF Proxy, Statuses, Outputs
<1>3. MessageSubmitFailed(t) = ResetJobTimers(IF t.sub < SubmitRetries THEN u ELSE v)
  BY DEF MessageSubmitFailed
<1> HIDE DEF u, v
<1>4. QED
  BY <1>1, <1>2, <1>3, TimersFact

\* The outputs that a message implies are those of a job that goes on.
LEMMA CompleteFact ==
    ASSUME NEW t \in Proxy, NEW m \in Outputs
    PROVE  LET r == Complete(t, m) IN
           /\ r \in Proxy /\ r.num = t.num /\ r.exec = t.exec
           /\ r.status \in Active \cup {t.status}
<1> DEFINE own == IF m \in {"failed", "submit-failed"} THEN t
                  ELSE [t EXCEPT !.done = @ \cup {m}]
           missing == Implied(m) \ own.done
           more == [own EXCEPT !.done = @ \cup {"submitted"}]
           sub == IF "submitted" \in missing THEN MessageSubmitted(more) ELSE own
           yet == [sub EXCEPT !.done = @ \cup {"started"}]
<1>1. Complete(t, m) = IF "started" \in missing THEN MessageStarted(yet) ELSE sub
  BY DEF Complete
<1>2. own \in Proxy /\ own.num = t.num /\ own.exec = t.exec /\ own.status = t.status
  BY DEF Proxy
<1> HIDE DEF own
<1>3. more \in Proxy /\ more.num = t.num /\ more.exec = t.exec /\ more.status = t.status
  BY <1>2 DEF Proxy, Outputs
<1> HIDE DEF more, missing
<1>4. sub \in Proxy /\ sub.num = t.num /\ sub.exec = t.exec
      /\ sub.status \in Active \cup {t.status}
  BY <1>2, <1>3, SubmittedFact
<1> HIDE DEF sub
<1>5. yet \in Proxy /\ yet.num = t.num /\ yet.exec = t.exec
  BY <1>4 DEF Proxy, Outputs
<1> HIDE DEF yet
<1>6. QED
  BY <1>1, <1>4, <1>5, StartedFact

\* process_message leaves a task alone, or does what Turned says to one that has
\* no retry lined up; of the messages of jobs, to the latest one only.
LEMMA MessageFact ==
    ASSUME NEW t \in Proxy, NEW m \in Outputs, NEW flag, NEW n
    PROVE  LET r == ProcessMessage(t, m, flag, n) IN
           /\ r \in Proxy /\ r.num = t.num
           /\ \/ r = t
              \/ ~RetryLinedUp(t) /\ (flag = "received" => n = t.num) /\ Turned(t, m, r)
<1> DEFINE did == Complete(t, m)
           r == ProcessMessage(t, m, flag, n)
<1>1. did \in Proxy /\ did.num = t.num /\ did.exec = t.exec
      /\ did.status \in Active \cup {t.status}
  BY CompleteFact
<1>2. r = t \/ (MessageCheck(t, flag, n) /\ (r = did \/ r = Handle(did, m)))
  BY DEF ProcessMessage
<1>3. MessageCheck(t, flag, n) => ~RetryLinedUp(t) /\ (flag = "received" => n = t.num)
  BY DEF MessageCheck
<1>4. did \in Proxy /\ Turned(t, m, did)
  BY <1>1 DEF Turned
<1> HIDE DEF did
<1>5. Handle(did, m) \in Proxy /\ Handle(did, m).num = t.num
      /\ Turned(t, m, Handle(did, m))
  <2>1. CASE m = "submitted"
    <3>1. Handle(did, m) = MessageSubmitted(did)
      BY <2>1 DEF Handle
    <3>2. QED
      BY <1>1, <3>1, SubmittedFact DEF Turned
  <2>2. CASE m = "started"
    <3>1. Handle(did, m) = MessageStarted(did)
      BY <2>2 DEF Handle
    <3>2. QED
      BY <1>1, <3>1, StartedFact DEF Turned
  <2>3. CASE m = "succeeded"
    <3>1. Handle(did, m) = MessageSucceeded(did)
      BY <2>3 DEF Handle
    <3>2. QED
      BY <1>1, <2>3, <3>1, SucceededFact DEF Turned
  <2>4. CASE m = "failed"
    <3>1. Handle(did, m) = MessageFailed(did)
      BY <2>4 DEF Handle
    <3>2. QED
      BY <1>1, <2>4, <3>1, FailedFact DEF Turned
  <2>5. CASE m = "submit-failed"
    <3>1. Handle(did, m) = MessageSubmitFailed(did)
      BY <2>5 DEF Handle
    <3>2. QED
      BY <1>1, <2>5, <3>1, SubmitFailedFact DEF Turned
  <2>6. QED
    BY <2>1, <2>2, <2>3, <2>4, <2>5 DEF Outputs
<1>6. QED
  BY <1>1, <1>2, <1>3, <1>4, <1>5

---------------------------------------------------------------------------
(* The invariant. *)

Up == Active \cup {"preparing"}
Over == {"exiting", "gone"}
Ended == Over \cup {"signalled"}

\* What a status file says of a job in state st.
Told(f, st) ==
    /\ f.exit # "none" => st \in Over
    /\ f.polled => st = "gone"

\* The jobs that come, their status files, and their last messages.
JobOK(n) ==
    /\ n > itask.num => job[n].st = "none"
    /\ Told(job[n].file, job[n].st)
    /\ job[n].st \notin {"none", "gone"} => job[n].file.id
    /\ \A i \in DOMAIN net[n] : net[n][i] # "started" => job[n].st \in Over
JobsOK == \A n \in Nums : JobOK(n)

\* A submission is of the latest job, which does not exist before; a result of
\* a poll or a kill is true.
CmdOK(c) ==
    /\ c.n <= itask.num
    /\ c.kind = "submit" =>
         /\ c.n = itask.num
         /\ c.step \in {"put", "255"} => job[c.n].st = "none" /\ itask.status \in Up
         /\ c.step = "fail" => ~Live(c.n)
    /\ c.kind = "poll" /\ c.step \in {"asking", "ok"} => Told(c.ctx, job[c.n].st)
    /\ c.kind = "kill" /\ c.step = "ok" => job[c.n].st \in Ended
CmdsOK ==
    /\ \A c \in cmds : CmdOK(c)
    /\ \A c, d \in InFlight("submit") : c = d

RetriesOK ==
    /\ itask.num = 0 => itask.status = "waiting"
    /\ itask.status = "waiting" /\ itask.num # 0 => RetryLinedUp(itask)

\* The jobs up to the k-th that cannot run any more.
Spent(k) == {n \in 1..k : job[n].st \in Ended}

\* A try is spent for one of the earlier jobs, and for the last one once the
\* task waits for the next.
TriesOK ==
    /\ itask.exec <= Cardinality(Spent(IF itask.status = "waiting" THEN itask.num
                                       ELSE itask.num - 1))
    /\ itask.status = "failed" => job[itask.num].st \in Ended

TaskOK == RetriesOK /\ TriesOK /\ LiveJobIsActive
JobInv == JobsOK /\ CmdsOK /\ TaskOK

\* What the types say of the task, in the form the proofs use.
LEMMA Types ==
    ASSUME TypeOK
    PROVE  /\ itask \in Proxy /\ job \in [Nums -> [st : JobStates, file : StatusFile]]
           /\ itask.num \in 0..MaxSubmits /\ itask.num \in Int /\ itask.exec \in Int
           /\ itask.status \in Statuses
           /\ MaxSubmits \in Nat
<1>1. itask \in Proxy
  BY StatusesOrdered DEF TypeOK, Proxy
<1>2. QED
  BY <1>1, Numbers DEF Proxy, TypeOK

---------------------------------------------------------------------------
(* Counting the jobs that are over. *)

\* The jobs that are over can be counted.
LEMMA SpentFinite ==
    ASSUME NEW k \in Int
    PROVE  IsFiniteSet(Spent(k)) /\ Cardinality(Spent(k)) \in Nat
<1>1. IsFiniteSet(1..k)
  BY FS_Interval
<1>2. Spent(k) \subseteq 1..k
  BY DEF Spent
<1>3. IsFiniteSet(Spent(k))
  BY <1>1, <1>2, FS_Subset
<1>4. QED
  BY <1>3, FS_CardinalityType

\* The k-th job counts for one.
LEMMA SpentGrows ==
    ASSUME NEW k \in Nums
    PROVE  /\ Cardinality(Spent(k - 1)) <= Cardinality(Spent(k))
           /\ job[k].st \in Ended => Cardinality(Spent(k)) = Cardinality(Spent(k - 1)) + 1
<1>1. k \in Int /\ k - 1 \in Int
  BY DEF Nums
<1>2. IsFiniteSet(Spent(k)) /\ IsFiniteSet(Spent(k - 1))
      /\ Cardinality(Spent(k - 1)) \in Nat
  BY <1>1, SpentFinite
<1>3. Spent(k - 1) \subseteq Spent(k) /\ k \notin Spent(k - 1)
  BY <1>1 DEF Spent
<1>4. job[k].st \in Ended => Spent(k) = Spent(k - 1) \cup {k}
  BY <1>1 DEF Spent, Nums
<1>5. Cardinality(Spent(k - 1)) <= Cardinality(Spent(k))
  BY <1>2, <1>3, FS_Subset
<1>6. Cardinality(Spent(k - 1) \cup {k}) = Cardinality(Spent(k - 1)) + 1
  BY <1>2, <1>3, FS_AddElement
<1>7. QED
  BY <1>4, <1>5, <1>6

\* Jobs that are over stay so.
LEMMA SpentStays ==
    ASSUME NEW k \in Int,
           \A n \in 1..k : job[n].st \in Ended => job'[n].st \in Ended
    PROVE  Cardinality(Spent(k)) <= Cardinality(Spent(k)')
<1>1. IsFiniteSet(1..k)
  BY FS_Interval
<1>2. Spent(k)' \subseteq 1..k /\ Spent(k) \subseteq Spent(k)'
  BY DEF Spent
<1>3. IsFiniteSet(Spent(k)')
  BY <1>1, <1>2, FS_Subset
<1>4. QED
  BY <1>2, <1>3, FS_Subset

---------------------------------------------------------------------------
(* The steps of the scheduler. *)

\* The grounds on which a message is sent or a result reported.
Grounds(m) ==
    /\ m \in {"succeeded", "failed"} => job[itask.num].st \in Ended
    /\ m = "submit-failed" => ~Live(itask.num)

\* A message that is true of the latest job keeps the tries counted, and no live
\* job forgotten.
LEMMA MessageKeeps ==
    ASSUME TypeOK, TaskOK, NEW m \in Outputs, NEW flag, NEW n,
           (flag = "received" => n = itask.num) => itask.num # 0 /\ Grounds(m),
           itask' = ProcessMessage(itask, m, flag, n), job' = job
    PROVE  /\ itask' \in Proxy /\ itask'.num = itask.num /\ TaskOK'
           /\ itask.status \in Up /\ job[itask.num].st = "none" /\ m # "submit-failed"
                => itask'.status \in Up
<1> DEFINE k == itask.num
<1>1. /\ itask \in Proxy /\ k \in 0..MaxSubmits /\ k \in Int /\ itask.exec \in Int
      /\ MaxSubmits \in Nat
  BY Types
<1>2. itask' \in Proxy /\ itask'.num = k
      /\ \/ itask' = itask
         \/ /\ ~RetryLinedUp(itask) /\ (flag = "received" => n = k)
            /\ Turned(itask, m, itask')
  BY <1>1, MessageFact
<1>3. CASE itask' = itask
  <2>1. TaskOK'
    BY <1>3 DEF TaskOK, RetriesOK, TriesOK, LiveJobIsActive, Spent, Live, RetryLinedUp
  <2>2. QED
    BY <1>2, <1>3, <2>1
<1>4. CASE ~RetryLinedUp(itask) /\ (flag = "received" => n = k) /\ Turned(itask, m, itask')
  <2>1. k # 0 /\ Grounds(m) /\ k \in Nums
    BY <1>1, <1>4 DEF Nums
  <2>2. itask.status # "waiting"
    BY <1>4, <2>1 DEF TaskOK, RetriesOK
  <2>3. itask.exec <= Cardinality(Spent(k - 1))
    BY <2>2 DEF TaskOK, TriesOK
  <2>4. \A j : Spent(j)' = Spent(j)
    BY DEF Spent
  <2>5. \A j : Live(j)' = Live(j)
    BY DEF Live
  <2>6. CASE itask'.status \in Active \cup {itask.status} /\ itask'.exec = itask.exec
    <3>1. itask'.status # "waiting"
      BY <2>2, <2>6 DEF Active
    <3>2. RetriesOK'
      BY <1>2, <2>1, <3>1 DEF RetriesOK
    <3>3. TriesOK'
      <4>1. itask'.exec <= Cardinality(Spent(k - 1))
        BY <2>3, <2>6
      <4>2. itask'.status = "failed" => itask.status = "failed"
        BY <2>6 DEF Active
      <4>3. QED
        BY <1>2, <2>4, <3>1, <4>1, <4>2 DEF TriesOK, TaskOK
    <3>4. LiveJobIsActive'
      BY <1>2, <2>5, <2>6 DEF LiveJobIsActive, TaskOK
    <3>5. QED
      BY <1>2, <2>6, <3>2, <3>3, <3>4 DEF TaskOK, Up
  <2>7. CASE ~(itask'.status \in Active \cup {itask.status} /\ itask'.exec = itask.exec)
    <3>1. \/ m = "succeeded" /\ itask'.status = "succeeded" /\ itask'.exec = itask.exec
          \/ m = "failed" /\ itask'.status = "failed" /\ itask'.exec = itask.exec
          \/ m = "failed" /\ itask'.status = "waiting" /\ itask'.exec = itask.exec + 1
          \/ m = "submit-failed" /\ itask'.status = "submit-failed"
                /\ itask'.exec = itask.exec
          \/ m = "submit-failed" /\ itask'.status = "waiting" /\ itask'.sub > 0
                /\ itask'.exec = itask.exec
      BY <1>4, <2>7 DEF Turned
    <3>2. ~Live(k)
      BY <2>1, <3>1 DEF Grounds, Live, Ended, Over
    <3>3. LiveJobIsActive'
      BY <2>5, <3>2 DEF LiveJobIsActive, TaskOK
    <3>4. m # "submit-failed" => job[k].st \in Ended
      BY <2>1, <3>1 DEF Grounds
    <3>5. RetriesOK'
      <4>1. itask'.status = "waiting" => itask'.exec > 0 \/ itask'.sub > 0
        <5>1. itask.exec >= 0
          BY <1>1, Numbers DEF Proxy
        <5>2. QED
          BY <1>1, <3>1, <5>1
      <4>2. QED
        BY <1>2, <2>1, <4>1 DEF RetriesOK, RetryLinedUp
    <3>6. TriesOK'
      <4>1. itask'.exec <= Cardinality(Spent(IF itask'.status = "waiting" THEN k ELSE k - 1))
        <5>1. /\ Cardinality(Spent(k)) \in Nat /\ Cardinality(Spent(k - 1)) \in Nat
              /\ Cardinality(Spent(k - 1)) <= Cardinality(Spent(k))
              /\ job[k].st \in Ended => Cardinality(Spent(k)) = Cardinality(Spent(k - 1)) + 1
          BY <1>1, <2>1, SpentFinite, SpentGrows
        <5>2. CASE itask'.status = "waiting"
          BY <1>1, <2>3, <3>1, <3>4, <5>1, <5>2
        <5>3. CASE itask'.status # "waiting"
          BY <2>3, <3>1, <5>3
        <5>4. QED
          BY <5>2, <5>3
      <4>2. itask'.status = "failed" => job[k].st \in Ended
        BY <3>1, <3>4
      <4>3. QED
        BY <1>2, <2>4, <4>1, <4>2 DEF TriesOK
    <3>7. job[k].st = "none" => m = "submit-failed"
      BY <3>4 DEF Ended, Over
    <3>8. QED
      BY <1>2, <3>3, <3>5, <3>6, <3>7 DEF TaskOK
  <2>8. QED
    BY <2>6, <2>7
<1>5. QED
  BY <1>2, <1>3, <1>4

\* A command is asked for of the latest job.
Asked(e) ==
    /\ e \in Command /\ e.kind # "submit" /\ e.step = "put" /\ e.n <= itask'.num

\* Commands asked for of the latest job keep the submissions as they were.
LEMMA AskKeeps ==
    ASSUME TypeOK, CmdsOK, \A e \in cmds' : Asked(e) \/ (e \in cmds /\ CmdOK(e)')
    PROVE  CmdsOK' /\ cmds' \subseteq Command
<1>1. \A e \in cmds' : CmdOK(e)'
  BY DEF Asked, CmdOK
<1>2. \A e \in cmds' : e.kind = "submit" => e \in cmds
  BY DEF Asked
<1>3. \A e, d \in InFlight("submit")' : e = d
  BY <1>2 DEF CmdsOK, InFlight
<1>4. cmds' \subseteq Command
  BY DEF Asked, TypeOK
<1>5. QED
  BY <1>1, <1>3, <1>4 DEF CmdsOK

\* poll_task_jobs asks of the latest job, if there is one.
LEMMA NewPoll ==
    ASSUME TypeOK, NEW t \in Proxy, t.num = itask'.num,
           t.num = 0 => t.status = "waiting"
    PROVE  \A e \in PollCommand(t) : Asked(e)
<1>1. t.status # "waiting" => t.num \in Nums /\ t.num <= itask'.num
  BY Numbers DEF Proxy, Nums
<1>2. NoFile \in StatusFile
  BY DEF NoFile, StatusFile
<1>3. QED
  BY <1>1, <1>2 DEF PollCommand, NewCommand, Asked, Command, Kinds, Steps

\* The commands stay as true as they were when the job and the task do not change.
LEMMA SameCmds ==
    ASSUME NEW c, CmdOK(c), itask'.num = itask.num, job' = job,
           itask.status \in Up /\ job[itask.num].st = "none" /\ c.kind = "submit"
               => itask'.status \in Up
    PROVE  CmdOK(c)'
BY DEF CmdOK, Live, Told

\* Polls, kills and releases only ask and hold.
LEMMA PollActions ==
    ASSUME TypeOK, JobInv, PollTimer \/ PollRequest \/ KillRequest \/ Release
    PROVE  TypeOK' /\ JobInv'
<1>1. itask \in Proxy
  BY Types
<1>2. /\ job' = job /\ net' = net
      /\ itask' = itask \/ \E h \in BOOLEAN : itask' = [itask EXCEPT !.held = h]
      /\ troubles' \in 0..MaxTroubles /\ restarted' \in BOOLEAN
      /\ \/ cmds' = cmds \/ cmds' = cmds \cup PollCommand(itask)
         \/ itask.num # 0 /\ cmds' = cmds \cup {NewCommand("kill", itask.num)}
  <2>1. Trouble("request") => troubles' \in 0..MaxTroubles /\ restarted' \in BOOLEAN
    BY TaskJobAssumption DEF Trouble, TypeOK
  <2>2. itask.status \in Active => itask.num # 0
    BY DEF JobInv, TaskOK, RetriesOK, Active
  <2>3. CASE PollTimer
    BY <2>3 DEF PollTimer, counters, TypeOK
  <2>4. CASE PollRequest
    BY <2>1, <2>4 DEF PollRequest
  <2>5. CASE KillRequest
    BY <2>1, <2>2, <2>5 DEF KillRequest
  <2>6. CASE Release
    BY <2>6 DEF Release, counters, TypeOK
  <2>7. QED
    BY <2>3, <2>4, <2>5, <2>6
<1>3. /\ itask' \in Proxy /\ itask'.num = itask.num /\ itask'.status = itask.status
      /\ itask'.exec = itask.exec /\ itask'.sub = itask.sub
  BY <1>1, <1>2 DEF Proxy
<1>4. \A e \in cmds' : Asked(e) \/ e \in cmds
  <2>1. itask.num = 0 => itask.status = "waiting"
    BY DEF JobInv, TaskOK, RetriesOK
  <2>2. \A e \in PollCommand(itask) : Asked(e)
    BY <1>1, <1>3, <2>1, NewPoll
  <2>3. itask.num # 0 => Asked(NewCommand("kill", itask.num))
    <3>1. itask.num # 0 => itask.num \in Nums /\ itask.num <= itask'.num
      BY <1>1, <1>3, Numbers DEF Proxy, Nums
    <3>2. NoFile \in StatusFile
      BY DEF NoFile, StatusFile
    <3>3. QED
      BY <3>1, <3>2 DEF NewCommand, Asked, Command, Kinds, Steps
  <2>4. QED
    BY <1>2, <2>2, <2>3
<1>5. \A e \in cmds : CmdOK(e)'
  BY <1>2, <1>3, SameCmds DEF JobInv, CmdsOK
<1>6. CmdsOK' /\ cmds' \subseteq Command
  BY <1>4, <1>5, AskKeeps DEF JobInv
<1>7. TaskOK'
  BY <1>2, <1>3 DEF JobInv, TaskOK, RetriesOK, RetryLinedUp, TriesOK, Spent, LiveJobIsActive, Live
<1>8. JobsOK'
  BY <1>2, <1>3 DEF JobInv, JobsOK, JobOK, Told
<1>9. TypeOK'
  BY <1>2, <1>3, <1>6, StatusesOrdered DEF TypeOK, Proxy
<1>10. QED
  BY <1>6, <1>7, <1>8, <1>9 DEF JobInv

\* The next submission.
LEMMA PrepareKeeps ==
    ASSUME ~SlowSubmit, TypeOK, JobInv, Prepare
    PROVE  TypeOK' /\ JobInv'
<1>0. PICK k \in 0..MaxSubmits : k = itask.num
  BY Types
<1> DEFINE new == NewCommand("submit", k + 1)
<1>1. itask \in Proxy /\ MaxSubmits \in Nat
  BY Types
<1>2. /\ itask.status = "waiting" /\ k < MaxSubmits /\ InFlight("submit") = {}
      /\ itask' = [itask EXCEPT !.num = k + 1, !.status = "preparing"]
      /\ cmds' = cmds \cup {new} /\ job' = job /\ net' = net
      /\ troubles' = troubles /\ restarted' = restarted
  BY <1>0 DEF Prepare, counters
<1>3. k + 1 \in Nums /\ k + 1 \in 0..MaxSubmits /\ k \in Int
  BY <1>0, <1>1, <1>2 DEF Nums
<1>4. /\ itask' \in Proxy /\ itask'.num = k + 1 /\ itask'.status = "preparing"
      /\ itask'.exec = itask.exec
  BY <1>1, <1>2, <1>3 DEF Proxy, Statuses
<1>5. new \in Command /\ new.kind = "submit" /\ new.n = k + 1 /\ new.step = "put"
  BY <1>3 DEF NewCommand, Command, Kinds, Steps, NoFile, StatusFile
<1>6. job[k + 1].st = "none"
  <2>1. k + 1 > itask.num
    BY <1>0, <1>3
  <2>2. QED
    BY <1>3, <2>1 DEF JobInv, JobsOK, JobOK
<1> HIDE DEF new
<1>7. CmdsOK'
  <2>1. ASSUME NEW e \in cmds PROVE CmdOK(e)'
    <3>1. e.kind # "submit"
      BY <1>2 DEF InFlight
    <3>2. e \in Command /\ e.n <= k
      BY <1>0 DEF TypeOK, JobInv, CmdsOK, CmdOK
    <3>3. e.n <= k + 1
      BY <1>3, <3>2 DEF Command, Nums
    <3>4. QED
      BY <1>2, <1>4, <3>1, <3>3 DEF JobInv, CmdsOK, CmdOK, Told
  <2>2. CmdOK(new)'
    <3>1. k + 1 <= k + 1
      BY <1>3
    <3>2. QED
      BY <1>2, <1>4, <1>5, <1>6, <3>1 DEF CmdOK, Up
  <2>3. \A e, d \in InFlight("submit")' : e = d
    BY <1>2 DEF InFlight
  <2>4. QED
    BY <1>2, <2>1, <2>2, <2>3 DEF CmdsOK
<1>8. JobsOK'
  <2>1. ASSUME NEW n \in Nums, n > k + 1 PROVE job[n].st = "none"
    <3>1. n > itask.num
      BY <1>0, <1>3, <2>1 DEF Nums
    <3>2. QED
      BY <3>1 DEF JobInv, JobsOK, JobOK
  <2>2. QED
    BY <1>2, <1>4, <2>1 DEF JobInv, JobsOK, JobOK, Told
<1>9. TaskOK'
  <2>1. RetriesOK'
    BY <1>3, <1>4 DEF RetriesOK
  <2>2. TriesOK'
    <3>1. itask.exec <= Cardinality(Spent(k))
      BY <1>0, <1>2 DEF JobInv, TaskOK, TriesOK
    <3>2. (k + 1) - 1 = k /\ \A j : Spent(j)' = Spent(j)
      BY <1>2, <1>3 DEF Spent
    <3>3. QED
      BY <1>4, <3>1, <3>2 DEF TriesOK
  <2>3. LiveJobIsActive'
    BY <1>2 DEF JobInv, TaskOK, LiveJobIsActive, Live, Active
  <2>4. QED
    BY <2>1, <2>2, <2>3 DEF TaskOK
<1>10. TypeOK'
  BY <1>2, <1>4, <1>5, StatusesOrdered DEF TypeOK, Proxy
<1>11. QED
  BY <1>7, <1>8, <1>9, <1>10 DEF JobInv

---------------------------------------------------------------------------
(* The steps at the job host. *)

\* A job only goes on to its end.
Forward(n) ==
    /\ job[n].st = "none" => job'[n].st = "none"
    /\ job[n].st \in Ended => job'[n].st \in Ended
    /\ job[n].st \in Over => job'[n].st \in Over
    /\ job[n].st = "gone" => job'[n].st = "gone"
    /\ job'[n].st \in {"pending", "running"} => Live(n)

\* Results stay true as jobs go on.
LEMMA ForwardCmd ==
    ASSUME NEW c, CmdOK(c), Forward(c.n), itask' = itask
    PROVE  CmdOK(c)'
BY DEF CmdOK, Forward, Live, Told

\* The tries stay counted as jobs go on.
LEMMA ForwardTask ==
    ASSUME TypeOK, TaskOK, itask' = itask,
           \A n \in Nums : job[n].st \in Ended => job'[n].st \in Ended,
           \A n \in Nums : job'[n].st \in {"pending", "running"} =>
               Live(n) \/ (n = itask.num /\ itask.status \in Up)
    PROVE  TaskOK'
<1>1. RetriesOK'
  BY DEF TaskOK, RetriesOK, RetryLinedUp
<1>2. LiveJobIsActive'
  BY DEF TaskOK, LiveJobIsActive, Live, Up
<1>3. PICK k \in Int : k = (IF itask.status = "waiting" THEN itask.num ELSE itask.num - 1)
  BY Types
<1>4. k \in Int /\ k <= MaxSubmits /\ itask.exec \in Int
  BY <1>3, Types
<1>5. \A n \in 1..k : job[n].st \in Ended => job'[n].st \in Ended
  BY <1>4, Numbers DEF Nums
<1>6. Cardinality(Spent(k)) <= Cardinality(Spent(k)')
  BY <1>5, SpentStays
<1>7. itask.exec <= Cardinality(Spent(k))
  BY <1>3 DEF TaskOK, TriesOK
<1>8. Cardinality(Spent(k)) \in Nat /\ Cardinality(Spent(k)') \in Nat
  <2>1. IsFiniteSet(1..k) /\ Spent(k)' \subseteq 1..k
    BY FS_Interval DEF Spent
  <2>2. QED
    BY <2>1, SpentFinite, FS_Subset, FS_CardinalityType
<1>9. itask.exec <= Cardinality(Spent(k)')
  BY <1>4, <1>6, <1>7, <1>8
<1>10. itask.status = "failed" => job'[itask.num].st \in Ended
  <2>1. itask.status = "failed" => itask.num \in Nums
    BY Types DEF TaskOK, RetriesOK, Nums
  <2>2. QED
    BY <2>1 DEF TaskOK, TriesOK
<1>11. TriesOK'
  BY <1>3, <1>9, <1>10 DEF TriesOK
<1>12. QED
  BY <1>1, <1>2, <1>11 DEF TaskOK

\* A command that returns is the same command.
LEMMA ReturnKeeps ==
    ASSUME TypeOK, CmdsOK, NEW c \in cmds, NEW step \in Steps, NEW ctx \in StatusFile,
           Return(c, step, ctx),
           \A e \in cmds : e # c => CmdOK(e)',
           CmdOK([c EXCEPT !.step = step, !.ctx = ctx])'
    PROVE  CmdsOK' /\ cmds' \subseteq Command
<1> DEFINE d == [c EXCEPT !.step = step, !.ctx = ctx]
<1>1. cmds' = (cmds \ {c}) \cup {d}
  BY DEF Return
<1>2. c \in Command /\ d \in Command /\ d.kind = c.kind
  BY DEF TypeOK, Command
<1> HIDE DEF d
<1>3. \A e \in cmds' : CmdOK(e)'
  BY <1>1 DEF d
<1>4. \A e, f \in InFlight("submit")' : e = f
  BY <1>1, <1>2 DEF CmdsOK, InFlight
<1>5. QED
  BY <1>1, <1>2, <1>3, <1>4 DEF CmdsOK, TypeOK

\* What a step at the host has to show.
LEMMA HostKeeps ==
    ASSUME TypeOK, JobInv, itask' = itask, net' = net,
           UNCHANGED counters \/ Trouble("fault"),
           CmdsOK', cmds' \subseteq Command, JobsOK', TaskOK',
           job' \in [Nums -> [st : JobStates, file : StatusFile]]
    PROVE  TypeOK' /\ JobInv'
<1>1. troubles' \in 0..MaxTroubles /\ restarted' \in BOOLEAN
  BY TaskJobAssumption DEF TypeOK, counters, Trouble
<1>2. TypeOK'
  BY <1>1 DEF TypeOK
<1>3. QED
  BY <1>2 DEF JobInv

JobRecord == [st : JobStates, file : StatusFile]

\* One job gets a new record.
LEMMA OneJob ==
    ASSUME NEW n \in Nums, NEW r \in JobRecord, job \in [Nums -> [st : JobStates, file : StatusFile]],
           job' = [job EXCEPT ![n] = r]
    PROVE  /\ job' \in [Nums -> [st : JobStates, file : StatusFile]]
           /\ job'[n] = r /\ \A k \in Nums : k # n => job'[k] = job[k]
BY DEF JobRecord

\* One job gets a new state.
LEMMA SetState ==
    ASSUME NEW n \in Nums, NEW st \in JobStates,
           job \in [Nums -> [st : JobStates, file : StatusFile]],
           job' = [job EXCEPT ![n].st = st]
    PROVE  \E r \in JobRecord : /\ r.st = st /\ r.file = job[n].file
                                /\ job' = [job EXCEPT ![n] = r]
<1> DEFINE r == [job[n] EXCEPT !.st = st]
<1>1. r \in JobRecord /\ r.st = st /\ r.file = job[n].file
  BY DEF JobRecord
<1>2. job' = [job EXCEPT ![n] = r]
  OBVIOUS
<1> HIDE DEF r
<1>3. QED
  BY <1>1, <1>2

\* The job runner takes the job, or rejects it.
LEMMA SubmitAtHostKeeps ==
    ASSUME TypeOK, JobInv, NEW c \in cmds, SubmitAtHost(c)
    PROVE  TypeOK' /\ JobInv'
<1>1. /\ c \in Command /\ c.kind = "submit" /\ c.step = "put" /\ c.n \in Nums
      /\ itask' = itask /\ net' = net /\ UNCHANGED counters
      /\ NoFile \in StatusFile /\ [NoFile EXCEPT !.id = TRUE] \in StatusFile
  BY DEF SubmitAtHost, TypeOK, Command, NoFile, StatusFile
<1>2. job[c.n].st = "none" /\ c.n = itask.num /\ itask.status \in Up
  BY <1>1 DEF JobInv, CmdsOK, CmdOK
<1>3. job \in [Nums -> [st : JobStates, file : StatusFile]]
  BY DEF TypeOK
<1>4. PICK step \in {"ok", "fail"}, r \in JobRecord :
        /\ Return(c, step, NoFile)
        /\ job' = [job EXCEPT ![c.n] = r]
        /\ \/ step = "ok" /\ r.st = "pending" /\ r.file = [NoFile EXCEPT !.id = TRUE]
           \/ step = "fail" /\ r.st = "gone" /\ r.file = job[c.n].file
  <2>1. CASE /\ job' = [job EXCEPT ![c.n] =
                          [st |-> "pending", file |-> [NoFile EXCEPT !.id = TRUE]]]
             /\ Return(c, "ok", NoFile)
    <3> DEFINE r == [st |-> "pending", file |-> [NoFile EXCEPT !.id = TRUE]]
    <3>1. r \in JobRecord /\ r.st = "pending" /\ r.file = [NoFile EXCEPT !.id = TRUE]
      BY <1>1 DEF JobRecord, JobStates
    <3> HIDE DEF r
    <3>2. job' = [job EXCEPT ![c.n] = r]
      BY <2>1 DEF r
    <3>3. QED
      BY <2>1, <3>1, <3>2
  <2>2. CASE job' = [job EXCEPT ![c.n].st = "gone"] /\ Return(c, "fail", NoFile)
    <3>1. PICK r \in JobRecord : /\ r.st = "gone" /\ r.file = job[c.n].file
                                /\ job' = [job EXCEPT ![c.n] = r]
      BY <1>1, <1>3, <2>2, SetState DEF JobStates
    <3>2. QED
      BY <2>2, <3>1
  <2>3. QED
    BY <2>1, <2>2 DEF SubmitAtHost
<1>5. /\ job' \in [Nums -> [st : JobStates, file : StatusFile]]
      /\ \A n \in Nums : n # c.n => job'[n] = job[n]
  BY <1>1, <1>3, <1>4, OneJob
<1>6. \/ /\ step = "ok" /\ job'[c.n].st = "pending"
         /\ job'[c.n].file = [NoFile EXCEPT !.id = TRUE]
      \/ step = "fail" /\ job'[c.n].st = "gone" /\ job'[c.n].file = job[c.n].file
  BY <1>1, <1>3, <1>4, OneJob
<1>7. Told(job'[c.n].file, job'[c.n].st) /\ (job'[c.n].st = "pending" => job'[c.n].file.id)
  <2>1. Told(job[c.n].file, "none")
    BY <1>1, <1>2 DEF JobInv, JobsOK, JobOK
  <2>2. Told(job[c.n].file, "gone")
    BY <2>1 DEF Told, Over
  <2>3. Told([NoFile EXCEPT !.id = TRUE], "pending") /\ [NoFile EXCEPT !.id = TRUE].id
    BY DEF Told, NoFile
  <2>4. QED
    BY <1>6, <2>2, <2>3
<1>8. JobsOK'
  <2>1. ASSUME NEW n \in Nums, n # c.n PROVE JobOK(n)'
    BY <1>1, <1>5, <2>1 DEF JobInv, JobsOK, JobOK
  <2>2. JobOK(c.n)'
    <3>1. ~(c.n > itask.num)
      BY <1>1, <1>2 DEF Nums
    <3>2. \A i \in DOMAIN net[c.n] : net[c.n][i] = "started"
      BY <1>1, <1>2 DEF JobInv, JobsOK, JobOK, Over
    <3>3. QED
      BY <1>1, <1>6, <1>7, <3>1, <3>2 DEF JobOK
  <2>3. QED
    BY <2>1, <2>2 DEF JobsOK
<1>9. TaskOK'
  <2>1. \A n \in Nums : job[n].st \in Ended => job'[n].st \in Ended
    BY <1>2, <1>5 DEF Ended, Over
  <2>2. \A n \in Nums : job'[n].st \in {"pending", "running"} =>
               Live(n) \/ (n = itask.num /\ itask.status \in Up)
    BY <1>2, <1>5 DEF Live
  <2>3. QED
    BY <1>1, <2>1, <2>2, ForwardTask DEF JobInv
<1>10. CmdsOK' /\ cmds' \subseteq Command
  <2>1. ASSUME NEW e \in cmds, e # c PROVE CmdOK(e)'
    <3>1. CmdOK(e) /\ e.kind # "submit" /\ e.n \in Nums
      BY <1>1, <2>1 DEF JobInv, CmdsOK, InFlight, TypeOK, Command
    <3>2. CASE e.n # c.n
      BY <1>1, <1>5, <3>1, <3>2 DEF CmdOK
    <3>3. CASE e.n = c.n
      <4>1. e.kind = "poll" /\ e.step \in {"asking", "ok"} =>
              Told(e.ctx, job'[c.n].st)
        <5>1. e.kind = "poll" /\ e.step \in {"asking", "ok"} => Told(e.ctx, "none")
          BY <1>2, <3>1, <3>3 DEF CmdOK
        <5>2. QED
          BY <5>1 DEF Told, Over
      <4>2. ~(e.kind = "kill" /\ e.step = "ok")
        BY <1>2, <3>1, <3>3 DEF CmdOK, Ended, Over
      <4>3. QED
        BY <1>1, <3>1, <3>3, <4>1, <4>2 DEF CmdOK
    <3>4. QED
      BY <3>2, <3>3
  <2>2. CmdOK([c EXCEPT !.step = step, !.ctx = NoFile])'
    <3>1. CmdOK(c)
      BY DEF JobInv, CmdsOK
    <3>2. step = "fail" => ~(job'[c.n].st \in {"pending", "running"})
      BY <1>6
    <3>3. PICK d : d = [c EXCEPT !.step = step, !.ctx = NoFile]
      OBVIOUS
    <3>4. d.kind = "submit" /\ d.n = c.n /\ d.step = step
      BY <1>1, <3>3 DEF Command
    <3>5. CmdOK(d)'
      BY <1>1, <1>2, <1>4, <3>1, <3>2, <3>4 DEF CmdOK, Live
    <3>6. QED
      BY <3>3, <3>5
  <2>3. /\ c \in cmds /\ step \in Steps /\ NoFile \in StatusFile
        /\ Return(c, step, NoFile)
    BY <1>1, <1>4 DEF Steps
  <2>4. TypeOK /\ CmdsOK
    BY DEF JobInv
  <2>5. QED
    BY <2>1, <2>2, <2>3, <2>4, ReturnKeeps
<1>11. QED
  BY <1>1, <1>5, <1>8, <1>9, <1>10, HostKeeps

\* What a job may do, with its messages: it goes on, and its status file and its
\* last message tell of its end only then.
LEMMA JobMoves ==
    ASSUME TypeOK, JobInv, itask' = itask, NEW n \in Nums, NEW r \in JobRecord,
           job' = [job EXCEPT ![n] = r],
           job[n].st = "none" => r.st = "none",
           job[n].st \in Ended => r.st \in Ended,
           job[n].st \in Over => r.st \in Over,
           job[n].st = "gone" => r.st = "gone",
           r.st \in {"pending", "running"} => Live(n),
           Told(r.file, r.st), r.st \notin {"none", "gone"} => r.file.id,
           \A k \in Nums : k # n => net'[k] = net[k],
           \A i \in DOMAIN net'[n] : net'[n][i] # "started" => r.st \in Over
    PROVE  /\ JobsOK' /\ TaskOK' /\ \A e \in cmds : CmdOK(e)'
           /\ job' \in [Nums -> [st : JobStates, file : StatusFile]]
<1>1. job \in [Nums -> [st : JobStates, file : StatusFile]]
  BY DEF TypeOK
<1>2. /\ job' \in [Nums -> [st : JobStates, file : StatusFile]]
      /\ job'[n] = r /\ \A k \in Nums : k # n => job'[k] = job[k]
  BY <1>1, OneJob
<1>3. \A k \in Nums : Forward(k)
  BY <1>2 DEF Forward, Live
<1>4. JobsOK'
  <2>1. ASSUME NEW k \in Nums, k # n PROVE JobOK(k)'
    BY <1>2, <2>1 DEF JobInv, JobsOK, JobOK
  <2>2. JobOK(n)'
    <3>1. n > itask.num => r.st = "none"
      BY DEF JobInv, JobsOK, JobOK
    <3>2. QED
      BY <1>2, <3>1 DEF JobOK
  <2>3. QED
    BY <2>1, <2>2 DEF JobsOK
<1>5. TaskOK'
  BY <1>3, ForwardTask DEF Forward, JobInv
<1>6. \A e \in cmds : CmdOK(e)'
  BY <1>3, ForwardCmd DEF JobInv, CmdsOK, TypeOK, Command
<1>7. QED
  BY <1>2, <1>4, <1>5, <1>6

\* Nothing moves on the job host.
LEMMA Unmoved ==
    ASSUME JobInv, itask' = itask, job' = job, net' = net
    PROVE  JobsOK' /\ TaskOK' /\ \A e \in cmds : CmdOK(e)'
<1>1. JobsOK'
  BY DEF JobInv, JobsOK, JobOK, Told
<1>2. TaskOK'
  BY DEF JobInv, TaskOK, RetriesOK, TriesOK, Spent, LiveJobIsActive, Live, RetryLinedUp
<1>3. \A e \in cmds : CmdOK(e)'
  BY DEF JobInv, CmdsOK, CmdOK, Live, Told
<1>4. QED
  BY <1>1, <1>2, <1>3

\* A command returns with what is true of its job.
LEMMA ReturnTrue ==
    ASSUME TypeOK, JobInv, itask' = itask,
           NEW c \in cmds, NEW step \in Steps, NEW ctx \in StatusFile, Return(c, step, ctx),
           JobsOK', TaskOK', \A e \in cmds : CmdOK(e)',
           c.kind = "submit" => (step = "255" /\ c.step = "put") \/ (step = "fail" /\ ~Live(c.n)'),
           c.kind = "poll" /\ step \in {"asking", "ok"} => Told(ctx, job'[c.n].st),
           c.kind = "kill" /\ step = "ok" => job'[c.n].st \in Ended
    PROVE  CmdsOK' /\ cmds' \subseteq Command
<1>1. PICK d : d = [c EXCEPT !.step = step, !.ctx = ctx]
  OBVIOUS
<1>2. c \in Command /\ d.kind = c.kind /\ d.n = c.n /\ d.step = step /\ d.ctx = ctx
  BY <1>1 DEF TypeOK, Command
<1>3. CmdOK(c)'
  OBVIOUS
<1>4. CmdOK(d)'
  BY <1>2, <1>3 DEF CmdOK
<1>5. CmdOK([c EXCEPT !.step = step, !.ctx = ctx])'
  BY <1>1, <1>4
<1>6. QED
  BY <1>5, ReturnKeeps DEF JobInv

\* What a poll reads in the status file is true of the job.
LEMMA PollFileKeeps ==
    ASSUME TypeOK, JobInv, NEW c \in cmds, PollFile(c)
    PROVE  TypeOK' /\ JobInv'
<1>1. PICK f : f = [job[c.n].file EXCEPT !.polled = @ \/ ~ job[c.n].file.id]
  OBVIOUS
<1>2. /\ itask' = itask /\ job' = job /\ net' = net /\ UNCHANGED counters
      /\ c \in Command /\ c.kind = "poll" /\ c.n \in Nums
  BY DEF PollFile, TypeOK, Command
<1>3. job \in [Nums -> [st : JobStates, file : StatusFile]]
  BY DEF TypeOK
<1>4. /\ f \in StatusFile /\ f.exit = job[c.n].file.exit
      /\ f.polled => job[c.n].file.polled \/ ~ job[c.n].file.id
  <2>1. PICK g \in StatusFile : g = job[c.n].file
    BY <1>2, <1>3
  <2>2. PICK p \in BOOLEAN : p = (g.polled \/ ~ g.id)
    OBVIOUS
  <2>3. f = [g EXCEPT !.polled = p]
    BY <1>1, <2>1, <2>2
  <2>4. f \in StatusFile /\ f.exit = g.exit /\ f.polled = p
    BY <2>3 DEF StatusFile
  <2>5. p => g.polled \/ ~ g.id
    BY <2>2
  <2>6. QED
    BY <2>1, <2>4, <2>5
<1>5. JobsOK' /\ TaskOK' /\ \A e \in cmds : CmdOK(e)'
  BY <1>2, Unmoved
<1>6. NoFile \in StatusFile
  BY DEF NoFile, StatusFile
<1>7. CASE Return(c, "fail", NoFile)
  <2>1. CmdsOK' /\ cmds' \subseteq Command
    BY <1>2, <1>5, <1>6, <1>7, ReturnTrue DEF Steps
  <2>2. QED
    BY <1>2, <1>3, <1>5, <2>1, HostKeeps
<1>8. CASE job[c.n].st # "none" /\ Return(c, IF Trusted(f) THEN "ok" ELSE "asking", f)
  <2>1. Told(f, job'[c.n].st)
    BY <1>2, <1>4, <1>8 DEF JobInv, JobsOK, JobOK, Told
  <2>2. PICK step \in {"ok", "asking"} : Return(c, step, f)
    BY <1>8
  <2>3. CmdsOK' /\ cmds' \subseteq Command
    BY <1>2, <1>4, <1>5, <2>1, <2>2, ReturnTrue DEF Steps
  <2>4. QED
    BY <1>2, <1>3, <1>5, <2>3, HostKeeps
<1>9. QED
  BY <1>1, <1>7, <1>8 DEF PollFile

\* A job that the job runner does not list is over.
LEMMA PollRunnerKeeps ==
    ASSUME TypeOK, JobInv, NEW c \in cmds, PollRunner(c)
    PROVE  TypeOK' /\ JobInv'
<1>1. /\ itask' = itask /\ net' = net /\ UNCHANGED counters
      /\ c \in Command /\ c.kind = "poll" /\ c.step = "asking" /\ c.n \in Nums
      /\ c.ctx \in StatusFile
  BY DEF PollRunner, TypeOK, Command
<1>2. job \in [Nums -> [st : JobStates, file : StatusFile]]
  BY DEF TypeOK
<1>3. CASE job' = job /\ Return(c, "ok", c.ctx)
  <2>1. JobsOK' /\ TaskOK' /\ \A e \in cmds : CmdOK(e)'
    BY <1>1, <1>3, Unmoved
  <2>2. Told(c.ctx, job'[c.n].st)
    BY <1>1, <1>3 DEF JobInv, CmdsOK, CmdOK
  <2>3. CmdsOK' /\ cmds' \subseteq Command
    BY <1>1, <1>3, <2>1, <2>2, ReturnTrue DEF Steps
  <2>4. QED
    BY <1>1, <1>2, <1>3, <2>1, <2>3, HostKeeps
<1>4. ASSUME NEW gone, gone = [job[c.n].file EXCEPT !.polled = TRUE],
             job[c.n].st = "gone", job' = [job EXCEPT ![c.n].file = gone],
             Return(c, "ok", gone)
      PROVE  TypeOK' /\ JobInv'
  <2>1. PICK r : r = [job[c.n] EXCEPT !.file = gone]
    OBVIOUS
  <2>2. gone \in StatusFile
    BY <1>1, <1>2, <1>4 DEF StatusFile
  <2>3. r \in JobRecord /\ r.st = "gone" /\ r.file = gone /\ job' = [job EXCEPT ![c.n] = r]
    BY <1>1, <1>2, <1>4, <2>1, <2>2 DEF JobRecord
  <2>4. Told(gone, "gone")
    BY DEF Told, Over
  <2>5. \A i \in DOMAIN net[c.n] : net[c.n][i] # "started" => r.st \in Over
    BY <2>3 DEF Over
  <2>6. r.st \in Ended /\ r.st \in Over /\ ~(r.st \in {"pending", "running"})
        /\ job[c.n].st # "none"
    BY <1>4, <2>3 DEF Ended, Over
  <2>7. /\ JobsOK' /\ TaskOK' /\ \A e \in cmds : CmdOK(e)'
        /\ job' \in [Nums -> [st : JobStates, file : StatusFile]]
    BY <1>1, <2>3, <2>4, <2>5, <2>6, JobMoves
  <2>8. Told(gone, job'[c.n].st)
    BY <1>1, <1>2, <2>3, <2>4
  <2>9. CmdsOK' /\ cmds' \subseteq Command
    BY <1>1, <1>4, <2>2, <2>7, <2>8, ReturnTrue DEF Steps
  <2>10. QED
    BY <1>1, <2>7, <2>9, HostKeeps
<1>5. QED
  BY <1>3, <1>4 DEF PollRunner

\* A job that is killed is over, or has its signal.
LEMMA KillAtHostKeeps ==
    ASSUME TypeOK, JobInv, NEW c \in cmds, KillAtHost(c)
    PROVE  TypeOK' /\ JobInv'
<1>1. /\ itask' = itask /\ net' = net /\ UNCHANGED counters
      /\ c \in Command /\ c.kind = "kill" /\ c.n \in Nums
      /\ NoFile \in StatusFile
  BY DEF KillAtHost, TypeOK, Command, NoFile, StatusFile
<1>2. job \in [Nums -> [st : JobStates, file : StatusFile]]
  BY DEF TypeOK
<1>3. CASE job' = job /\ Return(c, "fail", NoFile)
  <2>1. JobsOK' /\ TaskOK' /\ \A e \in cmds : CmdOK(e)'
    BY <1>1, <1>3, Unmoved
  <2>2. CmdsOK' /\ cmds' \subseteq Command
    BY <1>1, <1>3, <2>1, ReturnTrue DEF Steps
  <2>3. QED
    BY <1>1, <1>2, <1>3, <2>1, <2>2, HostKeeps
<1>4. ASSUME NEW st \in {"gone", "signalled"}, job' = [job EXCEPT ![c.n].st = st],
             Return(c, "ok", NoFile),
             job[c.n].st \in {"pending", "running", "exiting"},
             st = "signalled" => job[c.n].st = "running"
      PROVE  TypeOK' /\ JobInv'
  <2>0. st \in JobStates
    BY DEF JobStates
  <2>1. PICK r \in JobRecord : r.st = st /\ r.file = job[c.n].file
                                /\ job' = [job EXCEPT ![c.n] = r]
    BY <1>1, <1>2, <1>4, <2>0, SetState
  <2>2. Told(job[c.n].file, job[c.n].st) /\ job[c.n].file.id
    BY <1>1, <1>4 DEF JobInv, JobsOK, JobOK
  <2>3. Told(r.file, r.st) /\ r.file.id
    BY <1>4, <2>1, <2>2 DEF Told, Over
  <2>4. \A i \in DOMAIN net[c.n] : net[c.n][i] # "started" => job[c.n].st \in Over
    BY <1>1 DEF JobInv, JobsOK, JobOK
  <2>5. /\ r.st \in Ended /\ (job[c.n].st \in Over => r.st \in Over)
        /\ ~(r.st \in {"pending", "running"}) /\ job[c.n].st \notin {"none", "gone"}
    BY <1>4, <2>1 DEF Ended, Over
  <2>6. /\ JobsOK' /\ TaskOK' /\ \A e \in cmds : CmdOK(e)'
        /\ job' \in [Nums -> [st : JobStates, file : StatusFile]]
    BY <1>1, <2>1, <2>3, <2>4, <2>5, JobMoves
  <2>7. job'[c.n].st \in Ended
    BY <1>1, <1>2, <2>1, <2>5
  <2>8. CmdsOK' /\ cmds' \subseteq Command
    BY <1>1, <1>4, <2>6, <2>7, ReturnTrue DEF Steps
  <2>9. QED
    BY <1>1, <2>6, <2>8, HostKeeps
<1>5. QED
  BY <1>3, <1>4 DEF KillAtHost

\* A submission that fails has no job.
LEMMA CommandFailsKeeps ==
    ASSUME TypeOK, JobInv, NEW c \in cmds, CommandFails(c)
    PROVE  TypeOK' /\ JobInv'
<1>1. /\ itask' = itask /\ net' = net /\ job' = job /\ Trouble("fault")
      /\ c \in Command /\ (c.kind = "submit" => c.step = "put")
      /\ NoFile \in StatusFile
  BY DEF CommandFails, TypeOK, Command, NoFile, StatusFile
<1>2. PICK step \in {"fail", "255"} : Return(c, step, NoFile)
  BY DEF CommandFails
<1>3. job \in [Nums -> [st : JobStates, file : StatusFile]]
  BY DEF TypeOK
<1>4. JobsOK' /\ TaskOK' /\ \A e \in cmds : CmdOK(e)'
  BY <1>1, Unmoved
<1>5. c.kind = "submit" => ~Live(c.n)'
  BY <1>1 DEF JobInv, CmdsOK, CmdOK, Live
<1>6. CmdsOK' /\ cmds' \subseteq Command
  BY <1>1, <1>2, <1>4, <1>5, ReturnTrue DEF Steps
<1>7. QED
  BY <1>1, <1>3, <1>4, <1>6, HostKeeps
---------------------------------------------------------------------------
(* The steps of a job. *)

Sent == {"started", "succeeded", "failed"}

\* A message is sent as the last one, or not at all.
LEMMA SendsFact ==
    ASSUME TypeOK, NEW n \in Nums, NEW m \in Sent, Sends(n, m)
    PROVE  /\ net' \in [Nums -> Seq(Sent)]
           /\ \A k \in Nums : k # n => net'[k] = net[k]
           /\ \A i \in DOMAIN net'[n] :
                (i \in DOMAIN net[n] /\ net'[n][i] = net[n][i]) \/ net'[n][i] = m
<1>1. net \in [Nums -> Seq(Sent)]
  BY DEF TypeOK, Sent
<1>2. CASE net' = net
  BY <1>1, <1>2
<1>3. CASE net' = [net EXCEPT ![n] = Append(@, m)]
  <2>1. PICK s \in Seq(Sent) : s = net[n]
    BY <1>1
  <2>2. Append(s, m) \in Seq(Sent)
    OBVIOUS
  <2>3. net' = [net EXCEPT ![n] = Append(s, m)]
    BY <1>3, <2>1
  <2>4. net' \in [Nums -> Seq(Sent)] /\ net'[n] = Append(s, m)
        /\ \A k \in Nums : k # n => net'[k] = net[k]
    BY <1>1, <2>2, <2>3
  <2>5. \A i \in DOMAIN Append(s, m) :
          (i \in DOMAIN s /\ Append(s, m)[i] = s[i]) \/ Append(s, m)[i] = m
    OBVIOUS
  <2>6. QED
    BY <2>1, <2>4, <2>5
<1>4. QED
  BY <1>2, <1>3 DEF Sends

\* A step of a job leaves the task and the commands alone.
LEMMA JobKeeps ==
    ASSUME TypeOK, JobInv, itask' = itask, cmds' = cmds, UNCHANGED counters,
           net' \in [Nums -> Seq(Sent)],
           JobsOK', TaskOK', \A e \in cmds : CmdOK(e)',
           job' \in [Nums -> [st : JobStates, file : StatusFile]]
    PROVE  TypeOK' /\ JobInv'
<1>1. CmdsOK'
  BY DEF JobInv, CmdsOK, InFlight
<1>2. TypeOK'
  BY DEF TypeOK, counters, Sent
<1>3. QED
  BY <1>1, <1>2 DEF JobInv

\* The job starts: it was in the queue of the job runner.
LEMMA JobStartsKeeps ==
    ASSUME TypeOK, JobInv, NEW n \in Nums, JobStarts(n)
    PROVE  TypeOK' /\ JobInv'
<1>1. /\ job[n].st = "pending" /\ itask' = itask /\ cmds' = cmds /\ UNCHANGED counters
      /\ job' = [job EXCEPT ![n].st = "running", ![n].file.init = TRUE]
      /\ Sends(n, "started")
  BY DEF JobStarts
<1>2. job \in [Nums -> JobRecord]
  BY DEF TypeOK, JobRecord
<1>3. PICK r : r = [job[n] EXCEPT !.st = "running", !.file.init = TRUE]
  OBVIOUS
<1>4. /\ r \in JobRecord /\ r.st = "running" /\ r.file.exit = job[n].file.exit
      /\ r.file.polled = job[n].file.polled /\ r.file.id = job[n].file.id
  BY <1>2, <1>3 DEF JobRecord, StatusFile, JobStates
<1>5. job' = [job EXCEPT ![n] = r]
  BY <1>1, <1>2, <1>3
<1>6. Told(job[n].file, "pending") /\ job[n].file.id
      /\ \A i \in DOMAIN net[n] : net[n][i] = "started"
  BY <1>1 DEF JobInv, JobsOK, JobOK, Over
<1>7. Told(r.file, r.st) /\ r.file.id
  BY <1>4, <1>6 DEF Told, Over
<1>8. /\ net' \in [Nums -> Seq(Sent)]
      /\ \A k \in Nums : k # n => net'[k] = net[k]
      /\ \A i \in DOMAIN net'[n] : net'[n][i] = "started"
  BY <1>1, <1>6, SendsFact DEF Sent
<1>9. /\ job[n].st \notin Ended /\ job[n].st \notin Over /\ Live(n)
  BY <1>1 DEF Ended, Over, Live
<1>10. /\ JobsOK' /\ TaskOK' /\ \A e \in cmds : CmdOK(e)'
       /\ job' \in [Nums -> [st : JobStates, file : StatusFile]]
  BY <1>1, <1>4, <1>5, <1>7, <1>8, <1>9, JobMoves
<1>11. QED
  BY <1>1, <1>8, <1>10, JobKeeps

\* The job ends: its last message is true.
LEMMA JobEndsKeeps ==
    ASSUME TypeOK, JobInv, NEW n \in Nums, JobEnds(n)
    PROVE  TypeOK' /\ JobInv'
<1>1. PICK exit \in {"succeeded", "ERR", "SIG"} :
        /\ job[n].st = (IF exit = "SIG" THEN "signalled" ELSE "running")
        /\ job' = [job EXCEPT ![n].st = "exiting", ![n].file.exit = exit]
        /\ Sends(n, IF exit = "succeeded" THEN "succeeded" ELSE "failed")
  BY DEF JobEnds
<1>2. /\ itask' = itask /\ cmds' = cmds /\ UNCHANGED counters
      /\ job[n].st \in {"running", "signalled"}
  BY <1>1 DEF JobEnds
<1>3. job \in [Nums -> JobRecord]
  BY DEF TypeOK, JobRecord
<1>4. PICK r : r = [job[n] EXCEPT !.st = "exiting", !.file.exit = exit]
  OBVIOUS
<1>5. /\ r \in JobRecord /\ r.st = "exiting"
      /\ r.file.polled = job[n].file.polled /\ r.file.id = job[n].file.id
  BY <1>3, <1>4 DEF JobRecord, StatusFile, JobStates
<1>6. job' = [job EXCEPT ![n] = r]
  BY <1>1, <1>3, <1>4
<1>7. job[n].st # "gone" /\ Told(job[n].file, job[n].st) /\ job[n].file.id
  BY <1>2 DEF JobInv, JobsOK, JobOK
<1>8. Told(r.file, r.st) /\ r.file.id
  BY <1>5, <1>7 DEF Told, Over
<1>9. PICK m \in Sent : Sends(n, m)
  BY <1>1 DEF Sent
<1>10. /\ net' \in [Nums -> Seq(Sent)]
       /\ \A k \in Nums : k # n => net'[k] = net[k]
  BY <1>9, SendsFact
<1>11. r.st \in Ended /\ r.st \in Over /\ job[n].st # "none"
       /\ ~(r.st \in {"pending", "running"})
  BY <1>2, <1>5 DEF Ended, Over
<1>12. /\ JobsOK' /\ TaskOK' /\ \A e \in cmds : CmdOK(e)'
       /\ job' \in [Nums -> [st : JobStates, file : StatusFile]]
  BY <1>2, <1>5, <1>6, <1>7, <1>8, <1>10, <1>11, JobMoves
<1>13. QED
  BY <1>2, <1>10, <1>12, JobKeeps

\* The job leaves the job runner.
LEMMA JobLeavesKeeps ==
    ASSUME TypeOK, JobInv, NEW n \in Nums, JobLeaves(n)
    PROVE  TypeOK' /\ JobInv'
<1>1. /\ job[n].st \in {"pending", "running", "exiting"}
      /\ itask' = itask /\ net' = net /\ cmds' = cmds /\ UNCHANGED counters
  BY DEF JobLeaves
<1>2. job \in [Nums -> [st : JobStates, file : StatusFile]]
  BY DEF TypeOK
<1>3. "gone" \in JobStates
  BY DEF JobStates
<1>4. PICK r \in JobRecord : r.st = "gone" /\ r.file = job[n].file
                             /\ job' = [job EXCEPT ![n] = r]
  BY <1>2, <1>3, SetState DEF JobLeaves
<1>5. Told(job[n].file, job[n].st)
  BY DEF JobInv, JobsOK, JobOK
<1>6. Told(r.file, r.st)
  BY <1>4, <1>5 DEF Told, Over
<1>7. r.st \in Ended /\ r.st \in Over /\ ~(r.st \in {"pending", "running"})
      /\ job[n].st # "none"
  BY <1>1, <1>4 DEF Ended, Over
<1>8. /\ JobsOK' /\ TaskOK' /\ \A e \in cmds : CmdOK(e)'
      /\ job' \in [Nums -> [st : JobStates, file : StatusFile]]
  BY <1>1, <1>4, <1>6, <1>7, JobMoves
<1>9. net' \in [Nums -> Seq(Sent)]
  BY <1>1 DEF TypeOK, Sent
<1>10. QED
  BY <1>1, <1>8, <1>9, JobKeeps

---------------------------------------------------------------------------
(* The callbacks. *)

\* While there is a command there was a submission.
LEMMA LatestCounts ==
    ASSUME TypeOK, JobInv, NEW c \in cmds
    PROVE  itask.num \in Nums /\ itask.num # 0 /\ c \in Command
<1>1. c \in Command /\ c.n \in Nums /\ c.n <= itask.num /\ itask.num \in 0..MaxSubmits
  BY Types DEF TypeOK, Command, JobInv, CmdsOK, CmdOK
<1>2. QED
  BY <1>1, Numbers DEF Nums

\* What a callback hands to process_message is true, and no submission waits
\* for a job that it gives up.
LEMMA ToldKeeps ==
    ASSUME TypeOK, JobInv, NEW c \in cmds, NEW m \in Outputs, NEW flag, NEW n,
           itask' = ProcessMessage(itask, m, flag, n),
           UNCHANGED <<job, net, counters>>, cmds' = cmds \ {c},
           Grounds(m),
           m = "submit-failed" => c.kind = "submit" \/ job[itask.num].st # "none"
    PROVE  TypeOK' /\ JobInv'
<1>1. itask.num # 0 /\ job' = job
  BY LatestCounts
<1>2. /\ itask' \in Proxy /\ itask'.num = itask.num /\ TaskOK'
      /\ itask.status \in Up /\ job[itask.num].st = "none" /\ m # "submit-failed"
           => itask'.status \in Up
  BY <1>1, MessageKeeps DEF JobInv
<1>3. ASSUME NEW e \in cmds' PROVE e \in cmds /\ CmdOK(e)'
  <2>1. e \in cmds /\ e # c /\ CmdOK(e)
    BY <1>3 DEF JobInv, CmdsOK
  <2>2. c.kind = "submit" => e.kind # "submit"
    BY <2>1 DEF JobInv, CmdsOK, InFlight
  <2>3. QED
    BY <1>1, <1>2, <2>1, <2>2, SameCmds
<1>4. CmdsOK' /\ cmds' \subseteq Command
  BY <1>3, AskKeeps DEF JobInv
<1>5. JobsOK'
  BY <1>1, <1>2 DEF JobInv, JobsOK, JobOK, Told
<1>6. TypeOK'
  BY <1>2, <1>4, StatusesOrdered DEF TypeOK, Proxy, counters
<1>7. QED
  BY <1>2, <1>4, <1>5, <1>6 DEF JobInv

\* A callback that leaves the task alone, and may ask for another command.
LEMMA QuietKeeps ==
    ASSUME TypeOK, JobInv, UNCHANGED <<itask, job, net, counters>>,
           \A e \in cmds' : e \in cmds \/ Asked(e)
    PROVE  TypeOK' /\ JobInv'
<1>1. JobsOK' /\ TaskOK' /\ \A e \in cmds : CmdOK(e)'
  BY Unmoved
<1>2. CmdsOK' /\ cmds' \subseteq Command
  BY <1>1, AskKeeps DEF JobInv
<1>3. QED
  BY <1>1, <1>2, HostKeeps DEF TypeOK

\* A submission that did not work has no live job.
LEMMA SubmitCallbackKeeps ==
    ASSUME TypeOK, JobInv, NEW c \in cmds, SubmitCallback(c)
    PROVE  TypeOK' /\ JobInv'
<1>1. /\ c.kind = "submit" /\ c.step \in {"ok", "fail"}
      /\ UNCHANGED <<job, net, counters>> /\ cmds' = cmds \ {c}
  BY DEF SubmitCallback
<1>2. c.n = itask.num /\ (c.step = "fail" => ~Live(itask.num))
  BY <1>1 DEF JobInv, CmdsOK, CmdOK
<1>3. PICK m \in {"submitted", "submit-failed"} :
        /\ itask' = ProcessMessage(itask, m, "internal", itask.num)
        /\ m = "submit-failed" => c.step = "fail"
  BY <1>1, <1>2 DEF SubmitCallback, Reported
<1>4. Grounds(m) /\ m \in Outputs
  BY <1>2, <1>3 DEF Grounds, Outputs
<1>5. QED
  BY <1>1, <1>3, <1>4, ToldKeeps

\* The message made of a poll result is true if the result is.
LEMMA PollMessageFact ==
    ASSUME NEW f \in StatusFile, Told(f, job[itask.num].st)
    PROVE  /\ PollMessage(f) \in Outputs /\ Grounds(PollMessage(f))
           /\ PollMessage(f) = "submit-failed" => job[itask.num].st # "none"
<1>1. f.exit \in {"none", "succeeded", "ERR", "SIG"}
  BY DEF StatusFile
<1>2. f.exit # "none" => job[itask.num].st \in Ended
  BY DEF Told, Ended
<1>3. f.polled => job[itask.num].st = "gone"
  BY DEF Told
<1>4. \/ PollMessage(f) \in {"succeeded", "failed"} /\ (f.exit # "none" \/ f.polled)
      \/ PollMessage(f) \in {"started", "submitted"}
      \/ PollMessage(f) = "submit-failed" /\ f.polled
  <2>1. CASE f.exit = "ERR"
    BY <2>1 DEF PollMessage
  <2>2. CASE f.exit = "SIG" /\ f.polled
    BY <2>2 DEF PollMessage
  <2>3. CASE f.exit = "SIG" /\ ~f.polled
    BY <2>3 DEF PollMessage
  <2>4. CASE f.exit = "succeeded"
    BY <2>4 DEF PollMessage
  <2>5. CASE f.exit = "none" /\ f.init /\ f.polled
    BY <2>5 DEF PollMessage
  <2>6. CASE f.exit = "none" /\ f.init /\ ~f.polled
    BY <2>6 DEF PollMessage
  <2>7. CASE f.exit = "none" /\ ~f.init /\ f.polled
    BY <2>7 DEF PollMessage
  <2>8. CASE f.exit = "none" /\ ~f.init /\ ~f.polled
    BY <2>8 DEF PollMessage
  <2>9. QED
    BY <1>1, <2>1, <2>2, <2>3, <2>4, <2>5, <2>6, <2>7, <2>8
<1>5. job[itask.num].st = "gone" => job[itask.num].st \in Ended /\ ~Live(itask.num)
  BY DEF Ended, Over, Live
<1>6. QED
  BY <1>2, <1>3, <1>4, <1>5 DEF Grounds, Outputs

\* A poll result is taken for the latest job only.
LEMMA PollCallbackKeeps ==
    ASSUME TypeOK, JobInv, NEW c \in cmds, PollCallback(c)
    PROVE  TypeOK' /\ JobInv'
<1>1. /\ c.kind = "poll" /\ UNCHANGED <<job, net, counters>> /\ cmds' = cmds \ {c}
      /\ c \in Command /\ c.ctx \in StatusFile
  BY DEF PollCallback, TypeOK, Command
<1>2. CASE ~Reported(c)
  BY <1>1, <1>2, QuietKeeps DEF PollCallback
<1>3. CASE Reported(c)
  <2>1. itask' = ProcessMessage(itask, PollMessage(c.ctx), "polled", itask.num)
    BY <1>3 DEF PollCallback
  <2>2. Told(c.ctx, job[itask.num].st)
    BY <1>1, <1>3 DEF Reported, JobInv, CmdsOK, CmdOK
  <2>3. QED
    BY <1>1, <2>1, <2>2, PollMessageFact, ToldKeeps
<1>4. QED
  BY <1>2, <1>3

\* The job of a successful kill is over.
LEMMA KillCallbackKeeps ==
    ASSUME TypeOK, JobInv, NEW c \in cmds, KillCallback(c)
    PROVE  TypeOK' /\ JobInv'
<1>1. /\ c.kind = "kill" /\ UNCHANGED <<job, net, counters>> /\ cmds' = cmds \ {c}
  BY DEF KillCallback
<1>2. CASE itask' = itask
  BY <1>1, <1>2, QuietKeeps
<1>3. ASSUME Reported(c), NEW m \in {"submit-failed", "failed"},
             itask' = ProcessMessage(itask, m, "internal", c.n)
      PROVE  TypeOK' /\ JobInv'
  <2>1. job[itask.num].st \in Ended
    BY <1>1, <1>3 DEF Reported, JobInv, CmdsOK, CmdOK
  <2>2. Grounds(m) /\ job[itask.num].st # "none" /\ m \in Outputs
    BY <1>3, <2>1 DEF Grounds, Ended, Over, Live, Outputs
  <2>3. QED
    BY <1>1, <1>3, <2>2, ToldKeeps
<1>4. QED
  BY <1>2, <1>3 DEF KillCallback

\* A kill is asked for of the latest job.
LEMMA NewKill ==
    ASSUME TypeOK, JobInv, NEW c \in cmds, itask' = itask
    PROVE  Asked(NewCommand("kill", itask.num))
<1>1. itask.num \in Nums /\ itask.num <= itask'.num /\ NoFile \in StatusFile
  BY LatestCounts DEF Nums, NoFile, StatusFile
<1>2. QED
  BY <1>1 DEF NewCommand, Asked, Command, Kinds, Steps

\* Polls and kills that found no host are tried again.
LEMMA AgainKeeps ==
    ASSUME TypeOK, JobInv, NEW c \in cmds, PollCallback255(c) \/ KillCallback255(c)
    PROVE  TypeOK' /\ JobInv'
<1>1. UNCHANGED <<itask, job, net, counters>>
  BY DEF PollCallback255, KillCallback255
<1>2. itask \in Proxy /\ itask.num # 0
  BY Types, LatestCounts
<1>3. \A e \in PollCommand(itask) : Asked(e)
  BY <1>1, <1>2, NewPoll
<1>4. Asked(NewCommand("kill", itask.num))
  BY <1>1, NewKill
<1>5. \A e \in cmds' : e \in cmds \/ Asked(e)
  BY <1>3, <1>4 DEF PollCallback255, KillCallback255
<1>6. QED
  BY <1>1, <1>5, QuietKeeps

\* A submission that found no host is tried again; there is no other.
LEMMA SubmitAgainKeeps ==
    ASSUME TypeOK, JobInv, NEW c \in cmds, SubmitCallback255(c)
    PROVE  TypeOK' /\ JobInv'
<1>1. PICK d : d = NewCommand("submit", itask.num)
  OBVIOUS
<1>2. /\ c.kind = "submit" /\ c.step = "255" /\ cmds' = (cmds \ {c}) \cup {d}
      /\ UNCHANGED <<itask, job, net, counters>>
  BY <1>1 DEF SubmitCallback255
<1>3. JobsOK' /\ TaskOK' /\ \A e \in cmds : CmdOK(e)'
  BY <1>2, Unmoved
<1>4. /\ d \in Command /\ d.kind = "submit" /\ d.n = itask.num /\ d.step = "put"
      /\ itask.num \in Nums /\ itask.num <= itask.num
  <2>1. itask.num \in Nums /\ NoFile \in StatusFile
    BY LatestCounts DEF NoFile, StatusFile
  <2>2. QED
    BY <1>1, <2>1 DEF NewCommand, Command, Kinds, Steps, Nums
<1>5. CmdOK(d)'
  <2>1. c.n = itask.num /\ job[itask.num].st = "none" /\ itask.status \in Up
    BY <1>2 DEF JobInv, CmdsOK, CmdOK
  <2>2. QED
    BY <1>2, <1>4, <2>1 DEF CmdOK
<1>6. \A e, f \in InFlight("submit")' : e = f
  BY <1>2 DEF InFlight, JobInv, CmdsOK
<1>7. CmdsOK' /\ cmds' \subseteq Command
  BY <1>2, <1>3, <1>4, <1>5, <1>6 DEF CmdsOK, TypeOK
<1>8. QED
  BY <1>2, <1>3, <1>7, HostKeeps DEF TypeOK

---------------------------------------------------------------------------
(* Messages, and the restart. *)

\* The first message is taken away.
LEMMA TailFact ==
    ASSUME TypeOK, NEW n \in Nums, net[n] # <<>>, net' = [net EXCEPT ![n] = Tail(@)]
    PROVE  /\ net' \in [Nums -> Seq(Sent)] /\ Head(net[n]) \in Sent
           /\ Head(net[n]) = net[n][1] /\ 1 \in DOMAIN net[n]
           /\ \A k \in Nums : \A i \in DOMAIN net'[k] :
                \E j \in DOMAIN net[k] : net'[k][i] = net[k][j]
<1>1. net \in [Nums -> Seq(Sent)]
  BY DEF TypeOK, Sent
<1>2. PICK s \in Seq(Sent) : s = net[n] /\ s # <<>>
  BY <1>1
<1>3. /\ Tail(s) \in Seq(Sent) /\ Head(s) \in Sent /\ Head(s) = s[1] /\ 1 \in DOMAIN s
      /\ \A i \in DOMAIN Tail(s) : i + 1 \in DOMAIN s /\ Tail(s)[i] = s[i + 1]
  BY <1>2
<1>4. net' = [net EXCEPT ![n] = Tail(s)]
  BY <1>2
<1>5. /\ net' \in [Nums -> Seq(Sent)] /\ net'[n] = Tail(s)
      /\ \A k \in Nums : k # n => net'[k] = net[k]
  BY <1>1, <1>3, <1>4
<1>6. QED
  BY <1>2, <1>3, <1>5

\* Fewer messages say nothing new.
LEMMA FewerMessages ==
    ASSUME JobsOK, itask'.num = itask.num, job' = job,
           \A k \in Nums : \A i \in DOMAIN net'[k] :
                \E j \in DOMAIN net[k] : net'[k][i] = net[k][j]
    PROVE  JobsOK'
BY DEF JobsOK, JobOK, Told

\* A message of a job, the latest or an old one, is received.
LEMMA ReceiveKeeps ==
    ASSUME TypeOK, JobInv, NEW n \in Nums, Receive(n)
    PROVE  TypeOK' /\ JobInv'
<1>1. /\ net[n] # <<>> /\ net' = [net EXCEPT ![n] = Tail(@)]
      /\ job' = job /\ UNCHANGED counters
  BY DEF Receive
<1>2. PICK m \in Sent : m = Head(net[n])
  BY <1>1, TailFact
<1>3. /\ itask' = ProcessMessage(itask, m, "received", n)
      /\ cmds' = cmds \/ cmds' = cmds \cup PollCommand(itask')
  BY <1>2 DEF Receive
<1>4. n = itask.num => itask.num # 0 /\ Grounds(m)
  <2>1. m = net[n][1] /\ 1 \in DOMAIN net[n]
    BY <1>1, <1>2, TailFact
  <2>2. m # "started" => job[n].st \in Over
    BY <2>1 DEF JobInv, JobsOK, JobOK
  <2>3. m # "submit-failed"
    BY <1>2 DEF Sent
  <2>4. n # 0
    BY DEF Nums
  <2>5. QED
    BY <2>2, <2>3, <2>4 DEF Grounds, Ended
<1>5. m \in Outputs /\ m # "submit-failed"
  BY <1>2 DEF Sent, Outputs
<1>6. /\ itask' \in Proxy /\ itask'.num = itask.num /\ TaskOK'
      /\ itask.status \in Up /\ job[itask.num].st = "none" => itask'.status \in Up
  BY <1>1, <1>3, <1>4, <1>5, MessageKeeps DEF JobInv
<1>7. \A e \in cmds : CmdOK(e)'
  BY <1>1, <1>6, SameCmds DEF JobInv, CmdsOK
<1>8. \A e \in PollCommand(itask') : Asked(e)
  <2>1. itask'.num = 0 => itask'.status = "waiting"
    BY <1>6 DEF TaskOK, RetriesOK
  <2>2. QED
    BY <1>6, <2>1, NewPoll
<1>9. CmdsOK' /\ cmds' \subseteq Command
  BY <1>3, <1>7, <1>8, AskKeeps DEF JobInv
<1>10. JobsOK'
  BY <1>1, <1>6, TailFact, FewerMessages DEF JobInv
<1>11. net' \in [Nums -> Seq(Sent)]
  BY <1>1, TailFact
<1>12. TypeOK'
  BY <1>1, <1>6, <1>9, <1>11, StatusesOrdered DEF TypeOK, Proxy, counters, Sent
<1>13. QED
  BY <1>6, <1>9, <1>10, <1>12 DEF JobInv

\* A message is lost.
LEMMA LoseKeeps ==
    ASSUME TypeOK, JobInv, NEW n \in Nums, Lose(n)
    PROVE  TypeOK' /\ JobInv'
<1>1. /\ net[n] # <<>> /\ net' = [net EXCEPT ![n] = Tail(@)]
      /\ job' = job /\ itask' = itask /\ cmds' = cmds
      /\ troubles' \in 0..MaxTroubles /\ restarted' \in BOOLEAN
  BY TaskJobAssumption DEF Lose, Trouble, TypeOK
<1>2. JobsOK'
  BY <1>1, TailFact, FewerMessages DEF JobInv
<1>3. TaskOK'
  BY <1>1 DEF JobInv, TaskOK, RetriesOK, TriesOK, Spent, LiveJobIsActive, Live, RetryLinedUp
<1>4. CmdsOK'
  BY <1>1 DEF JobInv, CmdsOK, CmdOK, Live, Told, InFlight
<1>5. net' \in [Nums -> Seq(Sent)]
  BY <1>1, TailFact
<1>6. TypeOK'
  BY <1>1, <1>5 DEF TypeOK, Sent
<1>7. QED
  BY <1>2, <1>3, <1>4, <1>6 DEF JobInv

\* The task is read back, and polled.
LEMMA RestartKeeps ==
    ASSUME TypeOK, JobInv, Restart
    PROVE  TypeOK' /\ JobInv'
<1>1. PICK outs \in SUBSET Outputs :
        itask' = [itask EXCEPT !.done = outs, !.timer = NoTimer]
  <2>1. itask.done \in SUBSET Outputs
    BY Types DEF Proxy
  <2>2. QED
    BY <2>1 DEF Restart, RestoredTimer
<1>2. /\ cmds' = PollCommand(itask') /\ net' = [n \in Nums |-> <<>>] /\ job' = job
      /\ troubles' \in 0..MaxTroubles /\ restarted' \in BOOLEAN
  BY TaskJobAssumption DEF Restart, Trouble, TypeOK
<1>3. /\ itask' \in Proxy /\ itask'.num = itask.num /\ itask'.status = itask.status
      /\ itask'.exec = itask.exec /\ itask'.sub = itask.sub
  <2>1. NoTimer \in (0 .. MaxSubmits) \X (Active \cup {"none"})
    BY Numbers DEF NoTimer
  <2>2. QED
    BY <1>1, <2>1, Types DEF Proxy
<1>4. TaskOK'
  BY <1>2, <1>3 DEF JobInv, TaskOK, RetriesOK, RetryLinedUp, TriesOK, Spent, LiveJobIsActive, Live
<1>5. \A e \in cmds' : Asked(e)
  <2>1. itask'.num = 0 => itask'.status = "waiting"
    BY <1>4 DEF TaskOK, RetriesOK
  <2>2. QED
    BY <1>2, <1>3, <2>1, NewPoll
<1>6. CmdsOK' /\ cmds' \subseteq Command
  BY <1>5, AskKeeps DEF JobInv
<1>7. net' \in [Nums -> Seq(Sent)] /\ \A n \in Nums : net'[n] = <<>>
  BY <1>2
<1>8. JobsOK'
  BY <1>2, <1>3, <1>7 DEF JobInv, JobsOK, JobOK, Told
<1>9. TypeOK'
  BY <1>2, <1>3, <1>6, <1>7, StatusesOrdered DEF TypeOK, Proxy, Sent
<1>10. QED
  BY <1>4, <1>6, <1>8, <1>9 DEF JobInv

---------------------------------------------------------------------------

\* The invariant holds at the start, in every step and therefore always.
LEMMA JobInvInit == Init => TypeOK /\ JobInv
<1> SUFFICES ASSUME Init PROVE TypeOK /\ JobInv
  OBVIOUS
<1>1. /\ itask = [status |-> "waiting", num |-> 0, held |-> FALSE, exec |-> 0,
                  sub |-> 0, done |-> {}, timer |-> NoTimer]
      /\ job = [n \in Nums |-> [st |-> "none", file |-> NoFile]]
      /\ net = [n \in Nums |-> <<>>]
      /\ cmds = {} /\ troubles = 0 /\ restarted = FALSE
  BY DEF Init
<1>2. itask \in Proxy
  <2>1. /\ 0 \in 0..MaxSubmits /\ 0 \in 0..ExecRetries /\ 0 \in 0..SubmitRetries
        /\ NoTimer \in (0 .. MaxSubmits) \X (Active \cup {"none"})
    BY Numbers DEF NoTimer
  <2>2. QED
    BY <1>1, <2>1 DEF Proxy, Statuses
<1>3. NoFile \in StatusFile /\ Told(NoFile, "none")
  BY DEF NoFile, StatusFile, Told
<1>4. job \in [Nums -> [st : JobStates, file : StatusFile]]
  BY <1>1, <1>3 DEF JobStates
<1>5. net \in [Nums -> Seq(Sent)]
  BY <1>1
<1>6. 0 \in 0..MaxTroubles
  BY TaskJobAssumption
<1>7. TypeOK
  BY <1>1, <1>2, <1>4, <1>5, <1>6, StatusesOrdered DEF TypeOK, Proxy, Sent
<1>8. JobsOK
  BY <1>1, <1>3 DEF JobsOK, JobOK
<1>9. CmdsOK
  BY <1>1 DEF CmdsOK, InFlight
<1>10. TaskOK
  <2>1. RetriesOK /\ LiveJobIsActive
    BY <1>1 DEF RetriesOK, LiveJobIsActive, Live
  <2>2. Cardinality(Spent(0)) \in Nat
    BY SpentFinite
  <2>3. TriesOK
    BY <1>1, <2>2 DEF TriesOK
  <2>4. QED
    BY <2>1, <2>3 DEF TaskOK
<1>11. QED
  BY <1>7, <1>8, <1>9, <1>10 DEF JobInv

\* A step of something else.
LEMMA JobInvStutter ==
    ASSUME TypeOK, JobInv, UNCHANGED vars
    PROVE  TypeOK' /\ JobInv'
<1>1. UNCHANGED <<itask, job, net, counters>> /\ cmds' = cmds
  BY DEF vars, counters
<1>2. QED
  BY <1>1, QuietKeeps

\* Every step keeps the invariant, if a submit command returns before its retry.
LEMMA JobInvNext ==
    ~SlowSubmit /\ TypeOK /\ JobInv /\ [Next]_vars => TypeOK' /\ JobInv'
<1> SUFFICES ASSUME ~SlowSubmit, TypeOK, JobInv, [Next]_vars
             PROVE  TypeOK' /\ JobInv'
  OBVIOUS
<1>1. CASE Prepare
  BY <1>1, PrepareKeeps
<1>2. CASE PollTimer \/ PollRequest \/ KillRequest \/ Release
  BY <1>2, PollActions
<1>3. CASE CommandStep
  <2>1. PICK c \in cmds :
          \/ SubmitAtHost(c) \/ PollFile(c) \/ PollRunner(c) \/ KillAtHost(c)
          \/ SubmitCallback(c) \/ SubmitCallback255(c)
          \/ PollCallback(c) \/ PollCallback255(c)
          \/ KillCallback(c) \/ KillCallback255(c)
    BY <1>3 DEF CommandStep
  <2>2. QED
    BY <2>1, SubmitAtHostKeeps, PollFileKeeps, PollRunnerKeeps, KillAtHostKeeps,
       SubmitCallbackKeeps, SubmitAgainKeeps, PollCallbackKeeps, KillCallbackKeeps,
       AgainKeeps
<1>4. CASE \E c \in cmds : CommandFails(c)
  BY <1>4, CommandFailsKeeps
<1>5. CASE \E n \in Nums :
             JobStarts(n) \/ JobEnds(n) \/ JobLeaves(n) \/ Receive(n) \/ Lose(n)
  BY <1>5, JobStartsKeeps, JobEndsKeeps, JobLeavesKeeps, ReceiveKeeps, LoseKeeps
<1>6. CASE Restart
  BY <1>6, RestartKeeps
<1>7. CASE UNCHANGED vars
  BY <1>7, JobInvStutter
<1>8. QED
  BY <1>1, <1>2, <1>3, <1>4, <1>5, <1>6, <1>7 DEF Next

\* So it always holds.
LEMMA JobInvariant ==
    ASSUME ~SlowSubmit
    PROVE  Spec => [](TypeOK /\ JobInv)
<1>1. TypeOK /\ JobInv /\ [Next]_vars => (TypeOK /\ JobInv)'
  BY JobInvNext
<1>2. QED
  BY <1>1, JobInvInit, PTL DEF Spec

(***************************************************************************)
(* TypeOK: the task, its jobs, messages and commands keep their types; no  *)
(* more tries are used than there are, and a command never has a submit    *)
(* number that was not given out (prep_submit_task_jobs).                  *)
(***************************************************************************)
THEOREM TypeCorrect ==
    ASSUME ~SlowSubmit
    PROVE  Spec => []TypeOK
BY JobInvariant, PTL

(***************************************************************************)
(* LiveJobIsActive: whatever messages come late or not at all, whatever    *)
(* polls and kills return when and wherever the scheduler restarts, a job  *)
(* that can still run is the latest one of its task, and the task is shown *)
(* active: process_message never forgets a job and never starts a second   *)
(* one beside it.  The submit command of a job has to return before the    *)
(* delay of its retry is over.                                             *)
(***************************************************************************)
THEOREM NoJobForgottenOrDoubled ==
    ASSUME ~SlowSubmit
    PROVE  Spec => []LiveJobIsActive
<1>1. JobInv => LiveJobIsActive
  BY DEF JobInv, TaskOK
<1>2. QED
  BY <1>1, JobInvariant, PTL

\* A try for each job that is over is at most a try for each.
LEMMA TriesCounted == TypeOK /\ JobInv => OneTryPerJob
<1> SUFFICES ASSUME TypeOK, JobInv PROVE OneTryPerJob
  OBVIOUS
<1>1. PICK k \in 0..MaxSubmits : k = itask.num
  BY Types
<1>2. /\ k \in Int /\ itask.exec \in Int /\ MaxSubmits \in Nat
      /\ (k # 0 => k \in Nums) /\ k <= MaxSubmits
  BY <1>1, Types DEF Nums
<1>3. Spent(MaxSubmits) = {n \in Nums : job[n].st \in {"signalled", "exiting", "gone"}}
  BY DEF Spent, Nums, Ended, Over
<1>4. /\ Cardinality(Spent(k)) \in Nat /\ Cardinality(Spent(MaxSubmits)) \in Nat
      /\ Cardinality(Spent(k - 1)) \in Nat
      /\ Cardinality(Spent(k)) <= Cardinality(Spent(MaxSubmits))
  <2>1. Spent(k) \subseteq Spent(MaxSubmits)
    BY <1>2 DEF Spent
  <2>2. QED
    BY <1>2, <2>1, SpentFinite, FS_Subset
<1>5. itask.exec <= Cardinality(Spent(IF itask.status = "waiting" THEN k ELSE k - 1))
      /\ (itask.status = "failed" => job[k].st \in Ended)
  BY <1>1 DEF JobInv, TaskOK, TriesOK
<1>6. CASE itask.status = "waiting"
  BY <1>2, <1>3, <1>4, <1>5, <1>6 DEF OneTryPerJob
<1>7. CASE itask.status # "waiting"
  <2>1. k \in Nums
    BY <1>1, <1>2, <1>7 DEF JobInv, TaskOK, RetriesOK
  <2>2. /\ Cardinality(Spent(k - 1)) <= Cardinality(Spent(k))
        /\ job[k].st \in Ended => Cardinality(Spent(k)) = Cardinality(Spent(k - 1)) + 1
    BY <2>1, SpentGrows
  <2>3. itask.exec + (IF itask.status = "failed" THEN 1 ELSE 0)
            <= Cardinality(Spent(MaxSubmits))
    BY <1>2, <1>4, <1>5, <1>7, <2>2
  <2>4. QED
    BY <1>3, <2>3 DEF OneTryPerJob
<1>8. QED
  BY <1>6, <1>7

(***************************************************************************)
(* OneTryPerJob: however many messages, polls and kills tell of the failure*)
(* of a job, _process_message_failed uses up one try for it, or makes the  *)
(* task failed.                                                            *)
(***************************************************************************)
THEOREM TriesAreNotDoubled ==
    ASSUME ~SlowSubmit
    PROVE  Spec => []OneTryPerJob
BY JobInvariant, TriesCounted, PTL

---------------------------------------------------------------------------
(* A scheduler that is killed (CrashRestart). *)

MemoryRecord ==
    [pool : [CTasks -> Status], snum : [CTasks -> Int],
     sat : [CTasks -> SUBSET CTasks], forced : SUBSET CTasks,
     submit : [CTasks -> {"none", "queued", "launched"}]]

TableRecord ==
    [state : [CTasks -> Status], snum : [CTasks -> Int],
     outs : [CTasks -> SUBSET {"submitted", "succeeded"}],
     pool : [CTasks -> Status], pre : [CTasks -> SUBSET CTasks],
     forced : SUBSET CTasks]

Shaped ==
    mem \in MemoryRecord /\ queued \in TableRecord /\ db \in TableRecord

\* What is satisfied without a trigger has finished: in memory, in what is queued
\* and in what is written.
Backed(forced, sat) == \A t \in CTasks \ forced : sat[t] \subseteq ran

Supported ==
    /\ Backed(mem.forced, mem.sat)
    /\ Backed(queued.forced, queued.pre) /\ Backed(db.forced, db.pre)
    /\ \A t \in CTasks \ mem.forced :
          mem.submit[t] = "queued" => Parents[t] \subseteq ran
    /\ \A p \in done : p[1] \in ran

Triggering == phase \in {"triggering", "triggering again"}

\* The outputs of a task outside the pool are written at once, and a task that is
\* written as succeeded is neither in the pool nor in the table of the pool.
Remembered ==
    /\ \A t \in CTasks : mem.submit[t] # "none" => mem.pool[t] = "preparing"
    /\ \A t \in CTasks \ Pool : queued.outs[t] = db.outs[t]
    /\ Triggering => target \in CTasks \ Pool /\ "succeeded" \notin db.outs[target]
    /\ ~torn => \A t \in Pool : "succeeded" \notin queued.outs[t] \cup db.outs[t]
    /\ ~torn /\ ~split =>
          \A t \in CTasks : db.pool[t] # "none" => "succeeded" \notin db.outs[t]
    /\ ~torn /\ phase = "dead" => ~split

CrashInv == Shaped /\ Supported /\ Remembered

\* Rows are added and erased.
LEMMA RowsFact ==
    ASSUME NEW d \in TableRecord, NEW N \in SUBSET CTasks
    PROVE  /\ AddRows(d, N) \in TableRecord /\ Erase(d, N) \in TableRecord
           /\ AddRows(d, N).pre = d.pre /\ Erase(d, N).pre = d.pre
           /\ AddRows(d, N).forced = d.forced /\ Erase(d, N).forced = d.forced
           /\ AddRows(d, N).pool = d.pool
           /\ \A t \in CTasks : AddRows(d, N).outs[t] = IF t \in N THEN {} ELSE d.outs[t]
           /\ \A t \in CTasks : Erase(d, N).outs[t] = IF t \in N THEN {} ELSE d.outs[t]
BY DEF AddRows, Erase, TableRecord, Status

\* The tables of the pool are those of memory.
LEMMA PutFact ==
    ASSUME NEW d \in TableRecord, mem \in MemoryRecord
    PROVE  LET r == PutTaskPool(d) IN
           /\ r \in TableRecord /\ r.outs = d.outs /\ r.pool = mem.pool
           /\ r.pre = mem.sat /\ r.forced = mem.forced
BY DEF PutTaskPool, PutTaskPoolBare, TableRecord, MemoryRecord

\* The start: nothing is satisfied and nothing has run.
LEMMA CrashInit == CInit => CrashInv
<1> SUFFICES ASSUME CInit PROVE CrashInv
  OBVIOUS
<1> DEFINE first == {t \in CTasks : Parents[t] = {}}
           none == [state |-> Fresh("none"), snum |-> Fresh(0), outs |-> Fresh({}),
                    pool |-> Fresh("none"), pre |-> Fresh({}), forced |-> {}]
<1>1. /\ mem = [pool |-> [t \in CTasks |-> IF t \in first THEN "waiting" ELSE "none"],
                snum |-> Fresh(0), sat |-> Fresh({}), forced |-> {},
                submit |-> Fresh("none")]
      /\ queued = AddRows(none, first) /\ db = queued
      /\ phase = "commands" /\ done = {} /\ split = TRUE
  BY DEF CInit
<1>2. mem \in MemoryRecord
  BY <1>1 DEF MemoryRecord, Fresh, Status
<1>3. none \in TableRecord /\ first \in SUBSET CTasks
  BY DEF TableRecord, Fresh, Status
<1>4. /\ \A t \in CTasks : mem.sat[t] = {} /\ mem.submit[t] = "none" 
      /\ \A t \in CTasks : none.pre[t] = {} /\ none.outs[t] = {}
  BY <1>1 DEF Fresh
<1> HIDE DEF none, first
<1>5. /\ queued \in TableRecord /\ queued.pre = none.pre
      /\ \A t \in CTasks : queued.outs[t] = {}
  BY <1>1, <1>3, <1>4, RowsFact
<1>6. Shaped
  BY <1>1, <1>2, <1>5 DEF Shaped
<1>7. Supported
  BY <1>1, <1>4, <1>5 DEF Supported, Backed
<1>8. Remembered
  BY <1>1, <1>4, <1>5 DEF Remembered, Triggering, Pool
<1>9. QED
  BY <1>6, <1>7, <1>8 DEF CrashInv

\* The main loop goes on, a job finishes, or the scheduler is killed.
LEMMA QuietSteps ==
    ASSUME CrashInv,
           Advance \/ Kill \/ (\E t \in CTasks : \E n \in 1..MaxSubmit : JobFinishes(t, n))
    PROVE  CrashInv'
<1>1. /\ mem' = mem /\ queued' = queued /\ db' = db /\ target' = target /\ split' = split
      /\ ran \subseteq ran' /\ \A p \in done' : p \in done \/ p[1] \in ran'
  <2>1. CASE Advance \/ Kill
    BY <2>1 DEF Advance, Kill
  <2>2. ASSUME NEW t \in CTasks, NEW n \in 1..MaxSubmit, JobFinishes(t, n)
        PROVE  \A p \in done' : p \in done \/ p[1] \in ran'
    <3>1. done' = done \cup {<<t, n>>} /\ ran' = ran \cup {t} /\ <<t, n>>[1] = t
      BY <2>2 DEF JobFinishes
    <3>2. QED
      BY <3>1
  <2>3. QED
    BY <2>1, <2>2 DEF JobFinishes
<1>2. /\ ~torn' => ~torn /\ (phase' = "dead" /\ phase # "dead" => ~split)
      /\ Triggering' => Triggering
  <2>1. CASE Advance
    <3>1. phase' \in {Loop[2], Loop[3], Loop[4], Loop[5], Loop[6]} /\ torn' = torn
      <4>1. \A i \in 1..5 : i + 1 \in {2, 3, 4, 5, 6}
        OBVIOUS
      <4>2. QED
        BY <2>1, <4>1 DEF Advance
    <3>2. /\ Loop[2] = "callbacks" /\ Loop[3] = "launches" /\ Loop[4] = "release"
          /\ Loop[5] = "messages" /\ Loop[6] = "again"
      BY DEF Loop
    <3>3. phase' \in {"callbacks", "launches", "release", "messages", "again"}
      BY <3>1, <3>2
    <3>4. QED
      BY <3>1, <3>3 DEF Triggering
  <2>2. CASE Kill
    BY <2>2 DEF Kill, Triggering
  <2>3. CASE \E t \in CTasks : \E n \in 1..MaxSubmit : JobFinishes(t, n)
    <3>1. phase' = phase /\ torn' = torn
      BY <2>3 DEF JobFinishes
    <3>2. QED
      BY <3>1 DEF Triggering
  <2>4. QED
    BY <2>1, <2>2, <2>3
<1>3. Shaped'
  BY <1>1 DEF CrashInv, Shaped
<1>4. Supported'
  BY <1>1 DEF CrashInv, Supported, Backed
<1>5. Remembered'
  BY <1>1, <1>2 DEF CrashInv, Remembered, Pool
<1>6. QED
  BY <1>3, <1>4, <1>5 DEF CrashInv

\* The end of the loop: the tables are those of the pool, all of them.
LEMMA EndLoopKeeps ==
    ASSUME CrashInv, EndLoop
    PROVE  CrashInv'
<1>1. /\ mem' = mem /\ target' = target /\ ran' = ran /\ done' = done /\ torn' = torn
      /\ queued' = PutTaskPool(queued) /\ db' = queued' /\ split' = FALSE
      /\ phase' \in {"over", "commands"}
  BY DEF EndLoop
<1>2. /\ queued' \in TableRecord /\ queued'.outs = queued.outs /\ queued'.pool = mem.pool
      /\ queued'.pre = mem.sat /\ queued'.forced = mem.forced
  BY <1>1, PutFact DEF CrashInv, Shaped
<1>3. Shaped'
  BY <1>1, <1>2 DEF CrashInv, Shaped
<1>4. Supported'
  BY <1>1, <1>2 DEF CrashInv, Supported, Backed
<1>5. Remembered'
  <2>1. \A t \in CTasks : db'.pool[t] # "none" => t \in Pool
    BY <1>1, <1>2 DEF Pool
  <2>2. QED
    BY <1>1, <1>2, <2>1 DEF CrashInv, Remembered, Pool, Triggering
<1>6. QED
  BY <1>3, <1>4, <1>5 DEF CrashInv

\* A task is released when its prerequisites are satisfied.
LEMMA ReleaseKeeps ==
    ASSUME CrashInv, NEW t \in CTasks, ReleaseToRun(t)
    PROVE  CrashInv'
<1>1. /\ mem.pool[t] = "waiting" /\ mem.sat[t] = Parents[t] /\ phase = "release"
      /\ mem' = [mem EXCEPT !.pool[t] = "preparing", !.snum[t] = @ + 1,
                            !.submit[t] = "queued"]
      /\ UNCHANGED <<queued, db, phase, target, done, ran, split, torn>>
  BY DEF ReleaseToRun, IsReady
<1>2. mem \in MemoryRecord
  BY DEF CrashInv, Shaped
<1>3. mem' \in MemoryRecord /\ mem'.sat = mem.sat /\ mem'.forced = mem.forced
      /\ mem'.pool = [mem.pool EXCEPT ![t] = "preparing"]
      /\ mem'.submit = [mem.submit EXCEPT ![t] = "queued"]
  <2>1. PICK n \in Int : n = mem.snum[t] + 1
    BY <1>2 DEF MemoryRecord
  <2>2. mem' = [mem EXCEPT !.pool[t] = "preparing", !.snum[t] = n,
                            !.submit[t] = "queued"]
    BY <1>1, <2>1
  <2>3. QED
    BY <1>2, <2>2 DEF MemoryRecord, Status
<1>4. mem.pool \in [CTasks -> Status] /\ mem.submit \in [CTasks -> {"none", "queued", "launched"}]
  BY <1>2 DEF MemoryRecord
<1>5. Pool' = Pool
  BY <1>1, <1>3, <1>4 DEF Pool
<1>6. Shaped'
  BY <1>1, <1>3 DEF CrashInv, Shaped
<1>7. Supported'
  BY <1>1, <1>3, <1>4 DEF CrashInv, Supported, Backed
<1>8. Remembered'
  <2>1. \A c \in CTasks : mem'.submit[c] # "none" => mem'.pool[c] = "preparing"
    BY <1>3, <1>4 DEF CrashInv, Remembered
  <2>2. QED
    BY <1>1, <1>5, <2>1 DEF CrashInv, Remembered, Triggering
<1>9. QED
  BY <1>6, <1>7, <1>8 DEF CrashInv

\* Its job is launched.
LEMMA LaunchKeeps ==
    ASSUME CrashInv, NEW t \in CTasks, Launch(t)
    PROVE  CrashInv'
<1>1. /\ mem.submit[t] = "queued" /\ done' \subseteq done
      /\ mem' = [mem EXCEPT !.submit[t] = "launched"]
      /\ UNCHANGED <<queued, db, phase, target, ran, split, torn>>
  BY DEF Launch
<1>2. mem \in MemoryRecord
  BY DEF CrashInv, Shaped
<1>3. mem' \in MemoryRecord /\ mem'.sat = mem.sat /\ mem'.forced = mem.forced
      /\ mem'.pool = mem.pool
      /\ mem'.submit = [mem.submit EXCEPT ![t] = "launched"]
  BY <1>1, <1>2 DEF MemoryRecord
<1>4. mem.submit \in [CTasks -> {"none", "queued", "launched"}]
  BY <1>2 DEF MemoryRecord
<1>5. Pool' = Pool
  BY <1>3 DEF Pool
<1>6. Shaped'
  BY <1>1, <1>3 DEF CrashInv, Shaped
<1>7. Supported'
  BY <1>1, <1>3, <1>4 DEF CrashInv, Supported, Backed
<1>8. Remembered'
  <2>1. \A c \in CTasks : mem'.submit[c] # "none" => mem'.pool[c] = "preparing"
    BY <1>1, <1>3, <1>4 DEF CrashInv, Remembered
  <2>2. QED
    BY <1>1, <1>5, <2>1 DEF CrashInv, Remembered, Triggering
<1>9. QED
  BY <1>6, <1>7, <1>8 DEF CrashInv

\* The outputs of a task in the pool are queued.
LEMMA SubmittedKeeps ==
    ASSUME CrashInv, NEW t \in CTasks, Submitted(t)
    PROVE  CrashInv'
<1>1. /\ mem.pool[t] = "preparing"
      /\ mem' = [mem EXCEPT !.pool[t] = "submitted", !.submit[t] = "none"]
      /\ queued' = [queued EXCEPT !.outs[t] = {"submitted"}]
      /\ UNCHANGED <<db, phase, target, done, ran, split, torn>>
  BY DEF Submitted
<1>2. mem \in MemoryRecord /\ queued \in TableRecord
  BY DEF CrashInv, Shaped
<1>3. mem' \in MemoryRecord /\ mem'.sat = mem.sat /\ mem'.forced = mem.forced
      /\ mem'.pool = [mem.pool EXCEPT ![t] = "submitted"]
      /\ mem'.submit = [mem.submit EXCEPT ![t] = "none"]
  BY <1>1, <1>2 DEF MemoryRecord, Status
<1>4. /\ queued' \in TableRecord /\ queued'.pre = queued.pre
      /\ queued'.forced = queued.forced
      /\ queued'.outs = [queued.outs EXCEPT ![t] = {"submitted"}]
  BY <1>1, <1>2 DEF TableRecord
<1>5. mem.pool \in [CTasks -> Status] /\ mem.submit \in [CTasks -> {"none", "queued", "launched"}]
      /\ queued.outs \in [CTasks -> SUBSET {"submitted", "succeeded"}]
  BY <1>2 DEF MemoryRecord, TableRecord
<1>6. Pool' = Pool /\ t \in Pool
  BY <1>1, <1>3, <1>5 DEF Pool
<1>7. Shaped'
  BY <1>1, <1>3, <1>4 DEF CrashInv, Shaped
<1>8. Supported'
  BY <1>1, <1>3, <1>4, <1>5 DEF CrashInv, Supported, Backed
<1>9. Remembered'
  <2>1. \A c \in CTasks : mem'.submit[c] # "none" => mem'.pool[c] = "preparing"
    BY <1>1, <1>3, <1>5 DEF CrashInv, Remembered
  <2>2. \A c \in CTasks : c # t => queued'.outs[c] = queued.outs[c]
    BY <1>4, <1>5
  <2>3. "succeeded" \notin queued'.outs[t]
    BY <1>4, <1>5
  <2>4. \A c \in CTasks \ Pool' : queued'.outs[c] = db'.outs[c]
    BY <1>1, <1>6, <2>2 DEF CrashInv, Remembered
  <2>5. ~torn' => \A c \in Pool' : "succeeded" \notin queued'.outs[c] \cup db'.outs[c]
    <3>1. \A c \in Pool : c \in CTasks
      BY DEF Pool
    <3>2. QED
      BY <1>1, <1>6, <2>2, <2>3, <3>1 DEF CrashInv, Remembered
  <2>6. QED
    BY <1>1, <1>6, <2>1, <2>4, <2>5 DEF CrashInv, Remembered, Triggering
<1>10. QED
  BY <1>7, <1>8, <1>9 DEF CrashInv

\* A task that succeeded satisfies its children, which are spawned unless the
\* database says that they finished; it leaves the pool, and that is written.
LEMMA SucceededKeeps ==
    ASSUME CrashInv, NEW t \in CTasks, Succeeded(t)
    PROVE  CrashInv'
<1>1. PICK spawn : spawn = {c \in Children(t) \ Pool : MaySpawn(c)}
  OBVIOUS
<1>2. PICK new : new = {c \in spawn : db.state[c] = "none"}
  OBVIOUS
<1>3. PICK all : all = AddRows(queued, new)
  OBVIOUS
<1>4. /\ mem.pool[t] = "submitted" \/ mem.submit[t] = "launched"
      /\ <<t, mem.snum[t]>> \in done
      /\ mem' =
           [mem EXCEPT
               !.pool = [c \in CTasks |->
                           IF c = t THEN "none"
                           ELSE IF c \in new THEN "waiting"
                           ELSE IF c \in spawn THEN db.state[c] ELSE @[c]],
               !.snum = [c \in CTasks |->
                           IF c = t THEN 0
                           ELSE IF c \in spawn THEN db.snum[c] ELSE @[c]],
               !.sat = [c \in CTasks |->
                           IF c = t THEN {}
                           ELSE IF c \in spawn THEN {t}
                           ELSE IF c \in Children(t) \cap Pool THEN @[c] \cup {t}
                           ELSE @[c]],
               !.forced = @ \ {t},
               !.submit[t] = "none"]
      /\ queued' = [all EXCEPT !.state[t] = "succeeded", !.snum[t] = mem.snum[t],
                               !.outs[t] = {"submitted", "succeeded"}]
      /\ db' = queued' /\ split' = TRUE
      /\ phase \in {"callbacks", "messages"}
      /\ UNCHANGED <<phase, target, done, ran, torn>>
  BY <1>1, <1>2, <1>3 DEF Succeeded, WriteNow
<1>5. mem \in MemoryRecord /\ queued \in TableRecord /\ db \in TableRecord
  BY DEF CrashInv, Shaped
<1>6. t \in Pool /\ t \in ran
  <2>1. mem.pool[t] \in {"submitted", "preparing"}
    BY <1>4 DEF CrashInv, Remembered
  <2>2. <<t, mem.snum[t]>>[1] \in ran
    BY <1>4 DEF CrashInv, Supported
  <2>3. QED
    BY <2>1, <2>2 DEF Pool
<1>7. /\ spawn \subseteq CTasks \ Pool /\ new \subseteq spawn /\ t \notin spawn
      /\ new \in SUBSET CTasks
      /\ \A c \in spawn \ new : "succeeded" \notin db.outs[c]
  BY <1>1, <1>2, <1>6 DEF Children, MaySpawn
<1>8. mem'.pool = [c \in CTasks |-> IF c = t THEN "none"
                                    ELSE IF c \in new THEN "waiting"
                                    ELSE IF c \in spawn THEN db.state[c]
                                    ELSE mem.pool[c]]
  BY <1>4, <1>5 DEF MemoryRecord
<1>9. mem'.sat = [c \in CTasks |-> IF c = t THEN {}
                                   ELSE IF c \in spawn THEN {t}
                                   ELSE IF c \in Children(t) \cap Pool
                                        THEN mem.sat[c] \cup {t}
                                   ELSE mem.sat[c]]
  BY <1>4, <1>5 DEF MemoryRecord
<1>10. mem'.forced = mem.forced \ {t} /\ mem'.submit = [mem.submit EXCEPT ![t] = "none"]
  BY <1>4, <1>5 DEF MemoryRecord
<1>11. mem.submit \in [CTasks -> {"none", "queued", "launched"}]
  BY <1>5 DEF MemoryRecord
<1>12. mem' \in MemoryRecord
  <2>1. mem'.pool \in [CTasks -> Status]
    <3>1. mem.pool \in [CTasks -> Status] /\ db.state \in [CTasks -> Status]
      BY <1>5 DEF MemoryRecord, TableRecord
    <3>2. "none" \in Status /\ "waiting" \in Status
      BY DEF Status
    <3>3. QED
      BY <1>8, <3>1, <3>2
  <2>2. mem'.sat \in [CTasks -> SUBSET CTasks]
    BY <1>5, <1>9 DEF MemoryRecord
  <2>3. mem'.submit \in [CTasks -> {"none", "queued", "launched"}]
        /\ mem'.forced \in SUBSET CTasks
    BY <1>5, <1>10, <1>11 DEF MemoryRecord
  <2>4. PICK snum \in [CTasks -> Int] :
          snum = [c \in CTasks |-> IF c = t THEN 0
                                   ELSE IF c \in spawn THEN db.snum[c] ELSE mem.snum[c]]
    <3>1. mem.snum \in [CTasks -> Int] /\ db.snum \in [CTasks -> Int]
      BY <1>5 DEF MemoryRecord, TableRecord
    <3> DEFINE f == [c \in CTasks |-> IF c = t THEN 0
                                     ELSE IF c \in spawn THEN db.snum[c] ELSE mem.snum[c]]
    <3>2. f \in [CTasks -> Int]
      BY <3>1
    <3>3. QED
      BY <3>2
  <2>5. mem' = [pool |-> mem'.pool, snum |-> snum, sat |-> mem'.sat,
                forced |-> mem'.forced, submit |-> mem'.submit]
    BY <1>4, <1>5, <2>4 DEF MemoryRecord
  <2>6. QED
    BY <2>1, <2>2, <2>3, <2>4, <2>5 DEF MemoryRecord
<1>13. /\ all \in TableRecord /\ all.pre = queued.pre /\ all.forced = queued.forced
       /\ \A c \in CTasks : all.outs[c] = IF c \in new THEN {} ELSE queued.outs[c]
  BY <1>3, <1>5, <1>7, RowsFact
<1>14. /\ queued' \in TableRecord /\ queued'.pre = queued.pre
       /\ queued'.forced = queued.forced
       /\ \A c \in CTasks \ {t} : queued'.outs[c] = all.outs[c]
  <2>1. PICK n \in Int : n = mem.snum[t]
    BY <1>5 DEF MemoryRecord
  <2>2. queued' = [all EXCEPT !.state[t] = "succeeded", !.snum[t] = n,
                               !.outs[t] = {"submitted", "succeeded"}]
    BY <1>4, <2>1
  <2>3. QED
    BY <1>13, <2>2 DEF TableRecord, Status
<1>15. Shaped'
  BY <1>4, <1>12, <1>14 DEF Shaped
<1>16. Supported'
  <2>1. Backed(mem.forced, mem.sat)'
    BY <1>4, <1>6, <1>9, <1>10 DEF CrashInv, Supported, Backed
  <2>2. Backed(queued.forced, queued.pre)' /\ Backed(db.forced, db.pre)'
    BY <1>4, <1>14 DEF CrashInv, Supported, Backed
  <2>3. \A c \in CTasks \ mem'.forced : mem'.submit[c] = "queued" => Parents[c] \subseteq ran
    BY <1>10, <1>11 DEF CrashInv, Supported
  <2>4. QED
    BY <1>4, <2>1, <2>2, <2>3 DEF CrashInv, Supported
<1>17. Remembered'
  <2>1. \A c \in CTasks : mem'.submit[c] # "none" => mem'.pool[c] = "preparing"
    <3>1. ASSUME NEW c \in CTasks, mem'.submit[c] # "none"
          PROVE  c # t /\ mem.pool[c] = "preparing"
      BY <1>10, <1>11, <3>1 DEF CrashInv, Remembered
    <3>2. \A c \in CTasks : mem.pool[c] = "preparing" => c \notin spawn
      BY <1>7 DEF Pool
    <3>3. QED
      BY <1>7, <1>8, <3>1, <3>2
  <2>2. Pool' \subseteq (Pool \cup spawn) \ {t}
    BY <1>7, <1>8 DEF Pool
  <2>3. ~torn => \A c \in Pool' : "succeeded" \notin queued'.outs[c]
    <3>1. ASSUME ~torn, NEW c \in Pool' PROVE "succeeded" \notin queued'.outs[c]
      <4>1. c \in CTasks /\ c # t /\ queued'.outs[c] = all.outs[c]
        BY <1>14, <2>2 DEF Pool
      <4>2. CASE c \in new
        BY <1>13, <4>1, <4>2
      <4>3. CASE c \in spawn \ new
        BY <1>7, <1>13, <4>1, <4>3 DEF CrashInv, Remembered
      <4>4. CASE c \in Pool
        BY <1>7, <1>13, <3>1, <4>1, <4>4 DEF CrashInv, Remembered
      <4>5. QED
        BY <2>2, <4>2, <4>3, <4>4
    <3>2. QED
      BY <3>1
  <2>4. ~Triggering' /\ phase' # "dead"
    BY <1>4 DEF Triggering
  <2>5. QED
    BY <1>4, <2>1, <2>3, <2>4 DEF Remembered
<1>18. QED
  BY <1>15, <1>16, <1>17 DEF CrashInv

\* What a triggered task satisfied is taken back, and its history is erased.
LEMMA TriggerRemoveKeeps ==
    ASSUME CrashInv, NEW t \in CTasks, TriggerRemove(t)
    PROVE  CrashInv'
<1>1. PICK back : back = {c \in Children(t) \cap Pool : t \in mem.sat[c] /\ c \notin mem.forced}
  OBVIOUS
<1>2. PICK gone : gone = {c \in back : mem.pool[c] = "waiting" /\ mem.sat[c] = {t}}
  OBVIOUS
<1>3. PICK kept : kept = [queued EXCEPT
                           !.snum = [c \in CTasks |-> IF c \in gone THEN mem.snum[c]
                                                                    ELSE @[c]]]
  OBVIOUS
<1>4. /\ t \notin Pool
      /\ mem' =
           [mem EXCEPT
               !.pool = [c \in CTasks |-> IF c \in gone THEN "none" ELSE @[c]],
               !.snum = [c \in CTasks |-> IF c \in gone THEN 0 ELSE @[c]],
               !.sat = [c \in CTasks |-> IF c \in back THEN @[c] \ {t} ELSE @[c]]]
      /\ queued' = Erase(kept, gone \cup {t}) /\ db' = queued' /\ split' = TRUE
      /\ target' = t
      /\ phase' \in {"triggering", "triggering again"}
      /\ UNCHANGED <<done, ran, torn>>
  BY <1>1, <1>2, <1>3 DEF TriggerRemove, WriteNow
<1>5. mem \in MemoryRecord /\ queued \in TableRecord
  BY DEF CrashInv, Shaped
<1>6. gone \cup {t} \in SUBSET CTasks /\ \A c \in gone : mem.pool[c] = "waiting"
  BY <1>1, <1>2 DEF Children
<1>7. /\ mem'.pool = [c \in CTasks |-> IF c \in gone THEN "none" ELSE mem.pool[c]]
      /\ mem'.sat = [c \in CTasks |-> IF c \in back THEN mem.sat[c] \ {t} ELSE mem.sat[c]]
      /\ mem'.forced = mem.forced /\ mem'.submit = mem.submit
  BY <1>4, <1>5 DEF MemoryRecord
<1>8. mem' \in MemoryRecord
  <2>1. mem'.pool \in [CTasks -> Status]
    <3>1. mem.pool \in [CTasks -> Status] /\ "none" \in Status
      BY <1>5 DEF MemoryRecord, Status
    <3>2. QED
      BY <1>7, <3>1
  <2>2. mem'.sat \in [CTasks -> SUBSET CTasks]
    BY <1>5, <1>7 DEF MemoryRecord
  <2>3. PICK snum \in [CTasks -> Int] :
          snum = [c \in CTasks |-> IF c \in gone THEN 0 ELSE mem.snum[c]]
    <3>1. mem.snum \in [CTasks -> Int]
      BY <1>5 DEF MemoryRecord
    <3> DEFINE f == [c \in CTasks |-> IF c \in gone THEN 0 ELSE mem.snum[c]]
    <3>2. f \in [CTasks -> Int]
      BY <3>1
    <3>3. QED
      BY <3>2
  <2>4. mem' = [pool |-> mem'.pool, snum |-> snum, sat |-> mem'.sat,
                forced |-> mem.forced, submit |-> mem.submit]
    BY <1>4, <1>5, <2>3 DEF MemoryRecord
  <2>5. QED
    BY <1>5, <2>1, <2>2, <2>3, <2>4 DEF MemoryRecord
<1>9. /\ kept \in TableRecord /\ kept.pre = queued.pre /\ kept.forced = queued.forced
      /\ kept.outs = queued.outs
  <2>1. PICK snum \in [CTasks -> Int] :
          snum = [c \in CTasks |-> IF c \in gone THEN mem.snum[c] ELSE queued.snum[c]]
    BY <1>5 DEF MemoryRecord, TableRecord
  <2>2. kept = [queued EXCEPT !.snum = snum]
    BY <1>3, <2>1
  <2>3. QED
    BY <1>5, <2>2 DEF TableRecord
<1>10. /\ queued' \in TableRecord /\ queued'.pre = queued.pre
       /\ queued'.forced = queued.forced
       /\ \A c \in CTasks : queued'.outs[c] = IF c \in gone \cup {t} THEN {}
                                              ELSE queued.outs[c]
  <2>1. PICK N \in SUBSET CTasks : N = gone \cup {t}
    BY <1>6
  <2>2. queued' = Erase(kept, N)
    BY <1>4, <2>1
  <2>3. QED
    BY <1>9, <2>1, <2>2, RowsFact
<1>11. Pool' = Pool \ gone
  BY <1>7 DEF Pool
<1>12. Shaped'
  BY <1>4, <1>8, <1>10 DEF Shaped
<1>13. Supported'
  <2>0. \A c \in CTasks : mem'.sat[c] \subseteq mem.sat[c]
    BY <1>7
  <2>1. Backed(mem.forced, mem.sat)'
    <3>1. ASSUME NEW c \in CTasks \ mem.forced PROVE mem'.sat[c] \subseteq ran
      BY <2>0 DEF CrashInv, Supported, Backed
    <3>2. QED
      BY <1>4, <1>7, <3>1 DEF Backed
  <2>2. Backed(queued.forced, queued.pre)' /\ Backed(db.forced, db.pre)'
    BY <1>4, <1>10 DEF CrashInv, Supported, Backed
  <2>3. QED
    BY <1>4, <1>7, <2>1, <2>2 DEF CrashInv, Supported
<1>14. Remembered'
  <2>1. \A c \in CTasks : mem'.submit[c] # "none" => mem'.pool[c] = "preparing"
    BY <1>6, <1>7 DEF CrashInv, Remembered
  <2>2. ~torn => \A c \in Pool' : "succeeded" \notin queued'.outs[c]
    <3>1. \A c \in Pool' : c \in CTasks /\ c \in Pool
      BY <1>11 DEF Pool
    <3>2. QED
      BY <1>10, <3>1 DEF CrashInv, Remembered
  <2>3. t \in CTasks \ Pool' /\ "succeeded" \notin db'.outs[t]
    BY <1>4, <1>10, <1>11
  <2>4. QED
    BY <1>4, <2>1, <2>2, <2>3 DEF Remembered
<1>15. QED
  BY <1>12, <1>13, <1>14 DEF CrashInv

\* Then it is spawned with its prerequisites satisfied by force.
LEMMA TriggerSpawnKeeps ==
    ASSUME CrashInv, TriggerSpawn
    PROVE  CrashInv'
<1>1. PICK t : t = target
  OBVIOUS
<1>2. t \in CTasks \ Pool /\ "succeeded" \notin db.outs[t]
  BY <1>1 DEF TriggerSpawn, Triggering, CrashInv, Remembered
<1>3. /\ mem' = [mem EXCEPT !.pool[t] = "waiting", !.snum[t] = db.snum[t],
                            !.sat[t] = Parents[t], !.forced = @ \cup {t}]
      /\ queued' = AddRows(queued, {t})
      /\ phase' \in {"commands", "again"}
      /\ UNCHANGED <<db, target, done, ran, split, torn>>
  BY <1>1 DEF TriggerSpawn
<1>4. mem \in MemoryRecord /\ queued \in TableRecord /\ db \in TableRecord
      /\ Parents \in [CTasks -> SUBSET CTasks]
  BY CrashAssumption DEF CrashInv, Shaped
<1>5. /\ mem'.pool = [mem.pool EXCEPT ![t] = "waiting"]
      /\ mem'.sat = [mem.sat EXCEPT ![t] = Parents[t]]
      /\ mem'.forced = mem.forced \cup {t} /\ mem'.submit = mem.submit
      /\ mem' \in MemoryRecord
  <2>1. PICK n \in Int : n = db.snum[t]
    BY <1>2, <1>4 DEF TableRecord
  <2>2. mem' = [mem EXCEPT !.pool[t] = "waiting", !.snum[t] = n,
                            !.sat[t] = Parents[t], !.forced = @ \cup {t}]
    BY <1>3, <2>1
  <2>3. QED
    BY <1>2, <1>4, <2>2 DEF MemoryRecord, Status
<1>6. mem.pool \in [CTasks -> Status] /\ mem.sat \in [CTasks -> SUBSET CTasks]
  BY <1>4 DEF MemoryRecord
<1>7. /\ queued' \in TableRecord /\ queued'.pre = queued.pre
      /\ queued'.forced = queued.forced
      /\ \A c \in CTasks : queued'.outs[c] = IF c = t THEN {} ELSE queued.outs[c]
  BY <1>2, <1>3, <1>4, RowsFact
<1>8. Pool' = Pool \cup {t}
  BY <1>2, <1>5, <1>6 DEF Pool
<1>9. Shaped'
  BY <1>3, <1>5, <1>7, <1>4 DEF Shaped
<1>10. Supported'
  <2>1. Backed(mem.forced, mem.sat)'
    BY <1>3, <1>5, <1>6 DEF CrashInv, Supported, Backed
  <2>2. Backed(queued.forced, queued.pre)' /\ Backed(db.forced, db.pre)'
    BY <1>3, <1>7 DEF CrashInv, Supported, Backed
  <2>3. QED
    BY <1>3, <1>5, <2>1, <2>2 DEF CrashInv, Supported
<1>11. Remembered'
  <2>1. mem.submit[t] = "none"
    BY <1>2 DEF CrashInv, Remembered, Pool
  <2>2. \A c \in CTasks : mem'.submit[c] # "none" => mem'.pool[c] = "preparing"
    BY <1>5, <1>6, <2>1 DEF CrashInv, Remembered
  <2>3. \A c \in CTasks \ Pool' : queued'.outs[c] = db'.outs[c]
    BY <1>3, <1>7, <1>8 DEF CrashInv, Remembered
  <2>4. ~torn' => \A c \in Pool' : "succeeded" \notin queued'.outs[c] \cup db'.outs[c]
    <3>1. \A c \in Pool' : c = t \/ (c \in CTasks /\ c \in Pool)
      BY <1>8 DEF Pool
    <3>2. QED
      BY <1>2, <1>3, <1>7, <3>1 DEF CrashInv, Remembered
  <2>5. ~Triggering' /\ phase' # "dead"
    BY <1>3 DEF Triggering
  <2>6. ~torn' /\ ~split' =>
          \A c \in CTasks : db'.pool[c] # "none" => "succeeded" \notin db'.outs[c]
    BY <1>3 DEF CrashInv, Remembered
  <2>7. QED
    BY <2>2, <2>3, <2>4, <2>5, <2>6 DEF Remembered
<1>12. QED
  BY <1>9, <1>10, <1>11 DEF CrashInv

\* What was written is read back; if the pool was the last thing written, none of
\* its tasks had succeeded.
LEMMA RestartSchedulerKeeps ==
    ASSUME CrashInv, RestartScheduler
    PROVE  CrashInv'
<1>1. PICK in : in = {t \in CTasks : db.pool[t] # "none" /\ db.state[t] # "none"}
  OBVIOUS
<1>2. PICK again : again = {t \in in : db.pool[t] = "preparing"}
  OBVIOUS
<1>3. /\ phase = "dead" /\ queued' = db /\ split' = FALSE /\ phase' = "commands"
      /\ mem' = [pool |-> [t \in CTasks |-> IF t \in in THEN Loaded(t) ELSE "none"],
                 snum |-> [t \in CTasks |-> IF t \in again THEN db.snum[t] - 1
                                            ELSE IF t \in in THEN db.snum[t] ELSE 0],
                 sat |-> [t \in CTasks |-> IF t \in in THEN Restored(t) ELSE {}],
                 forced |-> db.forced \cap in,
                 submit |-> Fresh("none")]
      /\ UNCHANGED <<db, target, done, ran, torn>>
  BY <1>1, <1>2 DEF RestartScheduler
<1>4. db \in TableRecord
  BY DEF CrashInv, Shaped
<1>5. /\ mem'.pool = [t \in CTasks |-> IF t \in in THEN Loaded(t) ELSE "none"]
      /\ mem'.sat = [t \in CTasks |-> IF t \in in THEN db.pre[t] ELSE {}]
      /\ mem'.forced = db.forced \cap in
      /\ mem'.submit = [t \in CTasks |-> "none"]
  BY <1>3 DEF Restored, Fresh
<1>6. mem' \in MemoryRecord
  <2>1. mem'.pool \in [CTasks -> Status]
    <3>1. db.pool \in [CTasks -> Status] /\ "none" \in Status /\ "waiting" \in Status
      BY <1>4 DEF TableRecord, Status
    <3>2. QED
      BY <1>5, <3>1 DEF Loaded
  <2>2. mem'.sat \in [CTasks -> SUBSET CTasks] /\ mem'.forced \in SUBSET CTasks
        /\ mem'.submit \in [CTasks -> {"none", "queued", "launched"}]
    BY <1>4, <1>5 DEF TableRecord
  <2>3. PICK snum \in [CTasks -> Int] :
          snum = [t \in CTasks |-> IF t \in again THEN db.snum[t] - 1
                                   ELSE IF t \in in THEN db.snum[t] ELSE 0]
    <3>1. db.snum \in [CTasks -> Int]
      BY <1>4 DEF TableRecord
    <3> DEFINE f == [t \in CTasks |-> IF t \in again THEN db.snum[t] - 1
                                     ELSE IF t \in in THEN db.snum[t] ELSE 0]
    <3>2. f \in [CTasks -> Int]
      BY <3>1
    <3>3. QED
      BY <3>2
  <2>4. mem' = [pool |-> mem'.pool, snum |-> snum, sat |-> mem'.sat,
                forced |-> mem'.forced, submit |-> mem'.submit]
    BY <1>3, <2>3
  <2>5. QED
    BY <2>1, <2>2, <2>3, <2>4 DEF MemoryRecord
<1>7. Pool' \subseteq in
  BY <1>5 DEF Pool
<1>8. Shaped'
  BY <1>3, <1>4, <1>6 DEF Shaped
<1>9. Supported'
  <2>1. Backed(mem.forced, mem.sat)'
    BY <1>3, <1>5 DEF CrashInv, Supported, Backed
  <2>2. Backed(queued.forced, queued.pre)' /\ Backed(db.forced, db.pre)'
    BY <1>3 DEF CrashInv, Supported, Backed
  <2>3. QED
    BY <1>3, <1>5, <2>1, <2>2 DEF CrashInv, Supported
<1>10. Remembered'
  <2>1. ~torn => ~split
    BY <1>3 DEF CrashInv, Remembered
  <2>2. ~torn => \A t \in CTasks : db.pool[t] # "none" => "succeeded" \notin db.outs[t]
    BY <2>1 DEF CrashInv, Remembered
  <2>3. ~torn => \A t \in Pool' : "succeeded" \notin db.outs[t]
    BY <1>1, <1>7, <2>2
  <2>4. ~Triggering' /\ phase' # "dead"
    BY <1>3 DEF Triggering
  <2>5. QED
    BY <1>3, <1>5, <2>2, <2>3, <2>4 DEF Remembered
<1>11. QED
  BY <1>8, <1>9, <1>10 DEF CrashInv

\* Every step keeps the invariant.
LEMMA CrashNext == CrashInv /\ [CNext]_cvars => CrashInv'
<1> SUFFICES ASSUME CrashInv, [CNext]_cvars PROVE CrashInv'
  OBVIOUS
<1>1. CASE Advance \/ Kill \/ JobStep
  BY <1>1, QuietSteps DEF JobStep
<1>2. CASE EndLoop
  BY <1>2, EndLoopKeeps
<1>3. CASE TriggerSpawn
  BY <1>3, TriggerSpawnKeeps
<1>4. CASE RestartScheduler
  BY <1>4, RestartSchedulerKeeps
<1>5. ASSUME NEW t \in CTasks,
             ReleaseToRun(t) \/ Launch(t) \/ Submitted(t) \/ Succeeded(t) \/ TriggerRemove(t)
      PROVE  CrashInv'
  BY <1>5, ReleaseKeeps, LaunchKeeps, SubmittedKeeps, SucceededKeeps, TriggerRemoveKeeps
<1>6. CASE UNCHANGED cvars
  BY <1>6 DEF cvars, CrashInv, Shaped, Supported, Backed, Remembered, Triggering, Pool
<1>7. QED
  BY <1>1, <1>2, <1>3, <1>4, <1>5, <1>6 DEF CNext, LoopStep, News

\* So it always holds.
LEMMA CrashInvariant == CSpec => []CrashInv
BY CrashInit, CrashNext, PTL DEF CSpec

(***************************************************************************)
(* StartsAfterParents: for any graph, and however often the scheduler is   *)
(* killed at whatever point of its main loop, no job starts before those   *)
(* of all the parents of its task finished, unless the task was triggered: *)
(* process_queued_ops never writes that a prerequisite is satisfied before *)
(* it is, and load_db_task_pool_for_restart believes no more.              *)
(***************************************************************************)
THEOREM ParentsFirst == CSpec => StartsAfterParents
<1>1. CrashInv /\ [CNext]_cvars =>
        [\A t \in CTasks : Launch(t) => t \in mem.forced \/ Parents[t] \subseteq ran]_cvars
  <2> SUFFICES ASSUME CrashInv, NEW t \in CTasks, Launch(t)
               PROVE  t \in mem.forced \/ Parents[t] \subseteq ran
    OBVIOUS
  <2>1. QED
    BY DEF CrashInv, Supported, Launch
<1>2. QED
  BY <1>1, CrashInvariant, PTL DEF CSpec, StartsAfterParents

(***************************************************************************)
(* NoRerun: for any graph and through any number of kills, unless one fell *)
(* between the write of a removal (TaskPool.remove) and that of the pool,  *)
(* no task that the database has as succeeded is run again.                *)
(***************************************************************************)
THEOREM NoRerunAfterKill == CSpec => NoRerun
<1>1. CrashInv /\ [CNext]_cvars =>
        [\A t \in CTasks : Launch(t) /\ ~torn => "succeeded" \notin db.outs[t]]_cvars
  <2> SUFFICES ASSUME CrashInv, NEW t \in CTasks, Launch(t), ~torn
               PROVE  "succeeded" \notin db.outs[t]
    OBVIOUS
  <2>1. t \in Pool
    BY DEF CrashInv, Remembered, Launch, Pool
  <2>2. QED
    BY <2>1 DEF CrashInv, Remembered
<1>2. QED
  BY <1>1, CrashInvariant, PTL DEF CSpec, NoRerun
=============================================================================
