-------------------------- MODULE ServicesProofs ---------------------------
(* Theorems about the components that share no state with the task pool. *)
EXTENDS Xtriggers, RemoteInit, Lifecycle, TaskQueuesProofs, SequenceTheorems, TLAPS

---------------------------------------------------------------------------
(* Lifecycle: one scheduler.                                                 *)

LEMMA ProcsApart ==
    /\ Nobody \notin Plays
    /\ Plays \cap Cleans = {} /\ Plays \cap Clients = {}
    /\ Plays \subseteq Procs /\ Cleans \subseteq Procs
BY LifecycleAssumption DEF Plays, Procs

LEMMA GotoType ==
    ASSUME LTypeOK, NEW x, NEW step \in Steps, Goto(x, step)
    PROVE  /\ at' \in [Procs -> Steps]
           /\ \A y \in Procs : at'[y] = IF y = x THEN step ELSE at[y]
BY DEF LTypeOK, Goto

LEMMA StoppedGoto ==
    ASSUME NEW x, Stopped(x)
    PROVE  \/ x \in Plays /\ Goto(x, "install")
           \/ x \notin Plays /\ Goto(x, "exit")
BY DEF Stopped

\* A play that has written the contact file is past starting.
AnnouncedIsPast ==
    \A p \in announced : at[p] \in Stopping \cup {"run", "exit", "dead"}

RunningIsAnnounced == \A p \in Plays : at[p] = "run" => p \in announced

\* The contact file is that of a scheduler that wrote it, until it ends.
ContactIsUp == \A p \in announced : Up(p) => contact = p

\* At most one play is on its way to its contact file, or back from it.
OneUnannounced ==
    \A p, q \in Plays \ announced : Up(p) /\ Up(q) => p = q

Late == {"install", "serve", "check load", "check judge", "dump"} \cup Stopping

\* A play that goes on to start a scheduler found no other one.
LateIsAlone ==
    \A p \in Plays \ announced : at[p] \in Late => \A q \in announced : ~Up(q)

\* The server of a scheduler has the keys that the clients read.
KeysServed ==
    \A p \in Plays : at[p] \in {"check load", "check judge", "dump", "run"} =>
        keys = served[p]

SchedulerInv ==
    /\ AnnouncedIsPast /\ RunningIsAnnounced
    /\ ~raced => ContactIsUp /\ OneUnannounced /\ LateIsAlone /\ KeysServed
KeyUsers == {"check load", "check judge", "dump", "run"}

\* A process takes a step of its own: what it must not disturb.
LEMMA Move ==
    ASSUME LTypeOK, SchedulerInv, NEW x \in Procs, NEW s \in Steps, Goto(x, s),
           announced' = announced, \A p \in Plays : p # x => served'[p] = served[p],
           raced => raced',
           x \in announced => /\ s \in Stopping \cup {"run", "exit", "dead"}
                              /\ Up(x) \/ s \in {"exit", "dead"},
           x \in Plays /\ s = "run" => at[x] = "run",
           ~raced' /\ x \in Plays /\ s \notin {"idle", "exit", "dead"} =>
               Up(x) \/ \A p \in Plays \ announced : p # x => ~Up(p),
           ~raced' /\ x \in Plays \ announced /\ s \in Late =>
               at[x] \in Late \/ \A q \in announced : ~Up(q),
           ~raced' => contact' = contact \/ \A q \in announced : q = x \/ ~Up(q),
           ~raced' /\ x \in announced =>
               contact' = contact \/ s \in {"exit", "dead"},
           ~raced' => keys' = keys \/ \A p \in Plays : p = x \/ at[p] \notin KeyUsers,
           ~raced' /\ x \in Plays /\ s \in KeyUsers => keys' = served'[x]
    PROVE  SchedulerInv'
<1>1. /\ \A y \in Procs : at'[y] = IF y = x THEN s ELSE at[y]
      /\ announced \subseteq Plays /\ Plays \subseteq Procs
  BY GotoType, ProcsApart DEF LTypeOK
<1>2. AnnouncedIsPast'
  BY <1>1 DEF SchedulerInv, AnnouncedIsPast
<1>3. RunningIsAnnounced'
  BY <1>1 DEF SchedulerInv, RunningIsAnnounced
<1>4. ASSUME ~raced' PROVE ContactIsUp'
  BY <1>1, <1>4 DEF SchedulerInv, ContactIsUp, Up
<1>5. ASSUME ~raced' PROVE OneUnannounced'
  BY <1>1, <1>5 DEF SchedulerInv, OneUnannounced, Up
<1>6. ASSUME ~raced' PROVE LateIsAlone'
  <2> SUFFICES ASSUME NEW p \in Plays \ announced, at'[p] \in Late,
                      NEW q \in announced, Up(q)'
               PROVE  FALSE
    BY DEF LateIsAlone
  <2>1. p # q /\ p \in Procs /\ q \in Procs
    BY <1>1
  <2>2. Up(q)
    BY <1>1, <2>1 DEF Up
  <2>3. at[p] \in Late
    BY <1>1, <1>6, <2>1, <2>2
  <2>4. QED
    BY <1>6, <2>2, <2>3 DEF SchedulerInv, LateIsAlone
<1>7. ASSUME ~raced' PROVE KeysServed'
  BY <1>1, <1>7 DEF SchedulerInv, KeysServed, KeyUsers
<1>8. QED
  BY <1>2, <1>3, <1>4, <1>5, <1>6, <1>7 DEF SchedulerInv

LEMMA NotRunningTo ==
    ASSUME NEW x, NotRunning(x),
           at[x] \in Loads \cup {"ping judge", "check judge", "clean judge"}
    PROVE  \/ Stopped(x)
           \/ at[x] \in {"check judge", "check load"} /\ Goto(x, "dump")
           \/ Goto(x, "rmtree")
<1>1. CASE at[x] \in {"ping judge", "ping load"}
  BY <1>1 DEF NotRunning
<1>2. CASE at[x] \in {"check judge", "check load"}
  BY <1>2 DEF NotRunning
<1>3. CASE at[x] \in {"clean judge", "clean load"}
  BY <1>3 DEF NotRunning
<1>4. QED
  BY <1>1, <1>2, <1>3 DEF Loads

LEMMA JudgeTo ==
    ASSUME NEW step \in Loads
    PROVE  /\ Judge(step) \in {"ping judge", "check judge", "clean judge"}
           /\ Judge(step) = "check judge" => step = "check load"
BY DEF Loads, Judge

\* Where the steps of a process lead.
LEMMA StepTo ==
    ASSUME LTypeOK, NEW x \in Procs,
           Connect(x) \/ CleanCheck(x) \/ Step(x) \/ KillProcess(x) \/ StopScheduler(x)
    PROVE  \E s \in Steps : Goto(x, s)
<1> USE DEF Steps, Starting, Stopping
<1>1. ASSUME Stopped(x) PROVE \E s \in Steps : Goto(x, s)
  BY <1>1, StoppedGoto
<1>2. CASE Connect(x)
  BY <1>1, <1>2 DEF Connect
<1>3. CASE Answered(x) \/ NoKeys(x) \/ Rmtree(x) \/ CleanCheck(x) \/ StopScheduler(x)
  BY <1>3 DEF Answered, NoKeys, Rmtree, CleanCheck, StopScheduler
<1>4. CASE TimedOut(x)
  BY <1>1, <1>4 DEF TimedOut
<1>5. CASE Load(x)
  <2>1. CASE contact = Nobody
    BY <1>1, <1>5, <2>1, NotRunningTo DEF Load
  <2>2. CASE contact # Nobody
    BY <1>5, <2>2, JudgeTo DEF Load
  <2>3. QED
    BY <2>1, <2>2
<1>6. CASE Detect(x)
  <2>1. CASE Up(seen[x])
    BY <1>6, <2>1 DEF Detect, Alive
  <2>2. CASE ~Up(seen[x])
    BY <1>1, <1>6, <2>2, NotRunningTo DEF Detect
  <2>3. QED
    BY <2>1, <2>2
<1>7. CASE Install(x) \/ Serve(x)
  BY <1>7 DEF Install, Serve
<1>8. CASE Dump(x) \/ HealthCheck(x) \/ ShutDown(x) \/ KillProcess(x)
  BY <1>8 DEF Dump, HealthCheck, ShutDown, KillProcess
<1>9. QED
  BY <1>2, <1>3, <1>4, <1>5, <1>6, <1>7, <1>8 DEF Step

LEMMA LInitType == LInit => LTypeOK
<1> SUFFICES ASSUME LInit PROVE LTypeOK
  OBVIOUS
<1>1. 0 \in Plays /\ procKills \in 0..MaxProcKills
  BY LifecycleAssumption DEF LInit, Plays
<1>2. at \in [Procs -> Steps]
  <2>1. {"idle", "dead"} \subseteq Steps
    BY DEF Steps
  <2>2. QED
    BY <2>1 DEF LInit
<1>3. QED
  BY <1>1, <1>2 DEF LInit, LTypeOK

LEMMA LNextType == LTypeOK /\ [LNext]_lvars => LTypeOK'
<1> SUFFICES ASSUME LTypeOK, LNext PROVE LTypeOK'
  BY DEF LTypeOK, lvars, dirVars
<1>1. PICK x \in Procs :
          Connect(x) \/ CleanCheck(x) \/ Step(x) \/ KillProcess(x)
          \/ (x \in Plays /\ StopScheduler(x))
  <2>1. CASE \E x \in Procs : Connect(x) \/ CleanCheck(x) \/ Step(x) \/ KillProcess(x)
    BY <2>1
  <2>2. CASE \E p \in Plays : StopScheduler(p)
    BY <2>2, ProcsApart
  <2>3. QED
    BY <2>1, <2>2 DEF LNext
<1>2. at' \in [Procs -> Steps]
  BY <1>1, StepTo, GotoType
<1> USE <1>2 DEF LTypeOK, dirVars
<1>3. CASE Connect(x) \/ CleanCheck(x) \/ (x \in Plays /\ StopScheduler(x))
  BY <1>3 DEF Connect, CleanCheck, StopScheduler
<1>4. CASE Answered(x) \/ NoKeys(x) \/ TimedOut(x)
  BY <1>4 DEF Answered, NoKeys, TimedOut
<1>5. CASE Load(x) \/ Detect(x) \/ Rmtree(x)
  BY <1>5 DEF Load, Detect, Rmtree
<1>6. CASE x \in Plays /\ (Install(x) \/ Serve(x))
  BY <1>6 DEF Install, Serve
<1>7. CASE x \in Plays /\ (Dump(x) \/ HealthCheck(x) \/ ShutDown(x))
  BY <1>7 DEF Dump, HealthCheck, ShutDown
<1>8. CASE KillProcess(x)
  <2>1. procKills' \in 0..MaxProcKills
    BY <1>8, LifecycleAssumption DEF KillProcess
  <2>2. QED
    BY <1>8, <2>1 DEF KillProcess
<1>9. QED
  BY <1>1, <1>3, <1>4, <1>5, <1>6, <1>7, <1>8 DEF Step

\* Without a contact file no scheduler that wrote one is up.
LEMMA AloneAt ==
    ASSUME SchedulerInv, ~raced, contact = Nobody, announced \subseteq Plays
    PROVE  \A q \in announced : ~Up(q)
BY ProcsApart DEF SchedulerInv, ContactIsUp

LEMMA ConnectKeeps ==
    ASSUME LTypeOK, SchedulerInv, NEW x \in Procs, Connect(x)
    PROVE  SchedulerInv'
<1>1. PICK s \in {"install", "exit", "ping"} :
          Goto(x, s) /\ (s = "install" => contact = Nobody)
  <2>1. CASE contact = Nobody
    BY <2>1, StoppedGoto DEF Connect
  <2>2. CASE contact # Nobody
    BY <2>2 DEF Connect
  <2>3. QED
    BY <2>1, <2>2
<1>2. at[x] = "idle" /\ x \notin announced
  BY DEF Connect, SchedulerInv, AnnouncedIsPast, Stopping
<1>3. s \in Steps /\ s \notin KeyUsers /\ s # "run" /\ (s \in Late => s = "install")
  BY DEF Steps, Starting, Stopping, Late, KeyUsers
<1>4. /\ announced' = announced /\ served' = served
      /\ contact' = contact /\ keys' = keys
      /\ raced => raced'
  BY DEF Connect, dirVars
<1>5. ~raced' /\ x \in Plays => \A p \in Plays \ announced : ~Up(p)
  BY DEF Connect
<1>6. ~raced' /\ s = "install" => \A q \in announced : ~Up(q)
  BY <1>1, <1>4, AloneAt DEF LTypeOK
<1>7. QED
  BY <1>1, <1>2, <1>3, <1>4, <1>5, <1>6, Move

\* Steps that end nothing but the process itself.
LEMMA LeavesKeep ==
    ASSUME LTypeOK, SchedulerInv, NEW x \in Procs,
           \/ Answered(x) \/ NoKeys(x) \/ CleanCheck(x) \/ Rmtree(x) \/ KillProcess(x)
           \/ x \in Plays /\ (HealthCheck(x) \/ StopScheduler(x))
    PROVE  SchedulerInv'
<1>1. at[x] \in {"ping", "idle", "rmtree"} => x \notin announced
  BY DEF SchedulerInv, AnnouncedIsPast, Stopping
<1>2. {"exit", "dead", "clean load", "remove keys"} \subseteq Steps \ KeyUsers
  BY DEF Steps, Starting, Stopping, KeyUsers
<1>3. {"exit", "dead", "clean load"} \cap Late = {}
  BY DEF Late, Stopping
<1>4. CASE Answered(x) \/ NoKeys(x)
  <2>1. at[x] = "ping" /\ Goto(x, "exit")
    BY <1>4 DEF Answered, NoKeys
  <2>2. /\ announced' = announced /\ served' = served /\ contact' = contact
        /\ keys' = keys /\ raced' = raced
    BY <1>4 DEF Answered, NoKeys, dirVars
  <2>3. QED
    BY <1>1, <1>2, <1>3, <2>1, <2>2, Move
<1>5. CASE CleanCheck(x)
  BY <1>1, <1>2, <1>3, <1>5, ProcsApart, Move DEF CleanCheck, dirVars
<1>6. CASE KillProcess(x)
  BY <1>2, <1>3, <1>6, Move DEF KillProcess, dirVars
<1>7. CASE Rmtree(x)
  <2>1. ~raced' => \A p \in Plays : ~Up(p)
    BY <1>7 DEF Rmtree
  <2>2. \A p \in Plays : ~Up(p) => at[p] \notin KeyUsers
    BY DEF Up, KeyUsers
  <2>3. announced \subseteq Plays
    BY DEF LTypeOK
  <2>4. QED
    BY <1>1, <1>2, <1>3, <1>7, <2>1, <2>2, <2>3, Move DEF Rmtree
<1>8. CASE x \in Plays /\ (HealthCheck(x) \/ StopScheduler(x))
  <2>1. at[x] = "run" /\ Goto(x, "remove keys")
    BY <1>8 DEF HealthCheck, StopScheduler
  <2>2. x \in announced /\ Up(x)
    BY <1>8, <2>1 DEF SchedulerInv, RunningIsAnnounced, Up
  <2>3. "remove keys" \in Stopping
    BY DEF Stopping
  <2>4. /\ announced' = announced /\ served' = served /\ contact' = contact
        /\ keys' = keys /\ raced' = raced
    BY <1>8 DEF HealthCheck, StopScheduler, dirVars
  <2>5. QED
    BY <1>2, <2>1, <2>2, <2>3, <2>4, Move
<1>9. QED
  BY <1>4, <1>5, <1>6, <1>7, <1>8

LEMMA TimedOutKeeps ==
    ASSUME LTypeOK, SchedulerInv, NEW x \in Procs, TimedOut(x)
    PROVE  SchedulerInv'
<1>1. PICK s \in {"install", "exit", "ping load"} :
          Goto(x, s) /\ (s = "install" => contact = Nobody)
  BY StoppedGoto DEF TimedOut
<1>2. at[x] = "ping" /\ x \notin announced /\ Up(x)
  BY DEF TimedOut, SchedulerInv, AnnouncedIsPast, Stopping, Up
<1>3. s \in Steps /\ s \notin KeyUsers /\ s # "run" /\ (s \in Late => s = "install")
  BY DEF Steps, Starting, Stopping, Late, KeyUsers
<1>4. /\ announced' = announced /\ served' = served
      /\ contact' = contact /\ keys' = keys /\ raced' = raced
  BY DEF TimedOut, dirVars
<1>5. ~raced' /\ s = "install" => \A q \in announced : ~Up(q)
  BY <1>1, <1>4, AloneAt DEF LTypeOK
<1>6. QED
  BY <1>1, <1>2, <1>3, <1>4, <1>5, Move

\* detect_old_contact_file finds no scheduler: none that wrote its file is up.
LEMMA NotRunningKeeps ==
    ASSUME LTypeOK, SchedulerInv, NEW x \in Procs, NotRunning(x),
           at[x] \in Loads \cup {"ping judge", "check judge", "clean judge"},
           announced' = announced, served' = served, keys' = keys, raced => raced',
           ~raced' => \A q \in announced : ~Up(q)
    PROVE  SchedulerInv'
<1>1. x \notin announced /\ Up(x)
  BY DEF Loads, SchedulerInv, AnnouncedIsPast, Stopping, Up
<1>2. PICK s \in {"install", "exit", "dump", "rmtree"} :
          Goto(x, s) /\ (s = "dump" => at[x] \in {"check judge", "check load"})
  BY StoppedGoto, NotRunningTo
<1>3. s \in Steps /\ s # "run" /\ (s \in KeyUsers => s = "dump")
  BY DEF Steps, Starting, Stopping, KeyUsers
<1>4. ~raced' /\ x \in Plays /\ s \in KeyUsers => keys' = served'[x]
  BY <1>2, <1>3 DEF SchedulerInv, KeysServed
<1>5. QED
  BY <1>1, <1>2, <1>3, <1>4, Move

LEMMA LoadKeeps ==
    ASSUME LTypeOK, SchedulerInv, NEW x \in Procs, Load(x)
    PROVE  SchedulerInv'
<1>1. /\ announced' = announced /\ served' = served /\ contact' = contact
      /\ keys' = keys /\ raced' = raced /\ at[x] \in Loads
  BY DEF Load, dirVars
<1>2. CASE contact = Nobody
  <2>1. ~raced' => \A q \in announced : ~Up(q)
    BY <1>1, <1>2, AloneAt DEF LTypeOK
  <2>2. NotRunning(x)
    BY <1>2 DEF Load
  <2>3. QED
    BY <1>1, <2>1, <2>2, NotRunningKeeps
<1>3. CASE contact # Nobody
  <2>1. PICK s \in {"ping judge", "check judge", "clean judge"} :
            Goto(x, s) /\ (s = "check judge" => at[x] = "check load")
    BY <1>1, <1>3, JudgeTo DEF Load
  <2>2. x \notin announced /\ Up(x)
    BY <1>1 DEF Loads, SchedulerInv, AnnouncedIsPast, Stopping, Up
  <2>3. s \in Steps /\ s # "run" /\ (s \in KeyUsers \/ s \in Late => s = "check judge")
    BY DEF Steps, Starting, Stopping, KeyUsers, Late
  <2>4. at[x] = "check load" => at[x] \in Late
    BY DEF Late
  <2>5. ~raced' /\ x \in Plays /\ s \in KeyUsers => keys' = served'[x]
    BY <1>1, <2>1, <2>3 DEF SchedulerInv, KeysServed
  <2>6. QED
    BY <1>1, <2>1, <2>2, <2>3, <2>4, <2>5, Move
<1>4. QED
  BY <1>2, <1>3

LEMMA DetectKeeps ==
    ASSUME LTypeOK, SchedulerInv, NEW x \in Procs, Detect(x)
    PROVE  SchedulerInv'
<1>1. /\ announced' = announced /\ served' = served /\ keys' = keys
      /\ at[x] \in {"ping judge", "check judge", "clean judge"}
  BY DEF Detect
<1>2. x \notin announced
  BY <1>1 DEF SchedulerInv, AnnouncedIsPast, Stopping
<1>3. CASE Up(seen[x])
  <2>1. contact' = contact /\ raced' = raced /\ Alive(x)
    BY <1>3 DEF Detect
  <2>2. PICK s \in {"remove keys", "exit"} :
            Goto(x, s) /\ (s = "remove keys" => at[x] = "check judge")
    BY <2>1 DEF Alive
  <2>3. s \in Steps /\ s # "run" /\ s \notin KeyUsers /\ (s \in Late => s = "remove keys")
    BY DEF Steps, Starting, Stopping, KeyUsers, Late
  <2>4. Up(x) /\ (at[x] = "check judge" => at[x] \in Late)
    BY <1>1 DEF Late, Up
  <2>5. QED
    BY <1>1, <1>2, <2>1, <2>2, <2>3, <2>4, Move
<1>4. CASE ~Up(seen[x])
  <2>1. /\ contact' = Nobody /\ NotRunning(x)
        /\ raced => raced'
    BY <1>4 DEF Detect
  <2>2. ~raced' => contact \in {Nobody, seen[x]}
    BY <1>4 DEF Detect
  <2>3. ASSUME ~raced' PROVE \A q \in announced : ~Up(q)
    <3>1. ~raced
      BY <2>1, <2>3
    <3>2. CASE contact = Nobody
      BY <3>1, <3>2, AloneAt DEF LTypeOK
    <3>3. CASE contact = seen[x]
      BY <1>4, <3>1, <3>3 DEF SchedulerInv, ContactIsUp
    <3>4. QED
      BY <2>2, <2>3, <3>2, <3>3
  <2>4. QED
    BY <1>1, <2>1, <2>3, NotRunningKeeps
<1>5. QED
  BY <1>3, <1>4

\* A play that is up and that late is the only one.
LEMMA OnlyOne ==
    ASSUME LTypeOK, SchedulerInv, ~raced, NEW x \in Plays, Up(x),
           x \in announced \/ at[x] \in Late
    PROVE  \A p \in Plays : p # x =>
               (~Up(p) \/ (p \notin announced /\ x \in announced /\ at[p] \notin Late))
<1> SUFFICES ASSUME NEW p \in Plays, p # x, Up(p)
             PROVE  p \notin announced /\ x \in announced /\ at[p] \notin Late
  OBVIOUS
<1>1. CASE x \in announced
  BY <1>1 DEF SchedulerInv, ContactIsUp, LateIsAlone
<1>2. CASE x \notin announced
  BY <1>2 DEF SchedulerInv, LateIsAlone, OneUnannounced
<1>3. QED
  BY <1>1, <1>2

LEMMA KeysAreOwn ==
    ASSUME LTypeOK, SchedulerInv, ~raced, NEW x \in Plays, Up(x),
           x \in announced \/ at[x] \in Late
    PROVE  \A p \in Plays : p = x \/ at[p] \notin KeyUsers
<1>1. \A p \in Plays : p # x =>
          (~Up(p) \/ (p \notin announced /\ at[p] \notin Late))
  BY OnlyOne
<1>2. \A p \in Plays : at[p] \in KeyUsers => Up(p) /\ (at[p] \in Late \/ p \in announced)
  BY DEF KeyUsers, Up, Late, SchedulerInv, RunningIsAnnounced
<1>3. QED
  BY <1>1, <1>2

LEMMA StartKeeps ==
    ASSUME LTypeOK, SchedulerInv, NEW x \in Plays, Install(x) \/ Serve(x)
    PROVE  SchedulerInv'
<1>1. x \in Procs /\ x \notin announced /\ Up(x) /\ at[x] \in Late
  BY ProcsApart
     DEF Install, Serve, SchedulerInv, AnnouncedIsPast, Stopping, Up, Late
<1>2. announced' = announced /\ contact' = contact /\ raced' = raced
  BY DEF Install, Serve, dirVars
<1>3. CASE Install(x)
  <2>1. PICK s \in {"serve", "exit"} : Goto(x, s)
    BY <1>3 DEF Install
  <2>2. s \in Steps /\ s \notin KeyUsers /\ s # "run"
    BY DEF Steps, Starting, Stopping, KeyUsers
  <2>3. served' = served
    BY <1>3 DEF Install
  <2>4. ~raced' => \A p \in Plays : p = x \/ at[p] \notin KeyUsers
    BY <1>1, <1>2, KeysAreOwn
  <2>5. QED
    BY <1>1, <1>2, <2>1, <2>2, <2>3, <2>4, Move
<1>4. CASE Serve(x)
  <2>1. PICK s \in {"remove keys", "check load"} : Goto(x, s)
    BY <1>4 DEF Serve
  <2>2. s \in Steps /\ s # "run"
    BY DEF Steps, Starting, Stopping
  <2>3. /\ keys' = keys /\ served'[x] = keys
        /\ \A p \in Plays : p # x => served'[p] = served[p]
    BY <1>4 DEF Serve, dirVars, LTypeOK
  <2>4. QED
    BY <1>1, <1>2, <2>1, <2>2, <2>3, Move
<1>5. QED
  BY <1>3, <1>4

LEMMA ShutDownKeeps ==
    ASSUME LTypeOK, SchedulerInv, NEW x \in Plays, ShutDown(x)
    PROVE  SchedulerInv'
<1>1. x \in Procs /\ Up(x) /\ at[x] \in Late /\ at[x] \in Stopping
  BY ProcsApart DEF ShutDown, Up, Late, Stopping
<1>2. announced' = announced /\ served' = served /\ raced' = raced
  BY DEF ShutDown
<1>3. CASE at[x] = "remove keys"
  <2>1. Goto(x, "unlink") /\ contact' = contact
    BY <1>3 DEF ShutDown
  <2>2. "unlink" \in (Steps \cap Stopping) \ KeyUsers
    BY DEF Steps, Stopping, KeyUsers
  <2>3. ~raced' => \A p \in Plays : p = x \/ at[p] \notin KeyUsers
    BY <1>1, <1>2, KeysAreOwn
  <2>4. QED
    BY <1>1, <1>2, <2>1, <2>2, <2>3, Move
<1>4. CASE at[x] = "unlink"
  <2>1. /\ Goto(x, "exit") /\ keys' = keys
        /\ contact' = IF x \in announced THEN Nobody ELSE contact
    BY <1>4 DEF ShutDown
  <2>2. "exit" \in (Steps \ KeyUsers) \ Late
    BY DEF Steps, Stopping, KeyUsers, Late
  <2>3. ~raced' => contact' = contact \/ \A q \in announced : q = x \/ ~Up(q)
    <3>1. announced \subseteq Plays
      BY DEF LTypeOK
    <3>2. QED
      BY <1>1, <1>2, <2>1, <3>1, OnlyOne
  <2>4. QED
    BY <1>1, <1>2, <2>1, <2>2, <2>3, Move
<1>5. QED
  BY <1>3, <1>4 DEF ShutDown

LEMMA DumpKeeps ==
    ASSUME LTypeOK, SchedulerInv, NEW x \in Plays, Dump(x)
    PROVE  SchedulerInv'
<1>1. /\ x \in Procs /\ x \notin announced /\ Up(x) /\ at[x] = "dump"
      /\ announced \subseteq Plays
  BY ProcsApart
     DEF Dump, SchedulerInv, AnnouncedIsPast, Stopping, Up, LTypeOK
<1>2. at[x] \in Late /\ at[x] \in KeyUsers
  BY <1>1 DEF Late, KeyUsers
<1>3. served' = served /\ keys' = keys /\ raced' = raced
  BY DEF Dump
<1>4. CASE ~runDir
  <2>1. Goto(x, "remove keys") /\ contact' = contact /\ announced' = announced
    BY <1>4 DEF Dump
  <2>2. "remove keys" \in Steps \ KeyUsers
    BY DEF Steps, Stopping, KeyUsers
  <2>3. QED
    BY <1>1, <1>2, <1>3, <2>1, <2>2, Move
<1>5. CASE runDir
  <2>1. Goto(x, "run") /\ contact' = x /\ announced' = announced \cup {x}
    BY <1>5 DEF Dump
  <2>2. "run" \in Steps
    BY DEF Steps
  <2>3. \A y \in Procs : at'[y] = IF y = x THEN "run" ELSE at[y]
    BY <2>1, <2>2, GotoType
  <2>4. Plays \subseteq Procs
    BY ProcsApart
  <2>5. AnnouncedIsPast' /\ RunningIsAnnounced'
    BY <1>1, <2>1, <2>3, <2>4 DEF SchedulerInv, AnnouncedIsPast, RunningIsAnnounced
  <2>6. ASSUME ~raced
        PROVE  \A p \in Plays : p # x =>
                   (~Up(p) /\ at[p] \notin KeyUsers)
    <3>1. \A p \in Plays : p # x => ~Up(p)
      BY <1>1, <1>2, <2>6, OnlyOne
    <3>2. \A p \in Plays : ~Up(p) => at[p] \notin KeyUsers
      BY DEF Up, KeyUsers
    <3>3. QED
      BY <3>1, <3>2
  <2>7. ASSUME ~raced, NEW p \in Plays, p # x
        PROVE  ~Up(p)'
    BY <2>3, <2>4, <2>6, <2>7 DEF Up
  <2>8. ASSUME ~raced PROVE (ContactIsUp /\ OneUnannounced /\ LateIsAlone)'
    <3>1. ContactIsUp'
      BY <1>1, <2>1, <2>7, <2>8 DEF ContactIsUp
    <3>2. OneUnannounced'
      BY <2>1, <2>7, <2>8 DEF OneUnannounced
    <3>3. LateIsAlone'
      <4>1. \A p \in Plays : at'[p] \in Late => Up(p)'
        BY DEF Late, Stopping, Up
      <4>2. QED
        BY <2>1, <2>7, <2>8, <4>1 DEF LateIsAlone
    <3>4. QED
      BY <3>1, <3>2, <3>3
  <2>9. ASSUME ~raced PROVE KeysServed'
    <3> SUFFICES ASSUME NEW p \in Plays,
                        at'[p] \in KeyUsers
                 PROVE  keys' = served'[p]
      BY DEF KeysServed, KeyUsers
    <3>1. p = x
      BY <2>3, <2>4, <2>6, <2>9
    <3>2. QED
      BY <1>1, <1>3, <2>9, <3>1 DEF SchedulerInv, KeysServed
  <2>10. QED
    BY <1>3, <2>5, <2>8, <2>9 DEF SchedulerInv
<1>6. QED
  BY <1>4, <1>5

LEMMA LInitSchedulers == LInit => SchedulerInv
<1> SUFFICES ASSUME LInit PROVE SchedulerInv
  OBVIOUS
<1>1. announced = {} /\ \A p \in Plays : at[p] \in {"idle", "dead"}
  BY ProcsApart DEF LInit
<1>2. QED
  BY <1>1 DEF SchedulerInv, AnnouncedIsPast, RunningIsAnnounced, ContactIsUp,
              OneUnannounced, LateIsAlone, KeysServed, Up

LEMMA LNextSchedulers == LTypeOK /\ SchedulerInv /\ [LNext]_lvars => SchedulerInv'
<1> SUFFICES ASSUME LTypeOK, SchedulerInv, [LNext]_lvars PROVE SchedulerInv'
  OBVIOUS
<1>1. ASSUME NEW x \in Procs, Connect(x) \/ CleanCheck(x) \/ KillProcess(x)
      PROVE  SchedulerInv'
  BY <1>1, ConnectKeeps, LeavesKeep
<1>2. ASSUME NEW x \in Procs, Step(x) PROVE SchedulerInv'
  <2>1. CASE Answered(x) \/ NoKeys(x) \/ Rmtree(x)
    BY <2>1, LeavesKeep
  <2>2. CASE TimedOut(x) \/ Load(x) \/ Detect(x)
    BY <2>2, TimedOutKeeps, LoadKeeps, DetectKeeps
  <2>3. CASE x \in Plays /\ (Install(x) \/ Serve(x))
    BY <2>3, StartKeeps
  <2>4. CASE x \in Plays /\ Dump(x)
    BY <2>4, DumpKeeps
  <2>5. CASE x \in Plays /\ HealthCheck(x)
    BY <2>5, LeavesKeep
  <2>6. CASE x \in Plays /\ ShutDown(x)
    BY <2>6, ShutDownKeeps
  <2>7. QED
    BY <1>2, <2>1, <2>2, <2>3, <2>4, <2>5, <2>6 DEF Step
<1>3. ASSUME NEW p \in Plays, StopScheduler(p) PROVE SchedulerInv'
  BY <1>3, ProcsApart, LeavesKeep
<1>4. CASE UNCHANGED lvars
  BY <1>4 DEF lvars, dirVars, SchedulerInv, AnnouncedIsPast, RunningIsAnnounced,
              ContactIsUp, OneUnannounced, LateIsAlone, KeysServed, Up
<1>5. CASE LNext
  <2>1. CASE \E x \in Procs : Connect(x) \/ CleanCheck(x) \/ Step(x) \/ KillProcess(x)
    BY <1>1, <1>2, <2>1
  <2>2. CASE \E p \in Plays : StopScheduler(p)
    BY <1>3, <2>2
  <2>3. QED
    BY <1>5, <2>1, <2>2 DEF LNext
<1>6. QED
  BY <1>4, <1>5

LEMMA ContactFileDecides == LTypeOK /\ SchedulerInv => OneSchedulerBut
<1> SUFFICES ASSUME LTypeOK, SchedulerInv, ~raced,
                    NEW p \in Plays, Running(p)
             PROVE  /\ \A q \in Plays : Running(q) => q = p
                    /\ contact = p
                    /\ keys = served[p]
  BY DEF OneSchedulerBut, OneScheduler
<1>1. \A q \in Plays : Running(q) => q \in announced /\ Up(q)
  BY DEF SchedulerInv, RunningIsAnnounced, Running, Up
<1>2. \A q \in Plays : Running(q) => contact = q
  BY <1>1 DEF SchedulerInv, ContactIsUp
<1>3. keys = served[p]
  BY DEF SchedulerInv, KeysServed, Running
<1>4. QED
  BY <1>2, <1>3

(***************************************************************************)
(* At most one scheduler runs a workflow, for any number of plays, cleans  *)
(* and clients and whichever of them are killed at whatever step: while    *)
(* none of the three races of OneSchedulerBut has taken place, the contact *)
(* file and the keys are those of the only scheduler that is in its main   *)
(* loop.  (detect_old_contact_file and _configure_contact of the source.)  *)
(***************************************************************************)
THEOREM ContactFileKeepsOne == LSpec => [](LTypeOK /\ OneSchedulerBut)
<1>1. LInit => LTypeOK /\ SchedulerInv
  BY LInitType, LInitSchedulers
<1>2. LTypeOK /\ SchedulerInv /\ [LNext]_lvars => (LTypeOK /\ SchedulerInv)'
  BY LNextType, LNextSchedulers
<1>3. LTypeOK /\ SchedulerInv => OneSchedulerBut
  BY ContactFileDecides
<1>4. QED
  BY <1>1, <1>2, <1>3, PTL DEF LSpec

---------------------------------------------------------------------------
(* Lifecycle: a play that begins alone.                                      *)

Past == Stopping \cup {"run", "exit", "dead"}

\* The contact file is that of a scheduler that got past starting.
ContactIsPast == \A p \in Plays : contact = p => at[p] \in Past

\* The steps of a play at which a contact file is judged.
Judging == {"ping", "ping judge", "check judge"}

\* The steps of a clean.
Cleaning == {"clean load", "clean judge", "rmtree"}

\* A play that is alone is the only process that is up, in a run directory that
\* is there; the contact file is as it read it while it judges what it says; the
\* keys are those that its server loaded, and the contact file is its own when it
\* runs.
AloneInv ==
    alone # Nobody =>
        /\ alone \in Plays /\ runDir /\ at[alone] \notin Cleaning
        /\ at[alone] \in Judging => seen[alone] = contact /\ contact # Nobody
        /\ \A y \in Procs : y # alone => ~Up(y)
        /\ at[alone] = "serve" => keys # Nobody
        /\ at[alone] \in KeyUsers => keys = served[alone]
        /\ at[alone] = "run" => contact = alone

\* A process that takes a step of its own is up, and leaves alone what it is.
LEMMA StepIsUp ==
    ASSUME NEW x, Step(x)
    PROVE  Up(x) /\ alone' = alone
<1>1. CASE Answered(x) \/ NoKeys(x) \/ TimedOut(x)
  BY <1>1 DEF Answered, NoKeys, TimedOut, Up
<1>2. CASE Load(x)
  BY <1>2 DEF Load, Loads, Up
<1>3. CASE Detect(x) \/ Rmtree(x)
  BY <1>3 DEF Detect, Rmtree, Up
<1>4. CASE Install(x) \/ Serve(x) \/ Dump(x) \/ HealthCheck(x) \/ ShutDown(x)
  BY <1>4 DEF Install, Serve, Dump, HealthCheck, ShutDown, Up
<1>5. QED
  BY <1>1, <1>2, <1>3, <1>4 DEF Step

\* A play past starting stays so.
LEMMA PastStays ==
    ASSUME LTypeOK, NEW x \in Plays, at[x] \in Past, NEW y \in Procs,
           Connect(y) \/ CleanCheck(y) \/ Step(y) \/ KillProcess(y) \/ StopScheduler(y)
    PROVE  at'[x] \in Past
<1>1. PICK s \in Steps : Goto(y, s)
  BY StepTo
<1>2. at'[x] = IF x = y THEN s ELSE at[x]
  BY <1>1, ProcsApart, GotoType
<1>3. CASE x # y
  BY <1>2, <1>3
<1>4. CASE x = y
  <2>1. at[x] \in {"remove keys", "unlink", "run", "exit", "dead"}
    BY DEF Past, Stopping
  <2>2. at[x] \notin Loads \cup {"idle", "ping", "ping judge", "check judge", "clean judge",
                                 "rmtree", "install", "serve", "dump"}
    BY <2>1 DEF Loads
  <2>3. HealthCheck(x) \/ ShutDown(x) \/ KillProcess(x) \/ StopScheduler(x)
    BY <1>4, <2>2 DEF Step, Connect, CleanCheck, Answered, NoKeys, TimedOut, Load,
       Detect, Rmtree, Install, Serve, Dump
  <2>4. \E e \in {"remove keys", "unlink", "exit", "dead"} : Goto(x, e)
    BY <2>3 DEF HealthCheck, ShutDown, KillProcess, StopScheduler
  <2>5. PICK e \in {"remove keys", "unlink", "exit", "dead"} : Goto(x, e)
    BY <2>4
  <2>6. e \in Past /\ e \in Steps
    BY <2>5 DEF Past, Stopping, Steps
  <2>7. QED
    BY <2>5, <2>6, ProcsApart, GotoType
<1>5. QED
  BY <1>3, <1>4

LEMMA ContactPastNext ==
    ASSUME LTypeOK, ContactIsPast, LNext
    PROVE  ContactIsPast'
<1>1. PICK y \in Procs :
          Connect(y) \/ CleanCheck(y) \/ Step(y) \/ KillProcess(y) \/ StopScheduler(y)
  BY ProcsApart DEF LNext
<1>2. SUFFICES ASSUME NEW p \in Plays, contact' = p PROVE at'[p] \in Past
  BY DEF ContactIsPast
<1>3. CASE contact = p
  BY <1>1, <1>3, PastStays DEF ContactIsPast
<1>4. CASE contact # p
  <2>1. contact' # Nobody /\ contact' # contact
    BY <1>2, <1>4, ProcsApart
  <2>2. Dump(y)
    BY <1>1, <2>1 DEF Connect, CleanCheck, KillProcess, StopScheduler, Step, Answered,
       NoKeys, TimedOut, Load, Detect, Rmtree, Install, Serve, HealthCheck, ShutDown, dirVars
  <2>3. contact' = y /\ Goto(y, "run")
    BY <1>2, <1>4, <2>1, <2>2 DEF Dump
  <2>4. "run" \in Steps /\ "run" \in Past
    BY DEF Steps, Past
  <2>5. QED
    BY <1>2, <2>3, <2>4, GotoType
<1>5. QED
  BY <1>3, <1>4

\* The steps of a play that is alone.
LEMMA AloneSteps ==
    ASSUME LTypeOK, ContactIsPast, AloneInv, NEW x \in Plays, x = alone, Step(x)
    PROVE  /\ AloneInv'
           /\ OnCourse(x) /\ (at[x] = "ping" => keys # Nobody) => OnCourse(x)'
<1>0. /\ alone # Nobody /\ alone' = alone /\ x \in Procs
      /\ x \notin Cleans /\ x \notin Clients
  BY ProcsApart, StepIsUp
<1>1. /\ runDir /\ at[x] \notin Cleaning /\ \A y \in Procs : y # x => ~Up(y)
      /\ at[x] \in Judging => seen[x] = contact /\ contact # Nobody
      /\ at[x] = "serve" => keys # Nobody
      /\ at[x] \in KeyUsers => keys = served[x]
      /\ at[x] = "run" => contact = x
  BY <1>0 DEF AloneInv
<1>2. at[x] \in Judging => seen[x] \in Plays /\ ~Up(seen[x])
  <2>1. at[x] \in Judging => at[x] \notin Past
    BY DEF Judging, Past, Stopping
  <2>2. QED
    BY <1>1, <2>1, ProcsApart DEF LTypeOK, ContactIsPast
<1> DEFINE Fine(s) ==
      /\ runDir' /\ s \notin Cleaning
      /\ (s \in Judging => seen'[x] = contact' /\ contact' # Nobody)
      /\ s = "serve" => keys' # Nobody
      /\ s \in KeyUsers => keys' = served'[x]
      /\ s = "run" => contact' = x
<1>3. ASSUME NEW s \in Steps, Goto(x, s), Fine(s)
      PROVE  AloneInv' /\ (s \in Starting \cup {"run"} => OnCourse(x)')
  <2>1. \A y \in Procs : at'[y] = IF y = x THEN s ELSE at[y]
    BY <1>3, GotoType
  <2>2. \A y \in Procs : y # x => ~Up(y)'
    BY <1>1, <2>1 DEF Up
  <2>3. AloneInv'
    BY <1>0, <1>3, <2>1, <2>2 DEF AloneInv
  <2>4. s = "run" => keys' = served'[x] /\ contact' = x
    BY <1>3 DEF KeyUsers
  <2>5. QED
    BY <1>0, <2>1, <2>3, <2>4 DEF OnCourse, Running
<1>4. ASSUME NEW s \in {"exit", "install", "ping load", "remove keys", "unlink"},
             Goto(x, s), runDir'
      PROVE  AloneInv' /\ (s \in {"install", "ping load"} => OnCourse(x)')
  <2>1. s \in Steps /\ (s \in {"install", "ping load"} => s \in Starting)
    BY DEF Steps, Starting, Stopping
  <2>2. Fine(s)
    BY <1>4 DEF KeyUsers, Judging, Cleaning
  <2>3. QED
    BY <1>3, <1>4, <2>1, <2>2
<1>5. /\ {"serve", "ping judge", "check load", "check judge", "dump", "run"} \subseteq Steps
      /\ {"serve", "ping judge", "check load", "check judge", "dump"} \subseteq Starting
  BY DEF Steps, Starting
<1>6. CASE Answered(x) \/ NoKeys(x) \/ TimedOut(x)
  <2>1. at[x] = "ping" /\ runDir' = runDir
    BY <1>6 DEF Answered, NoKeys, TimedOut, dirVars
  <2>2. seen[x] = contact /\ contact # Nobody /\ ~Up(seen[x])
    BY <1>1, <1>2, <2>1 DEF Judging
  <2>3. ~Answered(x)
    BY <2>2 DEF Answered, Up
  <2>4. TimedOut(x) => Goto(x, "ping load")
    BY <2>2 DEF TimedOut
  <2>5. NoKeys(x) => keys = Nobody /\ Goto(x, "exit")
    BY DEF NoKeys
  <2>6. QED
    BY <1>1, <1>4, <1>6, <2>1, <2>3, <2>4, <2>5
<1>7. ASSUME NotRunning(x), at[x] \in {"ping judge", "ping load", "check judge", "check load"},
             UNCHANGED <<runDir, keys, served>>
      PROVE  AloneInv' /\ OnCourse(x)'
  <2>1. CASE at[x] \in {"ping judge", "ping load"}
    <3>1. Goto(x, "install")
      BY <1>7, <2>1, StoppedGoto DEF NotRunning
    <3>2. QED
      BY <1>1, <1>4, <1>7, <3>1
  <2>2. CASE at[x] \in {"check judge", "check load"}
    <3>1. Goto(x, "dump")
      BY <1>7, <2>2 DEF NotRunning
    <3>2. Fine("dump")
      BY <1>1, <1>7, <2>2 DEF Judging, KeyUsers, Cleaning
    <3>3. QED
      BY <1>3, <1>5, <3>1, <3>2
  <2>3. QED
    BY <1>7, <2>1, <2>2
<1>8. CASE Load(x)
  <2>1. /\ UNCHANGED <<runDir, keys, served, contact>> /\ at[x] \in Loads
        /\ seen' = [seen EXCEPT ![x] = contact]
    BY <1>8 DEF Load, dirVars
  <2>2. at[x] \in {"ping load", "check load"}
    BY <1>1, <2>1 DEF Loads, Cleaning
  <2>3. CASE contact = Nobody
    BY <1>7, <1>8, <2>1, <2>2, <2>3 DEF Load
  <2>4. CASE contact # Nobody
    <3>1. PICK s \in {"ping judge", "check judge"} :
              Goto(x, s) /\ (s = "check judge" => at[x] = "check load")
      BY <1>8, <2>2, <2>4 DEF Load, Judge
    <3>2. seen'[x] = contact' /\ contact' # Nobody
      BY <1>0, <2>1, <2>4 DEF LTypeOK
    <3>3. s \in KeyUsers => at[x] \in KeyUsers
      BY <3>1 DEF KeyUsers
    <3>4. Fine(s)
      BY <1>1, <2>1, <3>1, <3>2, <3>3 DEF KeyUsers, Cleaning
    <3>5. QED
      BY <1>3, <1>5, <3>1, <3>4
  <2>5. QED
    BY <2>3, <2>4
<1>9. CASE Detect(x)
  <2>1. UNCHANGED <<runDir, keys, served>>
    BY <1>9 DEF Detect
  <2>2. at[x] \in {"ping judge", "check judge"}
    BY <1>1, <1>9 DEF Detect, Cleaning
  <2>3. ~Up(seen[x])
    BY <1>2, <2>2 DEF Judging
  <2>4. NotRunning(x)
    BY <1>9, <2>3 DEF Detect
  <2>5. QED
    BY <1>7, <2>1, <2>2, <2>4
<1>10. CASE Rmtree(x)
  BY <1>1, <1>10 DEF Rmtree, Cleaning
<1>11. CASE Install(x)
  <2>1. keys' = x /\ Goto(x, "serve") /\ runDir' = runDir
    BY <1>1, <1>11 DEF Install
  <2>2. Fine("serve")
    BY <1>1, <2>1, ProcsApart DEF Judging, KeyUsers, Cleaning
  <2>3. QED
    BY <1>3, <1>5, <2>1, <2>2
<1>12. CASE Serve(x)
  <2>1. /\ at[x] = "serve" /\ served' = [served EXCEPT ![x] = keys]
        /\ UNCHANGED <<runDir, keys>>
    BY <1>12 DEF Serve, dirVars
  <2>2. Goto(x, "check load")
    BY <1>1, <1>12 DEF Serve
  <2>3. Fine("check load")
    BY <1>1, <2>1 DEF Judging, LTypeOK, Cleaning
  <2>4. QED
    BY <1>3, <1>5, <2>2, <2>3
<1>13. CASE Dump(x)
  <2>1. /\ at[x] = "dump" /\ contact' = x /\ Goto(x, "run")
        /\ UNCHANGED <<runDir, keys, served>>
    BY <1>1, <1>13 DEF Dump
  <2>2. Fine("run")
    BY <1>1, <2>1 DEF Judging, KeyUsers, Cleaning
  <2>3. QED
    BY <1>3, <1>5, <2>1, <2>2
<1>14. CASE HealthCheck(x)
  BY <1>1, <1>14 DEF HealthCheck
<1>15. CASE ShutDown(x)
  <2>1. at[x] \in Stopping /\ runDir' = runDir
    BY <1>15 DEF ShutDown, Stopping
  <2>2. Goto(x, "unlink") \/ Goto(x, "exit")
    BY <1>15 DEF ShutDown
  <2>3. ~OnCourse(x)
    BY <2>1 DEF OnCourse, Starting, Stopping, Running
  <2>4. QED
    BY <1>1, <1>4, <2>1, <2>2, <2>3
<1>16. QED
  BY <1>6, <1>8, <1>9, <1>10, <1>11, <1>12, <1>13, <1>14, <1>15 DEF Step

\* Steps by which a process comes or is ended.
LEMMA OtherSteps ==
    ASSUME LTypeOK, ContactIsPast, AloneInv, NEW x \in Procs,
           \/ Connect(x) \/ CleanCheck(x) \/ KillProcess(x)
           \/ x \in Plays /\ StopScheduler(x)
    PROVE  AloneInv' /\ (alone # Nobody /\ alone' = alone => ~OnCourse(alone))
<1>1. CASE Connect(x)
  <2>1. CASE x \in Plays /\ \A y \in Procs : ~Up(y)
    <3>1. /\ alone' = x /\ runDir' /\ at[x] = "idle" /\ contact' = contact
          /\ seen' = [seen EXCEPT ![x] = contact]
      BY <1>1, <2>1 DEF Connect, dirVars
    <3>2. PICK s \in {"install", "ping"} :
              Goto(x, s) /\ (s = "ping" => contact # Nobody)
      BY <1>1, <2>1, StoppedGoto DEF Connect
    <3>3. s \in Steps /\ s \notin KeyUsers \cup Cleaning \cup {"serve", "run"}
      BY <3>2 DEF Steps, Starting, KeyUsers, Cleaning
    <3>4. \A y \in Procs : at'[y] = IF y = x THEN s ELSE at[y]
      BY <3>2, <3>3, GotoType
    <3>5. \A y \in Procs : y # x => ~Up(y)'
      BY <2>1, <3>4 DEF Up
    <3>6. s \in Judging => seen'[x] = contact' /\ contact' # Nobody
      BY <3>1, <3>2 DEF Judging, LTypeOK
    <3>7. AloneInv'
      BY <2>1, <3>1, <3>3, <3>4, <3>5, <3>6 DEF AloneInv
    <3>8. ~OnCourse(x)
      BY <3>1 DEF OnCourse, Starting, Running
    <3>9. QED
      BY <3>1, <3>7, <3>8
  <2>2. CASE ~(x \in Plays /\ \A y \in Procs : ~Up(y))
    <3>1. alone' = Nobody
      BY <1>1, <2>2 DEF Connect
    <3>2. QED
      BY <3>1 DEF AloneInv
  <2>3. QED
    BY <2>1, <2>2
<1>2. CASE CleanCheck(x)
  <2>1. alone' = Nobody
    BY <1>2 DEF CleanCheck
  <2>2. QED
    BY <2>1 DEF AloneInv
<1>3. CASE KillProcess(x) \/ (x \in Plays /\ StopScheduler(x))
  <2>1. Up(x) /\ (alone = x => alone' = Nobody) /\ (alone # x => alone' = alone)
    BY <1>3 DEF KillProcess, StopScheduler, Up
  <2>2. alone # Nobody => alone = x
    BY <2>1 DEF AloneInv
  <2>3. alone' = Nobody
    BY <2>1, <2>2
  <2>4. QED
    BY <2>3 DEF AloneInv
<1>4. QED
  BY <1>1, <1>2, <1>3

LEMMA AloneNext ==
    ASSUME LTypeOK, ContactIsPast, AloneInv, [LNext]_lvars
    PROVE  /\ AloneInv'
           /\ alone # Nobody /\ alone' = alone /\ OnCourse(alone)
              /\ (at[alone] = "ping" => keys # Nobody) => OnCourse(alone)'
<1>1. CASE UNCHANGED lvars
  BY <1>1 DEF lvars, dirVars, AloneInv, OnCourse, Running, Up
<1>2. ASSUME NEW x \in Procs, Step(x)
      PROVE  /\ AloneInv'
             /\ alone # Nobody /\ alone' = alone /\ OnCourse(alone)
                /\ (at[alone] = "ping" => keys # Nobody) => OnCourse(alone)'
  <2>1. Up(x) /\ alone' = alone
    BY <1>2, StepIsUp
  <2>2. CASE alone = Nobody
    BY <2>1, <2>2 DEF AloneInv
  <2>3. CASE alone # Nobody
    <3>1. x = alone /\ x \in Plays
      BY <1>2, <2>1, <2>3 DEF AloneInv
    <3>2. AloneInv' /\ (OnCourse(x) /\ (at[x] = "ping" => keys # Nobody) => OnCourse(x)')
      BY <1>2, <3>1, AloneSteps
    <3>3. QED
      BY <2>1, <3>1, <3>2 DEF OnCourse, Running
  <2>4. QED
    BY <2>2, <2>3
<1>3. ASSUME NEW x \in Procs, \/ Connect(x) \/ CleanCheck(x) \/ KillProcess(x)
                              \/ x \in Plays /\ StopScheduler(x)
      PROVE  AloneInv' /\ (alone # Nobody /\ alone' = alone => ~OnCourse(alone))
  BY <1>3, OtherSteps
<1>4. CASE LNext
  <2>1. CASE \E x \in Procs : Step(x)
    BY <1>2, <2>1
  <2>2. CASE \E x \in Procs : Connect(x) \/ CleanCheck(x) \/ KillProcess(x)
    BY <1>3, <2>2
  <2>3. CASE \E p \in Plays : StopScheduler(p)
    BY <1>3, <2>3, ProcsApart
  <2>4. QED
    BY <1>4, <2>1, <2>2, <2>3 DEF LNext
<1>5. QED
  BY <1>1, <1>4

\* A play that begins when no other process is about takes over what is left of
\* schedulers that were killed or raced: detect_old_contact_file does not turn it
\* away, and when it runs the contact file and the keys are its own.
THEOREM NothingLeftInTheWay == LSpec => TakesOver
<1>1. LInit => LTypeOK /\ ContactIsPast /\ AloneInv
  <2>1. LInit => ContactIsPast /\ AloneInv
    BY ProcsApart DEF LInit, ContactIsPast, AloneInv, Past
  <2>2. QED
    BY <2>1, LInitType
<1>2. LTypeOK /\ ContactIsPast /\ AloneInv /\ [LNext]_lvars
      => LTypeOK' /\ ContactIsPast' /\ AloneInv'
  <2>1. UNCHANGED lvars /\ ContactIsPast => ContactIsPast'
    BY DEF lvars, dirVars, ContactIsPast
  <2>2. QED
    BY <2>1, LNextType, ContactPastNext, AloneNext
<1>3. LTypeOK /\ ContactIsPast /\ AloneInv /\ [LNext]_lvars
      => [alone # Nobody /\ alone' = alone /\ OnCourse(alone)
          /\ (at[alone] = "ping" => keys # Nobody) => OnCourse(alone)']_lvars
  BY AloneNext
<1>4. QED
  BY <1>1, <1>2, <1>3, PTL DEF LSpec, TakesOver

---------------------------------------------------------------------------
(* Xtriggers: the result that a task is owed.                                *)

IsUp == stop \notin {"killed", "down"}

\* The instances in the pool, with the labels they may wait for.
Waits == Pairs({p \in Points : InTaskPool(p)}, Labels)

\* What is owed is owed to an instance in the pool, and is recorded; while the
\* scheduler is up it is among the results too.
OwedIsKept ==
    /\ owed \subseteq Waits
    /\ \A x \in owed : Sig(x[1], x[2]) \in rows
    /\ IsUp => \A x \in owed : Sig(x[1], x[2]) \in sat_xtrig

LEMMA PairsFact ==
    ASSUME NEW ps, NEW ls, NEW x
    PROVE  x \in Pairs(ps, ls) <=> x[1] \in ps /\ x[2] \in ls /\ x = <<x[1], x[2]>>
BY DEF Pairs

\* An instance in the pool stays in it as the callbacks are called.
LEMMA SubmittedStays ==
    ASSUME NEW called, NEW p, InTaskPool(p)
    PROVE  Submitted(called, p) \in Pooled
BY DEF Submitted, InTaskPool, Pooled

LEMMA PoolStays ==
    ASSUME \A p \in Points : InTaskPool(p) => InTaskPool(p)'
    PROVE  Waits \subseteq Waits'
BY PairsFact DEF Waits

LEMMA OwingFact ==
    ASSUME NEW results, NEW fresh, NEW x, x \in Owing(results, fresh)
    PROVE  x \in owed \/ (x \in Waits /\ Sig(x[1], x[2]) \in results)
BY PairsFact DEF Owing, Waits

LEMMA NeededFact ==
    ASSUME NEW ps, NEW xs, NEW sat, NEW x \in Pairs(ps, Labels),
           Sig(x[1], x[2]) \in sat, x \notin xs
    PROVE  Sig(x[1], x[2]) \in Needed(ps, xs, sat)
BY DEF Needed, Wanted

LEMMA MainLoopKeeps ==
    ASSUME OwedIsKept, NEW broken, MainLoop(broken)
    PROVE  OwedIsKept'
<1>1. stop' = stop /\ IsUp
  BY DEF MainLoop, IsUp
<1> DEFINE r == Returns(broken)
           c == Checks(r)
           kept == IF r.results = {} THEN c.sat
                   ELSE Needed({p \in Points : InTaskPool(p)} \cup c.fresh, c.xs, c.sat)
<1>2. /\ task' = [p \in Points |->
                     IF p \in c.fresh THEN "waiting"
                     ELSE IF p \in c.ready
                          THEN IF stop = "none" THEN "preparing"
                               ELSE IF task[p] = "waiting" THEN "queued" ELSE task[p]
                     ELSE Submitted(r.called, p)]
      /\ sat_xtrig' = kept
      /\ rows' = rows \cup r.results
      /\ owed' = Owing(Results(r.called), c.fresh) \ c.xs
  BY DEF MainLoop
<1>3. c.sat = sat_xtrig \cup r.results
  BY DEF Checks
<1>4. Results(r.called) \subseteq r.results
  BY DEF Returns
<1> HIDE DEF r, c
<1>5. \A p \in Points : InTaskPool(p) => InTaskPool(p)'
  <2> SUFFICES ASSUME NEW p \in Points, InTaskPool(p) PROVE task'[p] \in Pooled
    BY DEF InTaskPool
  <2>1. Submitted(r.called, p) \in Pooled
    BY SubmittedStays
  <2>2. {"waiting", "preparing", "queued", task[p]} \subseteq Pooled
    BY DEF InTaskPool, Pooled
  <2>3. QED
    BY <1>2, <2>1, <2>2
<1>6. \A x \in owed' : x \in owed \/ (x \in Waits /\ Sig(x[1], x[2]) \in r.results)
  BY <1>2, <1>4, OwingFact
<1>7. owed' \subseteq Waits'
  BY <1>5, <1>6, PoolStays DEF OwedIsKept
<1>8. \A x \in owed' : Sig(x[1], x[2]) \in rows'
  BY <1>2, <1>6 DEF OwedIsKept
<1>9. ASSUME NEW x \in owed' PROVE Sig(x[1], x[2]) \in kept
  <2>1. x \in Waits /\ x \notin c.xs /\ Sig(x[1], x[2]) \in c.sat
    BY <1>1, <1>2, <1>3, <1>6, <1>9 DEF OwedIsKept
  <2>2. x \in Pairs({p \in Points : InTaskPool(p)} \cup c.fresh, Labels)
    BY <2>1, PairsFact DEF Waits
  <2>3. QED
    BY <2>1, <2>2, NeededFact
<1>10. QED
  BY <1>2, <1>7, <1>8, <1>9 DEF OwedIsKept

\* Nothing new is owed, results stay, and those to whom something is still owed
\* stay in the pool.
LEMMA LessOwed ==
    ASSUME OwedIsKept, owed' \subseteq owed, rows' = rows,
           \A x \in owed' : InTaskPool(x[1])',
           \/ sat_xtrig' = rows
           \/ ~IsUp'
           \/ sat_xtrig' = sat_xtrig /\ (stop' = stop \/ IsUp)
    PROVE  OwedIsKept'
<1>1. owed' \subseteq Waits'
  BY PairsFact DEF OwedIsKept, Waits
<1>2. IsUp' => \A x \in owed' : Sig(x[1], x[2]) \in sat_xtrig'
  BY DEF OwedIsKept, IsUp
<1>3. QED
  BY <1>1, <1>2 DEF OwedIsKept

LEMMA InPoolPoint ==
    ASSUME OwedIsKept, NEW x \in owed
    PROVE  x[1] \in Points /\ InTaskPool(x[1])
<1>1. x \in Pairs({p \in Points : InTaskPool(p)}, Labels)
  BY DEF OwedIsKept, Waits
<1>2. x[1] \in {p \in Points : InTaskPool(p)}
  BY <1>1, PairsFact
<1>3. QED
  BY <1>2

LEMMA LeaveOwes ==
    ASSUME OwedIsKept, NEW p, NEW gone, LeavePool(p, gone)
    PROVE  owed' \subseteq owed /\ \A x \in owed' : InTaskPool(x[1])'
<1> DEFINE fresh == IF Sequential # {} \/ p \in runahead THEN NextOf({p}) ELSE {}
<1>1. /\ task' = [q \in Points |-> IF q = p THEN gone
                                   ELSE IF q \in fresh THEN "waiting" ELSE task[q]]
      /\ owed' = {x \in owed : x[1] # p}
  BY DEF LeavePool
<1> HIDE DEF fresh
<1>2. QED
  BY <1>1, InPoolPoint DEF InTaskPool, Pooled

LEMMA CommandKeepsOwed ==
    ASSUME OwedIsKept, Commands
    PROVE  OwedIsKept'
<1>1. ASSUME NEW p \in Points, RemoveInstance(p) PROVE OwedIsKept'
  BY <1>1, LeaveOwes, LessOwed DEF RemoveInstance, xtrigVars
<1>2. ASSUME NEW p \in Points, HoldOrRelease(p) PROVE OwedIsKept'
  BY <1>2, InPoolPoint, LessOwed DEF HoldOrRelease, xtrigVars, history, InTaskPool
<1>3. ASSUME NEW p \in Points, NEW l \in Labels, ForceSatisfy(p, l) PROVE OwedIsKept'
  BY <1>3, InPoolPoint, LessOwed DEF ForceSatisfy, xtrigVars, InTaskPool
<1>4. ASSUME NEW p \in Points, NEW queue \in {"triggered", "queued"}, Trigger(p, queue)
      PROVE  OwedIsKept'
  <2>1. /\ task' = [task EXCEPT ![p] = queue] /\ owed' = {x \in owed : x[1] # p}
        /\ rows' = rows /\ sat_xtrig' = sat_xtrig /\ stop' = stop
    BY <1>4 DEF Trigger, xtrigVars
  <2>2. \A x \in owed' : InTaskPool(x[1])'
    BY <2>1, InPoolPoint DEF InTaskPool
  <2>3. QED
    BY <2>1, <2>2, LessOwed
<1>5. ASSUME NEW mode \in {"clean", "now", "nownow"}, Stop(mode) PROVE OwedIsKept'
  BY <1>5, InPoolPoint, LessOwed DEF Stop, xtrigVars, taskVars, history, InTaskPool, IsUp
<1>6. QED
  BY <1>1, <1>2, <1>3, <1>4, <1>5 DEF Commands

LEMMA SurroundingsKeepOwed ==
    ASSUME OwedIsKept, Surroundings
    PROVE  OwedIsKept'
<1>1. ASSUME NEW s \in Sigs, WorldAdvances(s) \/ IntervalPasses(s) PROVE OwedIsKept'
  BY <1>1, InPoolPoint, LessOwed
     DEF WorldAdvances, IntervalPasses, xtrigVars, taskVars, history, InTaskPool
<1>2. ASSUME NEW i, ChildEnds(i) \/ ChildIsLate(i) PROVE OwedIsKept'
  BY <1>2, InPoolPoint, LessOwed
     DEF ChildEnds, ChildIsLate, xtrigVars, taskVars, history, InTaskPool
<1>3. ASSUME NEW p \in Points, JobEnds(p) PROVE OwedIsKept'
  <2>1. rows' = rows /\ sat_xtrig' = sat_xtrig /\ stop' = stop
    BY <1>3 DEF JobEnds, xtrigVars
  <2>2. CASE LeavePool(p, "done")
    BY <2>1, <2>2, LeaveOwes, LessOwed
  <2>3. CASE task' = [task EXCEPT ![p] = "failed"] /\ owed' = owed
    <3>1. \A x \in owed' : InTaskPool(x[1])'
      BY <2>3, InPoolPoint DEF InTaskPool, Pooled
    <3>2. QED
      BY <2>1, <2>3, <3>1, LessOwed
  <2>4. QED
    BY <1>3, <2>2, <2>3 DEF JobEnds
<1>4. QED
  BY <1>1, <1>2, <1>3 DEF Surroundings

LEMMA ShutdownKeepsOwed ==
    ASSUME OwedIsKept, Shutdown
    PROVE  OwedIsKept'
<1>1. ASSUME NEW called, task' = [p \in Points |-> Submitted(called, p)]
      PROVE  \A p \in Points : InTaskPool(p) => InTaskPool(p)'
  BY <1>1, SubmittedStays DEF InTaskPool
<1>2. CASE CloseDown
  <2>1. /\ owed' = owed /\ rows' = rows /\ sat_xtrig' = sat_xtrig
        /\ CanStop
    BY <1>2 DEF CloseDown, xtrigVars
  <2>2. IsUp
    BY <2>1 DEF CanStop, IsUp
  <2>3. \A x \in owed' : InTaskPool(x[1])'
    BY <1>1, <1>2, <2>1, InPoolPoint DEF CloseDown, InTaskPool
  <2>4. QED
    BY <2>1, <2>2, <2>3, LessOwed
<1>3. CASE WaitForPool /\ InPool = {}
  BY <1>3, InPoolPoint, LessOwed DEF WaitForPool, history, InTaskPool, IsUp
<1>4. CASE WaitForPool /\ InPool # {}
  <2> DEFINE called == Called({})
  <2>1. /\ task' = [p \in Points |-> Submitted(called, p)]
        /\ sat_xtrig' = sat_xtrig \cup Results(called)
        /\ rows' = rows \cup Results(called)
        /\ owed' = Owing(Results(called), {}) \ xsat
        /\ IsUp
    BY <1>4 DEF WaitForPool, IsUp
  <2> HIDE DEF called
  <2>2. Waits \subseteq Waits'
    BY <1>1, <2>1, PoolStays
  <2>3. \A x \in owed' : x \in owed \/ (x \in Waits /\ Sig(x[1], x[2]) \in Results(called))
    BY <2>1, OwingFact
  <2>4. QED
    BY <2>1, <2>2, <2>3 DEF OwedIsKept
<1>5. CASE Restart
  <2>1. /\ owed' = owed /\ rows' = rows /\ sat_xtrig' = rows
        /\ task' = [p \in Points |->
                       IF task[p] \in {"preparing", "queued", "triggered"}
                       THEN "waiting" ELSE task[p]]
    BY <1>5 DEF Restart
  <2>2. \A x \in owed' : InTaskPool(x[1])'
    BY <2>1, InPoolPoint DEF InTaskPool, Pooled
  <2>3. QED
    BY <2>1, <2>2, LessOwed
<1>6. QED
  BY <1>2, <1>3, <1>4, <1>5 DEF Shutdown

\* A result of an xtrigger is kept as long as an instance that was in the pool
\* when it came waits for it: for any labels, limits and size of the process
\* pool, and through housekeeping, failures, forcing, shutdown and restart.
THEOREM ResultsNotLost == XSpec => []ResultsKept
<1>1. XInit => OwedIsKept
  BY DEF XInit, OwedIsKept
<1>2. OwedIsKept /\ [XNext]_xvars => OwedIsKept'
  <2> SUFFICES ASSUME OwedIsKept, [XNext]_xvars PROVE OwedIsKept'
    OBVIOUS
  <2>1. CASE MainLoops
    BY <2>1, MainLoopKeeps DEF MainLoops
  <2>2. CASE UNCHANGED xvars
    BY <2>2 DEF xvars, xtrigVars, taskVars, history, OwedIsKept, Waits, InTaskPool, IsUp
  <2>3. QED
    BY <2>1, <2>2, CommandKeepsOwed, SurroundingsKeepOwed, ShutdownKeepsOwed DEF XNext
<1>3. OwedIsKept => ResultsKept
  BY DEF OwedIsKept, ResultsKept, IsUp
<1>4. QED
  BY <1>1, <1>2, <1>3, PTL DEF XSpec

---------------------------------------------------------------------------
(* Xtriggers: what is in the process pool.                                   *)

PoolCmds == {XCmd(s) : s \in Sigs} \cup {SubmitCmd(p) : p \in Points}
RunRecord == [cmd : PoolCmds, end : {"live", "good", "bad", "late", "lategood"}]
PoolTyped == queuings \in Seq(PoolCmds) /\ runnings \in Seq(RunRecord)

\* Where a command waits, and where it runs.
WaitsAt(x) == At(queuings, {x})
Runs(x) == {r \in RunRecord : r.cmd = x}
RunsAt(x) == At(runnings, Runs(x))

Absent(x) == WaitsAt(x) = {} /\ RunsAt(x) = {}
Alone(x) == \/ Single(WaitsAt(x)) /\ RunsAt(x) = {}
            \/ WaitsAt(x) = {} /\ Single(RunsAt(x))

\* A command that process() calls back.
CalledBack(x, broken) == \E good \in BOOLEAN : [cmd |-> x, good |-> good] \in Called(broken)

\* process() takes no more commands off the queue than there are.
LEMMA TakenFact ==
    ASSUME PoolTyped, NEW broken
    PROVE  Taken(broken) \in 0..Len(queuings)
<1> DEFINE P == {n \in 1..Len(queuings) : Places(n - 1, broken) < Size - Cardinality(Lasting)}
<1>1. Len(queuings) \in Nat
  BY LenProperties DEF PoolTyped
<1>2. IsFiniteSet(1..Len(queuings)) /\ Cardinality(1..Len(queuings)) = Len(queuings)
  <2>1. PICK n \in Nat : n = Len(queuings)
    BY <1>1
  <2>2. Cardinality(1..n) = IF 1 > n THEN 0 ELSE n - 1 + 1
    BY FS_Interval
  <2>3. IsFiniteSet(1..n) /\ Cardinality(1..n) = n
    BY <2>2, FS_Interval
  <2>4. QED
    BY <2>1, <2>3
<1>3. Cardinality(P) \in Nat /\ Cardinality(P) <= Len(queuings)
  BY <1>2, FS_Subset, FS_CardinalityType
<1>4. QED
  BY <1>1, <1>3 DEF Taken

\* A command occurs in the pool at the positions where it waits or runs.
LEMMA InPoolCount ==
    ASSUME PoolTyped, NEW x \in PoolCmds
    PROVE  /\ Absent(x) => CountInPool(x) = 0
           /\ Alone(x) => CountInPool(x) = 1
<1>1. /\ Len(queuings) \in Nat /\ DOMAIN queuings = 1..Len(queuings)
      /\ Len(runnings) \in Nat /\ DOMAIN runnings = 1..Len(runnings)
  BY LenProperties DEF PoolTyped
<1>2. \A i \in 1..Len(runnings) : runnings[i] \in RunRecord
  BY ElementOfSeq DEF PoolTyped
<1>3. {i \in DOMAIN queuings : queuings[i] = x} = WaitsAt(x)
  BY <1>1 DEF WaitsAt, At
<1>4. {i \in DOMAIN runnings : runnings[i].cmd = x} = RunsAt(x)
  BY <1>1, <1>2 DEF RunsAt, Runs, At
<1>5. WaitsAt(x) \in SUBSET (1..Len(queuings)) /\ RunsAt(x) \in SUBSET (1..Len(runnings))
  BY DEF WaitsAt, RunsAt, At
<1>6. CountInPool(x) = Cardinality(WaitsAt(x)) + Cardinality(RunsAt(x))
  BY <1>3, <1>4 DEF CountInPool
<1>7. /\ WaitsAt(x) = {} => Cardinality(WaitsAt(x)) = 0
      /\ Single(WaitsAt(x)) => Cardinality(WaitsAt(x)) = 1
      /\ RunsAt(x) = {} => Cardinality(RunsAt(x)) = 0
      /\ Single(RunsAt(x)) => Cardinality(RunsAt(x)) = 1
  BY <1>1, <1>5, CountFact
<1>8. QED
  BY <1>6, <1>7 DEF Absent, Alone

\* The children that go on, the commands that are started, and those that wait
\* on, of one command.
Lasts(x) == RunsAt(x) \cap Lasting
Begins(x, broken) ==
    {i \in WaitsAt(x) : i <= Taken(broken) /\ ~Dropped(x) /\ x \notin broken}
Remains(x, broken) == {i \in WaitsAt(x) : i > Taken(broken)}

\* Where a command is after process().
LEMMA ProcessAt ==
    ASSUME PoolTyped, NEW broken, NEW put, put \in Seq(PoolCmds), Process(broken, put),
           NEW x \in PoolCmds
    PROVE  /\ PoolTyped'
           /\ RunsAt(x)' = {} <=> Lasts(x) = {} /\ Begins(x, broken) = {}
           /\ \/ Single(Lasts(x)) /\ Begins(x, broken) = {}
              \/ Lasts(x) = {} /\ Single(Begins(x, broken))
              => Single(RunsAt(x)')
           /\ WaitsAt(x)' = {} <=> Remains(x, broken) = {} /\ At(Put(put), {x}) = {}
           /\ \/ /\ Single(WaitsAt(x)) /\ Remains(x, broken) = WaitsAt(x)
                 /\ At(Put(put), {x}) = {}
              \/ Remains(x, broken) = {} /\ Single(At(Put(put), {x}))
              => Single(WaitsAt(x)')
<1> DEFINE n == Taken(broken)
           P == {i \in 1..n : ~Dropped(queuings[i]) /\ queuings[i] \notin broken}
           started == Select(queuings, P)
           kept == Select(runnings, Lasting)
           new == [i \in DOMAIN started |-> [cmd |-> started[i], end |-> "live"]]
           rest == SubSeq(queuings, n + 1, Len(queuings))
<1>1. runnings' = kept \o new /\ queuings' = rest \o Put(put)
  BY DEF Process
<1>2. /\ Len(queuings) \in Nat /\ DOMAIN queuings = 1..Len(queuings)
      /\ Len(runnings) \in Nat /\ DOMAIN runnings = 1..Len(runnings)
  BY LenProperties DEF PoolTyped
<1>3. n \in 0..Len(queuings)
  BY TakenFact
<1>4. P \in SUBSET (1..Len(queuings)) /\ Lasting \in SUBSET (1..Len(runnings))
  BY <1>2, <1>3 DEF Lasting
<1>5. /\ started \in Seq(PoolCmds)
      /\ At(started, {x}) = {} <=> WaitsAt(x) \cap P = {}
      /\ Single(WaitsAt(x) \cap P) => Single(At(started, {x}))
  <2>1. queuings \in Seq(PoolCmds)
    BY DEF PoolTyped
  <2> HIDE DEF P
  <2>2. QED
    BY <1>4, <2>1, SelectAt DEF WaitsAt
<1>6. /\ kept \in Seq(RunRecord)
      /\ At(kept, Runs(x)) = {} <=> Lasts(x) = {}
      /\ Single(Lasts(x)) => Single(At(kept, Runs(x)))
  BY <1>4, SelectAt DEF PoolTyped, RunsAt, Lasts
<1>7. WaitsAt(x) \cap P = Begins(x, broken)
  BY <1>2, <1>3 DEF WaitsAt, At, Begins
<1> HIDE DEF started, kept
<1>8. new \in Seq(RunRecord) /\ At(new, Runs(x)) = At(started, {x})
  <2>1. Len(started) \in Nat /\ DOMAIN started = 1..Len(started)
    BY <1>5, LenProperties
  <2>2. \A i \in 1..Len(started) : started[i] \in PoolCmds
    BY <1>5, ElementOfSeq
  <2>3. new \in [1..Len(started) -> RunRecord]
    BY <2>1, <2>2 DEF RunRecord
  <2>4. new \in Seq(RunRecord) /\ Len(new) = Len(started)
    BY <2>1, <2>3, IsASeq, LenProperties
  <2>5. \A i \in 1..Len(started) : new[i] \in Runs(x) <=> started[i] = x
    BY <2>1, <2>2, <2>3 DEF Runs
  <2> HIDE DEF new
  <2>6. QED
    BY <2>4, <2>5 DEF At
<1>9. /\ rest \in Seq(PoolCmds)
      /\ At(rest, {x}) = {} <=> WaitsAt(x) \subseteq 1..n
      /\ \A i \in WaitsAt(x) : i > n /\ WaitsAt(x) = {i} => Single(At(rest, {x}))
  BY <1>3, RestAt DEF PoolTyped, WaitsAt
<1>10. WaitsAt(x) \subseteq 1..n <=> Remains(x, broken) = {}
  BY <1>2, <1>3 DEF WaitsAt, At, Remains
<1>11. Put(put) \in Seq(PoolCmds)
  <2>1. DOMAIN put = 1..Len(put)
    BY LenProperties
  <2>2. {i \in DOMAIN put : ~closed /\ ~Dropped(put[i])} \in SUBSET (1..Len(put))
    BY <2>1
  <2>3. QED
    BY <2>2, SelectAt DEF Put
<1> HIDE DEF new, rest
<1>12. /\ runnings' \in Seq(RunRecord)
       /\ At(runnings', Runs(x)) = {} <=> At(kept, Runs(x)) = {} /\ At(new, Runs(x)) = {}
       /\ Single(At(kept, Runs(x))) /\ At(new, Runs(x)) = {} => Single(At(runnings', Runs(x)))
       /\ At(kept, Runs(x)) = {} /\ Single(At(new, Runs(x))) => Single(At(runnings', Runs(x)))
  <2>1. kept \in Seq(RunRecord) /\ new \in Seq(RunRecord) /\ runnings' = kept \o new
    BY <1>1, <1>6, <1>8
  <2>2. PICK H : H = Runs(x)
    OBVIOUS
  <2>3. QED
    BY <2>1, <2>2, ConcatAt
<1>13. /\ queuings' \in Seq(PoolCmds)
       /\ At(queuings', {x}) = {} <=> At(rest, {x}) = {} /\ At(Put(put), {x}) = {}
       /\ Single(At(rest, {x})) /\ At(Put(put), {x}) = {} => Single(At(queuings', {x}))
       /\ At(rest, {x}) = {} /\ Single(At(Put(put), {x})) => Single(At(queuings', {x}))
  BY <1>1, <1>9, <1>11, ConcatAt
<1>14. RunsAt(x)' = At(runnings', Runs(x)) /\ WaitsAt(x)' = At(queuings', {x})
  BY DEF RunsAt, WaitsAt, Runs, At
<1>15. PoolTyped'
  BY <1>12, <1>13 DEF PoolTyped
<1>16. RunsAt(x)' = {} <=> Lasts(x) = {} /\ Begins(x, broken) = {}
  BY <1>5, <1>6, <1>7, <1>8, <1>12, <1>14
<1>17. \/ Single(Lasts(x)) /\ Begins(x, broken) = {}
       \/ Lasts(x) = {} /\ Single(Begins(x, broken))
       => Single(RunsAt(x)')
  BY <1>5, <1>6, <1>7, <1>8, <1>12, <1>14
<1>18. WaitsAt(x)' = {} <=> Remains(x, broken) = {} /\ At(Put(put), {x}) = {}
  BY <1>9, <1>10, <1>13, <1>14
<1>19. Single(WaitsAt(x)) /\ Remains(x, broken) = WaitsAt(x) => Single(At(rest, {x}))
  BY <1>9 DEF Single, Remains
<1>20. \/ /\ Single(WaitsAt(x)) /\ Remains(x, broken) = WaitsAt(x)
          /\ At(Put(put), {x}) = {}
       \/ Remains(x, broken) = {} /\ Single(At(Put(put), {x}))
       => Single(WaitsAt(x)')
  BY <1>9, <1>10, <1>13, <1>14, <1>19
<1>21. QED
  BY <1>15, <1>16, <1>17, <1>18, <1>20

\* What process() calls back: who ran and is gone, and who could not be launched.
LEMMA CalledFact ==
    ASSUME PoolTyped, NEW broken, NEW x \in PoolCmds
    PROVE  CalledBack(x, broken) <=>
             \/ RunsAt(x) # Lasts(x)
             \/ x \in broken /\ ~Dropped(x) /\ \E i \in WaitsAt(x) : i <= Taken(broken)
<1> DEFINE gone == {r \in Range(runnings) : r.end # "live"}
           unlaunched == {c \in {queuings[i] : i \in 1..Taken(broken)} :
                            c \in broken /\ ~Dropped(c)}
<1>1. /\ Len(queuings) \in Nat /\ DOMAIN queuings = 1..Len(queuings)
      /\ Len(runnings) \in Nat /\ DOMAIN runnings = 1..Len(runnings)
      /\ Taken(broken) \in 0..Len(queuings)
  BY LenProperties, TakenFact DEF PoolTyped
<1>2. \A i \in 1..Len(runnings) : runnings[i] \in RunRecord
  BY ElementOfSeq DEF PoolTyped
<1>3. CalledBack(x, broken) <=> (\E r \in gone : r.cmd = x) \/ x \in unlaunched
  <2>1. \A r \in gone : (r.end \in {"good", "lategood"}) \in BOOLEAN
    OBVIOUS
  <2>2. CalledBack(x, broken) <=>
          \/ \E r \in gone : \E good \in BOOLEAN :
                [cmd |-> x, good |-> good]
                  = [cmd |-> r.cmd, good |-> r.end \in {"good", "lategood"}]
          \/ \E c \in unlaunched : \E good \in BOOLEAN :
                [cmd |-> x, good |-> good] = [cmd |-> c, good |-> FALSE]
    BY DEF CalledBack, Called
  <2>3. \A c, good, b : [cmd |-> x, good |-> good] = [cmd |-> c, good |-> b]
                           <=> x = c /\ good = b
    OBVIOUS
  <2>4. QED
    BY <2>1, <2>2, <2>3
<1>4. (\E r \in gone : r.cmd = x) <=> RunsAt(x) # Lasts(x)
  <2>1. (\E r \in gone : r.cmd = x) <=>
          \E i \in 1..Len(runnings) : runnings[i].end # "live" /\ runnings[i].cmd = x
    BY <1>1 DEF Range
  <2>2. \A i : i \in RunsAt(x) <=> i \in 1..Len(runnings) /\ runnings[i].cmd = x
    BY <1>2 DEF RunsAt, Runs, At
  <2>3. \A i : i \in Lasts(x) <=>
                 i \in 1..Len(runnings) /\ runnings[i].cmd = x /\ runnings[i].end = "live"
    BY <1>1, <2>2 DEF Lasts, Lasting
  <2>4. QED
    BY <2>1, <2>2, <2>3
<1>5. x \in unlaunched <=>
        x \in broken /\ ~Dropped(x) /\ \E i \in WaitsAt(x) : i <= Taken(broken)
  <2>1. \A i : i \in WaitsAt(x) <=> i \in 1..Len(queuings) /\ queuings[i] = x
    BY DEF WaitsAt, At
  <2>2. \A i \in 1..Len(queuings) : i \in 1..Taken(broken) <=> i <= Taken(broken)
    BY <1>1
  <2>3. \A i \in 1..Taken(broken) : i \in 1..Len(queuings)
    BY <1>1
  <2>4. QED
    BY <2>1, <2>2, <2>3
<1>6. QED
  BY <1>3, <1>4, <1>5

\* What process() and the commands put after it make of a command that is in the
\* pool once or not at all.
LEMMA CallMoves ==
    ASSUME PoolTyped, NEW broken, NEW put, put \in Seq(PoolCmds), Process(broken, put),
           NEW x \in PoolCmds, ~Dropped(x)
    PROVE  /\ Absent(x) => ~CalledBack(x, broken)
           /\ Absent(x) \/ (Alone(x) /\ CalledBack(x, broken)) =>
                /\ At(Put(put), {x}) = {} => Absent(x)'
                /\ Single(At(Put(put), {x})) => Alone(x)'
           /\ Alone(x) /\ ~CalledBack(x, broken) /\ At(Put(put), {x}) = {} => Alone(x)'
<1> DEFINE n == Taken(broken)
<1>0. /\ n \in Nat
      /\ \A i \in WaitsAt(x) : i \in Nat
  BY TakenFact DEF WaitsAt, At
<1>1. CalledBack(x, broken) <=>
        RunsAt(x) # Lasts(x) \/ (x \in broken /\ \E i \in WaitsAt(x) : i <= n)
  BY CalledFact
<1>2. /\ Lasts(x) \subseteq RunsAt(x)
      /\ Begins(x, broken) \subseteq WaitsAt(x) /\ Remains(x, broken) \subseteq WaitsAt(x)
      /\ \A i \in WaitsAt(x) :
           /\ i \in Begins(x, broken) <=> i <= n /\ x \notin broken
           /\ i \in Remains(x, broken) <=> ~(i <= n)
  BY <1>0 DEF Lasts, Begins, Remains
<1>3. ASSUME Absent(x)
      PROVE  /\ ~CalledBack(x, broken)
             /\ Lasts(x) = {} /\ Begins(x, broken) = {} /\ Remains(x, broken) = {}
  BY <1>1, <1>2, <1>3 DEF Absent
<1>4. ASSUME Alone(x), CalledBack(x, broken)
      PROVE  Lasts(x) = {} /\ Begins(x, broken) = {} /\ Remains(x, broken) = {}
  <2>1. CASE WaitsAt(x) = {} /\ Single(RunsAt(x))
    BY <1>1, <1>2, <1>4, <2>1 DEF Single
  <2>2. CASE Single(WaitsAt(x)) /\ RunsAt(x) = {}
    <3>1. PICK i \in WaitsAt(x) : WaitsAt(x) = {i}
      BY <2>2 DEF Single
    <3>2. x \in broken /\ i <= n
      BY <1>1, <1>2, <1>4, <2>2, <3>1
    <3>3. QED
      BY <1>2, <2>2, <3>1, <3>2
  <2>3. QED
    BY <1>4, <2>1, <2>2 DEF Alone
<1>5. ASSUME Alone(x), ~CalledBack(x, broken)
      PROVE  \/ Single(Lasts(x)) /\ Begins(x, broken) = {} /\ Remains(x, broken) = {}
             \/ Lasts(x) = {} /\ Single(Begins(x, broken)) /\ Remains(x, broken) = {}
             \/ /\ Lasts(x) = {} /\ Begins(x, broken) = {}
                /\ Single(WaitsAt(x)) /\ Remains(x, broken) = WaitsAt(x)
  <2>1. CASE WaitsAt(x) = {} /\ Single(RunsAt(x))
    BY <1>1, <1>2, <1>5, <2>1
  <2>2. CASE Single(WaitsAt(x)) /\ RunsAt(x) = {}
    <3>1. PICK i \in WaitsAt(x) : WaitsAt(x) = {i}
      BY <2>2 DEF Single
    <3>2. CASE i <= n
      <4>1. x \notin broken
        BY <1>1, <1>5, <3>1, <3>2
      <4>2. Begins(x, broken) = {i} /\ Remains(x, broken) = {} /\ Lasts(x) = {}
        BY <1>2, <2>2, <3>1, <3>2, <4>1
      <4>3. QED
        BY <4>2 DEF Single
    <3>3. CASE ~(i <= n)
      <4>1. Begins(x, broken) = {} /\ Remains(x, broken) = {i} /\ Lasts(x) = {}
        BY <1>2, <2>2, <3>1, <3>3
      <4>2. QED
        BY <2>2, <3>1, <4>1
    <3>4. QED
      BY <3>2, <3>3
  <2>3. QED
    BY <1>5, <2>1, <2>2 DEF Alone
<1>6. /\ RunsAt(x)' = {} <=> Lasts(x) = {} /\ Begins(x, broken) = {}
      /\ \/ Single(Lasts(x)) /\ Begins(x, broken) = {}
         \/ Lasts(x) = {} /\ Single(Begins(x, broken))
         => Single(RunsAt(x)')
      /\ WaitsAt(x)' = {} <=> Remains(x, broken) = {} /\ At(Put(put), {x}) = {}
      /\ \/ /\ Single(WaitsAt(x)) /\ Remains(x, broken) = WaitsAt(x)
            /\ At(Put(put), {x}) = {}
         \/ Remains(x, broken) = {} /\ Single(At(Put(put), {x}))
         => Single(WaitsAt(x)')
  BY ProcessAt
<1>7. /\ Absent(x)' <=> WaitsAt(x)' = {} /\ RunsAt(x)' = {}
      /\ Alone(x)' <=> \/ Single(WaitsAt(x)') /\ RunsAt(x)' = {}
                       \/ WaitsAt(x)' = {} /\ Single(RunsAt(x)')
  BY DEF Absent, Alone, Single
<1>8. ASSUME Absent(x) \/ (Alone(x) /\ CalledBack(x, broken))
      PROVE  /\ At(Put(put), {x}) = {} => Absent(x)'
             /\ Single(At(Put(put), {x})) => Alone(x)'
  <2>1. Lasts(x) = {} /\ Begins(x, broken) = {} /\ Remains(x, broken) = {}
    BY <1>3, <1>4, <1>8
  <2>2. QED
    BY <1>6, <1>7, <2>1
<1>9. ASSUME Alone(x), ~CalledBack(x, broken), At(Put(put), {x}) = {}
      PROVE  Alone(x)'
  BY <1>5, <1>6, <1>7, <1>9
<1>10. QED
  BY <1>3, <1>8, <1>9

\* The commands of the pool are told apart.
LEMMA CmdsDiffer ==
    /\ \A s : XCmd(s).key = "xtrigger" /\ XCmd(s).id = s /\ ~Dropped(XCmd(s))
    /\ \A p : SubmitCmd(p).key = "jobs-submit" /\ SubmitCmd(p).id = <<"job", p>>
    /\ \A s, t : XCmd(s) = XCmd(t) => s = t
    /\ \A p, q : SubmitCmd(p) = SubmitCmd(q) => p = q
    /\ \A s, p : XCmd(s) # SubmitCmd(p)
BY DEF XCmd, SubmitCmd, Dropped

\* process() hears of a signature when it calls its command back.
LEMMA ReturnedFact ==
    ASSUME PoolTyped, NEW broken, NEW s \in Sigs
    PROVE  s \in Returned(Called(broken)) <=> CalledBack(XCmd(s), broken)
<1>1. \A r \in Range(runnings) : r.cmd \in PoolCmds
  <2>1. Range(runnings) \subseteq RunRecord
    BY RangeOfSeq DEF PoolTyped
  <2>2. QED
    BY <2>1 DEF RunRecord
<1>2. \A i \in 1..Taken(broken) : queuings[i] \in PoolCmds
  <2>1. \A i \in 1..Len(queuings) : queuings[i] \in PoolCmds
    BY ElementOfSeq DEF PoolTyped
  <2>2. Taken(broken) \in 0..Len(queuings) /\ Len(queuings) \in Nat
    BY TakenFact, LenProperties DEF PoolTyped
  <2>3. QED
    BY <2>1, <2>2
<1>3. \A c \in Called(broken) :
        c.cmd \in PoolCmds /\ \E good \in BOOLEAN : c = [cmd |-> c.cmd, good |-> good]
  <2> TAKE c \in Called(broken)
  <2>1. ASSUME NEW x \in PoolCmds, NEW good \in BOOLEAN, c = [cmd |-> x, good |-> good]
        PROVE  c.cmd \in PoolCmds /\ \E g \in BOOLEAN : c = [cmd |-> c.cmd, good |-> g]
    BY <2>1
  <2>2. ASSUME NEW r \in Range(runnings),
               c = [cmd |-> r.cmd, good |-> r.end \in {"good", "lategood"}]
        PROVE  c.cmd \in PoolCmds /\ \E g \in BOOLEAN : c = [cmd |-> c.cmd, good |-> g]
    <3>1. PICK good \in BOOLEAN : good = (r.end \in {"good", "lategood"})
      <4>1. (r.end \in {"good", "lategood"}) \in BOOLEAN
        OBVIOUS
      <4>2. QED
        BY <4>1, Zenon
    <3>2. r.cmd \in PoolCmds /\ c = [cmd |-> r.cmd, good |-> good]
      BY <1>1, <2>2, <3>1
    <3>3. QED
      BY <2>1, <3>2
  <2>3. ASSUME NEW i \in 1..Taken(broken), c = [cmd |-> queuings[i], good |-> FALSE]
        PROVE  c.cmd \in PoolCmds /\ \E g \in BOOLEAN : c = [cmd |-> c.cmd, good |-> g]
    BY <1>2, <2>1, <2>3
  <2>4. \/ \E r \in Range(runnings) :
              c = [cmd |-> r.cmd, good |-> r.end \in {"good", "lategood"}]
        \/ \E i \in 1..Taken(broken) : c = [cmd |-> queuings[i], good |-> FALSE]
    BY DEF Called
  <2>5. QED
    BY <2>2, <2>3, <2>4
<1>4. \A y \in PoolCmds : y.key = "xtrigger" /\ y.id = s => y = XCmd(s)
  BY CmdsDiffer DEF PoolCmds
<1>5. ASSUME s \in Returned(Called(broken)) PROVE CalledBack(XCmd(s), broken)
  <2>1. PICK c \in Called(broken) : c.cmd.key = "xtrigger" /\ c.cmd.id = s
    BY <1>5 DEF Returned
  <2>2. QED
    BY <1>3, <1>4, <2>1 DEF CalledBack
<1>6. ASSUME CalledBack(XCmd(s), broken) PROVE s \in Returned(Called(broken))
  <2>1. PICK good \in BOOLEAN : [cmd |-> XCmd(s), good |-> good] \in Called(broken)
    BY <1>6 DEF CalledBack
  <2>2. PICK c \in Called(broken) : c.cmd = XCmd(s)
    BY <2>1
  <2>3. c.cmd.key = "xtrigger" /\ c.cmd.id = s
    BY <2>2, CmdsDiffer
  <2>4. QED
    BY <2>2, <2>3 DEF Returned
<1>7. QED
  BY <1>5, <1>6

\* A list made of a finite set holds each of its members once.
LEMMA SetToSeqFact ==
    ASSUME NEW A, IsFiniteSet(A)
    PROVE  /\ SetToSeq(A) \in Seq(A)
           /\ \A x \in A : Single(At(SetToSeq(A), {x}))
<1>1. PICK n \in Nat : n = Cardinality(A)
  BY FS_CardinalityType
<1>2. \E f \in [1..n -> A] : IsInjective(f)
  <2>1. ExistsBijection(1..n, A)
    BY <1>1, FS_CardinalityType
  <2>2. QED
    BY <2>1 DEF ExistsBijection, Bijection, Injection
<1>3. PICK f \in [1..n -> A] : IsInjective(f) /\ f = SetToSeq(A)
  BY <1>1, <1>2 DEF SetToSeq
<1>4. f \in Seq(A) /\ Len(f) = n
  BY <1>3
<1>5. f \in Surjection(1..n, A)
  <2>1. f \in Injection(1..n, A)
    BY <1>3 DEF Injection
  <2>2. Cardinality(1..n) = n
    <3>1. Cardinality(1..n) = IF 1 > n THEN 0 ELSE n - 1 + 1
      BY FS_Interval
    <3>2. QED
      BY <3>1
  <2>3. QED
    BY <1>1, <2>1, <2>2, FS_Injection
<1>6. ASSUME NEW x \in A PROVE Single(At(f, {x}))
  <2>1. PICK i \in 1..n : f[i] = x
    BY <1>5 DEF Surjection
  <2>2. At(f, {x}) = {i}
    BY <1>3, <1>4, <2>1 DEF At, IsInjective
  <2>3. QED
    BY <2>2 DEF Single
<1>7. QED
  BY <1>3, <1>4, <1>6

\* The order of a turn has each call once.
LEMMA OrderFact ==
    /\ Order \in Seq(PoolCmds)
    /\ \A s \in Sigs : Single(At(Order, {XCmd(s)}))
<1> DEFINE A == {XCmd(s) : s \in Sigs}
           B == Labels \X (0..LastPoint)
           f == [s \in Sigs |-> XCmd(s)]
           jobs == [p \in Points |-> SubmitCmd(p)]
<1>1. IsFiniteSet(Sigs)
  <2>1. LastPoint \in Nat /\ IsFiniteSet(Labels)
    BY XtrigAssumption
  <2>2. IsFiniteSet(0..LastPoint)
    BY <2>1, FS_Interval
  <2>3. IsFiniteSet(B)
    BY <2>1, <2>2, FS_Product
  <2>4. \A p \in Points, l \in Labels : Sig(p, l) \in B
    BY <2>1 DEF Sig, Points
  <2>5. Sigs \in SUBSET B
    BY <2>4 DEF Sigs
  <2>6. QED
    BY <2>3, <2>5, FS_Subset
<1>2. IsFiniteSet(A)
  <2>1. f \in Surjection(Sigs, A)
    BY DEF Surjection
  <2>2. QED
    BY <1>1, <2>1, FS_Surjection
<1>3. A \subseteq PoolCmds
  BY DEF PoolCmds
<1> HIDE DEF A
<1>4. /\ SetToSeq(A) \in Seq(PoolCmds)
      /\ \A x \in A : Single(At(SetToSeq(A), {x}))
  BY <1>2, <1>3, SetToSeqFact, SeqMonotonic
<1>5. jobs \in Seq(PoolCmds) /\ \A s \in Sigs : At(jobs, {XCmd(s)}) = {}
  <2>1. LastPoint \in Nat /\ \A p \in Points : SubmitCmd(p) \in PoolCmds
    BY XtrigAssumption DEF PoolCmds
  <2>2. jobs \in [1..LastPoint -> PoolCmds]
    BY <2>1 DEF Points
  <2>3. jobs \in Seq(PoolCmds) /\ Len(jobs) = LastPoint
    BY <2>1, <2>2
  <2>4. \A s \in Sigs, p \in 1..Len(jobs) : jobs[p] # XCmd(s)
    BY <2>3, CmdsDiffer DEF Points
  <2> HIDE DEF jobs
  <2>5. QED
    BY <2>3, <2>4 DEF At
<1>6. Order = SetToSeq(A) \o jobs
  BY DEF Order, A
<1>7. ASSUME NEW s \in Sigs PROVE Single(At(Order, {XCmd(s)}))
  <2>1. XCmd(s) \in A
    BY DEF A
  <2> HIDE DEF jobs
  <2>2. QED
    BY <1>4, <1>5, <1>6, <2>1, ConcatAt
<1> HIDE DEF jobs
<1>8. QED
  BY <1>4, <1>5, <1>6, <1>7, ConcatAt

\* While the scheduler is up, a signature is active if one call of it is in the
\* pool, and not if none is; what was launched still runs, for a task that knows.
CallsOK ==
    IsUp => \A s \in Sigs : IF s \in active THEN Alone(XCmd(s)) ELSE Absent(XCmd(s))
LaunchedOK ==
    /\ IsUp => \A p \in launched :
                  p \in Points /\ task[p] = "preparing" /\ RunsAt(SubmitCmd(p)) # {}
    /\ stop = "down" => launched = {}

CallsInv ==
    /\ PoolTyped /\ DOMAIN task = Points /\ active \subseteq Sigs
    /\ closed => stop \in {"closing", "down", "killed"}
    /\ CallsOK /\ LaunchedOK

\* A turn of process() keeps the calls as they are known.
LEMMA TurnCalls ==
    ASSUME CallsInv, IsUp, NEW broken, NEW put, put \in Seq(PoolCmds), Process(broken, put),
           NEW calls, calls \subseteq Sigs,
           active' = (active \ Returned(Called(broken))) \cup calls,
           \A s \in calls : /\ s \notin active \ Returned(Called(broken))
                            /\ Single(At(Put(put), {XCmd(s)})),
           \A s \in Sigs \ calls : At(Put(put), {XCmd(s)}) = {}
    PROVE  /\ active' \subseteq Sigs
           /\ \A s \in Sigs : IF s \in active' THEN Alone(XCmd(s))' ELSE Absent(XCmd(s))'
<1>1. active' \subseteq Sigs
  BY DEF CallsInv
<1>2. ASSUME NEW s \in Sigs PROVE IF s \in active' THEN Alone(XCmd(s))' ELSE Absent(XCmd(s))'
  <2>1. PICK x \in PoolCmds : x = XCmd(s) /\ ~Dropped(x)
    BY CmdsDiffer DEF PoolCmds
  <2>2. IF s \in active THEN Alone(x) ELSE Absent(x)
    BY <2>1 DEF CallsInv, CallsOK
  <2>3. s \in Returned(Called(broken)) <=> CalledBack(x, broken)
    BY <2>1, ReturnedFact DEF CallsInv
  <2>4. /\ Absent(x) => ~CalledBack(x, broken)
        /\ Absent(x) \/ (Alone(x) /\ CalledBack(x, broken)) =>
             /\ At(Put(put), {x}) = {} => Absent(x)'
             /\ Single(At(Put(put), {x})) => Alone(x)'
        /\ Alone(x) /\ ~CalledBack(x, broken) /\ At(Put(put), {x}) = {} => Alone(x)'
    BY <2>1, CallMoves DEF CallsInv
  <2>5. CASE s \in calls
    <3>1. s \in active' /\ Single(At(Put(put), {x}))
      BY <2>1, <2>5
    <3>2. Absent(x) \/ (Alone(x) /\ CalledBack(x, broken))
      BY <2>2, <2>3, <2>5
    <3>3. Alone(x)'
      BY <2>4, <3>1, <3>2
    <3>4. Alone(XCmd(s))'
      BY <2>1, <3>3
    <3>5. QED
      BY <3>1, <3>4
  <2>6. CASE s \notin calls
    <3>1. s \in active' <=> s \in active /\ ~CalledBack(x, broken)
      BY <2>3, <2>6
    <3>2. At(Put(put), {x}) = {}
      BY <2>1, <2>6
    <3>3. IF s \in active' THEN Alone(x)' ELSE Absent(x)'
      BY <2>2, <2>4, <3>1, <3>2
    <3>4. QED
      BY <2>1, <3>3
  <2>7. QED
    BY <2>5, <2>6
<1>3. QED
  BY <1>1, <1>2

\* And what was launched still runs, unless its task heard of its end.
LEMMA TurnLaunched ==
    ASSUME CallsInv, IsUp, NEW broken, NEW put, put \in Seq(PoolCmds), Process(broken, put),
           Launches,
           \A p \in launched : task'[p] = "preparing" => ~CalledBack(SubmitCmd(p), broken)
    PROVE  \A p \in launched' :
             p \in Points /\ task'[p] = "preparing" /\ RunsAt(SubmitCmd(p))' # {}
<1> TAKE p \in launched'
<1>1. /\ p \in Points /\ task'[p] = "preparing"
      /\ p \in launched \/ \E r \in Range(runnings') : r.cmd = SubmitCmd(p)
  BY DEF Launches
<1>2. PICK x \in PoolCmds : x = SubmitCmd(p)
  BY <1>1 DEF PoolCmds
<1>3. PoolTyped' /\ (RunsAt(x)' = {} <=> Lasts(x) = {} /\ Begins(x, broken) = {})
  BY ProcessAt DEF CallsInv
<1>4. CASE p \in launched
  <2>1. RunsAt(x) # {} /\ ~CalledBack(x, broken)
    BY <1>1, <1>2, <1>4 DEF CallsInv, LaunchedOK
  <2>2. Lasts(x) # {}
    BY <2>1, CalledFact DEF CallsInv
  <2>3. RunsAt(x)' # {}
    BY <1>3, <2>2
  <2>4. QED
    BY <1>1, <1>2, <2>3
<1>5. CASE \E r \in Range(runnings') : r.cmd = SubmitCmd(p)
  <2>1. runnings' \in Seq(RunRecord)
    BY <1>3 DEF PoolTyped
  <2>2. PICK i \in DOMAIN runnings' : runnings'[i].cmd = x
    BY <1>2, <1>5 DEF Range
  <2>3. i \in 1..Len(runnings') /\ runnings'[i] \in RunRecord
    BY <2>1, <2>2, LenProperties, ElementOfSeq
  <2>4. i \in RunsAt(x)'
    BY <2>2, <2>3 DEF RunsAt, Runs, At
  <2>5. QED
    BY <1>1, <1>2, <2>4
<1>6. QED
  BY <1>1, <1>4, <1>5

\* A turn of the main loop puts the calls that are due, and the jobs.
LEMMA MainLoopCalls ==
    ASSUME CallsInv, NEW broken, MainLoop(broken)
    PROVE  CallsInv'
<1> DEFINE r == Returns(broken)
           c == Checks(r)
           Q == {i \in DOMAIN Order :
                   \/ Order[i] \in {XCmd(s) : s \in c.calls}
                   \/ stop = "none" /\ Order[i] \in {SubmitCmd(p) : p \in c.ready}}
           put == Select(Order, Q)
<1>1. /\ stop \in {"none", "clean"} /\ stop' = stop /\ closed' = closed
      /\ Process(broken, put)
      /\ task' = [p \in Points |->
                     IF p \in c.fresh THEN "waiting"
                     ELSE IF p \in c.ready
                          THEN IF stop = "none" THEN "preparing"
                               ELSE IF task[p] = "waiting" THEN "queued" ELSE task[p]
                     ELSE Submitted(r.called, p)]
      /\ active' = (active \ Returned(r.called)) \cup c.calls
      /\ Launches
  BY DEF MainLoop
<1>2. IsUp /\ IsUp' /\ ~closed /\ stop' # "down"
  BY <1>1 DEF IsUp, CallsInv
<1>3. r.called = Called(broken) /\ r.eligible = {p \in Points : Eligible(p)}
  BY DEF Returns
<1>4. /\ c.calls \subseteq Sigs
      /\ \A s \in c.calls : s \notin active \ Returned(r.called)
  <2>1. PICK xs : c.calls = CallNow(r.eligible, xs, c.sat, active \ Returned(r.called))
    BY DEF Checks
  <2>2. r.eligible \subseteq Points
    BY <1>3
  <2> HIDE DEF c, r
  <2>3. \A y \in Pairs(r.eligible, Labels) : Sig(y[1], y[2]) \in Sigs
    BY <2>2 DEF Pairs, Sigs
  <2>4. Wanted(r.eligible, xs) \subseteq Sigs
    BY <2>3 DEF Wanted
  <2>5. QED
    BY <2>1, <2>4 DEF CallNow
<1>5. \A p \in launched : /\ p \in Points /\ task[p] = "preparing"
                          /\ p \notin c.fresh /\ p \notin c.ready
  <2> TAKE p \in launched
  <2>1. p \in Points /\ task[p] = "preparing"
    BY <1>2 DEF CallsInv, LaunchedOK
  <2>2. p \notin NextOf(IF Sequential = {} THEN RunaheadReleased
                        ELSE {q \in r.eligible : Pairs({q}, Sequential) \subseteq
                                xsat \cup {x \in Pairs(r.eligible, Labels) :
                                             Sig(x[1], x[2]) \in sat_xtrig \cup r.results}})
    BY <2>1 DEF NextOf, Spawnable
  <2>3. p \notin r.eligible
    BY <1>3, <2>1 DEF Eligible
  <2>4. p \notin c.fresh
    BY <2>2 DEF Checks
  <2>5. p \notin c.ready
    BY <2>1, <2>3 DEF Checks
  <2>6. QED
    BY <2>1, <2>4, <2>5
<1> HIDE DEF c
<1>6. /\ put \in Seq(PoolCmds)
      /\ \A s \in c.calls : Single(At(Put(put), {XCmd(s)}))
      /\ \A s \in Sigs \ c.calls : At(Put(put), {XCmd(s)}) = {}
  <2>1. Order \in Seq(PoolCmds) /\ \A s \in Sigs : Single(At(Order, {XCmd(s)}))
    BY OrderFact
  <2>2. Q \in SUBSET (1..Len(Order)) /\ DOMAIN Order = 1..Len(Order)
    BY <2>1, LenProperties
  <2>3. \A s \in c.calls : At(Order, {XCmd(s)}) \cap Q = At(Order, {XCmd(s)})
    BY <2>2 DEF At
  <2>4. \A s \in Sigs \ c.calls : At(Order, {XCmd(s)}) \cap Q = {}
    BY <2>2, CmdsDiffer DEF At
  <2> HIDE DEF Q
  <2>5. /\ put \in Seq(PoolCmds)
        /\ \A s \in c.calls : Single(At(put, {XCmd(s)}))
        /\ \A s \in Sigs \ c.calls : At(put, {XCmd(s)}) = {}
    <3>1. put \in Seq(PoolCmds)
      BY <2>1, <2>2, SelectAt
    <3>2. ASSUME NEW s \in Sigs
          PROVE  /\ s \in c.calls => Single(At(put, {XCmd(s)}))
                 /\ s \notin c.calls => At(put, {XCmd(s)}) = {}
      <4>1. PICK H : H = {XCmd(s)}
        OBVIOUS
      <4>2. /\ At(put, H) = {} <=> At(Order, H) \cap Q = {}
            /\ Single(At(Order, H) \cap Q) => Single(At(put, H))
        BY <2>1, <2>2, SelectAt
      <4>3. /\ s \in c.calls => At(Order, H) \cap Q = At(Order, H) /\ Single(At(Order, H))
            /\ s \notin c.calls => At(Order, H) \cap Q = {}
        BY <2>1, <2>3, <2>4, <4>1
      <4> HIDE DEF put
      <4>4. QED
        BY <4>1, <4>2, <4>3
    <3> HIDE DEF put
    <3>3. QED
      BY <1>4, <3>1, <3>2
  <2> HIDE DEF put
  <2> DEFINE N == {i \in DOMAIN put : ~closed /\ ~Dropped(put[i])}
  <2>6. N \in SUBSET (1..Len(put)) /\ DOMAIN put = 1..Len(put)
    BY <2>5, LenProperties
  <2>7. \A s \in Sigs : At(put, {XCmd(s)}) \cap N = At(put, {XCmd(s)})
    BY <1>2, <2>6, CmdsDiffer DEF At
  <2>8. Put(put) = Select(put, N)
    BY DEF Put
  <2> HIDE DEF N
  <2>9. \A s \in Sigs : /\ At(put, {XCmd(s)}) = {} => At(Put(put), {XCmd(s)}) = {}
                        /\ Single(At(put, {XCmd(s)})) => Single(At(Put(put), {XCmd(s)}))
    <3> TAKE s \in Sigs
    <3>1. PICK H : H = {XCmd(s)}
      OBVIOUS
    <3>2. /\ At(Select(put, N), H) = {} <=> At(put, H) \cap N = {}
          /\ Single(At(put, H) \cap N) => Single(At(Select(put, N), H))
      BY <2>5, <2>6, SelectAt
    <3>3. At(put, H) \cap N = At(put, H)
      BY <2>7, <3>1
    <3>4. QED
      BY <2>8, <3>1, <3>2, <3>3
  <2>10. QED
    BY <1>4, <2>5, <2>9
<1> HIDE DEF put, r
<1>7. /\ active' \subseteq Sigs
      /\ \A s \in Sigs : IF s \in active' THEN Alone(XCmd(s))' ELSE Absent(XCmd(s))'
  BY <1>1, <1>2, <1>3, <1>4, <1>6, TurnCalls
<1>8. \A p \in launched : task'[p] = "preparing" => ~CalledBack(SubmitCmd(p), broken)
  <2> SUFFICES ASSUME NEW p \in launched, CalledBack(SubmitCmd(p), broken)
               PROVE  task'[p] # "preparing"
    OBVIOUS
  <2>1. task'[p] = Submitted(Called(broken), p)
    BY <1>1, <1>3, <1>5
  <2>2. Submitted(Called(broken), p) \in {"live", "failed"}
    BY DEF Submitted, CalledBack
  <2>3. QED
    BY <2>1, <2>2
<1>9. \A p \in launched' :
         p \in Points /\ task'[p] = "preparing" /\ RunsAt(SubmitCmd(p))' # {}
  BY <1>1, <1>2, <1>6, <1>8, TurnLaunched
<1>10. PoolTyped'
  <2>1. PICK x : x \in PoolCmds
    <3>1. 1 \in Points
      BY XtrigAssumption DEF Points
    <3>2. QED
      BY <3>1 DEF PoolCmds
  <2>2. QED
    BY <1>1, <1>6, <2>1, ProcessAt DEF CallsInv
<1>11. DOMAIN task' = Points /\ (closed' => stop' \in {"closing", "down", "killed"})
  BY <1>1, <1>2
<1>12. QED
  BY <1>2, <1>7, <1>9, <1>10, <1>11 DEF CallsInv, CallsOK, LaunchedOK

\* Steps that leave the commands of the pool as they are.
LEMMA PoolSame ==
    ASSUME CallsInv, PoolTyped', \A x : RunsAt(x)' = RunsAt(x) /\ WaitsAt(x)' = WaitsAt(x),
           active' = active, launched' = launched,
           \/ closed' = closed /\ stop' = stop
           \/ closed' = closed /\ stop = "none" /\ stop' \in {"clean", "now", "nownow"}
           \/ IsUp /\ stop' = "closing",
           DOMAIN task' = Points,
           \A p \in Points : task[p] = "preparing" => task'[p] = "preparing"
    PROVE  CallsInv'
<1>1. (IsUp' => IsUp) /\ (stop' = "down" => stop = "down")
      /\ (closed' => stop' \in {"closing", "down", "killed"})
  BY DEF IsUp, CallsInv
<1>2. CallsOK'
  BY <1>1 DEF CallsInv, CallsOK, Alone, Absent, Single
<1>3. LaunchedOK'
  <2>1. ASSUME IsUp', NEW p \in launched'
        PROVE  p \in Points /\ task'[p] = "preparing" /\ RunsAt(SubmitCmd(p))' # {}
    BY <1>1, <2>1 DEF CallsInv, LaunchedOK
  <2>2. QED
    BY <1>1, <2>1 DEF CallsInv, LaunchedOK
<1>4. QED
  BY <1>1, <1>2, <1>3 DEF CallsInv

\* Lists that are the same hold the same.
LEMMA SamePool ==
    ASSUME PoolTyped, queuings' = queuings, runnings' = runnings
    PROVE  PoolTyped' /\ \A x : RunsAt(x)' = RunsAt(x) /\ WaitsAt(x)' = WaitsAt(x)
BY DEF PoolTyped, RunsAt, WaitsAt, At, Runs

\* A child ends or is late: its command runs on in the list.
LEMMA ChildStays ==
    ASSUME PoolTyped, NEW i \in DOMAIN runnings,
           NEW end \in {"live", "good", "bad", "late", "lategood"},
           runnings' = [runnings EXCEPT ![i].end = end], queuings' = queuings
    PROVE  PoolTyped' /\ \A x : RunsAt(x)' = RunsAt(x) /\ WaitsAt(x)' = WaitsAt(x)
<1>1. DOMAIN runnings = 1..Len(runnings) /\ Len(runnings) \in Nat
      /\ \A k \in 1..Len(runnings) : runnings[k] \in RunRecord
  BY LenProperties, ElementOfSeq DEF PoolTyped
<1>2. PICK r : r = [runnings[i] EXCEPT !.end = end]
  OBVIOUS
<1>3. r \in RunRecord /\ r.cmd = runnings[i].cmd
  BY <1>1, <1>2 DEF RunRecord
<1>4. runnings' = [runnings EXCEPT ![i] = r]
  BY <1>2
<1>5. runnings' \in Seq(RunRecord) /\ Len(runnings') = Len(runnings)
      /\ \A k \in 1..Len(runnings) : runnings'[k] = IF k = i THEN r ELSE runnings[k]
  <2>1. runnings \in Seq(RunRecord) /\ i \in 1..Len(runnings)
    BY <1>1 DEF PoolTyped
  <2>2. QED
    BY <1>1, <1>3, <1>4, <2>1, ExceptSeq
<1>6. ASSUME NEW x PROVE RunsAt(x)' = RunsAt(x)
  <2>1. \A k \in 1..Len(runnings) : runnings'[k] \in Runs(x) <=> runnings[k] \in Runs(x)
    BY <1>1, <1>3, <1>5 DEF Runs
  <2>2. RunsAt(x)' = At(runnings', Runs(x))
    BY DEF RunsAt, At, Runs
  <2>3. QED
    BY <1>5, <2>1, <2>2 DEF RunsAt, At
<1>7. QED
  BY <1>5, <1>6 DEF PoolTyped, WaitsAt, At

\* Nothing that happens outside the scheduler puts or takes a command.
LEMMA SurroundingsKeepCalls ==
    ASSUME CallsInv, Surroundings
    PROVE  CallsInv'
<1>1. ASSUME NEW s \in Sigs, WorldAdvances(s) \/ IntervalPasses(s) PROVE CallsInv'
  BY <1>1, PoolSame, SamePool
     DEF WorldAdvances, IntervalPasses, poolVars, xtrigVars, taskVars, history, CallsInv
<1>2. ASSUME NEW i \in DOMAIN runnings, ChildEnds(i) \/ ChildIsLate(i) PROVE CallsInv'
  <2>1. PICK end \in {"live", "good", "bad", "late", "lategood"} :
          ProcExit(i, end) \/ ProcTimeout(i, end)
    BY <1>2 DEF ChildEnds, ChildIsLate
  <2>2. /\ runnings' = [runnings EXCEPT ![i].end = end] /\ queuings' = queuings
        /\ closed' = closed
    BY <2>1 DEF ProcExit, ProcTimeout
  <2>3. active' = active /\ task' = task /\ launched' = launched /\ stop' = stop
    BY <1>2 DEF ChildEnds, ChildIsLate, xtrigVars, taskVars, history
  <2>4. QED
    BY <2>2, <2>3, ChildStays, PoolSame DEF CallsInv
<1>3. ASSUME NEW p \in Points, JobEnds(p) PROVE CallsInv'
  <2>1. /\ UNCHANGED <<queuings, runnings, closed, active, launched, stop>>
        /\ task[p] = "live"
    BY <1>3 DEF JobEnds, poolVars, xtrigVars
  <2>2. /\ DOMAIN task' = Points
        /\ \A q \in Points : task[q] = "preparing" => task'[q] = "preparing"
    BY <1>3, <2>1 DEF JobEnds, LeavePool, NextOf, Spawnable, CallsInv
  <2>3. QED
    BY <2>1, <2>2, PoolSame, SamePool DEF CallsInv
<1>4. QED
  BY <1>1, <1>2, <1>3 DEF Surroundings

\* Nor does a command of the user.
LEMMA CommandsKeepCalls ==
    ASSUME CallsInv, Commands
    PROVE  CallsInv'
<1>1. ASSUME NEW p \in Points, RemoveInstance(p) PROVE CallsInv'
  <2>1. /\ UNCHANGED <<queuings, runnings, closed, active, launched, stop>>
        /\ task[p] # "preparing" /\ LeavePool(p, "removed")
    BY <1>1 DEF RemoveInstance, poolVars, xtrigVars
  <2>2. /\ DOMAIN task' = Points
        /\ \A q \in Points : task[q] = "preparing" => task'[q] = "preparing"
    BY <2>1 DEF LeavePool, NextOf, Spawnable
  <2>3. QED
    BY <2>1, <2>2, PoolSame, SamePool DEF CallsInv
<1>2. ASSUME NEW p \in Points, HoldOrRelease(p) PROVE CallsInv'
  BY <1>2, PoolSame, SamePool DEF HoldOrRelease, poolVars, xtrigVars, history, CallsInv
<1>3. ASSUME NEW p \in Points, NEW l \in Labels, ForceSatisfy(p, l) PROVE CallsInv'
  BY <1>3, PoolSame, SamePool DEF ForceSatisfy, poolVars, xtrigVars, CallsInv
<1>4. ASSUME NEW p \in Points, NEW queue \in {"triggered", "queued"}, Trigger(p, queue)
      PROVE  CallsInv'
  <2>1. /\ UNCHANGED <<queuings, runnings, closed, active, launched, stop>>
        /\ task[p] # "preparing" /\ task' = [task EXCEPT ![p] = queue]
    BY <1>4 DEF Trigger, poolVars, xtrigVars
  <2>2. /\ DOMAIN task' = Points
        /\ \A q \in Points : task[q] = "preparing" => task'[q] = "preparing"
    BY <2>1 DEF CallsInv
  <2>3. QED
    BY <2>1, <2>2, PoolSame, SamePool DEF CallsInv
<1>5. ASSUME NEW mode \in {"clean", "now", "nownow"}, Stop(mode) PROVE CallsInv'
  BY <1>5, PoolSame, SamePool DEF Stop, xtrigVars, taskVars, history, CallsInv
<1>6. QED
  BY <1>1, <1>2, <1>3, <1>4, <1>5 DEF Commands

\* terminate() leaves children that it does not see dead.
LEMMA TerminateKeeps ==
    ASSUME PoolTyped, Terminate
    PROVE  PoolTyped'
<1>1. runnings \in Seq(RunRecord) /\ Lasting \in SUBSET (1..Len(runnings))
  BY LenProperties DEF PoolTyped, Lasting
<1>2. runnings' \in Seq(RunRecord)
  BY <1>1, SelectAt DEF Terminate
<1>3. QED
  BY <1>2, EmptySeq DEF PoolTyped, Terminate

\* A shutdown waits until the pool is empty; a restart begins with an empty one.
LEMMA ShutdownKeepsCalls ==
    ASSUME CallsInv, Shutdown
    PROVE  CallsInv'
<1>1. CASE CloseDown
  <2>1. active' = active /\ CanStop
    BY <1>1 DEF CloseDown, xtrigVars
  <2>2. CASE stop = "nownow"
    <3>1. Terminate /\ DOMAIN task' = Points /\ stop' = "killed"
      BY <1>1, <2>2 DEF CloseDown
    <3>2. PoolTyped'
      BY <3>1, TerminateKeeps DEF CallsInv
    <3>3. QED
      BY <2>1, <3>1, <3>2 DEF CallsInv, CallsOK, LaunchedOK, IsUp
  <2>3. CASE stop # "nownow"
    <3>1. /\ queuings' = queuings /\ runnings' = runnings /\ task' = task
          /\ launched' = launched /\ stop' = "closing"
      BY <1>1, <2>3 DEF CloseDown
    <3>2. IsUp
      BY <2>1 DEF CanStop, IsUp
    <3>3. QED
      BY <2>1, <3>1, <3>2, PoolSame, SamePool DEF CallsInv
  <2>4. QED
    BY <2>2, <2>3
<1>2. CASE WaitForPool /\ InPool = {}
  <2>1. /\ Terminate /\ stop = "closing" /\ stop' = "down"
        /\ task' = task /\ active' = active /\ launched' = launched
    BY <1>2 DEF WaitForPool, history
  <2>2. PoolTyped'
    BY <2>1, TerminateKeeps DEF CallsInv
  <2>3. ASSUME NEW p \in launched PROVE FALSE
    <3>1. PICK i : i \in RunsAt(SubmitCmd(p))
      BY <2>1 DEF CallsInv, LaunchedOK, IsUp
    <3>2. i \in DOMAIN runnings
      BY <3>1, LenProperties DEF RunsAt, At, CallsInv, PoolTyped
    <3>3. runnings[i].cmd \in InPool
      BY <3>2 DEF InPool, Range
    <3>4. QED
      BY <1>2, <3>3
  <2>4. QED
    BY <2>1, <2>2, <2>3 DEF CallsInv, CallsOK, LaunchedOK, IsUp
<1>3. CASE WaitForPool /\ InPool # {}
  <2>1. /\ stop = "closing" /\ stop' = stop
        /\ Process({}, <<>>)
        /\ task' = [p \in Points |-> Submitted(Called({}), p)]
        /\ active' = active \ Returned(Called({}))
        /\ Launches
    BY <1>3 DEF WaitForPool
  <2>2. IsUp /\ IsUp'
    BY <2>1 DEF IsUp
  <2>3. <<>> \in Seq(PoolCmds) /\ \A H : At(Put(<<>>), H) = {}
    <3> DEFINE N == {i \in DOMAIN <<>> : ~closed /\ ~Dropped(<<>>[i])}
    <3>1. <<>> \in Seq(PoolCmds) /\ Len(<<>>) = 0 /\ DOMAIN <<>> = 1..Len(<<>>)
      BY EmptySeq, LenProperties
    <3>2. N = {} /\ Put(<<>>) = Select(<<>>, N)
      BY <3>1 DEF Put
    <3>3. \A H : At(<<>>, H) \cap N = {}
      BY <3>2
    <3>4. N \in SUBSET (1..Len(<<>>))
      BY <3>1
    <3> HIDE DEF N
    <3>5. ASSUME NEW H PROVE At(Put(<<>>), H) = {}
      <4>1. PICK e \in Seq(PoolCmds) : e = <<>>
        BY <3>1
      <4>2. At(Select(e, N), H) = {} <=> At(e, H) \cap N = {}
        BY <3>4, <4>1, SelectAt
      <4>3. QED
        BY <3>2, <3>3, <4>1, <4>2
    <3>6. QED
      BY <3>1, <3>5
  <2>4. /\ active' \subseteq Sigs
        /\ \A s \in Sigs : IF s \in active' THEN Alone(XCmd(s))' ELSE Absent(XCmd(s))'
    <3>1. PICK calls : calls = {}
      OBVIOUS
    <3>2. calls \subseteq Sigs /\ active' = (active \ Returned(Called({}))) \cup calls
      BY <2>1, <3>1
    <3>3. QED
      BY <2>1, <2>2, <2>3, <3>1, <3>2, TurnCalls
  <2>5. \A p \in launched : task'[p] = "preparing" => ~CalledBack(SubmitCmd(p), {})
    <3>1. \A p \in launched : p \in Points
      BY <2>2 DEF CallsInv, LaunchedOK
    <3>2. \A p : CalledBack(SubmitCmd(p), {}) => Submitted(Called({}), p) \in {"live", "failed"}
      BY DEF Submitted, CalledBack
    <3>3. QED
      BY <2>1, <3>1, <3>2
  <2>6. \A p \in launched' :
           p \in Points /\ task'[p] = "preparing" /\ RunsAt(SubmitCmd(p))' # {}
    BY <2>1, <2>2, <2>3, <2>5, TurnLaunched
  <2>7. PoolTyped'
    <3>1. PICK x : x \in PoolCmds
      <4>1. 1 \in Points
        BY XtrigAssumption DEF Points
      <4>2. QED
        BY <4>1 DEF PoolCmds
    <3>2. QED
      BY <2>1, <2>3, <3>1, ProcessAt DEF CallsInv
  <2>8. QED
    BY <2>1, <2>2, <2>4, <2>6, <2>7 DEF CallsInv, CallsOK, LaunchedOK
<1>4. CASE Restart
  <2>1. /\ queuings' = <<>> /\ runnings' = <<>> /\ closed' = FALSE
        /\ active' = {} /\ launched' = {} /\ stop' = "none" /\ DOMAIN task' = Points
    BY <1>4 DEF Restart
  <2>2. PoolTyped'
    BY <2>1, EmptySeq DEF PoolTyped
  <2>3. \A x : Absent(x)'
    BY <2>1, EmptySeq DEF Absent, WaitsAt, RunsAt, At
  <2>4. QED
    BY <2>1, <2>2, <2>3 DEF CallsInv, CallsOK, LaunchedOK
<1>5. QED
  BY <1>1, <1>2, <1>3, <1>4 DEF Shutdown

\* The pool is empty at first.
LEMMA CallsInit == XInit => CallsInv
<1> SUFFICES ASSUME XInit PROVE CallsInv
  OBVIOUS
<1>1. /\ queuings = <<>> /\ runnings = <<>> /\ closed = FALSE
      /\ active = {} /\ launched = {} /\ stop = "none" /\ DOMAIN task = Points
  BY DEF XInit, PoolInit
<1>2. PoolTyped
  BY <1>1, EmptySeq DEF PoolTyped
<1>3. \A x : Absent(x)
  BY <1>1, EmptySeq DEF Absent, WaitsAt, RunsAt, At
<1>4. QED
  BY <1>1, <1>2, <1>3 DEF CallsInv, CallsOK, LaunchedOK

\* Every step keeps the invariant.
LEMMA CallsNext == CallsInv /\ [XNext]_xvars => CallsInv'
<1> SUFFICES ASSUME CallsInv, [XNext]_xvars PROVE CallsInv'
  OBVIOUS
<1>1. CASE MainLoops
  BY <1>1, MainLoopCalls DEF MainLoops
<1>2. CASE UNCHANGED xvars
  BY <1>2, PoolSame, SamePool DEF xvars, poolVars, xtrigVars, taskVars, history, CallsInv
<1>3. QED
  BY <1>1, <1>2, CommandsKeepCalls, SurroundingsKeepCalls, ShutdownKeepsCalls DEF XNext

\* No second call of an xtrigger function is made before the first returned, and
\* no signature stays active without a call (call_xtriggers_async, callback): for
\* any labels, size of the process pool, failures, time limits and restarts.
THEOREM NoSecondCall == XSpec => []OneCallAtATime
<1>1. CallsInv => OneCallAtATime
  <2> SUFFICES ASSUME CallsInv, IsUp, NEW s \in Sigs
               PROVE  CountInPool(XCmd(s)) = IF s \in active THEN 1 ELSE 0
    BY DEF OneCallAtATime, IsUp
  <2>1. XCmd(s) \in PoolCmds
    BY DEF PoolCmds
  <2>2. QED
    BY <2>1, InPoolCount DEF CallsInv, CallsOK
<1>2. QED
  BY <1>1, CallsInit, CallsNext, PTL DEF XSpec

\* A stop that waited for the process pool (_shutdown) leaves no job submitted
\* that the scheduler was not told of.
THEOREM NoJobForgottenAtStop == XSpec => []NoJobForgotten
<1>1. CallsInv => NoJobForgotten
  BY DEF CallsInv, LaunchedOK, NoJobForgotten
<1>2. QED
  BY <1>1, CallsInit, CallsNext, PTL DEF XSpec

---------------------------------------------------------------------------
(* Remote initialisation: no job without its files.                          *)

CmdRecords ==
    [kind : {"init", "install", "submit"}, platform : Platforms, host : Hosts,
     tasks : SUBSET RTasks, files : Int]

\* What the phases go through.
TodoOK ==
    /\ phase = "restart" => todo \subseteq Platforms
    /\ phase = "manage" => todo \subseteq {g \in Targets : incomplete_ri_map[g] # None}
    /\ phase = "prepare" => todo \subseteq job_prep /\ job_prep \subseteq job_file \cup todo
    /\ phase = "submit" =>
           todo \subseteq [platform : Platforms, tasks : SUBSET RTasks, out : BOOLEAN]

TasksOK ==
    /\ job_prep \subseteq RTasks /\ job_file \subseteq RTasks
    /\ platform \in [RTasks -> Platforms \cup {None}]
    /\ \A t \in job_file : platform[t] \in Platforms

TargetsOK ==
    /\ pool \in Seq(CmdRecords)
    /\ DOMAIN remote_init_map = Targets
    /\ incomplete_ri_map \in [Targets -> Platforms \cup {None}]
    /\ there \in [Targets -> Int]
    /\ files \in Int
    /\ reloading \in BOOLEAN

\* The reload that the configuration in use is of.
InUse == IF reloading THEN files - 1 ELSE files

\* The submissions and file installations in flight.
SubmitsOK ==
    \A c \in Range(pool) : c.kind = "submit" =>
        /\ c.files <= InUse
        /\ TargetOf[c.platform] \notin overtaken => there[TargetOf[c.platform]] >= c.files
InstallsOK ==
    \A c \in Range(pool) : c.kind = "install" /\ TargetOf[c.platform] \notin overtaken =>
        c.files >= InUse
InstalledOK ==
    \A g \in Targets \ overtaken : remote_init_map[g] = "install-done" => there[g] >= InUse

FilesInv == TodoOK /\ TasksOK /\ TargetsOK /\ SubmitsOK /\ InstallsOK /\ InstalledOK

Flight == SubmitsOK /\ InstallsOK /\ InstalledOK

LEMMA AppendRange ==
    ASSUME NEW S, NEW s \in Seq(S), NEW c \in S
    PROVE  /\ Append(s, c) \in Seq(S)
           /\ \A x \in Range(Append(s, c)) : x \in Range(s) \/ x = c
<1>1. /\ Append(s, c) \in Seq(S)
      /\ Len(Append(s, c)) = Len(s) + 1
      /\ \A i \in 1..Len(s) : Append(s, c)[i] = s[i]
      /\ Append(s, c)[Len(s) + 1] = c
  BY AppendProperties
<1>2. DOMAIN s = 1..Len(s) /\ DOMAIN Append(s, c) = 1..Len(Append(s, c))
  BY <1>1, LenProperties
<1>3. ASSUME NEW i \in 1..(Len(s) + 1)
      PROVE  Append(s, c)[i] \in Range(s) \/ Append(s, c)[i] = c
  <2>1. CASE i \in 1..Len(s)
    BY <1>1, <1>2, <2>1 DEF Range
  <2>2. CASE i = Len(s) + 1
    BY <1>1, <2>2
  <2>3. Len(s) \in Nat
    BY LenProperties
  <2>4. QED
    BY <2>1, <2>2, <2>3
<1>4. QED
  BY <1>1, <1>2, <1>3 DEF Range

LEMMA RemoveAtRange ==
    ASSUME NEW S, NEW s \in Seq(S), NEW i \in DOMAIN s
    PROVE  /\ RemoveAt(s, i) \in Seq(S)
           /\ \A x \in Range(RemoveAt(s, i)) : x \in Range(s)
<1> DEFINE a == SubSeq(s, 1, i - 1)
           b == SubSeq(s, i + 1, Len(s))
<1>1. Len(s) \in Nat /\ DOMAIN s = 1..Len(s) /\ i \in 1..Len(s)
  BY LenProperties
<1>2. \A k \in 1..Len(s) : s[k] \in S
  BY ElementOfSeq
<1>3. /\ a \in Seq(S) /\ Len(a) = i - 1
      /\ \A k \in 1..Len(a) : a[k] = s[k]
  <2>1. \A k \in 1..(i - 1) : s[k] \in S
    BY <1>1, <1>2
  <2>2. QED
    BY <1>1, <2>1, SubSeqProperties
<1>4. /\ b \in Seq(S) /\ Len(b) = Len(s) - i
      /\ \A k \in 1..Len(b) : b[k] = s[i + k]
  <2>1. \A k \in (i + 1)..Len(s) : s[k] \in S
    BY <1>1, <1>2
  <2>2. QED
    BY <1>1, <2>1, SubSeqProperties
<1>5. RemoveAt(s, i) = a \o b
  BY DEF RemoveAt
<1> HIDE DEF a, b
<1>6. /\ a \o b \in Seq(S) /\ Len(a \o b) = Len(a) + Len(b)
      /\ \A k \in 1..(Len(a) + Len(b)) :
            (a \o b)[k] = IF k <= Len(a) THEN a[k] ELSE b[k - Len(a)]
  BY <1>3, <1>4, ConcatProperties
<1>7. ASSUME NEW k \in 1..(Len(a) + Len(b)) PROVE (a \o b)[k] \in Range(s)
  <2>1. CASE k <= Len(a)
    <3>1. k \in 1..Len(a) /\ k \in DOMAIN s
      BY <1>1, <1>3, <1>4, <2>1
    <3>2. QED
      BY <1>3, <1>6, <2>1, <3>1 DEF Range
  <2>2. CASE ~(k <= Len(a))
    <3>1. k - Len(a) \in 1..Len(b) /\ i + (k - Len(a)) \in DOMAIN s
      BY <1>1, <1>3, <1>4, <2>2
    <3>2. QED
      BY <1>4, <1>6, <2>2, <3>1 DEF Range
  <2>3. QED
    BY <2>1, <2>2
<1>8. DOMAIN (a \o b) = 1..(Len(a) + Len(b))
  BY <1>6, LenProperties
<1>9. QED
  BY <1>5, <1>6, <1>7, <1>8 DEF Range

LEMMA InUseFact ==
    ASSUME TargetsOK
    PROVE  InUse \in Int /\ files \in Int /\ files >= InUse
BY DEF InUse, TargetsOK

LEMMA PoolAppend ==
    ASSUME TargetsOK, NEW c \in CmdRecords, pool' = Append(pool, c)
    PROVE  /\ pool' \in Seq(CmdRecords)
           /\ \A x \in Range(pool') : x \in Range(pool) \/ x = c
BY AppendRange DEF TargetsOK

\* Commands are put on the process pool as the map of initialisations allows.
LEMMA FlightMoves ==
    ASSUME TargetsOK, Flight,
           UNCHANGED <<files, there, overtaken, reloading>>,
           pool' \in Seq(CmdRecords), DOMAIN remote_init_map' = Targets,
           incomplete_ri_map' \in [Targets -> Platforms \cup {None}],
           \A g \in Targets :
               remote_init_map'[g] = "install-done" => remote_init_map[g] = "install-done",
           \A c \in Range(pool') :
               \/ c \in Range(pool)
               \/ c.kind = "init"
               \/ c.kind = "install" /\ c.files = files
               \/ /\ c.kind = "submit" /\ c.files = InUse
                  /\ TargetOf[c.platform] \in Targets
                  /\ remote_init_map[TargetOf[c.platform]] = "install-done"
    PROVE  TargetsOK' /\ Flight'
<1>1. TargetsOK'
  BY DEF TargetsOK
<1>2. InUse' = InUse /\ InUse \in Int /\ files \in Int /\ files >= InUse
  BY InUseFact DEF InUse
<1>3. SubmitsOK'
  <2> SUFFICES ASSUME NEW c \in Range(pool'), c.kind = "submit"
               PROVE  /\ c.files <= InUse
                      /\ TargetOf[c.platform] \notin overtaken =>
                             there[TargetOf[c.platform]] >= c.files
    BY <1>2 DEF SubmitsOK
  <2>1. CASE c \in Range(pool)
    BY <2>1 DEF Flight, SubmitsOK
  <2>2. CASE c \notin Range(pool)
    <3>1. /\ c.files = InUse /\ TargetOf[c.platform] \in Targets
          /\ remote_init_map[TargetOf[c.platform]] = "install-done"
      BY <2>2
    <3>2. TargetOf[c.platform] \notin overtaken => there[TargetOf[c.platform]] >= InUse
      BY <3>1 DEF Flight, InstalledOK
    <3>3. InUse <= InUse
      BY <1>2
    <3>4. QED
      BY <3>1, <3>2, <3>3, Zenon
  <2>3. QED
    BY <2>1, <2>2
<1>4. InstallsOK'
  BY <1>2 DEF Flight, InstallsOK
<1>5. InstalledOK'
  BY <1>2 DEF Flight, InstalledOK
<1>6. QED
  BY <1>1, <1>3, <1>4, <1>5 DEF Flight

LEMMA StartMoves ==
    ASSUME TargetsOK, Flight, NEW p \in Platforms, remote_init(p) \/ file_install(p),
           UNCHANGED <<files, there, overtaken, reloading>>,
           incomplete_ri_map' \in [Targets -> Platforms \cup {None}]
    PROVE  TargetsOK' /\ Flight'
<1>1. PICK kind \in {"init", "install"},
           doing \in {"initialising", "installing", "init-failed", "install-failed"} :
          /\ remote_init_map' = [remote_init_map EXCEPT ![TargetOf[p]] = doing]
          /\ \/ \E h \in GoodHosts(p) : pool' = Append(pool, Cmd(kind, p, h, {}))
             \/ pool' = pool
  BY DEF remote_init, file_install, StartOn
<1>2. ASSUME NEW h \in GoodHosts(p)
      PROVE  /\ Cmd(kind, p, h, {}) \in CmdRecords
             /\ Cmd(kind, p, h, {}).kind = kind /\ Cmd(kind, p, h, {}).files = files
  <2>1. h \in Hosts
    BY DEF GoodHosts, Hosts
  <2>2. QED
    BY <2>1 DEF Cmd, CmdRecords, TargetsOK
<1>3. /\ pool' \in Seq(CmdRecords)
      /\ \A c \in Range(pool') : c \in Range(pool) \/ c.kind = "init"
                                 \/ (c.kind = "install" /\ c.files = files)
  <2>1. CASE \E h \in GoodHosts(p) : pool' = Append(pool, Cmd(kind, p, h, {}))
    <3>1. PICK h \in GoodHosts(p) : pool' = Append(pool, Cmd(kind, p, h, {}))
      BY <2>1
    <3>3. pool' \in Seq(CmdRecords)
          /\ \A c \in Range(pool') : c \in Range(pool) \/ c = Cmd(kind, p, h, {})
      BY <1>2, <3>1, PoolAppend
    <3>4. QED
      BY <1>2, <3>3
  <2>2. CASE pool' = pool
    BY <2>2 DEF TargetsOK
  <2>3. QED
    BY <1>1, <2>1, <2>2
<1>4. DOMAIN remote_init_map' = Targets
      /\ \A g \in Targets :
            remote_init_map'[g] = "install-done" => remote_init_map[g] = "install-done"
  BY <1>1 DEF TargetsOK
<1>5. QED
  BY <1>3, <1>4, FlightMoves

LEMMA FlightSame ==
    ASSUME TargetsOK, Flight,
           UNCHANGED <<pool, remote_init_map, incomplete_ri_map,
                       files, there, overtaken, reloading>>
    PROVE  TargetsOK' /\ Flight'
BY DEF TargetsOK, Flight, SubmitsOK, InstallsOK, InstalledOK, InUse

\* What a turn or a reload goes through is no concern of other phases.
LEMMA TodoElsewhere == ASSUME phase' \in {"process", "dead"} PROVE TodoOK'
BY DEF TodoOK

LEMMA TurnOverTodo ==
    ASSUME TurnOver
    PROVE  TodoOK'
BY DEF TurnOver, TodoOK

LEMMA RestartInitKeeps ==
    ASSUME FilesInv, RestartInit
    PROVE  FilesInv'
<1>1. PICK p \in todo :
          /\ remote_init(p)
          /\ incomplete_ri_map' = [incomplete_ri_map EXCEPT ![TargetOf[p]] = p]
          /\ \/ TurnOver
             \/ todo' = {q \in todo : TargetOf[q] # TargetOf[p]} /\ phase' = phase
  BY DEF RestartInit
<1>2. phase = "restart" /\ todo \subseteq Platforms
  BY DEF RestartInit, FilesInv, TodoOK
<1>3. TargetsOK' /\ Flight'
  <2>1. incomplete_ri_map' \in [Targets -> Platforms \cup {None}]
    BY <1>1, <1>2 DEF FilesInv, TargetsOK
  <2>2. UNCHANGED <<files, there, overtaken, reloading>>
    BY DEF RestartInit, outside
  <2>3. QED
    BY <1>1, <1>2, <2>1, <2>2, StartMoves DEF FilesInv, Flight
<1>4. TasksOK'
  BY DEF RestartInit, taskv, FilesInv, TasksOK
<1>5. TodoOK'
  <2>1. CASE TurnOver
    BY <2>1, TurnOverTodo
  <2>2. CASE todo' = {q \in todo : TargetOf[q] # TargetOf[p]} /\ phase' = phase
    BY <1>2, <2>2 DEF TodoOK
  <2>3. QED
    BY <1>1, <2>1, <2>2
<1>6. QED
  BY <1>3, <1>4, <1>5 DEF FilesInv, Flight

LEMMA ManageKeeps ==
    ASSUME FilesInv, Manage
    PROVE  FilesInv'
<1>1. /\ phase = "manage" /\ TasksOK'
      /\ UNCHANGED <<files, there, overtaken, reloading>>
  BY DEF Manage, taskv, outside, FilesInv, TasksOK
<1>2. PICK g \in todo :
        \/ phase' = "dead" /\ UNCHANGED <<mapv, pool>>
        \/ /\ todo' = todo \ {g} /\ phase' \in {"process", "manage"}
           /\ \/ file_install(incomplete_ri_map[g]) /\ UNCHANGED incomplete_ri_map
              \/ UNCHANGED <<mapv, pool>>
              \/ /\ incomplete_ri_map' = [incomplete_ri_map EXCEPT ![g] = None]
                 /\ UNCHANGED <<remote_init_map, pool>>
  BY DEF Manage
<1>3. /\ todo \subseteq {h \in Targets : incomplete_ri_map[h] # None}
      /\ incomplete_ri_map \in [Targets -> Platforms \cup {None}]
  BY <1>1 DEF FilesInv, TodoOK, TargetsOK
<1>4. g \in Targets /\ incomplete_ri_map[g] \in Platforms
  BY <1>3
<1>5. CASE UNCHANGED <<mapv, pool>>
  <2>1. TargetsOK' /\ Flight'
    BY <1>1, <1>5, FlightSame DEF FilesInv, Flight, mapv
  <2>2. TodoOK'
    BY <1>2, <1>3, <1>5 DEF TodoOK, mapv
  <2>3. QED
    BY <1>1, <2>1, <2>2 DEF FilesInv, Flight
<1>6. CASE /\ todo' = todo \ {g} /\ phase' \in {"process", "manage"}
           /\ file_install(incomplete_ri_map[g]) /\ UNCHANGED incomplete_ri_map
  <2>1. TargetsOK' /\ Flight'
    BY <1>1, <1>3, <1>4, <1>6, StartMoves DEF FilesInv, Flight
  <2>2. TodoOK'
    BY <1>3, <1>6 DEF TodoOK
  <2>3. QED
    BY <1>1, <2>1, <2>2 DEF FilesInv, Flight
<1>7. CASE /\ todo' = todo \ {g} /\ phase' \in {"process", "manage"}
           /\ incomplete_ri_map' = [incomplete_ri_map EXCEPT ![g] = None]
           /\ UNCHANGED <<remote_init_map, pool>>
  <2>1. TargetsOK' /\ Flight'
    <3>1. incomplete_ri_map' \in [Targets -> Platforms \cup {None}]
      BY <1>3, <1>7
    <3>2. QED
      BY <1>1, <1>7, <3>1, FlightMoves DEF FilesInv, Flight, TargetsOK
  <2>2. TodoOK'
    BY <1>3, <1>7 DEF TodoOK
  <2>3. QED
    BY <1>1, <2>1, <2>2 DEF FilesInv, Flight
<1>8. QED
  BY <1>2, <1>5, <1>6, <1>7

\* Tasks that are submit-failed wait for nothing more.
LEMMA SubmitFailTasks ==
    ASSUME TasksOK, NEW ts, SubmitFail(ts), platform' = platform
    PROVE  TasksOK'
BY DEF TasksOK, SubmitFail

LEMMA GroupPlatforms ==
    ASSUME NEW t \in RTasks
    PROVE  PlatformsFor(t) \subseteq Platforms
BY RemoteAssumption DEF PlatformsFor

LEMMA CallbackKeeps ==
    ASSUME FilesInv, NEW i \in DOMAIN pool, NEW end \in {"good", "bad", "255"},
           Callback(i, end)
    PROVE  FilesInv'
<1> DEFINE c == pool[i]
           g == TargetOf[c.platform]
<1>1. /\ pool \in Seq(CmdRecords) /\ c \in CmdRecords /\ c \in Range(pool)
  BY ElementOfSeq, LenProperties DEF FilesInv, TargetsOK, Range
<1>2. g \in Targets /\ c.tasks \subseteq RTasks /\ c.files \in Int
      /\ c.kind \in {"init", "install", "submit"}
  BY <1>1 DEF Targets, CmdRecords
<1>3. pool' \in Seq(CmdRecords) /\ \A d \in Range(pool') : d \in Range(pool)
  BY <1>1, RemoveAtRange DEF Callback
<1>4. /\ phase' = "process" /\ platform' = platform
      /\ UNCHANGED <<incomplete_ri_map, reloading, files, overtaken>>
  BY DEF Callback
<1>5. TodoOK'
  BY <1>4, TodoElsewhere
<1>6. CASE c.kind = "submit"
  <2>1. remote_init_map' = remote_init_map /\ there' = there
    BY <1>6 DEF Callback
  <2>2. TargetsOK' /\ Flight'
    BY <1>3, <1>4, <2>1, FlightMoves DEF FilesInv, Flight, TargetsOK
  <2>3. \/ UNCHANGED <<job_prep, job_file>>
        \/ SubmitFail(c.tasks)
        \/ job_prep' = job_prep \cup c.tasks /\ job_file' = job_file
    BY <1>6 DEF Callback
  <2>4. TasksOK'
    BY <1>2, <1>4, <2>3, SubmitFailTasks DEF FilesInv, TasksOK
  <2>5. QED
    BY <1>5, <2>2, <2>4 DEF FilesInv, Flight
<1>7. CASE c.kind # "submit"
  <2>1. /\ remote_init_map' = [remote_init_map EXCEPT ![g] = Outcome(c.kind, end)]
        /\ there' = IF c.kind = "install" /\ end = "good"
                    THEN [there EXCEPT ![g] = c.files] ELSE there
        /\ UNCHANGED <<job_prep, job_file>>
    BY <1>7 DEF Callback
  <2>2. Outcome(c.kind, end) = "install-done" => c.kind = "install" /\ end = "good"
    BY <1>2, <1>7 DEF Outcome
  <2>3. TasksOK'
    BY <1>4, <2>1 DEF FilesInv, TasksOK
  <2>4. TargetsOK'
    BY <1>2, <1>3, <1>4, <2>1 DEF FilesInv, TargetsOK
  <2>5. InUse' = InUse /\ InUse \in Int
    BY <1>4, InUseFact DEF InUse, FilesInv
  <2>6. g \notin overtaken /\ there' # there => there'[g] = c.files /\ c.files >= InUse
    BY <1>1, <1>2, <2>1 DEF FilesInv, TargetsOK, InstallsOK
  <2>7. \A h \in Targets : h # g => there'[h] = there[h]
    BY <2>1 DEF FilesInv, TargetsOK
  <2>8. SubmitsOK'
    <3> SUFFICES ASSUME NEW d \in Range(pool), d.kind = "submit"
                 PROVE  /\ d.files <= InUse
                        /\ TargetOf[d.platform] \notin overtaken =>
                               there'[TargetOf[d.platform]] >= d.files
      BY <1>3, <1>4, <2>5 DEF SubmitsOK
    <3>1. d \in CmdRecords
      BY <1>1 DEF Range
    <3>2. d.files \in Int /\ TargetOf[d.platform] \in Targets
      BY <3>1 DEF CmdRecords, Targets
    <3>3. /\ d.files <= InUse
          /\ TargetOf[d.platform] \notin overtaken => there[TargetOf[d.platform]] >= d.files
      BY DEF FilesInv, SubmitsOK
    <3>4. CASE TargetOf[d.platform] = g
      BY <1>2, <2>5, <2>6, <3>2, <3>3, <3>4
    <3>5. CASE TargetOf[d.platform] # g
      BY <2>7, <3>2, <3>3, <3>5
    <3>6. QED
      BY <3>4, <3>5
  <2>9. InstallsOK'
    BY <1>3, <1>4, <2>5 DEF FilesInv, InstallsOK
  <2>10. InstalledOK'
    <3> SUFFICES ASSUME NEW h \in Targets \ overtaken, remote_init_map'[h] = "install-done"
                 PROVE  there'[h] >= InUse
      BY <1>4, <2>5 DEF InstalledOK
    <3>1. CASE h = g
      <4>1. c.kind = "install" /\ end = "good"
        BY <1>2, <2>1, <2>2, <3>1 DEF FilesInv, TargetsOK
      <4>2. there'[g] = c.files
        BY <1>2, <2>1, <4>1 DEF FilesInv, TargetsOK
      <4>3. c.files >= InUse
        BY <1>1, <3>1, <4>1 DEF FilesInv, InstallsOK
      <4>4. QED
        BY <3>1, <4>2, <4>3
    <3>2. CASE h # g
      BY <2>1, <2>7, <3>2 DEF FilesInv, TargetsOK, InstalledOK
    <3>3. QED
      BY <3>1, <3>2
  <2>11. QED
    BY <1>5, <2>3, <2>4, <2>8, <2>9, <2>10 DEF FilesInv
<1>8. QED
  BY <1>6, <1>7

LEMMA PrepareKeeps ==
    ASSUME FilesInv,
           (\E released \in SUBSET RTasks : ReleaseTasks(released)) \/ Prepare \/ Prepared
    PROVE  FilesInv'
<1>1. TargetsOK' /\ Flight'
  BY FlightSame
     DEF FilesInv, Flight, ReleaseTasks, Prepare, Prepared, mapv, outside, taskv
<1>2. CASE \E released \in SUBSET RTasks : ReleaseTasks(released)
  <2>1. PICK released \in SUBSET RTasks : ReleaseTasks(released)
    BY <1>2
  <2>2. phase' = "prepare" /\ todo' = job_prep' /\ job_prep' = job_prep \cup released
        /\ UNCHANGED <<job_file, platform>>
    BY <2>1 DEF ReleaseTasks
  <2>3. TodoOK' /\ TasksOK'
    BY <2>2 DEF FilesInv, TodoOK, TasksOK
  <2>4. QED
    BY <1>1, <2>3 DEF FilesInv, Flight
<1>3. CASE Prepare
  <2>1. PICK t \in todo :
          /\ todo' = todo \ {t}
          /\ \/ t \in job_file /\ UNCHANGED taskv
             \/ /\ \E p \in PlatformsFor(t) : platform' = [platform EXCEPT ![t] = p]
                /\ job_file' = job_file \cup {t}
                /\ UNCHANGED job_prep
             \/ SubmitFail({t}) /\ UNCHANGED platform
    BY <1>3 DEF Prepare
  <2>2. /\ phase = "prepare" /\ phase' = "prepare"
        /\ todo \subseteq job_prep /\ job_prep \subseteq job_file \cup todo
        /\ t \in RTasks
    BY <1>3 DEF Prepare, FilesInv, TodoOK, TasksOK
  <2>3. CASE t \in job_file /\ UNCHANGED taskv
    <3>1. TasksOK'
      BY <2>3 DEF FilesInv, TasksOK, taskv
    <3>2. TodoOK'
      BY <2>1, <2>2, <2>3 DEF TodoOK, taskv
    <3>3. QED
      BY <1>1, <3>1, <3>2 DEF FilesInv, Flight
  <2>4. CASE /\ \E p \in PlatformsFor(t) : platform' = [platform EXCEPT ![t] = p]
             /\ job_file' = job_file \cup {t}
             /\ UNCHANGED job_prep
    <3>1. PICK p \in Platforms : platform' = [platform EXCEPT ![t] = p]
      BY <2>2, <2>4, GroupPlatforms
    <3>2. TasksOK'
      BY <2>2, <2>4, <3>1 DEF FilesInv, TasksOK
    <3>3. TodoOK'
      BY <2>1, <2>2, <2>4 DEF TodoOK
    <3>4. QED
      BY <1>1, <3>2, <3>3 DEF FilesInv, Flight
  <2>5. CASE SubmitFail({t}) /\ UNCHANGED platform
    <3>1. TasksOK'
      BY <2>5, SubmitFailTasks DEF FilesInv
    <3>2. TodoOK'
      BY <2>1, <2>2, <2>5 DEF TodoOK, SubmitFail
    <3>3. QED
      BY <1>1, <3>1, <3>2 DEF FilesInv, Flight
  <2>6. QED
    BY <2>1, <2>3, <2>4, <2>5
<1>4. CASE Prepared
  <2>1. phase = "prepare" /\ todo = {} /\ phase' = "submit" /\ todo' = ByPlatform(job_prep)
        /\ UNCHANGED taskv
    BY <1>4 DEF Prepared
  <2>2. job_prep \subseteq job_file /\ job_prep \subseteq RTasks
    BY <2>1 DEF FilesInv, TodoOK, TasksOK
  <2>3. \A t \in job_prep : platform[t] \in Platforms
    BY <2>2 DEF FilesInv, TasksOK
  <2>4. ByPlatform(job_prep)
        \subseteq [platform : Platforms, tasks : SUBSET RTasks, out : BOOLEAN]
    <3>1. ASSUME NEW t \in job_prep
          PROVE  [platform |-> platform[t], tasks |-> {u \in job_prep : platform[u] = platform[t]},
                  out |-> FALSE]
                 \in [platform : Platforms, tasks : SUBSET RTasks, out : BOOLEAN]
      <4>1. {u \in job_prep : platform[u] = platform[t]} \in SUBSET RTasks
        BY <2>2
      <4>2. QED
        BY <2>3, <4>1
    <3>2. QED
      BY <3>1 DEF ByPlatform
  <2>5. TodoOK' /\ TasksOK'
    BY <2>1, <2>4 DEF FilesInv, TodoOK, TasksOK, taskv
  <2>6. QED
    BY <1>1, <2>5 DEF FilesInv, Flight
<1>5. QED
  BY <1>2, <1>3, <1>4

Batches == [platform : Platforms, tasks : SUBSET RTasks, out : BOOLEAN]

LEMMA SubmitOnKeeps ==
    ASSUME TargetsOK, Flight, TasksOK, NEW b \in Batches, SubmitOn(b),
           UNCHANGED <<files, there, overtaken, reloading, incomplete_ri_map>>
    PROVE  TargetsOK' /\ Flight' /\ TasksOK'
<1> DEFINE p == b.platform
           now == remote_init_map[TargetOf[p]]
<1>1. p \in Platforms /\ b.tasks \subseteq RTasks
  BY DEF Batches
<1>2. incomplete_ri_map' \in [Targets -> Platforms \cup {None}]
  BY DEF TargetsOK
<1>3. CASE (remote_init(p) \/ file_install(p)) /\ UNCHANGED taskv
  BY <1>1, <1>2, <1>3, StartMoves DEF TasksOK, taskv
<1>4. CASE UNCHANGED <<taskv, remote_init_map, pool>>
  BY <1>4, FlightSame DEF TasksOK, taskv
<1>5. CASE /\ remote_init_map' = [remote_init_map EXCEPT ![TargetOf[p]] = None]
           /\ SubmitFail(b.tasks) /\ UNCHANGED <<platform, pool>>
  <2>1. TasksOK'
    BY <1>5, SubmitFailTasks
  <2>2. None # "install-done"
    BY DEF None
  <2>3. /\ DOMAIN remote_init_map' = Targets
        /\ \A g \in Targets :
              remote_init_map'[g] = "install-done" => remote_init_map[g] = "install-done"
    BY <1>5, <2>2 DEF TargetsOK
  <2>4. pool' = pool /\ pool \in Seq(CmdRecords)
    BY <1>5 DEF TargetsOK
  <2>5. QED
    BY <1>2, <2>1, <2>3, <2>4, FlightMoves
<1>6. CASE /\ now = "install-done"
           /\ \E h \in GoodHosts(p) : pool' = Append(pool, Cmd("submit", p, h, b.tasks))
           /\ job_prep' = job_prep \ b.tasks
           /\ job_file' = job_file \ b.tasks
           /\ UNCHANGED <<platform, remote_init_map>>
  <2>1. TasksOK'
    BY <1>6 DEF TasksOK
  <2>2. PICK h \in GoodHosts(p) : pool' = Append(pool, Cmd("submit", p, h, b.tasks))
    BY <1>6
  <2> DEFINE c == Cmd("submit", p, h, b.tasks)
  <2>3. c.kind = "submit" /\ c.platform = p /\ c.files = InUse
    BY DEF Cmd, InUse
  <2>4. c \in CmdRecords
    <3>1. h \in Hosts
      BY <1>1 DEF GoodHosts, Hosts
    <3>2. files \in Int /\ files - 1 \in Int
      BY DEF TargetsOK
    <3>3. QED
      BY <1>1, <3>1, <3>2 DEF Cmd, CmdRecords
  <2>5. TargetOf[p] \in Targets
    BY <1>1 DEF Targets
  <2> HIDE DEF c
  <2>6. /\ pool' \in Seq(CmdRecords)
        /\ \A x \in Range(pool') : x \in Range(pool) \/ x = c
    BY <2>2, <2>4, PoolAppend DEF c
  <2>7. DOMAIN remote_init_map' = Targets
    BY <1>6 DEF TargetsOK
  <2>8. QED
    BY <1>2, <1>6, <2>1, <2>3, <2>5, <2>6, <2>7, FlightMoves
<1>7. QED
  BY <1>3, <1>4, <1>5, <1>6 DEF SubmitOn

LEMMA SubmitPlatformKeeps ==
    ASSUME FilesInv, SubmitPlatform
    PROVE  FilesInv'
<1>1. PICK b \in todo :
          \/ SubmitOn(b) /\ todo' = todo \ {b}
          \/ /\ todo' = (todo \ {b}) \cup {[b EXCEPT !.out = TRUE]}
             /\ UNCHANGED <<taskv, remote_init_map, pool>>
  BY DEF SubmitPlatform
<1>2. /\ phase = "submit" /\ phase' = "submit"
      /\ UNCHANGED <<files, there, overtaken, reloading, incomplete_ri_map>>
  BY DEF SubmitPlatform, outside
<1>3. todo \subseteq Batches
  BY <1>2 DEF FilesInv, TodoOK, Batches
<1>4. b \in Batches /\ [b EXCEPT !.out = TRUE] \in Batches
  BY <1>3 DEF Batches
<1>5. TodoOK'
  BY <1>1, <1>2, <1>3, <1>4 DEF TodoOK, Batches
<1>6. TargetsOK' /\ Flight' /\ TasksOK'
  <2>1. CASE SubmitOn(b)
    BY <1>2, <1>4, <2>1, SubmitOnKeeps DEF FilesInv, Flight
  <2>2. CASE UNCHANGED <<taskv, remote_init_map, pool>>
    BY <1>2, <2>2, FlightSame DEF FilesInv, Flight, TasksOK, taskv
  <2>3. QED
    BY <1>1, <2>1, <2>2
<1>7. QED
  BY <1>5, <1>6 DEF FilesInv, Flight

LEMMA OutOfHostsKeeps ==
    ASSUME FilesInv, OutOfHosts
    PROVE  FilesInv'
<1>1. PICK b \in todo : \E t \in b.tasks :
        /\ todo' = (todo \ {b}) \cup
                    (IF b.tasks = {t} THEN {} ELSE {[b EXCEPT !.tasks = @ \ {t}]})
        /\ \/ /\ \E p \in PlatformsFor(t) : platform' = [platform EXCEPT ![t] = p]
              /\ UNCHANGED <<job_prep, job_file>>
           \/ SubmitFail({t}) /\ UNCHANGED platform
  BY DEF OutOfHosts
<1>2. PICK t \in b.tasks :
        /\ todo' = (todo \ {b}) \cup
                    (IF b.tasks = {t} THEN {} ELSE {[b EXCEPT !.tasks = @ \ {t}]})
        /\ \/ /\ \E p \in PlatformsFor(t) : platform' = [platform EXCEPT ![t] = p]
              /\ UNCHANGED <<job_prep, job_file>>
           \/ SubmitFail({t}) /\ UNCHANGED platform
  BY <1>1
<1>3. phase = "submit" /\ phase' = "submit" /\ todo \subseteq Batches
  BY DEF OutOfHosts, FilesInv, TodoOK, Batches
<1>4. /\ b \in Batches /\ t \in RTasks /\ b.tasks \subseteq RTasks
      /\ [b EXCEPT !.tasks = @ \ {t}] \in Batches
  BY <1>3 DEF Batches
<1>5. TodoOK'
  BY <1>2, <1>3, <1>4 DEF TodoOK, Batches
<1>6. TasksOK'
  <2>1. CASE /\ \E p \in PlatformsFor(t) : platform' = [platform EXCEPT ![t] = p]
             /\ UNCHANGED <<job_prep, job_file>>
    <3>1. PICK p \in Platforms : platform' = [platform EXCEPT ![t] = p]
      BY <1>4, <2>1, GroupPlatforms
    <3>2. QED
      BY <1>4, <2>1, <3>1 DEF FilesInv, TasksOK
  <2>2. CASE SubmitFail({t}) /\ UNCHANGED platform
    BY <2>2, SubmitFailTasks DEF FilesInv
  <2>3. QED
    BY <1>2, <2>1, <2>2
<1>7. TargetsOK' /\ Flight'
  BY FlightSame DEF OutOfHosts, FilesInv, Flight, mapv, outside
<1>8. QED
  BY <1>5, <1>6, <1>7 DEF FilesInv, Flight

LEMMA FinishReloadKeeps ==
    ASSUME FilesInv, FinishReload
    PROVE  FilesInv'
<1>1. TodoOK' /\ TasksOK'
  BY TodoElsewhere DEF FinishReload, taskv, FilesInv, TasksOK
<1>2. /\ reloading = TRUE /\ reloading' = FALSE /\ files \in Int
      /\ files' = files /\ there' = there /\ pool' = pool
      /\ overtaken' = overtaken \cup {TargetOf[d.platform] : d \in Range(pool)}
  BY DEF FinishReload, FilesInv, TargetsOK
<1>3. TargetsOK'
  BY DEF FinishReload, FilesInv, TargetsOK, mapv
<1>4. InUse = files - 1 /\ InUse' = files
  BY <1>2 DEF InUse
<1>5. SubmitsOK'
  <2> SUFFICES ASSUME NEW d \in Range(pool), d.kind = "submit" PROVE d.files <= files
    BY <1>2, <1>4 DEF SubmitsOK
  <2>1. d \in CmdRecords
    BY ElementOfSeq, LenProperties DEF FilesInv, TargetsOK, Range
  <2>2. d.files \in Int /\ d.files <= files - 1
    BY <1>4, <2>1 DEF CmdRecords, FilesInv, SubmitsOK
  <2>3. QED
    BY <1>2, <2>2
<1>6. InstallsOK'
  BY <1>2 DEF InstallsOK
<1>7. InstalledOK'
  BY DEF FinishReload, InstalledOK, None
<1>8. QED
  BY <1>1, <1>3, <1>5, <1>6, <1>7 DEF FilesInv

LEMMA ReloadCommandKeeps ==
    ASSUME FilesInv, ReloadCommand
    PROVE  FilesInv'
<1>1. /\ ~reloading /\ reloading' = TRUE /\ files' = files + 1 /\ files \in Int
      /\ UNCHANGED <<pool, there, overtaken, remote_init_map, incomplete_ri_map>>
      /\ phase' = "prepare" /\ todo' = job_prep /\ UNCHANGED taskv
  BY DEF ReloadCommand, FilesInv, TargetsOK, mapv
<1>2. TodoOK' /\ TasksOK'
  BY <1>1 DEF FilesInv, TodoOK, TasksOK, taskv
<1>3. TargetsOK'
  BY <1>1 DEF FilesInv, TargetsOK
<1>4. InUse' = InUse
  <2>1. InUse' = (files + 1) - 1 /\ InUse = files
    BY <1>1 DEF InUse
  <2>2. QED
    BY <1>1, <2>1
<1>5. SubmitsOK' /\ InstallsOK' /\ InstalledOK'
  BY <1>1, <1>4 DEF FilesInv, SubmitsOK, InstallsOK, InstalledOK
<1>6. QED
  BY <1>2, <1>3, <1>5 DEF FilesInv

\* The steps that leave the commands, the map and the files alone.
LEMMA OtherTurnsKeep ==
    ASSUME FilesInv, EndTurn \/ Flush \/ (\E t \in RTasks : KillPreparing(t))
                     \/ ResetBadHosts \/ UNCHANGED rvars
    PROVE  FilesInv'
<1>1. TargetsOK' /\ Flight'
  BY FlightSame DEF FilesInv, Flight, EndTurn, Flush, KillPreparing, ResetBadHosts, rvars,
                    mapv, outside
<1>2. CASE EndTurn
  <2>1. TodoOK'
    BY <1>2, TurnOverTodo DEF EndTurn
  <2>2. TasksOK'
    BY <1>2 DEF EndTurn, taskv, FilesInv, TasksOK
  <2>3. QED
    BY <1>1, <2>1, <2>2 DEF FilesInv, Flight
<1>3. CASE Flush
  BY <1>1, <1>3, TodoElsewhere DEF Flush, taskv, FilesInv, TasksOK, Flight
<1>4. CASE \E t \in RTasks : KillPreparing(t)
  <2>1. PICK t \in RTasks : KillPreparing(t)
    BY <1>4
  <2>2. TasksOK' /\ phase' = "process"
    BY <2>1, SubmitFailTasks DEF KillPreparing, FilesInv
  <2>3. QED
    BY <1>1, <2>2, TodoElsewhere DEF FilesInv, Flight
<1>5. CASE ResetBadHosts
  BY <1>1, <1>5, TodoElsewhere DEF ResetBadHosts, taskv, FilesInv, TasksOK, Flight
<1>6. CASE UNCHANGED rvars
  BY <1>1, <1>6 DEF rvars, taskv, mapv, FilesInv, TodoOK, TasksOK, Flight
<1>7. QED
  BY <1>2, <1>3, <1>4, <1>5, <1>6

LEMMA FilesNext ==
    ASSUME FilesInv, [RNext]_rvars
    PROVE  FilesInv'
<1>1. CASE Turn
  BY <1>1, RestartInitKeeps, ManageKeeps, PrepareKeeps, SubmitPlatformKeeps, OutOfHostsKeeps,
     FinishReloadKeeps, OtherTurnsKeep DEF Turn
<1>2. CASE \E i \in DOMAIN pool, end \in {"good", "bad", "255"} : Callback(i, end)
  BY <1>2, CallbackKeeps
<1>3. CASE ReloadCommand \/ (\E t \in RTasks : KillPreparing(t)) \/ ResetBadHosts
           \/ UNCHANGED rvars
  BY <1>3, ReloadCommandKeeps, OtherTurnsKeep
<1>4. QED
  BY <1>1, <1>2, <1>3 DEF RNext

LEMMA FilesInit ==
    ASSUME RInit
    PROVE  FilesInv
<1>1. PICK live \in SUBSET DOMAIN Active :
        /\ phase = IF live = {} THEN "process" ELSE "restart"
        /\ todo = {Active[t] : t \in live}
        /\ platform = [t \in RTasks |-> IF t \in live THEN Active[t] ELSE None]
  BY DEF RInit
<1>2. \A t \in live : t \in RTasks /\ Active[t] \in Platforms
  BY RemoteAssumption
<1>3. /\ job_prep = {} /\ job_file = {} /\ overtaken = {} /\ pool = <<>>
      /\ files = 0 /\ reloading = FALSE
      /\ remote_init_map = [g \in Targets |-> None]
      /\ incomplete_ri_map = [g \in Targets |-> None]
      /\ there = [g \in Targets |-> -1]
  BY DEF RInit
<1>4. TodoOK /\ TasksOK
  BY <1>1, <1>2, <1>3 DEF TodoOK, TasksOK
<1>5. Range(pool) = {} /\ pool \in Seq(CmdRecords)
  BY <1>3 DEF Range
<1>6. TargetsOK
  <2>1. there \in [Targets -> Int]
    BY <1>3
  <2>2. incomplete_ri_map \in [Targets -> Platforms \cup {None}]
    BY <1>3
  <2>3. DOMAIN remote_init_map = Targets /\ files \in Int /\ reloading \in BOOLEAN
    <3>1. DOMAIN remote_init_map = Targets
      BY <1>3
    <3>2. files = 0 /\ reloading = FALSE
      BY <1>3, Zenon
    <3>3. files \in Int
      BY <3>2
    <3>4. reloading \in BOOLEAN
      BY <3>2, Zenon
    <3>5. QED
      BY <3>1, <3>3, <3>4
  <2>4. QED
    BY <1>5, <2>1, <2>2, <2>3, Zenon DEF TargetsOK
<1>7. SubmitsOK /\ InstallsOK /\ InstalledOK
  BY <1>3, <1>5 DEF SubmitsOK, InstallsOK, InstalledOK, None
<1>8. QED
  BY <1>4, <1>6, <1>7 DEF FilesInv

\* A job is only submitted to a target where the files of the configuration it
\* is submitted with have been installed: no number of hosts that cannot be
\* contacted, failed initialisations, retries and reloads lets a job start where
\* the files are missing or out of date (submit_livelike_task_jobs and the
\* callbacks of task_remote_mgr.py), except after a reload that found a command
\* of that target in flight.
THEOREM FilesAreFresh == RSpec => []FreshFilesBut
<1>1. RInit => FilesInv
  BY FilesInit
<1>2. FilesInv /\ [RNext]_rvars => FilesInv'
  BY FilesNext
<1>3. FilesInv => FreshFilesBut
  BY DEF FilesInv, SubmitsOK, FreshFilesBut
<1>4. QED
  BY <1>1, <1>2, <1>3, PTL DEF RSpec
===========================================================================
