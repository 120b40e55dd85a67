------------------------- MODULE PartsProofs -------------------------
(* The components that are checked by themselves: every task is in exactly one
   of the queues that _make_indep returns, for any number of tasks, families and
   queues; a new flow has a new number; the table of broadcasts follows the
   broadcasts; the loop that releases tasks from a queue does what TaskQueues
   says in closed form; the stall timer runs out only on a stalled pool; a
   recurrence has the points that are written, and none of them is missed. *)
EXTENDS Stall, QueueRelease, QueueConfig, Broadcasts, FlowMgr, IntegerCycling,
        TaskQueuesProofs, TLAPS

\* Queue q was configured with task t.
Named(t, q) == t \in ExpandFamilies(config[q])

\* Before iteration next: the queues still to come are as configured; a task
\* is in the default queue exactly as long as no custom queue was given it; of
\* the queues already made it is in the one it was last assigned to, which is
\* the last one that named it, and in no other.
InvToCome ==
    \A t \in Tasks : \A q \in Custom :
        q >= next => (t \in members[q] <=> Named(t, q))
InvDefault ==
    \A t \in Tasks : t \in members[Default] <=> seen[t] = None
InvMade ==
    \A t \in Tasks : \A q \in Custom :
        q < next => (t \in members[q] <=> seen[t] = q)
InvSeen ==
    \A t \in Tasks : seen[t] # None => seen[t] < next
InvLast ==
    \A t \in Tasks : \A q \in Custom :
        q < next => (seen[t] = q <=>
            /\ Named(t, q)
            /\ \A r \in Custom : q < r /\ r < next => ~Named(t, r))

Inv == InvToCome /\ InvDefault /\ InvMade /\ InvSeen /\ InvLast

\* Families stand for tasks.
LEMMA ExpandType == \A names : ExpandFamilies(names) \in SUBSET Tasks
BY DEF ExpandFamilies

\* The queue-making loop keeps its types.
THEOREM TypeCorrect == Spec => []TypeOK
<1> USE QueueConfigAssumption
<1>1. Init => TypeOK
  BY ExpandType DEF Init, TypeOK, Custom, QueueNames, Default, None
<1>2. TypeOK /\ [Next]_vars => TypeOK'
  BY DEF TypeOK, Next, vars, AssignMembers, Done, Custom, QueueNames, Default, None
<1>3. QED
  BY <1>1, <1>2, PTL DEF Spec

\* The loop of _make_indep keeps the invariant.
LEMMA InvHolds == Spec => []Inv
<1> USE QueueConfigAssumption
<1>1. Init => Inv
  <2> SUFFICES ASSUME Init PROVE Inv
    OBVIOUS
  <2>1. \A q \in Custom : q >= 1 /\ ~(q < next) /\ q # Default
    BY DEF Init, Custom, Default
  <2>2. \A q \in Custom : members[q] = ExpandFamilies(config[q])
    BY <2>1 DEF Init, Custom, QueueNames, Default
  <2>3. members[Default] = Tasks
    BY DEF Init, QueueNames, Default
  <2>4. \A t \in Tasks : seen[t] = None
    BY DEF Init
  <2>5. QED
    BY <2>1, <2>2, <2>3, <2>4
       DEF Inv, InvToCome, InvDefault, InvMade, InvSeen, InvLast, Named
<1>2. TypeOK /\ TypeOK' /\ Inv /\ [Next]_vars => Inv'
  <2> SUFFICES ASSUME TypeOK, TypeOK', Inv, [Next]_vars PROVE Inv'
    OBVIOUS
  <2>1. CASE AssignMembers
    <3>1. /\ next \in Custom /\ next' = next + 1 /\ next \in Nat
          /\ \A q \in Custom : q \in Nat /\ q # Default /\ q # None
          /\ \A t \in Tasks : seen[t] \in Custom \cup {None}
      BY <2>1 DEF AssignMembers, TypeOK, Custom, Default, None
    <3>2. \A t \in Tasks : \A q \in Custom : Named(t, q)' <=> Named(t, q)
      BY <2>1 DEF AssignMembers, Named, ExpandFamilies
    <3>3. \A t \in Tasks :
             seen'[t] = IF Named(t, next) THEN next ELSE seen[t]
      BY <2>1, <3>1 DEF AssignMembers, Inv, InvToCome
    <3>4. \A t \in Tasks : \A q \in Custom :
             t \in members'[q] <=> t \in members[q]
                                   /\ ~(Named(t, next) /\ seen[t] = q)
      BY <2>1, <3>1 DEF AssignMembers, Inv, InvToCome, QueueNames, Custom, Default
    <3>5. \A t \in Tasks : t \in members'[Default] <=>
                              t \in members[Default] /\ ~Named(t, next)
      BY <2>1, <3>1 DEF AssignMembers, Inv, InvToCome, QueueNames, Default
    <3>6. InvToCome'
      BY <3>1, <3>2, <3>4 DEF Inv, InvToCome, InvSeen
    <3>7. InvDefault'
      BY <3>1, <3>3, <3>5 DEF Inv, InvDefault
    <3>8. InvMade'
      BY <3>1, <3>3, <3>4 DEF Inv, InvToCome, InvMade, InvSeen
    <3>9. InvSeen'
      BY <3>1, <3>3 DEF Inv, InvSeen, Custom
    <3>10. InvLast'
      BY <3>1, <3>2, <3>3 DEF Inv, InvLast, InvSeen
    <3>11. QED
      BY <3>6, <3>7, <3>8, <3>9, <3>10 DEF Inv
  <2>2. CASE UNCHANGED vars
    BY <2>2 DEF vars, Inv, InvToCome, InvDefault, InvMade, InvSeen, InvLast,
                Named, ExpandFamilies
  <2>3. QED
    BY <2>1, <2>2 DEF Next, Done
<1>3. QED
  BY <1>1, <1>2, TypeCorrect, PTL DEF Spec

\* Every task ends up in exactly one queue, whatever the configuration: the
\* promise of _make_indep that a task can belong to one queue only.
THEOREM QueuesAreIndependent == Spec => []OneQueueEach
<1> USE QueueConfigAssumption
<1>1. TypeOK /\ Inv => OneQueueEach
  <2> SUFFICES ASSUME TypeOK, Inv, next > NQueues, NEW t \in Tasks
               PROVE \E q \in QueueNames :
                        t \in members[q]
                        /\ \A r \in QueueNames : t \in members[r] => r = q
    BY DEF OneQueueEach
  <2>0. next = NQueues + 1
    BY DEF TypeOK
  <2>1. CASE seen[t] = None
    <3>1. t \in members[Default]
      BY <2>1 DEF Inv, InvDefault
    <3>2. \A r \in QueueNames : t \in members[r] => r = Default
      BY <2>0, <2>1 DEF Inv, InvMade, QueueNames, Custom, Default, None
    <3>3. QED
      BY <3>1, <3>2 DEF QueueNames, Default
  <2>2. CASE seen[t] # None
    <3>1. seen[t] \in Custom
      BY <2>2 DEF TypeOK
    <3>2. t \in members[seen[t]]
      BY <2>0, <3>1 DEF Inv, InvMade, Custom
    <3>3. \A r \in QueueNames : t \in members[r] => r = seen[t]
      BY <2>0, <2>2 DEF Inv, InvMade, InvDefault, QueueNames, Custom, Default, None
    <3>4. QED
      BY <3>1, <3>2, <3>3 DEF QueueNames, Custom
  <2>3. QED
    BY <2>1, <2>2
<1>2. QED
  BY <1>1, TypeCorrect, InvHolds, PTL

\* A task is in a custom queue exactly if that queue is the last one that named
\* it: "the last assignment takes precedence".
THEOREM LastAssignment == Spec => []LastAssignmentWins
<1> USE QueueConfigAssumption
<1>1. TypeOK /\ Inv => LastAssignmentWins
  <2> SUFFICES ASSUME TypeOK, Inv, next > NQueues,
                      NEW t \in Tasks, NEW q \in Custom
               PROVE t \in members[q] <=>
                       /\ t \in ExpandFamilies(config[q])
                       /\ \A r \in (q + 1)..NQueues :
                              t \notin ExpandFamilies(config[r])
    BY DEF LastAssignmentWins
  <2>0. next = NQueues + 1
    BY DEF TypeOK
  <2>1. t \in members[q] <=> seen[t] = q
    BY <2>0 DEF Inv, InvMade, Custom
  <2>2. seen[t] = q <=>
          /\ t \in ExpandFamilies(config[q])
          /\ \A r \in Custom : q < r /\ r < next
                 => t \notin ExpandFamilies(config[r])
    BY <2>0 DEF Inv, InvLast, Named, Custom
  <2>3. (\A r \in Custom : q < r /\ r < next => t \notin ExpandFamilies(config[r]))
        <=> (\A r \in (q + 1)..NQueues : t \notin ExpandFamilies(config[r]))
    BY <2>0 DEF Custom
  <2>4. QED
    BY <2>1, <2>2, <2>3
<1>2. QED
  BY <1>1, TypeCorrect, InvHolds, PTL

-----------------------------------------------------------------------------
(* The numbers of flows. *)

\* Natural numbers have a least one.
LEMMA LeastExists ==
    ASSUME NEW S, S \subseteq Nat, S # {}
    PROVE  \E x \in S : \A y \in S : x <= y
<1> DEFINE R == {ss \in Nat \X Nat : ss[1] < ss[2]}
<1>1. IsWellFoundedOn(R, Nat)
  BY LessThan, NatLessThanWellFounded
<1>2. PICK x \in S : \A y \in S : ~(<<y, x>> \in R)
  BY <1>1, WFMin
<1>3. ASSUME NEW y \in S, y < x PROVE FALSE
  <2>1. <<y, x>> \in Nat \X Nat /\ <<y, x>>[1] < <<y, x>>[2]
    BY <1>3
  <2>2. QED
    BY <2>1, <1>2
<1>4. \A y \in S : x <= y
  BY <1>3
<1>5. QED
  BY <1>4

\* Bounded ones have a greatest.
LEMMA GreatestExists ==
    ASSUME NEW S, NEW b \in Nat, S \subseteq 0..b, S # {}
    PROVE  Max(S) \in S /\ \A y \in S : y <= Max(S)
<1> DEFINE T == {b - x : x \in S}
<1>1. \A x \in S : b - x \in Nat
  OBVIOUS
<1>2. T \subseteq Nat
  BY <1>1
<1>3. T # {}
  OBVIOUS
<1> HIDE DEF T
<1>4. PICK m \in T : \A y \in T : m <= y
  BY <1>2, <1>3, LeastExists
<1> USE DEF T
<1>5. PICK x \in S : m = b - x
  BY <1>4
<1>6. \A y \in S : y <= x
  <2> TAKE y \in S
  <2>1. b - y \in T
    OBVIOUS
  <2>2. QED
    BY <2>1, <1>4, <1>5
<1>7. QED
  BY <1>6 DEF Max

\* The counter is behind only numbers that are still known.
NumbersInv ==
    /\ flows \subseteq 1..MaxFlow /\ recorded \subseteq 1..MaxFlow
    /\ recorded # {} /\ counter \in 1..MaxFlow /\ restarts \in Nat
    /\ \A n \in recorded : n > counter => n \in flows

\* The next number is after the counter, is not known, and all between are.
LEMMA NewNumberFact ==
    ASSUME NumbersInv
    PROVE  /\ NewNumber \in (counter + 1)..(MaxFlow + 1) /\ NewNumber \notin flows
           /\ \A k \in (counter + 1)..(NewNumber - 1) : k \in flows
<1> DEFINE S == {n \in (counter + 1)..(MaxFlow + 1) : n \notin flows}
<1>1. MaxFlow \in Nat /\ counter \in Nat /\ counter <= MaxFlow
  BY FlowAssumption DEF NumbersInv
<1>2. MaxFlow + 1 \in S
  BY <1>1 DEF NumbersInv
<1>3. S \subseteq Nat
  BY <1>1
<1>4. PICK x \in S : \A y \in S : x <= y
  BY <1>2, <1>3, LeastExists
<1>5. \A k \in (counter + 1)..(x - 1) : k \in flows
  <2> TAKE k \in (counter + 1)..(x - 1)
  <2>1. k \in (counter + 1)..(MaxFlow + 1) /\ ~(x <= k)
    BY <1>1, <1>4
  <2>2. QED
    BY <1>4, <2>1
<1>6. x \in (counter + 1)..(MaxFlow + 1) /\ x \notin flows
  BY <1>4
<1> HIDE DEF S
<1>7. QED
  BY <1>5, <1>6 DEF NewNumber

\* The counter starts at the first flow.
LEMMA NumbersInit == FInit => NumbersInv
<1>1. 1 \in 1..MaxFlow
  BY FlowAssumption
<1>2. QED
  BY <1>1 DEF FInit, NumbersInv

\* A new flow takes the counter to an unrecorded number.
LEMMA NewFlowKeeps ==
    ASSUME NumbersInv, NewFlow
    PROVE  NumbersInv' /\ counter' \notin recorded
<1>1. PICK n : n = NewNumber
  OBVIOUS
<1>2. /\ n <= MaxFlow /\ counter' = n /\ flows' = flows \cup {n}
      /\ recorded' = recorded \cup {n}
  BY <1>1 DEF NewFlow, Known
<1>3. n \in (counter + 1)..(MaxFlow + 1) /\ n \notin flows
  BY <1>1, NewNumberFact
<1>4. counter \in Nat /\ MaxFlow \in Nat
  BY FlowAssumption DEF NumbersInv
<1>5. n \in 1..MaxFlow /\ n > counter
  BY <1>2, <1>3, <1>4
<1>6. \A k \in recorded : k > n => k > counter
  BY <1>4, <1>5 DEF NumbersInv
<1>7. QED
  BY <1>2, <1>3, <1>5, <1>6 DEF NumbersInv, NewFlow, Known

\* Every step keeps the invariant, and a number that is counted is new.
LEMMA NumbersNext ==
    ASSUME NumbersInv, [FNext]_fvars
    PROVE  NumbersInv' /\ (counter' # counter /\ restarts' = restarts
                             => counter' \notin recorded)
<1>1. CASE NewFlow
  BY <1>1, NewFlowKeeps
<1>2. CASE RestartFlows
  <2>1. restarts' = restarts + 1 /\ flows' = recorded \cap inPool
        /\ recorded' = recorded /\ counter' = Max(recorded)
    BY <1>2 DEF RestartFlows, LoadedCounter
  <2>2. restarts' \in Nat /\ restarts' # restarts
    BY <2>1 DEF NumbersInv
  <2>3. MaxFlow \in Nat /\ recorded \subseteq 0..MaxFlow /\ recorded # {}
    BY FlowAssumption DEF NumbersInv
  <2>4. Max(recorded) \in recorded /\ \A n \in recorded : n <= Max(recorded)
    BY <2>3, GreatestExists
  <2>5. PICK m \in recorded : m = Max(recorded) /\ \A n \in recorded : n <= m
    BY <2>4
  <2>6. \A n \in recorded : ~(n > m)
    <3> TAKE n \in recorded
    <3>1. n \in Int /\ m \in Int /\ n <= m
      BY <2>3, <2>5
    <3>2. QED
      BY <3>1
  <2>7. QED
    BY <2>1, <2>2, <2>5, <2>6 DEF NumbersInv
<1>3. ASSUME NEW n \in 1..MaxFlow, GivenFlow(n) \/ FlowEnds(n)
      PROVE  NumbersInv' /\ counter' = counter
  BY <1>3 DEF GivenFlow, FlowEnds, Known, NumbersInv
<1>4. CASE UNCHANGED fvars
  BY <1>4 DEF fvars, NumbersInv
<1>5. QED
  BY <1>1, <1>2, <1>3, <1>4 DEF FNext

\* Whatever flows are begun, named by the user, ended, and written, and however
\* often the scheduler restarts, the number that get_flow gives a new flow is
\* not that of any flow recorded in the database.
THEOREM NumbersAreNew == FSpec => NewIsNew
<1>1. NumbersInv /\ [FNext]_fvars =>
        NumbersInv' /\ [counter' # counter /\ restarts' = restarts
                          => counter' \notin recorded]_fvars
  BY NumbersNext
<1>2. QED
  BY <1>1, NumbersInit, PTL DEF FSpec, NewIsNew

-----------------------------------------------------------------------------
(* The private table of broadcasts. *)

IsSet == request # <<>> /\ request[1] = "set"
IsCancel == request # <<>> /\ request[1] = "cancel"

Typed ==
    /\ broadcasts \in Table /\ pri \in Table /\ ins \in Table /\ taken \in Queues
    /\ dels \subseteq Settings
    /\ \/ request = <<>>
       \/ \E s \in Settings, v \in Values : request = <<"set", s, v>>
       \/ \E S \in SUBSET Settings : request = <<"cancel", S>>
    /\ \/ expiry = <<>>
       \/ \E S \in SUBSET Settings : expiry = <<"cancel", S>>
    /\ writing \in {"no", "inserts", "execute"}

\* What the table will be once all that is taken and queued is executed.
Coming(s) ==
    IF ins[s] # NoValue THEN ins[s]
    ELSE IF taken.ins[s] # NoValue THEN taken.ins[s]
    ELSE IF s \in dels \cup taken.dels THEN NoValue ELSE pri[s]

\* And once what is not queued yet is, too.
Promised(s) ==
    IF IsSet /\ request[2] = s THEN request[3]
    ELSE IF IsCancel /\ s \in request[2] THEN NoValue
    ELSE IF expiry # <<>> /\ s \in expiry[2] THEN NoValue
    ELSE Coming(s)

\* As long as the threads did not meet: one thing is done at a time, and the
\* table will be what the settings are.
InSync ==
    /\ request = <<>> \/ expiry = <<>>
    /\ writing # "no" => request = <<>> /\ expiry = <<>> /\ dels = {}
    /\ writing = "no" => taken = NoItems
    /\ writing = "inserts" => taken.ins = Empty
    /\ writing = "execute" => ins = Empty
    /\ \A s \in Settings : broadcasts[s] = Promised(s)

TablesInv == Typed /\ (~raced => InSync)

\* The operators on tables, setting by setting.
LEMMA EmptyTable ==
    Empty \in Table /\ NoItems \in Queues /\ \A s \in Settings : Empty[s] = NoValue
BY DEF Empty, Table, NoItems, Queues

\* After a delete the settings are unset.
LEMMA DeleteFact ==
    ASSUME NEW t \in Table, NEW S
    PROVE  /\ Delete(t, S) \in Table
           /\ \A s \in Settings : Delete(t, S)[s] = IF s \in S THEN NoValue ELSE t[s]
BY DEF Delete, Table

\* After an insert the new values are there.
LEMMA InsertFact ==
    ASSUME NEW t \in Table, NEW new \in Table
    PROVE  /\ Insert(t, new) \in Table
           /\ \A s \in Settings : Insert(t, new)[s] = IF new[s] # NoValue THEN new[s] ELSE t[s]
BY DEF Insert, Table

\* An insert prevails over a delete of the same batch.
LEMMA ExecuteFact ==
    ASSUME NEW t \in Table, NEW q \in Queues
    PROVE  /\ Execute(t, q) \in Table
           /\ \A s \in Settings :
                Execute(t, q)[s] = IF q.ins[s] # NoValue THEN q.ins[s]
                                   ELSE IF s \in q.dels THEN NoValue ELSE t[s]
<1>1. q.ins \in Table
  BY DEF Queues
<1>2. PICK u \in Table : /\ u = Delete(t, q.dels)
                         /\ \A s \in Settings : u[s] = IF s \in q.dels THEN NoValue ELSE t[s]
  BY DeleteFact
<1>3. QED
  BY <1>1, <1>2, InsertFact DEF Execute

\* The three ways a request or an expiry is spoken of.
LEMMA RequestFact ==
    /\ <<>> # <<1>>
    /\ \A s, v : <<"set", s, v>> # <<>> /\ <<"set", s, v>>[1] = "set"
                 /\ <<"set", s, v>>[2] = s /\ <<"set", s, v>>[3] = v
    /\ \A S : <<"cancel", S>> # <<>> /\ <<"cancel", S>>[1] = "cancel" /\ <<"cancel", S>>[2] = S
OBVIOUS

\* Nothing is set or queued at first.
LEMMA TablesInit == BInit => TablesInv
<1> SUFFICES ASSUME BInit PROVE TablesInv
  OBVIOUS
<1>1. Typed
  BY EmptyTable DEF BInit, Typed
<1>2. InSync
  <2>1. \A s \in Settings : broadcasts[s] = Promised(s)
    BY EmptyTable DEF BInit, Promised, Coming, IsSet, IsCancel, NoItems
  <2>2. QED
    BY <2>1 DEF BInit, InSync
<1>3. QED
  BY <1>1, <1>2 DEF TablesInv

\* process_queued_ops takes the deletes: all is as promised still.
LEMMA TakeDeletesKeeps ==
    ASSUME TablesInv, TakeDeletes
    PROVE  TablesInv'
<1>1. /\ expiry = <<>> /\ writing = "no" /\ writing' = "inserts"
      /\ taken' = [NoItems EXCEPT !.dels = dels] /\ dels' = {}
      /\ raced' = (raced \/ request # <<>>)
      /\ UNCHANGED <<broadcasts, request, expiry, ins, pri>>
  BY DEF TakeDeletes
<1>2. taken' \in Queues /\ taken'.dels = dels /\ taken'.ins = Empty
  BY <1>1, EmptyTable DEF NoItems, Queues, TablesInv, Typed
<1>3. Typed'
  BY <1>1, <1>2 DEF TablesInv, Typed
<1>4. ASSUME ~raced' PROVE InSync'
  <2>1. request = <<>> /\ InSync /\ taken = NoItems
    BY <1>1, <1>4 DEF TablesInv, InSync
  <2>2. \A s \in Settings : Coming(s)' = Coming(s)
    BY <1>1, <1>2, <2>1, EmptyTable DEF Coming, NoItems
  <2>3. \A s \in Settings : broadcasts'[s] = Promised(s)'
    BY <1>1, <2>1, <2>2 DEF InSync, Promised, IsSet, IsCancel
  <2>4. QED
    BY <1>1, <1>2, <2>1, <2>3 DEF InSync
<1>5. QED
  BY <1>3, <1>4 DEF TablesInv

\* It takes the inserts.
LEMMA TakeInsertsKeeps ==
    ASSUME TablesInv, TakeInserts
    PROVE  TablesInv'
<1>1. /\ writing = "inserts" /\ writing' = "execute"
      /\ taken' = [taken EXCEPT !.ins = ins] /\ ins' = Empty
      /\ UNCHANGED <<broadcasts, request, expiry, dels, pri, raced>>
  BY DEF TakeInserts
<1>2. taken' \in Queues /\ taken'.dels = taken.dels /\ taken'.ins = ins
  BY <1>1 DEF Queues, TablesInv, Typed
<1>3. Typed'
  BY <1>1, <1>2, EmptyTable DEF TablesInv, Typed
<1>4. ASSUME ~raced' PROVE InSync'
  <2>1. request = <<>> /\ expiry = <<>> /\ dels = {} /\ InSync /\ taken.ins = Empty
    BY <1>1, <1>4 DEF TablesInv, InSync
  <2>2. \A s \in Settings : Coming(s)' = Coming(s)
    BY <1>1, <1>2, <2>1, EmptyTable DEF Coming
  <2>3. \A s \in Settings : broadcasts'[s] = Promised(s)'
    BY <1>1, <2>1, <2>2 DEF InSync, Promised, IsSet, IsCancel
  <2>4. QED
    BY <1>1, <1>2, <2>1, <2>3 DEF InSync
<1>5. QED
  BY <1>3, <1>4 DEF TablesInv

\* It executes them.
LEMMA ExecuteKeeps ==
    ASSUME TablesInv, NEW ok, ExecuteQueued(ok)
    PROVE  TablesInv'
<1>1. /\ writing = "execute" /\ writing' = "no"
      /\ pri' = Execute(pri, taken) /\ taken' = NoItems
      /\ UNCHANGED <<broadcasts, request, expiry, dels, ins, raced>>
  BY DEF ExecuteQueued
<1>2. /\ pri' \in Table
      /\ \A s \in Settings :
           pri'[s] = IF taken.ins[s] # NoValue THEN taken.ins[s]
                     ELSE IF s \in taken.dels THEN NoValue ELSE pri[s]
  BY <1>1, ExecuteFact DEF TablesInv, Typed
<1>3. Typed'
  BY <1>1, <1>2, EmptyTable DEF TablesInv, Typed
<1>4. ASSUME ~raced' PROVE InSync'
  <2>1. request = <<>> /\ expiry = <<>> /\ dels = {} /\ InSync /\ ins = Empty
    BY <1>1, <1>4 DEF TablesInv, InSync
  <2>2. \A s \in Settings : Coming(s)' = Coming(s)
    <3>1. NoItems.ins = Empty /\ NoItems.dels = {}
      BY DEF NoItems
    <3>2. QED
      BY <1>1, <1>2, <2>1, <3>1, EmptyTable DEF Coming
  <2>3. \A s \in Settings : broadcasts'[s] = Promised(s)'
    BY <1>1, <2>1, <2>2 DEF InSync, Promised, IsSet, IsCancel
  <2>4. QED
    BY <1>1, <2>1, <2>3 DEF InSync
<1>5. QED
  BY <1>3, <1>4 DEF TablesInv

\* A broadcast is set, to be queued.
LEMMA PutKeeps ==
    ASSUME TablesInv, NEW s \in Settings, NEW v \in Values, Put(s, v)
    PROVE  TablesInv'
<1>1. /\ request = <<>> /\ request' = <<"set", s, v>>
      /\ broadcasts' = [broadcasts EXCEPT ![s] = v]
      /\ raced' = (raced \/ writing # "no" \/ expiry # <<>>)
      /\ UNCHANGED <<expiry, dels, ins, taken, writing, pri>>
  BY DEF Put
<1>2. broadcasts \in Table /\ broadcasts' \in Table
      /\ \A t \in Settings : broadcasts'[t] = IF t = s THEN v ELSE broadcasts[t]
  BY <1>1 DEF TablesInv, Typed, Table
<1>3. Typed'
  BY <1>1, <1>2 DEF TablesInv, Typed
<1>4. ASSUME ~raced' PROVE InSync'
  <2>1. writing = "no" /\ expiry = <<>> /\ InSync
    BY <1>1, <1>4 DEF TablesInv
  <2>2. \A t \in Settings : Coming(t)' = Coming(t)
    BY <1>1 DEF Coming
  <2>3. \A t \in Settings : Promised(t) = Coming(t)
    BY <1>1, <2>1 DEF Promised, IsSet, IsCancel
  <2>4. \A t \in Settings : Promised(t)' = IF t = s THEN v ELSE Coming(t)
    BY <1>1, <2>1, <2>2, RequestFact DEF Promised, IsSet, IsCancel
  <2>5. \A t \in Settings : broadcasts'[t] = Promised(t)'
    BY <1>2, <2>1, <2>3, <2>4 DEF InSync
  <2>6. QED
    BY <1>1, <2>1, <2>5 DEF InSync
<1>5. QED
  BY <1>3, <1>4 DEF TablesInv

\* A set of settings is unset, and those of them that are set are to be
\* cancelled: by a request or by the main loop.
LEMMA UnsetFact ==
    ASSUME broadcasts \in Table, NEW S, S \subseteq Settings
    PROVE  /\ Unset(S) \in Table /\ SetIn(S) \in SUBSET Settings
           /\ \A t \in Settings :
                Unset(S)[t] = IF t \in SetIn(S) THEN NoValue ELSE broadcasts[t]
BY DeleteFact DEF Unset, SetIn

\* Settings are cleared by a request.
LEMMA ClearKeeps ==
    ASSUME TablesInv, NEW P, NEW N, P \X N \subseteq Settings, Clear(P, N)
    PROVE  TablesInv'
<1>1. PICK S : S = SetIn(P \X N)
  OBVIOUS
<1>2. /\ request = <<>> /\ request' = <<"cancel", S>>
      /\ broadcasts' = Unset(P \X N)
      /\ raced' = (raced \/ writing # "no" \/ expiry # <<>>)
      /\ UNCHANGED <<expiry, dels, ins, taken, writing, pri>>
  BY <1>1 DEF Clear
<1>3. /\ broadcasts' \in Table /\ S \in SUBSET Settings
      /\ \A t \in Settings : broadcasts'[t] = IF t \in S THEN NoValue ELSE broadcasts[t]
  BY <1>1, <1>2, UnsetFact DEF TablesInv, Typed
<1>4. Typed'
  BY <1>2, <1>3 DEF TablesInv, Typed
<1>5. ASSUME ~raced' PROVE InSync'
  <2>1. writing = "no" /\ expiry = <<>> /\ InSync
    BY <1>2, <1>5 DEF TablesInv
  <2>2. \A t \in Settings : Coming(t)' = Coming(t)
    BY <1>2 DEF Coming
  <2>3. \A t \in Settings : Promised(t) = Coming(t)
    BY <1>2, <2>1 DEF Promised, IsSet, IsCancel
  <2>4. \A t \in Settings : Promised(t)' = IF t \in S THEN NoValue ELSE Coming(t)
    <3>1. request' # <<>> /\ request'[1] = "cancel" /\ request'[2] = S
      BY <1>2, RequestFact
    <3>2. ~IsSet' /\ IsCancel'
      BY <3>1 DEF IsSet, IsCancel
    <3>3. QED
      BY <1>2, <2>1, <2>2, <3>1, <3>2 DEF Promised
  <2>5. \A t \in Settings : broadcasts'[t] = Promised(t)'
    BY <1>3, <2>1, <2>3, <2>4 DEF InSync
  <2>6. QED
    BY <1>2, <2>1, <2>5 DEF InSync
<1>6. QED
  BY <1>4, <1>5 DEF TablesInv

\* Settings expire in the main loop.
LEMMA ExpireKeeps ==
    ASSUME TablesInv, Expire
    PROVE  TablesInv'
<1>1. PICK S : S = SetIn(Expired)
  OBVIOUS
<1>2. /\ writing = "no" /\ expiry = <<>> /\ expiry' = <<"cancel", S>>
      /\ broadcasts' = Unset(Expired)
      /\ raced' = (raced \/ request # <<>>)
      /\ UNCHANGED <<request, dels, ins, taken, writing, pri>>
  BY <1>1 DEF Expire
<1>3. /\ broadcasts' \in Table /\ S \in SUBSET Settings
      /\ \A t \in Settings : broadcasts'[t] = IF t \in S THEN NoValue ELSE broadcasts[t]
  <2>1. Expired \subseteq Settings
    BY DEF Expired
  <2>2. QED
    BY <1>1, <1>2, <2>1, UnsetFact DEF TablesInv, Typed
<1>4. Typed'
  BY <1>2, <1>3 DEF TablesInv, Typed
<1>5. ASSUME ~raced' PROVE InSync'
  <2>1. request = <<>> /\ InSync
    BY <1>2, <1>5 DEF TablesInv
  <2>2. \A t \in Settings : Coming(t)' = Coming(t)
    BY <1>2 DEF Coming
  <2>3. ~IsSet /\ ~IsCancel /\ ~IsSet' /\ ~IsCancel'
    BY <1>2, <2>1 DEF IsSet, IsCancel
  <2>4. \A t \in Settings : Promised(t) = Coming(t)
    BY <1>2, <2>3 DEF Promised
  <2>5. \A t \in Settings : Promised(t)' = IF t \in S THEN NoValue ELSE Coming(t)
    BY <1>2, <2>2, <2>3, RequestFact DEF Promised
  <2>6. \A t \in Settings : broadcasts'[t] = Promised(t)'
    BY <1>3, <2>1, <2>4, <2>5 DEF InSync
  <2>7. QED
    BY <1>2, <2>1, <2>6 DEF InSync
<1>6. QED
  BY <1>4, <1>5 DEF TablesInv

\* A cancellation is queued: nothing that was queued before survives it.
LEMMA CancelFact ==
    ASSUME Typed, NEW S \in SUBSET Settings, QueueCancel(S), taken = NoItems,
           taken' = taken, pri' = pri
    PROVE  \A t \in Settings : Coming(t)' = IF t \in S THEN NoValue ELSE Coming(t)
<1>1. dels' = dels \cup S
      /\ \A t \in Settings : ins'[t] = IF t \in S THEN NoValue ELSE ins[t]
  BY DeleteFact DEF QueueCancel, Typed
<1>2. taken.dels = {} /\ \A t \in Settings : taken.ins[t] = NoValue
  BY EmptyTable DEF NoItems
<1>3. QED
  BY <1>1, <1>2 DEF Coming

\* What a request changed is queued.
LEMMA QueueKeeps ==
    ASSUME TablesInv, Queue
    PROVE  TablesInv'
<1>1. /\ request # <<>> /\ request' = <<>>
      /\ UNCHANGED <<broadcasts, expiry, taken, writing, pri, raced>>
  BY DEF Queue
<1>2. CASE \E s \in Settings, v \in Values : request = <<"set", s, v>>
  <2>1. PICK s \in Settings, v \in Values : request = <<"set", s, v>>
    BY <1>2
  <2>2. request[1] = "set" /\ request[2] = s /\ request[3] = v
    BY <2>1, RequestFact
  <2>3. ins' = [ins EXCEPT ![s] = v] /\ dels' = dels
    BY <2>2 DEF Queue, QueueSet
  <2>4. /\ ins' \in Table
        /\ \A t \in Settings : ins'[t] = IF t = s THEN v ELSE ins[t]
    BY <2>3 DEF TablesInv, Typed, Table
  <2>5. Typed'
    BY <1>1, <2>3, <2>4 DEF TablesInv, Typed
  <2>6. ASSUME ~raced' PROVE InSync'
    <3>1. writing = "no" /\ expiry = <<>> /\ InSync
      BY <1>1, <2>6 DEF TablesInv, InSync, Typed
    <3>2. v # NoValue
      BY BroadcastAssumption DEF NoValue
    <3>3. \A t \in Settings : Coming(t)' = IF t = s THEN v ELSE Coming(t)
      BY <1>1, <2>3, <2>4, <3>2 DEF Coming
    <3>4. \A t \in Settings : Promised(t) = IF t = s THEN v ELSE Coming(t)
      <4>1. IsSet /\ ~IsCancel
        BY <1>1, <2>2 DEF IsSet, IsCancel
      <4>2. QED
        BY <2>2, <3>1, <4>1 DEF Promised
    <3>5. \A t \in Settings : Promised(t)' = Coming(t)'
      BY <1>1, <3>1 DEF Promised, IsSet, IsCancel
    <3>6. \A t \in Settings : broadcasts'[t] = Promised(t)'
      BY <1>1, <3>1, <3>3, <3>4, <3>5 DEF InSync
    <3>7. QED
      BY <1>1, <3>1, <3>6 DEF InSync
  <2>7. QED
    BY <2>5, <2>6 DEF TablesInv
<1>3. CASE \E S \in SUBSET Settings : request = <<"cancel", S>>
  <2>1. PICK S \in SUBSET Settings : request = <<"cancel", S>>
    BY <1>3
  <2>2. request[1] = "cancel" /\ request[2] = S
    BY <2>1, RequestFact
  <2>3. QueueCancel(S)
    BY <2>2 DEF Queue
  <2>4. Typed'
    BY <1>1, <2>3, DeleteFact DEF TablesInv, Typed, QueueCancel
  <2>5. ASSUME ~raced' PROVE InSync'
    <3>1. writing = "no" /\ expiry = <<>> /\ InSync /\ taken = NoItems
      BY <1>1, <2>5 DEF TablesInv, InSync, Typed
    <3>2. \A t \in Settings : Coming(t)' = IF t \in S THEN NoValue ELSE Coming(t)
      BY <1>1, <2>3, <3>1, CancelFact DEF TablesInv
    <3>3. \A t \in Settings : Promised(t) = IF t \in S THEN NoValue ELSE Coming(t)
      <4>1. IsCancel /\ ~IsSet
        BY <1>1, <2>2 DEF IsSet, IsCancel
      <4>2. QED
        BY <2>2, <3>1, <4>1 DEF Promised
    <3>4. \A t \in Settings : Promised(t)' = Coming(t)'
      BY <1>1, <3>1 DEF Promised, IsSet, IsCancel
    <3>5. \A t \in Settings : broadcasts'[t] = Promised(t)'
      BY <1>1, <3>1, <3>2, <3>3, <3>4 DEF InSync
    <3>6. QED
      BY <1>1, <3>1, <3>5 DEF InSync
  <2>6. QED
    BY <2>4, <2>5 DEF TablesInv
<1>4. QED
  BY <1>1, <1>2, <1>3 DEF TablesInv, Typed

\* What expired is queued.
LEMMA QueueExpiryKeeps ==
    ASSUME TablesInv, QueueExpiry
    PROVE  TablesInv'
<1>1. /\ expiry # <<>> /\ expiry' = <<>> /\ QueueCancel(expiry[2])
      /\ UNCHANGED <<broadcasts, request, taken, writing, pri, raced>>
  BY DEF QueueExpiry
<1>2. PICK S \in SUBSET Settings : expiry = <<"cancel", S>>
  BY <1>1 DEF TablesInv, Typed
<1>3. expiry[2] = S /\ QueueCancel(S)
  BY <1>1, <1>2, RequestFact
<1>4. Typed'
  BY <1>1, <1>3, DeleteFact DEF TablesInv, Typed, QueueCancel
<1>5. ASSUME ~raced' PROVE InSync'
  <2>1. writing = "no" /\ request = <<>> /\ InSync /\ taken = NoItems
    BY <1>1, <1>5 DEF TablesInv, InSync, Typed
  <2>2. \A t \in Settings : Coming(t)' = IF t \in S THEN NoValue ELSE Coming(t)
    BY <1>1, <1>3, <2>1, CancelFact DEF TablesInv
  <2>3. ~IsSet /\ ~IsCancel /\ ~IsSet' /\ ~IsCancel'
    BY <1>1, <2>1 DEF IsSet, IsCancel
  <2>4. \A t \in Settings : Promised(t) = IF t \in S THEN NoValue ELSE Coming(t)
    BY <1>1, <1>3, <2>3 DEF Promised
  <2>5. \A t \in Settings : Promised(t)' = Coming(t)'
    BY <1>1, <2>3 DEF Promised
  <2>6. \A t \in Settings : broadcasts'[t] = Promised(t)'
    BY <1>1, <2>1, <2>2, <2>4, <2>5 DEF InSync
  <2>7. QED
    BY <1>1, <2>1, <2>6 DEF InSync
<1>6. QED
  BY <1>4, <1>5 DEF TablesInv

\* What the public database and the pool do changes nothing here.
LEMMA OthersKeep ==
    ASSUME TablesInv,
           UNCHANGED <<broadcasts, request, expiry, dels, ins, taken, writing, pri, raced>>
    PROVE  TablesInv'
<1>1. \A s \in Settings : Promised(s)' = Promised(s)
  BY DEF Promised, Coming, IsSet, IsCancel
<1>2. QED
  BY <1>1 DEF TablesInv, Typed, InSync

\* Every step keeps the invariant.
LEMMA TablesNext ==
    ASSUME TablesInv, [BNext]_bvars
    PROVE  TablesInv'
<1>1. CASE \E s \in Settings, v \in Values : Put(s, v)
  BY <1>1, PutKeeps
<1>2. ASSUME NEW P \in {{s[1]} : s \in Settings} \cup {0..LastCycle},
             NEW N \in {{s[2]} : s \in Settings} \cup {Range(Ancestry)}, Clear(P, N)
      PROVE  TablesInv'
  <2>1. P \subseteq 0..LastCycle /\ N \subseteq Range(Ancestry)
    BY DEF Settings
  <2>2. P \X N \subseteq Settings
    BY <2>1 DEF Settings
  <2>3. QED
    BY <1>2, <2>2, ClearKeeps
<1>3. CASE \E ok \in BOOLEAN : ExecuteQueued(ok)
  BY <1>3, ExecuteKeeps
<1>4. CASE TakeDeletes \/ TakeInserts \/ Queue \/ Expire \/ QueueExpiry
  BY <1>4, TakeDeletesKeeps, TakeInsertsKeeps, QueueKeeps, ExpireKeeps, QueueExpiryKeeps
<1>5. CASE RecoverPublic \/ MinPointMoves \/ UNCHANGED bvars
  BY <1>5, OthersKeep DEF RecoverPublic, MinPointMoves, bvars
<1>6. QED
  BY <1>1, <1>2, <1>3, <1>4, <1>5 DEF BNext

\* When nothing is pending the promise is the table.
LEMMA SyncFact == TablesInv => PriInSyncBut
<1> SUFFICES ASSUME TablesInv, Idle, ~raced PROVE pri = broadcasts
  BY DEF PriInSyncBut
<1>1. InSync /\ request = <<>> /\ expiry = <<>> /\ taken = NoItems /\ dels = {} /\ ins = Empty
  BY DEF TablesInv, Idle, InSync
<1>2. \A s \in Settings : Promised(s) = pri[s]
  BY <1>1, EmptyTable DEF Promised, Coming, IsSet, IsCancel, NoItems
<1>3. \A s \in Settings : broadcasts[s] = pri[s]
  BY <1>1, <1>2 DEF InSync
<1>4. pri \in Table /\ broadcasts \in Table
  BY DEF TablesInv, Typed
<1>5. QED
  BY <1>3, <1>4 DEF Table

\* However settings are put, cleared and expired, once everything queued is
\* executed the private table of broadcasts holds what BroadcastMgr holds,
\* unless the thread of a command and that of the main loop met.
THEOREM TablesInSync == BSpec => []PriInSyncBut
<1>1. TablesInv /\ [BNext]_bvars => TablesInv'
  BY TablesNext
<1>2. QED
  BY <1>1, TablesInit, SyncFact, PTL DEF BSpec

-----------------------------------------------------------------------------
(* The loop of a queue's release. *)

\* The positions after k of the tasks that are held, and of those that are not.
HeldAfter(d, h, k) == {j \in k+1..Len(d) : d[j] \in h}
FreeAfter(d, h, k) == {j \in k+1..Len(d) : d[j] \notin h}

\* A selection begins with the element at the first of its positions.
LEMMA SelectFirst ==
    ASSUME NEW S, NEW d \in Seq(S), NEW k \in 1..Len(d),
           NEW P \in SUBSET (k+1..Len(d))
    PROVE  Select(d, {k} \cup P) = <<d[k]>> \o Select(d, P)
<1> DEFINE Q == {k} \cup P
           c == Cardinality(P)
<1>1. Len(d) \in Nat /\ k \in Nat /\ d[k] \in S
  BY LenProperties, ElementOfSeq
<1>2. P \in SUBSET (1..Len(d)) /\ \A j \in P : j \in Nat /\ k < j
  BY <1>1
<1>3. Q \in SUBSET (1..Len(d)) /\ k \notin P /\ k \in Q
  BY <1>1, <1>2
<1>4. IsFiniteSet(P) /\ c \in Nat
  BY <1>1, <1>2, PositionsFinite
<1>5. IsFiniteSet(Q) /\ Cardinality(Q) = c + 1
  BY <1>3, <1>4, FS_AddElement
<1>6. Rank(Q, k) = 1
  <2>1. k <= k /\ \A j \in P : ~(j <= k)
    BY <1>1, <1>2
  <2>2. {j \in Q : j <= k} = {k}
    BY <2>1
  <2>3. QED
    BY <2>2, FS_Singleton DEF Rank
<1>7. ASSUME NEW i \in P PROVE Rank(Q, i) = Rank(P, i) + 1
  <2> DEFINE A == {j \in P : j <= i}
  <2>1. {j \in Q : j <= i} = A \cup {k}
    BY <1>1, <1>2
  <2>2. k \notin A /\ A \in SUBSET P
    BY <1>3
  <2>3. IsFiniteSet(A)
    BY <1>4, <2>2, FS_Subset
  <2>4. Cardinality(A \cup {k}) = Cardinality(A) + 1
    BY <2>2, <2>3, FS_AddElement
  <2>5. QED
    BY <2>1, <2>4 DEF Rank
<1> HIDE DEF Q
<1>in. P \in SUBSET (1..Len(d)) /\ Q \in SUBSET (1..Len(d)) /\ Len(d) \in Nat
  BY <1>1, <1>2, <1>3
<1>ranks. \A i, j \in Q : Rank(Q, i) = Rank(Q, j) => i = j
  BY <1>in, RankBijective
<1> DEFINE e == Select(d, Q)
           f == Select(d, P)
<1>8. /\ e \in Seq(S) /\ Len(e) = Cardinality(Q)
      /\ \A r \in 1..Cardinality(Q) : Position(Q, r) \in Q /\ e[r] = d[Position(Q, r)]
  BY <1>in, SelectFact
<1>9. /\ f \in Seq(S) /\ Len(f) = c
      /\ \A r \in 1..c : Position(P, r) \in P /\ f[r] = d[Position(P, r)]
  BY <1>in, SelectFact
<1> HIDE DEF e, f
<1>10. e[1] = d[k]
  <2>1. 1 \in 1..Cardinality(Q)
    BY <1>4, <1>5
  <2>2. Position(Q, 1) \in Q /\ Rank(Q, Position(Q, 1)) = 1
    BY <1>1, <1>3, <2>1, PositionFact
  <2>3. Position(Q, 1) = k
    BY <1>3, <1>6, <1>ranks, <2>2
  <2>4. QED
    BY <1>8, <2>1, <2>3
<1>11. ASSUME NEW r \in 1..c PROVE e[r + 1] = f[r]
  <2>1. Position(P, r) \in P /\ Rank(P, Position(P, r)) = r
    BY <1>1, <1>2, PositionFact
  <2>2. Rank(Q, Position(P, r)) = r + 1 /\ Position(P, r) \in Q
    BY <1>7, <2>1 DEF Q
  <2>3. r + 1 \in 1..Cardinality(Q)
    BY <1>4, <1>5
  <2>4. Position(Q, r + 1) \in Q /\ Rank(Q, Position(Q, r + 1)) = r + 1
    BY <1>1, <1>3, <2>3, PositionFact
  <2>5. Rank(Q, Position(Q, r + 1)) = Rank(Q, Position(P, r))
    BY <2>2, <2>4
  <2>6. Position(Q, r + 1) = Position(P, r)
    BY <1>ranks, <2>2, <2>4, <2>5
  <2>7. QED
    BY <1>8, <1>9, <2>3, <2>6
<1> DEFINE g == <<d[k]>> \o f
<1>12. /\ g \in Seq(S) /\ Len(g) = c + 1
       /\ \A i \in 1..c + 1 : g[i] = IF i <= 1 THEN d[k] ELSE f[i - 1]
  <2>1. <<d[k]>> \in Seq(S) /\ Len(<<d[k]>>) = 1 /\ <<d[k]>>[1] = d[k]
    BY <1>1
  <2>2. /\ g \in Seq(S) /\ Len(g) = 1 + c
        /\ \A i \in 1..1 + c : g[i] = IF i <= 1 THEN <<d[k]>>[i] ELSE f[i - 1]
    BY <1>9, <2>1, ConcatProperties
  <2>3. \A i \in 1..1 + c : i <= 1 => i = 1
    OBVIOUS
  <2> HIDE DEF g
  <2>4. QED
    BY <1>4, <2>1, <2>2, <2>3
<1> HIDE DEF g
<1>13. \A i \in 1..c + 1 : e[i] = g[i]
  <2> TAKE i \in 1..c + 1
  <2>1. CASE i <= 1
    BY <1>4, <1>10, <1>12, <2>1
  <2>2. CASE ~(i <= 1)
    <3>1. i - 1 \in 1..c /\ (i - 1) + 1 = i
      BY <1>4, <2>2
    <3>2. QED
      BY <1>11, <1>12, <2>2, <3>1
  <2>3. QED
    BY <2>1, <2>2
<1>14. e = g
  <2>1. Len(e) = Len(g) /\ \A i \in 1..Len(e) : e[i] = g[i]
    BY <1>5, <1>8, <1>12, <1>13
  <2>2. QED
    BY <1>8, <1>12, <2>1, SeqEqual
<1>15. QED
  BY <1>14 DEF e, f, g, Q

\* The first k elements of a list.
LEMMA PrefixFact ==
    ASSUME NEW S, NEW q, NEW k \in Nat, \A i \in 1..k : q[i] \in S
    PROVE  /\ SubSeq(q, 1, k) \in Seq(S) /\ Len(SubSeq(q, 1, k)) = k
           /\ \A i \in 1..k : SubSeq(q, 1, k)[i] = q[i]
<1> DEFINE f == SubSeq(q, 1, k)
<1>1. /\ f \in Seq(S) /\ Len(f) = IF 1 <= k THEN k - 1 + 1 ELSE 0
      /\ \A i \in 1..k - 1 + 1 : f[i] = q[1 + i - 1]
  BY SubSeqProperties
<1>2. Len(f) = k
  BY <1>1
<1>3. \A i \in 1..k : i \in 1..k - 1 + 1 /\ 1 + i - 1 = i
  OBVIOUS
<1> HIDE DEF f
<1>4. QED
  BY <1>1, <1>2, <1>3 DEF f

\* A selection of nothing is empty.
LEMMA SelectNone == ASSUME NEW d PROVE Select(d, {}) = <<>>
<1>1. Cardinality({}) = 0
  BY FS_EmptySet
<1>2. 1..Cardinality({}) = {}
  BY <1>1
<1>3. QED
  BY <1>2 DEF Select

\* The count of the first k numbers.
LEMMA UpTo == \A k \in Nat : Cardinality(1..k) = k
<1> TAKE k \in Nat
<1>1. Cardinality(1..k) = IF 1 > k THEN 0 ELSE k - 1 + 1
  BY FS_Interval
<1>2. QED
  BY <1>1

\* Selecting the first k positions takes the list up to k.
LEMMA SelectPrefix ==
    ASSUME NEW S, NEW d \in Seq(S), NEW k \in 0..Len(d)
    PROVE  Select(d, 1..k) = SubSeq(d, 1, k)
<1> DEFINE e == Select(d, 1..k)
           f == SubSeq(d, 1, k)
<1>1. Len(d) \in Nat /\ k \in Nat /\ \A i \in 1..Len(d) : d[i] \in S
  BY LenProperties, ElementOfSeq
<1>2. 1..k \in SUBSET (1..Len(d)) /\ Cardinality(1..k) = k
  <2>1. \A i \in 1..k : i \in 1..Len(d)
    BY <1>1
  <2>2. QED
    BY <1>1, <2>1, UpTo
<1>3. ASSUME NEW r \in 1..k PROVE Rank(1..k, r) = r
  <2>1. {j \in 1..k : j <= r} = 1..r
    BY <1>1
  <2>2. r \in Nat
    BY <1>1
  <2>3. QED
    BY <2>1, <2>2, UpTo DEF Rank
<1>4. ASSUME NEW r \in 1..k PROVE Position(1..k, r) = r
  <2>1. r \in 1..Cardinality(1..k)
    BY <1>2
  <2>2. Position(1..k, r) \in 1..k /\ Rank(1..k, Position(1..k, r)) = r
    BY <1>1, <1>2, <2>1, PositionFact
  <2>3. QED
    BY <1>3, <2>2
<1>5. /\ e \in Seq(S) /\ Len(e) = k
      /\ \A r \in 1..k : e[r] = d[r]
  <2>1. /\ e \in Seq(S) /\ Len(e) = Cardinality(1..k)
        /\ \A r \in 1..Cardinality(1..k) : e[r] = d[Position(1..k, r)]
    BY <1>2, SelectFact
  <2> HIDE DEF e
  <2>2. QED
    BY <1>2, <1>4, <2>1
<1>6. /\ f \in Seq(S) /\ Len(f) = k
      /\ \A r \in 1..k : f[r] = d[r]
  BY <1>1, PrefixFact
<1> HIDE DEF e, f
<1>7. e = f
  BY <1>5, <1>6, SeqEqual
<1>8. QED
  BY <1>7 DEF e, f

\* The reverse of a list.
LEMMA ReverseFact ==
    ASSUME NEW S, NEW s \in Seq(S)
    PROVE  /\ Reverse(s) \in Seq(S) /\ Len(Reverse(s)) = Len(s)
           /\ \A i \in 1..Len(s) : Reverse(s)[i] = s[Len(s) - i + 1]
<1>1. Len(s) \in Nat /\ \A i \in 1..Len(s) : s[i] \in S
  BY LenProperties, ElementOfSeq
<1>2. \A i \in 1..Len(s) : (Len(s) - i) + 1 \in 1..Len(s)
  BY <1>1
<1>3. \A i \in 1..Len(s) : s[(Len(s) - i) + 1] \in S
  BY <1>1, <1>2
<1>4. [i \in 1..Len(s) |-> s[(Len(s) - i) + 1]] \in [1..Len(s) -> S]
  BY <1>3
<1>5. Reverse(s) \in Seq(S) /\ Len(Reverse(s)) = Len(s)
  BY <1>1, <1>4 DEF Reverse
<1>6. QED
  BY <1>5 DEF Reverse

\* The reverse of a list that grows at its end, or shrinks at its head.
LEMMA ReverseAppend ==
    ASSUME NEW S, NEW s \in Seq(S), NEW x \in S
    PROVE  Reverse(Append(s, x)) = <<x>> \o Reverse(s)
<1> DEFINE t == Append(s, x)
           e == Reverse(t)
           f == Reverse(s)
           g == <<x>> \o f
<1>1. Len(s) \in Nat
  BY LenProperties
<1>2. /\ t \in Seq(S) /\ Len(t) = Len(s) + 1
      /\ \A i \in 1..Len(s) : t[i] = s[i]
      /\ t[Len(s) + 1] = x
  BY AppendProperties
<1>3. /\ f \in Seq(S) /\ Len(f) = Len(s)
      /\ \A i \in 1..Len(s) : f[i] = s[Len(s) - i + 1]
  BY ReverseFact
<1> HIDE DEF t, f
<1>4. /\ e \in Seq(S) /\ Len(e) = Len(s) + 1
      /\ \A i \in 1..Len(s) + 1 : e[i] = t[Len(t) - i + 1]
  BY <1>2, ReverseFact
<1>5. /\ g \in Seq(S) /\ Len(g) = Len(s) + 1
      /\ \A i \in 1..Len(s) + 1 : g[i] = IF i <= 1 THEN x ELSE f[i - 1]
  <2>1. <<x>> \in Seq(S) /\ Len(<<x>>) = 1 /\ <<x>>[1] = x
    OBVIOUS
  <2>2. /\ g \in Seq(S) /\ Len(g) = 1 + Len(s)
        /\ \A i \in 1..1 + Len(s) : g[i] = IF i <= 1 THEN <<x>>[i] ELSE f[i - 1]
    BY <1>3, <2>1, ConcatProperties
  <2>3. \A i \in 1..1 + Len(s) : i <= 1 => i = 1
    OBVIOUS
  <2> HIDE DEF g
  <2>4. QED
    BY <1>1, <2>1, <2>2, <2>3
<1> HIDE DEF e, g
<1>6. \A i \in 1..Len(s) + 1 : e[i] = g[i]
  <2> TAKE i \in 1..Len(s) + 1
  <2>1. CASE i <= 1
    <3>1. i = 1 /\ Len(t) - i + 1 = Len(s) + 1
      BY <1>1, <1>2, <2>1
    <3>2. QED
      BY <1>2, <1>4, <1>5, <3>1
  <2>2. CASE ~(i <= 1)
    <3>1. /\ i - 1 \in 1..Len(s) /\ Len(t) - i + 1 \in 1..Len(s)
          /\ Len(t) - i + 1 = Len(s) - (i - 1) + 1
      BY <1>1, <1>2, <2>2
    <3>2. QED
      BY <1>2, <1>3, <1>4, <1>5, <2>2, <3>1
  <2>3. QED
    BY <2>1, <2>2
<1>7. e = g
  BY <1>4, <1>5, <1>6, SeqEqual
<1>8. QED
  BY <1>7 DEF e, f, g, t

\* The first element of a sequence comes last in reverse.
LEMMA ReverseTail ==
    ASSUME NEW S, NEW s \in Seq(S), s # <<>>
    PROVE  /\ Head(s) \in S /\ Tail(s) \in Seq(S)
           /\ Reverse(s) = Reverse(Tail(s)) \o <<Head(s)>>
<1> DEFINE t == Tail(s)
           e == Reverse(s)
           f == Reverse(t)
           x == Head(s)
           g == f \o <<x>>
<1>1. Len(s) \in Nat /\ Len(s) # 0
  BY LenProperties, EmptySeq
<1>2. /\ x \in S /\ t \in Seq(S) /\ Len(t) = Len(s) - 1
      /\ \A i \in 1..Len(t) : t[i] = s[i + 1]
  BY HeadTailProperties
<1>3. x = s[1]
  BY <1>1
<1> HIDE DEF t, x
<1>4. /\ f \in Seq(S) /\ Len(f) = Len(s) - 1
      /\ \A i \in 1..Len(t) : f[i] = t[Len(t) - i + 1]
  BY <1>2, ReverseFact
<1>5. /\ e \in Seq(S) /\ Len(e) = Len(s)
      /\ \A i \in 1..Len(s) : e[i] = s[Len(s) - i + 1]
  BY ReverseFact
<1> HIDE DEF f
<1>6. /\ g \in Seq(S) /\ Len(g) = Len(s)
      /\ \A i \in 1..Len(s) : g[i] = IF i <= Len(s) - 1 THEN f[i] ELSE x
  <2>1. <<x>> \in Seq(S) /\ Len(<<x>>) = 1 /\ <<x>>[1] = x
    BY <1>2
  <2>2. /\ g \in Seq(S) /\ Len(g) = (Len(s) - 1) + 1
        /\ \A i \in 1..(Len(s) - 1) + 1 :
             g[i] = IF i <= Len(s) - 1 THEN f[i] ELSE <<x>>[i - (Len(s) - 1)]
    BY <1>4, <2>1, ConcatProperties
  <2>3. (Len(s) - 1) + 1 = Len(s)
        /\ \A i \in 1..Len(s) : ~(i <= Len(s) - 1) => i - (Len(s) - 1) = 1
    BY <1>1
  <2> HIDE DEF g
  <2>4. QED
    BY <2>1, <2>2, <2>3
<1> HIDE DEF e, g
<1>7. \A i \in 1..Len(s) : e[i] = g[i]
  <2> TAKE i \in 1..Len(s)
  <2>1. CASE i <= Len(s) - 1
    <3>1. i \in 1..Len(t) /\ Len(t) - i + 1 \in 1..Len(t)
          /\ (Len(t) - i + 1) + 1 = Len(s) - i + 1
      BY <1>1, <1>2, <2>1
    <3>2. QED
      BY <1>2, <1>4, <1>5, <1>6, <2>1, <3>1
  <2>2. CASE ~(i <= Len(s) - 1)
    <3>1. Len(s) - i + 1 = 1
      BY <1>1, <2>2
    <3>2. QED
      BY <1>3, <1>5, <1>6, <2>2, <3>1
  <2>3. QED
    BY <2>1, <2>2
<1>8. e = g
  BY <1>5, <1>6, <1>7, SeqEqual
<1>9. QED
  BY <1>2, <1>8 DEF e, f, g, t, x

\* The last of the first k elements, and the rest of them.
LEMMA FrontFact ==
    ASSUME NEW S, NEW d \in Seq(S), NEW k \in 1..Len(d)
    PROVE  LET q == SubSeq(d, 1, k)
           IN  /\ q \in Seq(S) /\ Len(q) = k /\ Last(q) = d[k]
               /\ Front(q) = SubSeq(d, 1, k - 1) /\ Front(q) \in Seq(S) /\ Len(Front(q)) = k - 1
<1> DEFINE q == SubSeq(d, 1, k)
<1>1. Len(d) \in Nat /\ k \in Nat /\ \A i \in 1..Len(d) : d[i] \in S
  BY LenProperties, ElementOfSeq
<1>2. \A i \in 1..k : i \in 1..Len(d)
  BY <1>1
<1>3. /\ q \in Seq(S) /\ Len(q) = k
      /\ \A i \in 1..k : q[i] = d[i]
  BY <1>1, <1>2, PrefixFact
<1> HIDE DEF q
<1>4. k - 1 \in 0..Len(d) /\ k \in 1..k
  BY <1>1
<1>5. Last(q) = d[k]
  BY <1>3, <1>4 DEF Last
<1> DEFINE f == SubSeq(q, 1, k - 1)
           g == SubSeq(d, 1, k - 1)
<1>6. /\ f \in Seq(S) /\ Len(f) = k - 1
      /\ \A i \in 1..k - 1 : f[i] = q[i]
  <2>1. k - 1 \in Nat /\ \A i \in 1..k - 1 : q[i] \in S
    BY <1>1, <1>2, <1>3
  <2>2. QED
    BY <2>1, PrefixFact
<1>7. /\ g \in Seq(S) /\ Len(g) = k - 1
      /\ \A i \in 1..k - 1 : g[i] = d[i]
  <2>1. k - 1 \in Nat /\ \A i \in 1..k - 1 : d[i] \in S
    BY <1>1, <1>2
  <2>2. QED
    BY <2>1, PrefixFact
<1>8. \A i \in 1..k - 1 : q[i] = d[i]
  BY <1>1, <1>3
<1> HIDE DEF f, g
<1>9. f = g
  <2>1. Len(f) = Len(g) /\ \A i \in 1..Len(f) : f[i] = g[i]
    BY <1>6, <1>7, <1>8
  <2>2. QED
    BY <1>6, <1>7, <2>1, SeqEqual
<1>10. Front(q) = f
  BY <1>3 DEF Front, f
<1>11. QED
  BY <1>3, <1>5, <1>6, <1>9, <1>10 DEF g, q

\* The positions after k.
LEMMA AfterFact ==
    ASSUME NEW S, NEW d \in Seq(S), NEW h, NEW k \in 0..Len(d)
    PROVE  /\ HeldAfter(d, h, k) \in SUBSET (k+1..Len(d))
           /\ FreeAfter(d, h, k) \in SUBSET (k+1..Len(d))
           /\ IsFiniteSet(FreeAfter(d, h, k)) /\ Cardinality(FreeAfter(d, h, k)) \in Nat
<1>1. Len(d) \in Nat /\ k \in Nat
  BY LenProperties
<1>2. HeldAfter(d, h, k) \in SUBSET (k+1..Len(d)) /\ FreeAfter(d, h, k) \in SUBSET (k+1..Len(d))
  BY DEF HeldAfter, FreeAfter
<1>3. \A j \in k+1..Len(d) : j \in 1..Len(d)
  BY <1>1
<1>4. FreeAfter(d, h, k) \in SUBSET (1..Len(d))
  BY <1>2, <1>3
<1>5. QED
  BY <1>1, <1>2, <1>4, PositionsFinite

\* One position more.
LEMMA AfterGrows ==
    ASSUME NEW S, NEW d \in Seq(S), NEW h, NEW k \in 1..Len(d)
    PROVE  /\ d[k] \in h => /\ HeldAfter(d, h, k - 1) = {k} \cup HeldAfter(d, h, k)
                            /\ FreeAfter(d, h, k - 1) = FreeAfter(d, h, k)
           /\ d[k] \notin h => /\ HeldAfter(d, h, k - 1) = HeldAfter(d, h, k)
                               /\ FreeAfter(d, h, k - 1) = {k} \cup FreeAfter(d, h, k)
                               /\ Cardinality(FreeAfter(d, h, k - 1))
                                    = Cardinality(FreeAfter(d, h, k)) + 1
<1>1. Len(d) \in Nat /\ k \in Nat
  BY LenProperties
<1>2. (k - 1)+1..Len(d) = {k} \cup (k+1..Len(d)) /\ k \notin k+1..Len(d)
  BY <1>1
<1>3. d[k] \in h => /\ HeldAfter(d, h, k - 1) = {k} \cup HeldAfter(d, h, k)
                    /\ FreeAfter(d, h, k - 1) = FreeAfter(d, h, k)
  BY <1>2 DEF HeldAfter, FreeAfter
<1>4. d[k] \notin h => /\ HeldAfter(d, h, k - 1) = HeldAfter(d, h, k)
                       /\ FreeAfter(d, h, k - 1) = {k} \cup FreeAfter(d, h, k)
  BY <1>2 DEF HeldAfter, FreeAfter
<1>5. k \in 0..Len(d)
  BY <1>1
<1>6. IsFiniteSet(FreeAfter(d, h, k)) /\ k \notin FreeAfter(d, h, k)
  BY <1>2, <1>5, AfterFact
<1>7. Cardinality(FreeAfter(d, h, k) \cup {k}) = Cardinality(FreeAfter(d, h, k)) + 1
  BY <1>6, FS_AddElement
<1>8. FreeAfter(d, h, k) \cup {k} = {k} \cup FreeAfter(d, h, k)
  OBVIOUS
<1>9. QED
  BY <1>3, <1>4, <1>7, <1>8

\* The loop ends where the positions that are popped begin.
LEMMA PoppedFact ==
    ASSUME NEW S, NEW d \in Seq(S), NEW h, NEW lim \in Nat, NEW n \in Nat,
           NEW k \in 0..Len(d),
           k+1..Len(d) \subseteq Popped(d, lim, n, h),
           k = 0 \/ (lim # 0 /\ n + Cardinality(FreeAfter(d, h, k)) >= lim)
    PROVE  /\ Released(d, lim, n, h) = {d[i] : i \in FreeAfter(d, h, k)}
           /\ AfterRelease(d, lim, n, h)
                = Select(d, HeldAfter(d, h, k)) \o SubSeq(d, 1, k)
<1>1. Len(d) \in Nat /\ k \in Nat /\ k <= Len(d)
  BY LenProperties
<1>2. ASSUME NEW i \in Popped(d, lim, n, h) PROVE i \in k+1..Len(d)
  <2>1. i \in 1..Len(d) /\ IsPopped(d, i, lim, n, h)
    BY DEF Popped
  <2>2. CASE i <= k
    <3> DEFINE A == FreeAfter(d, h, i)
               B == FreeAfter(d, h, k)
    <3>1. k # 0 /\ i \in 0..Len(d)
      BY <1>1, <2>1, <2>2
    <3>2. lim # 0 /\ n + Cardinality(B) >= lim
      BY <3>1
    <3>3. n + Cardinality(A) < lim
      BY <2>1, <3>2 DEF IsPopped, FreeAfter
    <3>4. \A j \in k+1..Len(d) : j \in i+1..Len(d)
      BY <1>1, <2>1, <2>2
    <3>5. B \in SUBSET A
      BY <3>4 DEF FreeAfter
    <3>6. IsFiniteSet(A) /\ Cardinality(A) \in Nat /\ Cardinality(B) \in Nat
      BY <3>1, AfterFact
    <3> HIDE DEF A, B
    <3>7. Cardinality(B) <= Cardinality(A)
      BY <3>5, <3>6, FS_Subset
    <3>8. QED
      BY <3>2, <3>3, <3>6, <3>7
  <2>3. CASE ~(i <= k)
    BY <1>1, <2>1, <2>3
  <2>4. QED
    BY <2>2, <2>3
<1>3. Popped(d, lim, n, h) = k+1..Len(d)
  BY <1>2
<1>4. Released(d, lim, n, h) = {d[i] : i \in FreeAfter(d, h, k)}
  BY <1>3 DEF Released, FreeAfter
<1>5. (1..Len(d)) \ (k+1..Len(d)) = 1..k
  BY <1>1
<1>6. AfterRelease(d, lim, n, h) = Select(d, HeldAfter(d, h, k)) \o Select(d, 1..k)
  BY <1>3, <1>5 DEF AfterRelease, HeldAfter
<1>7. QED
  BY <1>4, <1>6, SelectPrefix

\* One element more.
LEMMA AppendFact ==
    ASSUME NEW S, NEW r \in Seq(S), NEW x \in S
    PROVE  /\ Append(r, x) \in Seq(S) /\ Len(Append(r, x)) = Len(r) + 1
           /\ ToSet(Append(r, x)) = ToSet(r) \cup {x}
<1> DEFINE s == Append(r, x)
<1>1. Len(r) \in Nat /\ DOMAIN r = 1..Len(r)
  BY LenProperties
<1>2. /\ s \in Seq(S) /\ Len(s) = Len(r) + 1
      /\ \A i \in 1..Len(r) : s[i] = r[i]
      /\ s[Len(r) + 1] = x
  BY AppendProperties
<1>3. DOMAIN s = 1..Len(s)
  BY <1>2, LenProperties
<1> HIDE DEF s
<1>4. DOMAIN s = (1..Len(r)) \cup {Len(r) + 1}
  BY <1>1, <1>2, <1>3
<1>5. ToSet(s) = ToSet(r) \cup {x}
  BY <1>1, <1>2, <1>4 DEF ToSet
<1>6. QED
  BY <1>2, <1>5 DEF s

\* The released tasks are from the oldest on.
OldestFirst(d, r) ==
    \A i, j \in 1..Len(d), k, l \in 1..Len(r) :
       d[i] = r[k] /\ d[j] = r[l] /\ k < l => i > j

\* What is popped after all that were released comes after them.
LEMMA OrderKept ==
    ASSUME NEW S, NEW d \in Seq(S), NEW r \in Seq(S), NEW k \in 1..Len(d), NEW F,
           F \in SUBSET (k+1..Len(d)),
           \A i, j \in 1..Len(d) : d[i] = d[j] => i = j,
           ToSet(r) = {d[i] : i \in F}, OldestFirst(d, r)
    PROVE  OldestFirst(d, Append(r, d[k]))
<1> DEFINE s == Append(r, d[k])
<1>1. /\ Len(d) \in Nat /\ k \in Nat /\ Len(r) \in Nat /\ d[k] \in S
      /\ DOMAIN r = 1..Len(r)
  BY LenProperties, ElementOfSeq
<1>2. /\ s \in Seq(S) /\ Len(s) = Len(r) + 1
      /\ \A i \in 1..Len(r) : s[i] = r[i]
      /\ s[Len(r) + 1] = d[k]
  BY <1>1, AppendProperties
<1> HIDE DEF s
<1>6. \A a \in 1..Len(r) : \E i \in F : r[a] = d[i]
  BY <1>1 DEF ToSet
<1>7. \A i \in F : i \in 1..Len(d) /\ i > k
  BY <1>1
<1>8. ASSUME NEW i \in 1..Len(d), NEW j \in 1..Len(d), NEW a \in 1..Len(s), NEW b \in 1..Len(s),
             d[i] = s[a], d[j] = s[b], a < b
      PROVE  i > j
  <2>1. a \in 1..Len(r) /\ (b \in 1..Len(r) \/ b = Len(r) + 1)
    BY <1>1, <1>2, <1>8
  <2>2. CASE b \in 1..Len(r)
    BY <1>2, <1>8, <2>1, <2>2 DEF OldestFirst
  <2>3. CASE b = Len(r) + 1
    <3>1. PICK m \in F : r[a] = d[m]
      BY <1>6, <2>1
    <3>2. m = i
      BY <1>2, <1>7, <1>8, <2>1, <3>1
    <3>3. j = k
      BY <1>2, <1>8, <2>3
    <3>4. QED
      BY <1>7, <3>2, <3>3
  <2>4. QED
    BY <2>1, <2>2, <2>3
<1>9. OldestFirst(d, s)
  BY <1>8 DEF OldestFirst
<1>10. QED
  BY <1>9 DEF s

\* The call, the locals, and no task twice in the deque.
LoopType ==
    /\ deque0 \in Seq(QTasks) /\ limit \in Nat /\ active0 \in Nat
    /\ deque \in Seq(QTasks) /\ released \in Seq(QTasks) /\ held \in Seq(QTasks)
    /\ pc \in {"pop", "put back", "done"}
    /\ \A i, j \in 1..Len(deque0) : deque0[i] = deque0[j] => i = j

\* While tasks are popped: what is left of the deque is its beginning, what was
\* popped is counted and sorted into the two lists.
Popping(k) ==
    /\ k \in 0..Len(deque0)
    /\ deque = SubSeq(deque0, 1, k)
    /\ nActive = active0 + Cardinality(FreeAfter(deque0, isHeld, k))
    /\ k+1..Len(deque0) \subseteq Popped(deque0, limit, active0, isHeld)
    /\ Reverse(held) = Select(deque0, HeldAfter(deque0, isHeld, k))
    /\ ToSet(released) = {deque0[i] : i \in FreeAfter(deque0, isHeld, k)}

\* When the held tasks are put back: once all are, the deque is as it should be.
PuttingBack ==
    /\ ToSet(released) = Released(deque0, limit, active0, isHeld)
    /\ Reverse(held) \o deque = AfterRelease(deque0, limit, active0, isHeld)

LoopInv ==
    /\ LoopType
    /\ OldestFirst(deque0, released)
    /\ pc = "pop" => Popping(Len(deque))
    /\ pc # "pop" => PuttingBack
    /\ pc = "done" => held = <<>>

\* The call of release.
LEMMA LoopInit == RelInit => LoopInv
<1> SUFFICES ASSUME RelInit PROVE LoopInv
  OBVIOUS
<1>1. /\ deque0 \in Seq(QTasks)
      /\ \A i, j \in 1..Len(deque0) : deque0[i] = deque0[j] => i = j
  <2>1. PICK n \in 0..MaxLen : deque0 \in [1..n -> QTasks] /\ IsInjective(deque0)
    BY DEF RelInit, Deques
  <2>2. n \in Nat
    BY QueueReleaseAssumption
  <2>3. deque0 \in Seq(QTasks) /\ Len(deque0) = n /\ DOMAIN deque0 = 1..n
    BY <2>1, <2>2
  <2>4. QED
    BY <2>1, <2>3 DEF IsInjective
<1>2. limit \in Nat /\ active0 \in Nat
  BY QueueReleaseAssumption DEF RelInit
<1>3. /\ deque = deque0 /\ nActive = active0 /\ released = <<>> /\ held = <<>>
      /\ pc = "pop"
  BY DEF RelInit
<1>4. LoopType
  BY <1>1, <1>2, <1>3 DEF LoopType
<1>5. Len(released) = 0 /\ ToSet(released) = {}
  BY <1>3 DEF ToSet
<1>6. OldestFirst(deque0, released)
  BY <1>5 DEF OldestFirst
<1>7. Len(deque0) \in Nat
  BY <1>1, LenProperties
<1>8. Popping(Len(deque))
  <2>1. Len(deque) \in 0..Len(deque0) /\ deque = SubSeq(deque0, 1, Len(deque))
    BY <1>1, <1>3, <1>7, SubSeqFull
  <2>2. Len(deque)+1..Len(deque0) = {}
    BY <1>3, <1>7
  <2>3. /\ HeldAfter(deque0, isHeld, Len(deque)) = {}
        /\ FreeAfter(deque0, isHeld, Len(deque)) = {}
    BY <2>2 DEF HeldAfter, FreeAfter
  <2>4. nActive = active0 + Cardinality({})
    BY <1>2, <1>3, FS_EmptySet
  <2>5. Reverse(held) = <<>>
    <3>1. Len(held) = 0 /\ 1..0 = {}
      BY <1>3
    <3>2. QED
      BY <3>1 DEF Reverse
  <2>6. QED
    BY <1>5, <2>1, <2>2, <2>3, <2>4, <2>5, SelectNone DEF Popping
<1>9. QED
  BY <1>3, <1>4, <1>6, <1>8 DEF LoopInv

\* A turn of the while loop.
LEMMA PopKeeps == ASSUME LoopInv, Pop PROVE LoopInv'
<1>k. PICK k : k = Len(deque)
  OBVIOUS
<1>x. PICK x : x = deque0[k]
  OBVIOUS
<1>1. /\ LoopType /\ OldestFirst(deque0, released) /\ Popping(k)
      /\ pc = "pop" /\ (limit = 0 \/ nActive < limit) /\ deque # <<>>
  BY <1>k DEF LoopInv, Pop
<1>2. /\ deque0 \in Seq(QTasks) /\ limit \in Nat /\ active0 \in Nat
      /\ released \in Seq(QTasks) /\ held \in Seq(QTasks)
  BY <1>1 DEF LoopType
<1>3. k \in 1..Len(deque0) /\ k \in 0..Len(deque0) /\ x \in QTasks
  <2>1. k # 0
    BY <1>1, <1>k, EmptySeq DEF LoopType
  <2>2. k \in 0..Len(deque0) /\ Len(deque0) \in Nat
    BY <1>1, <1>2, LenProperties DEF Popping
  <2>3. k \in 1..Len(deque0)
    BY <2>1, <2>2
  <2>4. QED
    BY <1>2, <1>x, <2>2, <2>3, ElementOfSeq
<1>d. PICK d \in Seq(QTasks) : d = deque0
  BY <1>2
<1>h. PICK h : h = isHeld
  OBVIOUS
<1>in. k \in 1..Len(d) /\ k \in 0..Len(d) /\ x = d[k] /\ x \in QTasks
  BY <1>3, <1>d, <1>x
<1>kd. k \in 1..Len(d)
  BY <1>in
<1>4. /\ Last(deque) = x /\ Front(deque) = SubSeq(d, 1, k - 1)
      /\ Front(deque) \in Seq(QTasks) /\ Len(Front(deque)) = k - 1
  <2>1. deque = SubSeq(d, 1, k)
    BY <1>1, <1>d DEF Popping
  <2>2. LET q == SubSeq(d, 1, k)
        IN  /\ Last(q) = d[k] /\ Front(q) = SubSeq(d, 1, k - 1)
            /\ Front(q) \in Seq(QTasks) /\ Len(Front(q)) = k - 1
    BY <1>in, FrontFact
  <2>3. QED
    BY <1>in, <2>1, <2>2
<1>5. /\ deque' = SubSeq(d, 1, k - 1) /\ deque' \in Seq(QTasks)
      /\ Len(deque') = k - 1
      /\ deque0' = d /\ limit' = limit /\ active0' = active0
      /\ isHeld' = h /\ pc' = "pop"
  BY <1>1, <1>4, <1>d, <1>h DEF Pop, call
<1>6. IF x \in h
      THEN /\ held' = Append(held, x) /\ released' = released /\ nActive' = nActive
      ELSE /\ released' = Append(released, x) /\ nActive' = nActive + 1
           /\ held' = held
  BY <1>4, <1>h DEF Pop
<1>7. /\ nActive = active0 + Cardinality(FreeAfter(d, h, k))
      /\ k+1..Len(d) \subseteq Popped(d, limit, active0, h)
      /\ Reverse(held) = Select(d, HeldAfter(d, h, k))
      /\ ToSet(released) = {d[i] : i \in FreeAfter(d, h, k)}
  BY <1>1, <1>d, <1>h DEF Popping
<1>8. /\ HeldAfter(d, h, k) \in SUBSET (k+1..Len(d))
      /\ FreeAfter(d, h, k) \in SUBSET (k+1..Len(d))
      /\ Cardinality(FreeAfter(d, h, k)) \in Nat
  BY <1>in, AfterFact
<1>9. k - 1 \in 0..Len(d) /\ Len(d) \in Nat
      /\ (k - 1)+1..Len(d) = {k} \cup (k+1..Len(d))
  <2>1. Len(d) \in Nat
    BY LenProperties
  <2>2. QED
    BY <1>in, <2>1
<1>10. k \in Popped(d, limit, active0, h)
  BY <1>1, <1>in, <1>7 DEF Popped, IsPopped, FreeAfter
<1>11. (k - 1)+1..Len(d) \subseteq Popped(d, limit, active0, h)
  BY <1>7, <1>9, <1>10
<1>grows. /\ d[k] \in h =>
              /\ HeldAfter(d, h, k - 1) = {k} \cup HeldAfter(d, h, k)
              /\ FreeAfter(d, h, k - 1) = FreeAfter(d, h, k)
          /\ d[k] \notin h =>
              /\ HeldAfter(d, h, k - 1) = HeldAfter(d, h, k)
              /\ FreeAfter(d, h, k - 1) = {k} \cup FreeAfter(d, h, k)
              /\ Cardinality(FreeAfter(d, h, k - 1))
                   = Cardinality(FreeAfter(d, h, k)) + 1
  BY <1>kd, AfterGrows
<1>12. /\ x \in h =>
            /\ HeldAfter(d, h, k - 1) = {k} \cup HeldAfter(d, h, k)
            /\ FreeAfter(d, h, k - 1) = FreeAfter(d, h, k)
       /\ x \notin h =>
            /\ HeldAfter(d, h, k - 1) = HeldAfter(d, h, k)
            /\ FreeAfter(d, h, k - 1) = {k} \cup FreeAfter(d, h, k)
            /\ Cardinality(FreeAfter(d, h, k - 1))
                 = Cardinality(FreeAfter(d, h, k)) + 1
  BY <1>in, <1>grows
<1>13. CASE x \in h
  <2>1. held' = Append(held, x) /\ released' = released /\ nActive' = nActive
    BY <1>6, <1>13
  <2>2. held' \in Seq(QTasks)
    BY <1>2, <1>in, <2>1, AppendProperties
  <2>3. LoopType'
    BY <1>1, <1>5, <1>d, <1>h, <2>1, <2>2 DEF LoopType
  <2>4. OldestFirst(deque0, released)'
    BY <1>1, <1>5, <1>d, <2>1 DEF OldestFirst
  <2>5. Reverse(held') = <<x>> \o Select(d, HeldAfter(d, h, k))
    BY <1>2, <1>in, <1>7, <2>1, ReverseAppend
  <2>6. Reverse(held') = Select(d, HeldAfter(d, h, k - 1))
    BY <1>2, <1>in, <1>8, <1>12, <1>13, <2>5, SelectFirst
  <2>7. Popping(k - 1)'
    BY <1>5, <1>7, <1>9, <1>11, <1>12, <1>13, <2>1, <2>6 DEF Popping
  <2>8. QED
    BY <1>5, <2>3, <2>4, <2>7 DEF LoopInv
<1>14. CASE x \notin h
  <2>1. held' = held /\ released' = Append(released, x) /\ nActive' = nActive + 1
    BY <1>6, <1>14
  <2>2. released' \in Seq(QTasks)
    BY <1>2, <1>in, <2>1, AppendProperties
  <2>3. LoopType'
    BY <1>1, <1>5, <1>d, <1>h, <2>1, <2>2 DEF LoopType
  <2>4. \A i, j \in 1..Len(d) : d[i] = d[j] => i = j
    BY <1>1, <1>d DEF LoopType
  <2>5. /\ OldestFirst(d, released')
        /\ ToSet(released') = {d[i] : i \in {k} \cup FreeAfter(d, h, k)}
    <3>1. PICK F : F = FreeAfter(d, h, k)
      OBVIOUS
    <3>r. PICK r \in Seq(QTasks) : r = released
      BY <1>2
    <3>2. /\ F \in SUBSET (k+1..Len(d))
          /\ ToSet(r) = {d[i] : i \in F}
          /\ OldestFirst(d, r)
      BY <1>1, <1>7, <1>8, <1>d, <3>1, <3>r
    <3>3. /\ OldestFirst(d, Append(r, d[k]))
          /\ ToSet(Append(r, d[k])) = {d[i] : i \in {k} \cup F}
      <4>1. F \in SUBSET (k+1..Len(d))
        BY <3>2
      <4>2. ToSet(r) = {d[i] : i \in F}
        BY <3>2
      <4>3. OldestFirst(d, r)
        BY <3>2
      <4>4. OldestFirst(d, Append(r, d[k]))
        BY <1>kd, <2>4, <4>1, <4>2, <4>3, OrderKept
      <4>5. ToSet(Append(r, d[k])) = ToSet(r) \cup {d[k]}
        BY <1>in, AppendFact
      <4>6. {d[i] : i \in F} \cup {d[k]} = {d[i] : i \in {k} \cup F}
        OBVIOUS
      <4>7. QED
        BY <4>2, <4>4, <4>5, <4>6
    <3>4. QED
      BY <1>in, <2>1, <3>1, <3>3, <3>r
  <2>6. OldestFirst(deque0, released)'
    BY <1>5, <2>5 DEF OldestFirst
  <2>7. nActive' = active0 + Cardinality(FreeAfter(d, h, k - 1))
    BY <1>2, <1>7, <1>8, <1>12, <1>14, <2>1
  <2>8. Popping(k - 1)'
    BY <1>5, <1>7, <1>9, <1>11, <1>12, <1>14, <2>1, <2>5, <2>7 DEF Popping
  <2>9. QED
    BY <1>5, <2>3, <2>6, <2>8 DEF LoopInv
<1>15. QED
  BY <1>13, <1>14

\* The end of the while loop.
LEMMA EndPopKeeps == ASSUME LoopInv, EndPop PROVE LoopInv'
<1> DEFINE k == Len(deque)
<1>1. /\ LoopType /\ OldestFirst(deque0, released) /\ Popping(k)
      /\ deque = <<>> \/ (limit # 0 /\ nActive >= limit)
  BY DEF LoopInv, EndPop
<1>2. UNCHANGED <<call, deque, nActive, released, held>> /\ pc' = "put back"
  BY DEF EndPop
<1>3. deque0 \in Seq(QTasks) /\ limit \in Nat /\ active0 \in Nat
  BY <1>1 DEF LoopType
<1>4. k = 0 \/ (limit # 0 /\ active0 + Cardinality(FreeAfter(deque0, isHeld, k)) >= limit)
  BY <1>1, EmptySeq DEF Popping
<1>5. /\ k \in 0..Len(deque0) /\ deque = SubSeq(deque0, 1, k)
      /\ k+1..Len(deque0) \subseteq Popped(deque0, limit, active0, isHeld)
      /\ Reverse(held) = Select(deque0, HeldAfter(deque0, isHeld, k))
      /\ ToSet(released) = {deque0[i] : i \in FreeAfter(deque0, isHeld, k)}
  BY <1>1 DEF Popping
<1> HIDE DEF k
<1>6. /\ Released(deque0, limit, active0, isHeld)
           = {deque0[i] : i \in FreeAfter(deque0, isHeld, k)}
      /\ AfterRelease(deque0, limit, active0, isHeld)
           = Select(deque0, HeldAfter(deque0, isHeld, k)) \o SubSeq(deque0, 1, k)
  BY <1>3, <1>4, <1>5, PoppedFact
<1>7. PuttingBack
  BY <1>5, <1>6 DEF PuttingBack
<1>8. PuttingBack' /\ LoopType' /\ OldestFirst(deque0, released)'
  <2>1. PuttingBack'
    BY <1>2, <1>7 DEF PuttingBack, call
  <2>2. LoopType'
    BY <1>1, <1>2 DEF LoopType, call
  <2>3. OldestFirst(deque0, released)'
    BY <1>1, <1>2 DEF call
  <2>4. QED
    BY <2>1, <2>2, <2>3
<1>9. QED
  BY <1>2, <1>8 DEF LoopInv

\* A turn of the for loop.
LEMMA PutBackKeeps == ASSUME LoopInv, PutBack PROVE LoopInv'
<1>x. PICK x : x = Head(held)
  OBVIOUS
<1>t. PICK t : t = Tail(held)
  OBVIOUS
<1>1. LoopType /\ OldestFirst(deque0, released) /\ PuttingBack /\ held # <<>>
      /\ pc = "put back"
  BY DEF LoopInv, PutBack
<1>2. UNCHANGED <<call, nActive, released, pc>>
      /\ deque' = <<x>> \o deque /\ held' = t
  BY <1>x, <1>t DEF PutBack, Cons
<1>3. held \in Seq(QTasks) /\ deque \in Seq(QTasks)
  BY <1>1 DEF LoopType
<1>4. /\ x \in QTasks /\ t \in Seq(QTasks)
      /\ Reverse(held) = Reverse(t) \o <<x>>
  BY <1>1, <1>3, <1>x, <1>t, ReverseTail
<1>5. <<x>> \in Seq(QTasks) /\ Reverse(t) \in Seq(QTasks)
  BY <1>4, ReverseFact
<1>6. deque' \in Seq(QTasks) /\ held' \in Seq(QTasks)
  BY <1>2, <1>3, <1>4, <1>5, ConcatProperties
<1>7. Reverse(held') \o deque' = Reverse(held) \o deque
  BY <1>2, <1>3, <1>4, <1>5, ConcatAssociative
<1>8. PuttingBack'
  BY <1>1, <1>2, <1>7 DEF PuttingBack, call
<1>9. LoopType' /\ OldestFirst(deque0, released)'
  <2>1. LoopType'
    BY <1>1, <1>2, <1>6 DEF LoopType, call
  <2>2. OldestFirst(deque0, released)'
    BY <1>1, <1>2 DEF call
  <2>3. QED
    BY <2>1, <2>2
<1>10. QED
  BY <1>1, <1>2, <1>8, <1>9 DEF LoopInv

\* The loop of LimitedTaskQueue.release, whatever the queue, the limit and the
\* held tasks: it returns the tasks and leaves the deque that TaskQueues says in
\* closed form, which the submission pipeline is modelled with, oldest task first.
THEOREM LoopIsClosedForm == RelSpec => []ClosedForm
<1>1. RelInit => LoopInv
  BY LoopInit
<1>2. LoopInv /\ [RelNext]_relVars => LoopInv'
  <2> SUFFICES ASSUME LoopInv, [RelNext]_relVars PROVE LoopInv'
    OBVIOUS
  <2>1. CASE Return
    <3>1. LoopType /\ PuttingBack /\ OldestFirst(deque0, released) /\ held = <<>>
      BY <2>1 DEF LoopInv, Return
    <3>2. UNCHANGED <<call, deque, nActive, released, held>> /\ pc' = "done"
      BY <2>1 DEF Return
    <3>3. LoopType'
      BY <3>1, <3>2 DEF LoopType, call
    <3>4. PuttingBack'
      BY <3>1, <3>2 DEF PuttingBack, call
    <3>5. OldestFirst(deque0, released)'
      BY <3>1, <3>2 DEF call
    <3>6. QED
      BY <3>1, <3>2, <3>3, <3>4, <3>5 DEF LoopInv
  <2>2. CASE UNCHANGED relVars
    <3>1. UNCHANGED <<deque0, limit, active0, isHeld, deque, nActive, released, held, pc>>
      BY <2>2 DEF relVars, call
    <3>2. LoopType' = LoopType
      BY <3>1 DEF LoopType
    <3>3. Popping(Len(deque))' = Popping(Len(deque)) /\ PuttingBack' = PuttingBack
      BY <3>1 DEF Popping, PuttingBack
    <3>4. OldestFirst(deque0, released)' = OldestFirst(deque0, released)
      BY <3>1
    <3>5. QED
      BY <3>1, <3>2, <3>3, <3>4 DEF LoopInv
  <2>3. CASE RelDone
    BY <2>2, <2>3 DEF RelDone
  <2>4. QED
    BY <2>1, <2>2, <2>3, PopKeeps, EndPopKeeps, PutBackKeeps DEF RelNext
<1>3. LoopInv => ClosedForm
  <2> SUFFICES ASSUME LoopInv, pc = "done" PROVE ClosedForm
    BY DEF ClosedForm
  <2>1. /\ PuttingBack /\ held = <<>> /\ OldestFirst(deque0, released)
        /\ deque \in Seq(QTasks) /\ deque0 \in Seq(QTasks) /\ released \in Seq(QTasks)
    BY DEF LoopInv, LoopType
  <2>2. Reverse(held) = <<>>
    <3>1. Len(held) = 0 /\ 1..0 = {}
      BY <2>1
    <3>2. QED
      BY <3>1 DEF Reverse
  <2>3. deque = AfterRelease(deque0, limit, active0, isHeld)
    BY <2>1, <2>2, ConcatEmptySeq DEF PuttingBack
  <2>4. DOMAIN deque0 = 1..Len(deque0) /\ DOMAIN released = 1..Len(released)
    BY <2>1, LenProperties
  <2>5. QED
    BY <2>1, <2>3, <2>4 DEF ClosedForm, PuttingBack, OldestFirst
<1>4. QED
  BY <1>1, <1>2, <1>3, PTL DEF RelSpec
-----------------------------------------------------------------------------
(* The judgement of the main loop on the workflow. *)

\* STypeOK in three parts.
StatusTypes ==
    /\ st \in [STasks -> WithJob \cup {"none", "waiting", "failed"}]
    /\ timers \subseteq Timers /\ turn \in Turns /\ workflow \in Workflows
    /\ interventions \in 0..MaxInterventions
SetTypes ==
    \A set \in {spawned, outs, forced, orphans, isRunahead, isQueued,
                isUpdated, tasks_to_trigger_now} : set \subseteq STasks
FlagTypes ==
    {is_updated, is_stalled, is_reloaded, is_paused, is_restart_timeout_wait,
     was_paused_before_reload, has_updated, abort_on_stall, overtaken} \subseteq BOOLEAN

\* The bound on commands and restarts.
LEMMA Intervened ==
    interventions \in 0..MaxInterventions /\ Intervene
    => interventions' \in 0..MaxInterventions
BY StallAssumption DEF Intervene

\* The variables keep their types.
LEMMA STypeNext == ASSUME STypeOK, [SNext]_stallVars PROVE STypeOK'
<1> USE StallAssumption
<1> DEFINE Statuses == WithJob \cup {"none", "waiting", "failed"}
<1>1. /\ st \in [STasks -> Statuses]
      /\ \A t \in STasks : {"running", "failed", "waiting", "none", "preparing"} \subseteq Statuses
  BY DEF STypeOK, WithJob
<1>parts. /\ STypeOK <=> StatusTypes /\ SetTypes /\ FlagTypes
          /\ STypeOK' <=> StatusTypes' /\ SetTypes' /\ FlagTypes'
  BY DEF STypeOK, StatusTypes, SetTypes, FlagTypes
<1>2. CASE ReleaseRunaheadTasks
  BY <1>2 DEF STypeOK, ReleaseRunaheadTasks, Releasable, Turns, flagVars, settings
<1>3. CASE WorkflowShutdown
  BY <1>3 DEF STypeOK, WorkflowShutdown, ReportStall, Turns, CommandTurns, Timers, poolVars, settings
<1>4. CASE GoOn
  BY <1>4 DEF STypeOK, GoOn, Turns, CommandTurns, poolVars, flagVars, settings
<1>5. CASE QueueAndRelease
  BY <1>1, <1>5 DEF STypeOK, QueueAndRelease, Ready, WaitingTasks, Turns, settings
<1>6. CASE HandleUpdates
  <2>1. StatusTypes' /\ SetTypes'
    BY <1>6, <1>parts DEF StatusTypes, SetTypes, HandleUpdates, Turns, poolVars, settings
  <2>2. {is_updated, is_stalled, is_reloaded, is_restart_timeout_wait, has_updated,
         overtaken}' \subseteq BOOLEAN
    <3>1. has_updated' \in BOOLEAN
      BY <1>6 DEF HandleUpdates, HasUpdated
    <3>2. is_stalled' \in BOOLEAN
      BY <1>6 DEF HandleUpdates, StallKept
    <3>3. is_restart_timeout_wait' \in BOOLEAN
      BY <1>6 DEF HandleUpdates
    <3>4. overtaken' \in BOOLEAN
      BY <1>6, <1>parts DEF HandleUpdates, FlagTypes
    <3>5. is_reloaded' \in BOOLEAN
      BY <1>6 DEF HandleUpdates
    <3>6. is_updated' \in BOOLEAN
      BY <1>6 DEF HandleUpdates
    <3>7. QED
      BY <3>1, <3>2, <3>3, <3>4, <3>5, <3>6
  <2>3. FlagTypes'
    BY <1>6, <1>parts, <2>2 DEF FlagTypes, HandleUpdates, settings
  <2>4. QED
    BY <1>parts, <2>1, <2>3
<1>7. CASE CheckStalled
  BY <1>7 DEF STypeOK, CheckStalled, ReportStall, Turns, Timers, poolVars, settings
<1>8. CASE ReleaseInReload
  BY <1>1, <1>8 DEF STypeOK, ReleaseInReload, WaitingTasks, settings
<1>9. CASE FinishReload
  <2>1. StatusTypes'
    BY <1>1, <1>9, <1>parts DEF StatusTypes, FinishReload, Turns, CommandTurns, settings
  <2>2. PICK lost \in {{}} \cup {{t} : t \in STasks}, freed \in {{}, Releasable} :
        LET removed == lost \cap WaitingTasks
        IN  /\ orphans' = orphans \cup lost
            /\ isRunahead' = isRunahead \ (removed \cup freed)
            /\ isQueued' = {}
            /\ isUpdated' = (isUpdated \cup freed) \ removed
    BY <1>9 DEF FinishReload
  <2>3. lost \subseteq STasks /\ freed \subseteq STasks
    BY <1>parts DEF SetTypes, Releasable
  <2>4. SetTypes'
    BY <1>9, <1>parts, <2>2, <2>3 DEF SetTypes, FinishReload
  <2>5. FlagTypes'
    BY <1>9, <1>parts DEF FlagTypes, FinishReload, settings
  <2>6. QED
    BY <1>parts, <2>1, <2>4, <2>5
<1>10. CASE FailReload
  BY <1>10 DEF STypeOK, FailReload, Turns, CommandTurns, poolVars, settings
<1>11. ASSUME NEW off \in SUBSET timers, CheckTimers(off) PROVE STypeOK'
  BY <1>11 DEF STypeOK, CheckTimers, WaitAfter, Turns, poolVars, settings
<1>12. ASSUME NEW t \in STasks, JobSubmitted(t) PROVE STypeOK'
  BY <1>1, <1>12 DEF STypeOK, JobSubmitted, flagVars, settings
<1>13. ASSUME NEW t \in STasks, MessageOfSuccess(t) PROVE STypeOK'
  BY <1>1, <1>13 DEF STypeOK, MessageOfSuccess, Succeed, flagVars, settings
<1>14. ASSUME NEW t \in STasks, MessageOfFailure(t) PROVE STypeOK'
  BY <1>1, <1>14 DEF STypeOK, MessageOfFailure, flagVars, settings
<1>15. ASSUME NEW t \in STasks, TriggerNow(t) PROVE STypeOK'
  BY <1>1, <1>15 DEF STypeOK, TriggerNow, Intervene, settings
<1>16. ASSUME NEW t \in STasks, SetOutputs(t) PROVE STypeOK'
  BY <1>1, <1>16 DEF STypeOK, SetOutputs, Succeed, Intervene, settings
<1>17. CASE PauseOrResume
  BY <1>17 DEF STypeOK, PauseOrResume, Intervene, poolVars, settings
<1>18. CASE Reload
  <2>1. StatusTypes' /\ SetTypes'
    <3>1. interventions' \in 0..MaxInterventions
      BY <1>18, <1>parts, Intervened DEF StatusTypes, Reload
    <3>2. turn' \in Turns
      BY <1>18 DEF Reload, Turns, ReloadTurns
    <3>3. UNCHANGED <<poolVars, orphans, isUpdated, timers, settings>>
      BY <1>18 DEF Reload
    <3>4. QED
      BY <1>parts, <3>1, <3>2, <3>3 DEF StatusTypes, SetTypes, poolVars, settings
  <2>2. FlagTypes'
    BY <1>18, <1>parts DEF FlagTypes, Reload, settings
  <2>3. QED
    BY <1>parts, <2>1, <2>2
<1>19. CASE SRestart
  <2>1. StatusTypes'
    <3>1. interventions' \in 0..MaxInterventions
      BY <1>19, <1>parts, Intervened DEF StatusTypes, SRestart
    <3>2. turn' \in Turns /\ timers' \subseteq Timers
      BY <1>19 DEF SRestart, Turns, Timers
    <3>3. st' \in [STasks -> Statuses]
      BY <1>1, <1>19 DEF SRestart
    <3>4. UNCHANGED settings
      BY <1>19 DEF SRestart
    <3>5. QED
      BY <1>parts, <3>1, <3>2, <3>3, <3>4 DEF StatusTypes, settings
  <2>2. SetTypes'
    BY <1>19, <1>parts DEF SetTypes, SRestart, InPool
  <2>3. FlagTypes'
    BY <1>19, <1>parts DEF FlagTypes, SRestart, HasCompleted, settings
  <2>4. QED
    BY <1>parts, <2>1, <2>2, <2>3
<1>20. CASE UNCHANGED stallVars
  BY <1>20 DEF STypeOK, stallVars, poolVars, flagVars, settings
<1>21. QED
  BY <1>2, <1>3, <1>4, <1>5, <1>6, <1>7, <1>8, <1>9, <1>10, <1>11, <1>12, <1>13,
     <1>14, <1>15, <1>16, <1>17, <1>18, <1>19, <1>20 DEF SNext, LoopStep

\* The first values have those types.
LEMMA STypeInit == SInit => STypeOK
<1> SUFFICES ASSUME SInit PROVE STypeOK
  OBVIOUS
<1>1. StatusTypes
  BY StallAssumption DEF SInit, StatusTypes, Timers, Turns
<1>2. SetTypes
  BY DEF SInit, SetTypes, InPool
<1>3. FlagTypes
  BY DEF SInit, FlagTypes
<1>4. QED
  BY <1>1, <1>2, <1>3 DEF STypeOK, StatusTypes, SetTypes, FlagTypes

\* Only tasks in the pool are held back by the runahead limit, and they have been
\* spawned; and while the
\* stall timer runs the pool is as it was when the stall was found, unless an
\* update is flagged that will end the stall, or a reload kept it: no job can
\* come to life unflagged, and the flag of a task is lost only with its job.
Unchanged ==
    "stall" \in timers /\ ~is_updated /\ ~overtaken
    => /\ \A t \in STasks : st[t] \notin WithJob
       /\ PoolIsStalled \/ Updated # {}
PoolInv ==
    /\ \A t \in isRunahead : t \in STasks /\ st[t] # "none"
    /\ \A t \in STasks : st[t] # "none" \/ t \in isQueued => t \in spawned
StallInv ==
    /\ PoolInv
    /\ Unchanged

\* Initially no timer runs.
LEMMA StallInit == SInit => StallInv
BY DEF SInit, StallInv, PoolInv, InPool, Unchanged

\* A step that leaves the pool and the flags alone.
LEMMA StallSame ==
    ASSUME StallInv, UNCHANGED <<poolVars, isUpdated, is_updated, overtaken, workflow>>,
           "stall" \in timers' => "stall" \in timers
    PROVE  StallInv'
<1>1. InPool' = InPool /\ PoolInv'
  BY DEF StallInv, PoolInv, InPool, poolVars
<1>2. PoolIsStalled' <=> PoolIsStalled
  BY DEF PoolIsStalled, Ready, WaitingTasks, Unsatisfied, Upstream, Incomplete,
         WaitsInVain, beyond, poolVars
<1>3. Updated' = Updated
  BY <1>1 DEF Updated
<1>4. QED
  BY <1>1, <1>2, <1>3 DEF StallInv, Unchanged, poolVars

\* A step that flags an update of the workflow.
LEMMA StallFlagged ==
    ASSUME is_updated', PoolInv' PROVE StallInv'
BY DEF StallInv, Unchanged

\* A report of a stall.
LEMMA StallReported ==
    ASSUME StallInv, NEW found \in BOOLEAN, found => PoolIsStalled,
           ReportStall(found), UNCHANGED <<poolVars, isUpdated, is_updated, workflow>>
    PROVE  StallInv'
<1>1. InPool' = InPool /\ PoolInv'
  BY DEF StallInv, PoolInv, InPool, poolVars
<1>2. PoolIsStalled' <=> PoolIsStalled
  BY DEF PoolIsStalled, Ready, WaitingTasks, Unsatisfied, Upstream, Incomplete,
         WaitsInVain, beyond, poolVars
<1>3. Updated' = Updated
  BY <1>1 DEF Updated
<1>4. CASE found
  <2>1. PoolIsStalled'
    BY <1>2, <1>4
  <2>2. \A t \in STasks : st'[t] \notin WithJob
    BY <2>1 DEF PoolIsStalled
  <2>3. QED
    BY <1>1, <2>1, <2>2 DEF StallInv, Unchanged
<1>5. CASE ~found
  <2>1. timers' = timers /\ (overtaken' <=> overtaken)
    BY <1>5 DEF ReportStall
  <2>2. QED
    BY <1>1, <1>2, <1>3, <2>1 DEF StallInv, Unchanged, poolVars
<1>6. QED
  BY <1>4, <1>5

\* Nothing is alive, so nothing that needs a job to be alive happens.
LEMMA NoJob ==
    ASSUME StallInv, "stall" \in timers, ~is_updated, ~overtaken, NEW t \in STasks
    PROVE  st[t] \notin WithJob
BY DEF StallInv, Unchanged

\* Tasks released from the runahead limit are flagged.
LEMMA RunaheadKeeps == ASSUME StallInv, ReleaseRunaheadTasks PROVE StallInv'
<1>1. /\ UNCHANGED <<st, spawned, isQueued, outs, forced, workflow, timers, is_updated, overtaken>>
      /\ isRunahead' = isRunahead \ Releasable
      /\ isUpdated' = isUpdated \cup Releasable
  BY DEF ReleaseRunaheadTasks, flagVars, settings
<1>2. InPool' = InPool /\ PoolInv'
  BY <1>1 DEF InPool, StallInv, PoolInv
<1>held. Releasable \subseteq InPool
  BY DEF InPool, StallInv, PoolInv, Releasable
<1>3. Updated' = Updated \cup Releasable
  BY <1>1, <1>2, <1>held DEF Updated
<1>4. CASE Releasable = {}
  <2>1. isRunahead' = isRunahead
    BY <1>1, <1>4
  <2>2. PoolIsStalled' <=> PoolIsStalled
    BY <1>1, <2>1 DEF PoolIsStalled, Ready, WaitingTasks, Unsatisfied, Upstream,
       Incomplete, WaitsInVain, beyond
  <2>3. QED
    BY <1>1, <1>2, <1>3, <1>4, <2>1, <2>2 DEF StallInv, Unchanged
<1>5. CASE Releasable # {}
  <2>1. Updated' # {}
    BY <1>3, <1>5
  <2>2. QED
    BY <1>1, <1>2, <2>1 DEF StallInv, Unchanged
<1>6. QED
  BY <1>4, <1>5

\* Tasks that are released to run make an update.
LEMMA QueueingKeeps == ASSUME StallInv, STypeOK, QueueAndRelease PROVE StallInv'
<1> DEFINE queued == isQueued \cup (Ready \ tasks_to_trigger_now)
           ran == (tasks_to_trigger_now \cap WaitingTasks)
                  \cup (IF is_paused THEN {} ELSE queued)
<1>1. /\ st' = [t \in STasks |-> IF t \in ran THEN "preparing" ELSE st[t]]
      /\ isUpdated' = isUpdated \cup (queued \ isQueued) \cup ran
      /\ is_updated' = (is_updated \/ ran # {} \/ tasks_to_trigger_now # {})
      /\ UNCHANGED <<spawned, outs, forced, isRunahead, workflow, timers, overtaken>>
  BY DEF QueueAndRelease, settings
<1> HIDE DEF ran, queued
<1>2. PoolInv'
  <2>1. /\ \A u \in STasks : st'[u] = IF u \in ran THEN "preparing" ELSE st[u]
        /\ isQueued' \subseteq queued
    BY <1>1 DEF QueueAndRelease, queued
  <2>2. \A u \in STasks : u \in queued \cup ran => u \in spawned
    BY DEF queued, ran, StallInv, PoolInv, Ready, WaitingTasks
  <2>3. QED
    BY <1>1, <2>1, <2>2 DEF StallInv, PoolInv
<1>3. CASE is_updated'
  BY <1>2, <1>3, StallFlagged
<1>4. CASE ~is_updated'
  <2>1. ~is_updated /\ ran = {}
    BY <1>1, <1>4
  <2>2. \A t \in STasks : st'[t] = st[t]
    BY <1>1, <2>1
  <2>3. InPool' = InPool
    BY <2>2 DEF InPool
  <2>4. WaitingTasks' = WaitingTasks
    BY <2>2 DEF WaitingTasks
  <2>5. Ready' = Ready
    BY <1>1, <2>4 DEF Ready, Unsatisfied, Upstream
  <2>6. PoolIsStalled' <=> PoolIsStalled
    BY <1>1, <2>2, <2>4, <2>5 DEF PoolIsStalled, Unsatisfied, Upstream,
       Incomplete, WaitsInVain, beyond
  <2>7. Updated \subseteq Updated'
    BY <1>1, <2>3 DEF Updated
  <2>8. QED
    BY <1>1, <1>2, <2>1, <2>2, <2>6, <2>7 DEF StallInv, Unchanged
<1>5. QED
  BY <1>3, <1>4

\* When the flags are dealt with the timer goes on only without an update, or
\* after a reload.
LEMMA UpdatesKeep == ASSUME StallInv, HandleUpdates PROVE StallInv'
<1>1. /\ UNCHANGED <<poolVars, workflow>>
      /\ timers' \subseteq timers
      /\ "stall" \in timers' => ~(HasUpdated /\ ~StallKept)
      /\ overtaken' = IF HasUpdated THEN StallKept /\ is_reloaded /\ ~PoolIsStalled
                      ELSE overtaken
  BY DEF HandleUpdates, settings
<1>2. InPool' = InPool /\ PoolInv'
  BY <1>1 DEF StallInv, PoolInv, InPool, poolVars
<1>3. PoolIsStalled' <=> PoolIsStalled
  BY <1>1 DEF PoolIsStalled, Ready, WaitingTasks, Unsatisfied, Upstream, Incomplete,
         WaitsInVain, beyond, poolVars
<1>4. ASSUME "stall" \in timers', ~overtaken' PROVE PoolIsStalled
  <2>1. CASE HasUpdated
    <3>1. StallKept /\ is_reloaded
      BY <1>1, <1>4, <2>1 DEF StallKept
    <3>2. QED
      BY <1>1, <1>4, <2>1, <3>1
  <2>2. CASE ~HasUpdated
    <3>1. "stall" \in timers /\ ~is_updated /\ ~overtaken /\ Updated = {}
      BY <1>1, <1>4, <2>2 DEF HasUpdated
    <3>2. QED
      BY <3>1 DEF StallInv, Unchanged
  <2>3. QED
    BY <2>1, <2>2
<1>5. PoolIsStalled => \A t \in STasks : st[t] \notin WithJob
  BY DEF PoolIsStalled
<1>6. QED
  BY <1>1, <1>2, <1>3, <1>4, <1>5 DEF StallInv, Unchanged, poolVars

\* The task that succeeds leaves the pool with its flag; its children, runahead
\* limited, are added.
LEMMA SucceedKeeps ==
    ASSUME PoolInv, NEW t \in STasks, st[t] # "none", Succeed(t), UNCHANGED isQueued
    PROVE  PoolInv'
<1> DEFINE children == {c \in STasks \ (spawned \cup orphans) :
                          t \in Upstream(c) /\ t \notin orphans}
<1>1. /\ \A u \in STasks : /\ u \in children => st'[u] \in {"none", "waiting"}
                           /\ st'[u] = IF u = t THEN "none"
                                      ELSE IF u \in children THEN "waiting" ELSE st[u]
      /\ isRunahead' = (isRunahead \ {t}) \cup children
      /\ spawned' = spawned \cup children
  BY DEF Succeed
<1>2. children \subseteq STasks \ spawned
  OBVIOUS
<1> HIDE DEF children
<1>3. t \notin children
  BY <1>2 DEF PoolInv
<1>4. QED
  BY <1>1, <1>2, <1>3 DEF PoolInv

\* A job is submitted, or comes to an end: the task had a job.
LEMMA JobKeeps ==
    ASSUME StallInv, STypeOK, NEW t \in STasks,
           JobSubmitted(t) \/ MessageOfSuccess(t) \/ MessageOfFailure(t)
    PROVE  StallInv'
<1>1. /\ st[t] \in WithJob
      /\ UNCHANGED <<timers, is_updated, overtaken>>
  BY DEF JobSubmitted, MessageOfSuccess, MessageOfFailure, WithJob, flagVars
<1>2. Unchanged'
  BY <1>1, NoJob DEF Unchanged
<1>3. PoolInv'
  <2>0. st \in [STasks -> WithJob \cup {"none", "waiting", "failed"}] /\ PoolInv
    BY DEF STypeOK, StallInv
  <2>1. CASE JobSubmitted(t)
    BY <2>0, <2>1 DEF JobSubmitted, PoolInv
  <2>2. CASE MessageOfFailure(t)
    BY <2>0, <2>2 DEF MessageOfFailure, PoolInv
  <2>3. CASE MessageOfSuccess(t)
    BY <2>0, <2>3, SucceedKeeps DEF MessageOfSuccess
  <2>4. QED
    BY <2>1, <2>2, <2>3
<1>4. QED
  BY <1>2, <1>3 DEF StallInv

\* Commands flag an update of the workflow.
LEMMA CommandKeeps ==
    ASSUME StallInv, STypeOK,
           \/ \E t \in STasks : TriggerNow(t) \/ SetOutputs(t)
           \/ PauseOrResume \/ ReleaseInReload \/ FinishReload \/ FailReload
    PROVE  StallInv'
<1>0. st \in [STasks -> WithJob \cup {"none", "waiting", "failed"}] /\ PoolInv
  BY DEF STypeOK, StallInv
<1>1. is_updated'
  BY DEF TriggerNow, SetOutputs, PauseOrResume, ReleaseInReload, FinishReload, FailReload
<1>2. ASSUME NEW t \in STasks, TriggerNow(t) PROVE PoolInv'
  <2>1. /\ isRunahead' \subseteq isRunahead \cup {t}
        /\ st' = [st EXCEPT ![t] = "waiting"]
        /\ spawned' = spawned \cup {t} /\ isQueued' = isQueued \ {t}
    BY <1>2 DEF TriggerNow
  <2>2. QED
    BY <1>0, <2>1 DEF PoolInv
<1>3. ASSUME NEW t \in STasks, SetOutputs(t) PROVE PoolInv'
  BY <1>0, <1>3, SucceedKeeps DEF SetOutputs
<1>4. ASSUME PauseOrResume \/ FailReload PROVE PoolInv'
  <2>1. UNCHANGED <<isRunahead, st, spawned, isQueued>>
    BY <1>4 DEF PauseOrResume, FailReload, poolVars
  <2>2. QED
    BY <1>0, <2>1 DEF PoolInv
<1>5. ASSUME ReleaseInReload PROVE PoolInv'
  <2>1. /\ isRunahead' = isRunahead
        /\ UNCHANGED <<spawned, isQueued>>
        /\ \A u \in STasks :
              st'[u] # st[u] => st'[u] = "preparing" /\ st[u] = "waiting"
    BY <1>5 DEF ReleaseInReload, WaitingTasks
  <2>2. QED
    BY <1>0, <2>1 DEF PoolInv
<1>6. ASSUME FinishReload PROVE PoolInv'
  <2>1. PICK lost \in {{}} \cup {{t} : t \in STasks}, freed \in {{}, Releasable} :
          /\ st' = [t \in STasks |-> IF t \in lost \cap WaitingTasks THEN "none" ELSE st[t]]
          /\ isRunahead' = isRunahead \ ((lost \cap WaitingTasks) \cup freed)
          /\ spawned' = spawned /\ isQueued' = {}
    BY <1>6 DEF FinishReload
  <2>2. \A u \in STasks : st'[u] = IF u \in lost \cap WaitingTasks THEN "none" ELSE st[u]
    BY <2>1
  <2>3. \A u \in isRunahead' : u \in isRunahead /\ u \notin lost \cap WaitingTasks
    BY <2>1
  <2>4. \A u \in isRunahead' : u \in STasks /\ st'[u] # "none"
    BY <1>0, <2>2, <2>3 DEF PoolInv
  <2>5. \A u \in STasks : st'[u] # "none" \/ u \in isQueued' => u \in spawned'
    BY <1>0, <2>1, <2>2 DEF PoolInv
  <2>6. QED
    BY <2>4, <2>5 DEF PoolInv
<1>7. QED
  BY <1>1, <1>2, <1>3, <1>4, <1>5, <1>6, StallFlagged

\* The invariant is kept.
LEMMA StallNext == ASSUME STypeOK, StallInv, [SNext]_stallVars PROVE StallInv'
<1>1. CASE ReleaseRunaheadTasks
  BY <1>1, RunaheadKeeps
<1>2. CASE WorkflowShutdown
  <2>1. PICK found \in BOOLEAN :
          found = (~is_paused /\ ~is_restart_timeout_wait /\ StallFound)
    OBVIOUS
  <2>2. ReportStall(found) /\ UNCHANGED <<poolVars, isUpdated, is_updated, workflow>>
    BY <1>2, <2>1 DEF WorkflowShutdown, settings
  <2>3. found => PoolIsStalled
    BY <2>1 DEF StallFound
  <2>4. QED
    BY <2>2, <2>3, StallReported
<1>3. CASE GoOn
  BY <1>3, StallSame DEF GoOn, flagVars, settings
<1>4. CASE QueueAndRelease
  BY <1>4, QueueingKeeps
<1>5. CASE HandleUpdates
  BY <1>5, UpdatesKeep
<1>6. CASE CheckStalled
  <2>1. PICK found \in BOOLEAN : found = (~has_updated /\ StallFound)
    OBVIOUS
  <2>2. ReportStall(found) /\ UNCHANGED <<poolVars, isUpdated, is_updated, workflow>>
    BY <1>6, <2>1 DEF CheckStalled, settings
  <2>3. found => PoolIsStalled
    BY <2>1 DEF StallFound
  <2>4. QED
    BY <2>2, <2>3, StallReported
<1>7. CASE ReleaseInReload \/ FinishReload \/ FailReload \/ PauseOrResume
           \/ \E t \in STasks : TriggerNow(t) \/ SetOutputs(t)
  BY <1>7, CommandKeeps
<1>8. ASSUME NEW off \in SUBSET timers, CheckTimers(off) PROVE StallInv'
  BY <1>8, StallSame DEF CheckTimers, settings
<1>9. ASSUME NEW t \in STasks,
             JobSubmitted(t) \/ MessageOfSuccess(t) \/ MessageOfFailure(t)
      PROVE  StallInv'
  BY <1>9, JobKeeps
<1>10. CASE Reload
  BY <1>10, StallSame DEF Reload, settings
<1>11. CASE SRestart
  <2>1. /\ isRunahead' = {t \in InPool : st[t] # "failed"}
        /\ st' = [t \in STasks |-> IF st[t] = "preparing" THEN "waiting" ELSE st[t]]
        /\ is_updated' = TRUE /\ spawned' = spawned /\ isQueued' = {}
    BY <1>11 DEF SRestart
  <2>2. PoolInv'
    BY <2>1 DEF InPool, StallInv, PoolInv
  <2>3. QED
    BY <2>1, <2>2, StallFlagged
<1>12. CASE UNCHANGED stallVars
  BY <1>12, StallSame DEF stallVars, flagVars, settings
<1>13. QED
  BY <1>1, <1>2, <1>3, <1>4, <1>5, <1>6, <1>7, <1>8, <1>9, <1>10, <1>11, <1>12
     DEF SNext, LoopStep

\* When the timers are checked the flags have just been dealt with.
TimersInv == turn = "timers" => ~is_updated /\ isUpdated = {}

\* Only the step that deals with the flags leads there.
LEMMA TimersNext == ASSUME TimersInv, [SNext]_stallVars PROVE TimersInv'
<1>1. CASE HandleUpdates
  BY <1>1 DEF HandleUpdates, TimersInv
<1>2. CASE UNCHANGED stallVars
  BY <1>2 DEF TimersInv, stallVars, flagVars
<1>3. CASE ReleaseRunaheadTasks \/ WorkflowShutdown \/ QueueAndRelease \/ CheckStalled \/ SRestart
  <2>1. turn' # "timers"
    BY <1>3 DEF ReleaseRunaheadTasks, WorkflowShutdown, QueueAndRelease, CheckStalled, SRestart
  <2>2. QED
    BY <2>1 DEF TimersInv
<1>4. CASE GoOn
  <2>1. turn' # "timers"
    BY <1>4 DEF GoOn
  <2>2. QED
    BY <2>1 DEF TimersInv
<1>5. CASE ReleaseInReload \/ FinishReload \/ FailReload \/ PauseOrResume \/ Reload
  <2>1. turn' # "timers"
    BY <1>5 DEF ReleaseInReload, FinishReload, FailReload, Flushed, PauseOrResume, Reload,
       CommandTurns, ReloadTurns
  <2>2. QED
    BY <2>1 DEF TimersInv
<1>6. ASSUME NEW off \in SUBSET timers, CheckTimers(off) PROVE TimersInv'
  <2>1. turn' # "timers"
    BY <1>6 DEF CheckTimers
  <2>2. QED
    BY <2>1 DEF TimersInv
<1>7. ASSUME NEW t \in STasks,
             \/ JobSubmitted(t) \/ MessageOfSuccess(t) \/ MessageOfFailure(t)
             \/ TriggerNow(t) \/ SetOutputs(t)
      PROVE  TimersInv'
  <2>1. turn' # "timers"
    BY <1>7 DEF JobSubmitted, MessageOfSuccess, MessageOfFailure, TriggerNow, SetOutputs,
       CommandTurns, ReloadTurns
  <2>2. QED
    BY <2>1 DEF TimersInv
<1>8. QED
  BY <1>1, <1>2, <1>3, <1>4, <1>5, <1>6, <1>7 DEF SNext, LoopStep

\* However tasks run, commands come in and the workflow is reloaded and restarted,
\* the variables of the stall check keep their types.
THEOREM StallTypeCorrect == SSpec => []STypeOK
BY STypeInit, STypeNext, PTL DEF SSpec

\* The stall timer, which by default aborts the scheduler, runs out only on a
\* stalled pool, unless a reload kept the stall of a pool that was not stalled.
THEOREM StallTimerIsRight == SSpec => StallTimerMeansStalledBut
<1>1. STypeOK /\ StallInv /\ [SNext]_stallVars => STypeOK' /\ StallInv'
  BY STypeNext, StallNext
<1>2. StallInv /\ TimersInv /\ [SNext]_stallVars
      => [turn = "timers" /\ "stall" \in timers \ timers'
          => PoolIsStalled \/ overtaken]_stallVars
  BY DEF TimersInv, StallInv, Unchanged, Updated
<1>3. SInit => TimersInv
  BY DEF SInit, TimersInv
<1>4. TimersInv /\ [SNext]_stallVars => TimersInv'
  BY TimersNext
<1>5. QED
  BY <1>1, <1>2, <1>3, <1>4, STypeInit, StallInit, PTL DEF SSpec, StallTimerMeansStalledBut
-----------------------------------------------------------------------------
(* The recurrences of integer cycling, and the walk over their points. *)

\* Multiples of a step apart.
LEMMA Division == ASSUME NEW a \in Int, NEW d \in Nat \ {0}
      PROVE  /\ a % d \in 0..d-1 /\ a \div d \in Int
             /\ a = d * (a \div d) + (a % d)
OBVIOUS

\* The remainder of a multiple and a rest.
LEMMA Remainder == ASSUME NEW d \in Nat \ {0}, NEW r \in 0..d-1, NEW k \in Int
      PROVE (d * k + r) % d = r
OBVIOUS

\* More steps lead further.
LEMMA Monotone == ASSUME NEW d \in Nat, NEW j \in Int, NEW k \in Int, j <= k
      PROVE d * j <= d * k
OBVIOUS

\* Steps add up.
LEMMA Distribute == ASSUME NEW d \in Nat, NEW j \in Int, NEW k \in Int
      PROVE d * (j + k) = d * j + d * k /\ d * (j + 1) = d * j + d /\ d * (j - 1) = d * j - d
            /\ d * j \in Int
OBVIOUS

\* On the grid of a with step d.
OnGrid(a, d, p) == (p - a) % d = 0

\* A grid is what some number of steps leads to.
LEMMA GridPoint ==
    ASSUME NEW a \in Int, NEW d \in Nat \ {0}, NEW p \in Int
    PROVE  OnGrid(a, d, p) <=> \E j \in Int : p = a + d * j
<1>1. ASSUME OnGrid(a, d, p) PROVE \E j \in Int : p = a + d * j
  <2>1. p - a \in Int
    OBVIOUS
  <2>2. PICK j \in Int : p - a = d * j + ((p - a) % d)
    BY <2>1, Division
  <2>3. d * j \in Int
    BY Distribute
  <2>4. p = a + d * j
    BY <1>1, <2>2, <2>3 DEF OnGrid
  <2>5. QED
    BY <2>4
<1>2. ASSUME NEW j \in Int, p = a + d * j PROVE OnGrid(a, d, p)
  <2>1. d * j \in Int
    BY Distribute
  <2>2. p - a = d * j + 0
    BY <1>2, <2>1
  <2>3. (d * j + 0) % d = 0
    BY Remainder
  <2>4. QED
    BY <2>2, <2>3 DEF OnGrid
<1>3. QED
  BY <1>1, <1>2

\* The grid begins at its start.
LEMMA StartOnGrid ==
    ASSUME NEW a \in Int, NEW d \in Nat \ {0}
    PROVE  OnGrid(a, d, a)
<1>1. (d * 0 + 0) % d = 0
  BY Remainder
<1>2. d * 0 + 0 = a - a
  OBVIOUS
<1>3. QED
  BY <1>1, <1>2 DEF OnGrid

\* The next point of a grid.
LEMMA NextOnGrid ==
    ASSUME NEW a \in Int, NEW d \in Nat \ {0}, NEW k \in Int, NEW q, q = k + d - ((k - a) % d)
    PROVE  /\ q \in Int /\ k < q /\ q <= k + d /\ OnGrid(a, d, q)
           /\ \A v \in Int : OnGrid(a, d, v) /\ v > k => v >= q
<1>1. k - a \in Int
  OBVIOUS
<1>2. PICK j \in Int : k - a = d * j + ((k - a) % d)
  BY <1>1, Division
<1>3. (k - a) % d \in 0..d-1
  BY <1>1, Division
<1>4. PICK r \in 0..d-1 : r = (k - a) % d
  BY <1>3
<1>5. d * j \in Int /\ d * (j + 1) = d * j + d /\ j + 1 \in Int
  BY Distribute
<1>6. q = k + d - r /\ k - a = d * j + r
  BY <1>2, <1>4
<1>7. q = a + d * (j + 1) /\ q \in Int /\ k < q /\ q <= k + d
  BY <1>5, <1>6
<1>8. OnGrid(a, d, q)
  BY <1>5, <1>7, GridPoint
<1>9. ASSUME NEW v \in Int, OnGrid(a, d, v), v > k PROVE v >= q
  <2>1. PICK i \in Int : v = a + d * i
    BY <1>9, GridPoint
  <2>2. d * i \in Int
    BY Distribute
  <2>3. CASE i <= j
    <3>1. d * i <= d * j
      BY <2>3, Monotone
    <3>2. QED
      BY <1>5, <1>6, <1>9, <2>1, <2>2, <3>1
  <2>4. CASE j + 1 <= i
    <3>1. d * (j + 1) <= d * i
      BY <1>5, <2>4, Monotone
    <3>2. QED
      BY <1>5, <1>7, <2>1, <2>2, <3>1
  <2>5. QED
    BY <2>3, <2>4
<1>10. QED
  BY <1>7, <1>8, <1>9

\* The previous point of a grid.
LEMMA PrevOnGrid ==
    ASSUME NEW a \in Int, NEW d \in Nat \ {0}, NEW k \in Int, NEW q,
           q = k - (IF (k - a) % d = 0 THEN d ELSE (k - a) % d)
    PROVE  /\ q \in Int /\ q < k /\ k - d <= q /\ OnGrid(a, d, q)
           /\ \A v \in Int : OnGrid(a, d, v) /\ v < k => v <= q
<1>1. k - a \in Int /\ k - 1 \in Int
  OBVIOUS
<1>4. PICK r \in 0..d-1 : r = (k - a) % d
  BY <1>1, Division
<1>2. PICK j \in Int : k - a = d * j + r
  BY <1>1, <1>4, Division
<1>5. d * j \in Int /\ d * (j - 1) = d * j - d /\ j - 1 \in Int
  BY Distribute
<1>6. PICK i \in Int : /\ i \in {j, j - 1} /\ q = a + d * i /\ q \in Int /\ q < k /\ k - d <= q /\ k <= q + d
  <2>1. CASE r = 0
    <3>1. q = k - d
      BY <1>4, <2>1
    <3>2. k = a + d * j
      BY <1>2, <1>5, <2>1
    <3>3. q = a + d * (j - 1)
      BY <1>5, <3>1, <3>2
    <3>4. WITNESS j - 1 \in Int
    <3>5. QED
      BY <3>1, <3>3
  <2>2. CASE r # 0
    <3>1. q = k - r
      BY <1>4, <2>2
    <3>2. k = a + d * j + r
      BY <1>2, <1>5
    <3>3. q = a + d * j
      BY <1>5, <3>1, <3>2
    <3>4. QED
      BY <1>4, <2>2, <3>1, <3>3
  <2>3. QED
    BY <2>1, <2>2
<1>7. d * i \in Int /\ d * (i + 1) = d * i + d /\ i + 1 \in Int
  BY Distribute
<1>8. OnGrid(a, d, q)
  BY <1>6, GridPoint
<1>9. ASSUME NEW v \in Int, OnGrid(a, d, v), v < k PROVE v <= q
  <2>1. PICK h \in Int : v = a + d * h
    BY <1>9, GridPoint
  <2>2. d * h \in Int
    BY Distribute
  <2>3. CASE h <= i
    <3>1. d * h <= d * i
      BY <2>3, Monotone
    <3>2. QED
      BY <1>6, <1>7, <2>1, <2>2, <3>1
  <2>4. CASE i + 1 <= h
    <3>1. d * (i + 1) <= d * h
      BY <1>7, <2>4, Monotone
    <3>2. QED
      BY <1>6, <1>7, <1>9, <2>1, <2>2, <3>1
  <2>5. QED
    BY <2>3, <2>4
<1>10. QED
  BY <1>6, <1>8, <1>9

\* Two functions that satisfy one recursive equation agree.
LEMMA OneSolution ==
    ASSUME NEW C \in SUBSET Int, NEW m \in [C -> Nat], NEW Q, NEW g, NEW f,
           \A k \in Int : \/ g[k] = f[k]
                          \/ Q[k] \in C /\ (g[Q[k]] = f[Q[k]] => g[k] = f[k]),
           \A k \in C : Q[k] \in C => m[Q[k]] < m[k]
    PROVE  \A k \in Int : g[k] = f[k]
<1> DEFINE D == {k \in C : g[k] # f[k]}
           R == {m[k] : k \in D}
<1>1. CASE D = {}
  BY <1>1
<1>2. CASE D # {}
  <2>1. R \subseteq Nat /\ R # {}
    BY <1>2
  <2>2. PICK x \in R : \A y \in R : x <= y
    BY <2>1, LeastExists
  <2>3. PICK k \in D : x = m[k]
    BY <2>2
  <2>4. Q[k] \in D /\ m[Q[k]] < m[k]
    BY <2>3
  <2>5. m[Q[k]] \in R /\ m[Q[k]] \in Nat /\ m[k] \in Nat
    BY <2>3, <2>4
  <2>6. QED
    BY <2>2, <2>3, <2>4, <2>5
<1>3. QED
  BY <1>1, <1>2

\* A sequence with sensible fields.
Proper(s) ==
    /\ s.start \in Int /\ s.stop \in Int /\ s.step \in Nat
    /\ s.excl \subseteq Int
    /\ s.step = 0 => s.start = s.stop /\ s.excl = {}

\* Its points.
Points(s) == {p \in Int : IsValid(s, p)}

Soonest(q) == IF q = {} THEN NoPoint ELSE Min(q)
Latest(q) == IF q = {} THEN NoPoint ELSE Max(q)

\* The point after k with none between is the soonest after k.
LEMMA SoonestIs ==
    ASSUME NEW V \in SUBSET Int, NEW k \in Int, NEW q \in V, q > k,
           \A v \in V : v > k => v >= q
    PROVE  Soonest({v \in V : v > k}) = q
<1> DEFINE W == {v \in V : v > k}
<1>1. q \in W /\ \A v \in W : q <= v
  OBVIOUS
<1>2. \A x \in W : (\A y \in W : x <= y) => x = q
  BY <1>1
<1>3. Min(W) = q
  BY <1>1, <1>2 DEF Min
<1>4. QED
  BY <1>1, <1>3 DEF Soonest

\* The point before k with none between is the latest before k.
LEMMA LatestIs ==
    ASSUME NEW V \in SUBSET Int, NEW k \in Int, NEW q \in V, q < k,
           \A v \in V : v < k => v <= q
    PROVE  Latest({v \in V : v < k}) = q
<1> DEFINE W == {v \in V : v < k}
<1>1. q \in W /\ \A v \in W : q >= v
  OBVIOUS
<1>2. \A x \in W : (\A y \in W : x >= y) => x = q
  BY <1>1
<1>3. Max(W) = q
  BY <1>1, <1>2 DEF Max
<1>4. QED
  BY <1>1, <1>3 DEF Latest

\* A point that is left out is stepped over.
LEMMA SoonestSkips ==
    ASSUME NEW V \in SUBSET Int, NEW k \in Int, NEW q \in Int, q \notin V, q > k,
           \A v \in V : v > k => v >= q
    PROVE  Soonest({v \in V : v > k}) = Soonest({v \in V : v > q})
<1>1. \A v \in V : v # q /\ v \in Int
  OBVIOUS
<1>2. \A v \in V : v > k <=> v > q
  BY <1>1
<1>3. {v \in V : v > k} = {v \in V : v > q}
  BY <1>2
<1>4. QED
  BY <1>3

\* A point that is left out is stepped over backwards.
LEMMA LatestSkips ==
    ASSUME NEW V \in SUBSET Int, NEW k \in Int, NEW q \in Int, q \notin V, q < k,
           \A v \in V : v < k => v <= q
    PROVE  Latest({v \in V : v < k}) = Latest({v \in V : v < q})
<1>1. \A v \in V : v # q /\ v \in Int
  OBVIOUS
<1>2. \A v \in V : v < k <=> v < q
  BY <1>1
<1>3. {v \in V : v < k} = {v \in V : v < q}
  BY <1>2
<1>4. QED
  BY <1>3

\* The points of a sequence with a step.
LEMMA PointsAre ==
    ASSUME NEW s, Proper(s), s.step # 0, NEW p \in Int
    PROVE  p \in Points(s) <=>
             p \notin s.excl /\ OnGrid(s.start, s.step, p) /\ s.start <= p /\ p <= s.stop
BY CyclingAssumption DEF Points, IsValid, IsOnSequence, InBounds, OnGrid, Proper

\* Those of a one-off.
LEMMA PointIs ==
    ASSUME NEW s, Proper(s), s.step = 0
    PROVE  Points(s) = {s.start}
BY CyclingAssumption DEF Points, IsValid, IsOnSequence, InBounds, Proper

\* The bounds keep a point or give none.
LEMMA InBoundsIs ==
    ASSUME NEW s, Proper(s), NEW p \in Int
    PROVE  /\ InBounds(s, p) # NoPoint <=> s.start <= p /\ p <= s.stop
           /\ InBounds(s, p) # NoPoint => InBounds(s, p) = p
           /\ InBounds(s, p) \in s.excl => InBounds(s, p) = p /\ s.start <= p /\ p <= s.stop
BY CyclingAssumption DEF InBounds, Proper

\* One step on from a point: it is within bounds and on the grid, or there is
\* nothing to come, or the sequence begins more than a step later.
LEMMA OneStepOn ==
    ASSUME NEW s, Proper(s), s.step # 0, NEW k \in Int, NEW q \in Int,
           q = k + s.step - ((k - s.start) % s.step)
    PROVE  /\ q > k /\ OnGrid(s.start, s.step, q)
           /\ \A v \in Points(s) : v > k => v >= q
           /\ InBounds(s, q) = NoPoint /\ k >= s.start - s.step
              => \A v \in Points(s) : ~ v > k
           /\ k < s.start - s.step => InBounds(s, q) = NoPoint
<1> DEFINE a == s.start  d == s.step
<1>1. /\ a \in Int /\ d \in Nat \ {0} /\ s.stop \in Int
      /\ q = k + d - ((k - a) % d)
  BY DEF Proper
<1>3. \A v \in Points(s) : v \in Int /\ OnGrid(a, d, v) /\ v <= s.stop /\ v >= a
  BY PointsAre DEF Points
<1>5. InBounds(s, q) # NoPoint <=> a <= q /\ q <= s.stop
  BY InBoundsIs
<1> HIDE DEF a, d
<1>2. /\ k < q /\ q <= k + d /\ OnGrid(a, d, q)
      /\ \A v \in Int : OnGrid(a, d, v) /\ v > k => v >= q
  BY <1>1, NextOnGrid
<1>4. ASSUME k >= a - d PROVE q >= a
  <2>1. (0 - d) % d = 0
    <3>1. (d * (-1) + 0) % d = 0
      BY <1>1, Remainder
    <3>2. d * (-1) + 0 = 0 - d
      BY <1>1
    <3>3. QED
      BY <3>1, <3>2
  <2>2. a = (a - d) + d - (((a - d) - a) % d)
    <3>1. (a - d) - a = 0 - d
      BY <1>1
    <3>2. QED
      BY <1>1, <2>1, <3>1
  <2>3. a - d \in Int
    BY <1>1
  <2>4. \A v \in Int : OnGrid(a, d, v) /\ v > a - d => v >= a
    BY <1>1, <2>2, <2>3, NextOnGrid
  <2>5. QED
    BY <1>1, <1>2, <1>4, <2>4
<1>6. InBounds(s, q) = NoPoint /\ k >= a - d => \A v \in Points(s) : ~ v > k
  BY <1>1, <1>2, <1>3, <1>4, <1>5
<1>7. k < a - d => InBounds(s, q) = NoPoint
  BY <1>1, <1>2, <1>5
<1>8. \A v \in Points(s) : v > k => v >= q
  BY <1>2, <1>3
<1>9. QED
  BY <1>2, <1>6, <1>7, <1>8 DEF a, d


\* One step back.
LEMMA OneStepBack ==
    ASSUME NEW s, Proper(s), s.step # 0, NEW k \in Int, NEW q \in Int,
           q = k - (IF (k - s.start) % s.step = 0 THEN s.step ELSE (k - s.start) % s.step)
    PROVE  /\ q < k
           /\ \A v \in Points(s) : v < k => v <= q
           /\ OnGrid(s.start, s.step, q)
           /\ InBounds(s, q) = NoPoint /\ k <= s.stop => \A v \in Points(s) : ~ v < k
           /\ k > s.stop + s.step => InBounds(s, q) = NoPoint
<1> DEFINE a == s.start  d == s.step
<1>1. /\ a \in Int /\ d \in Nat \ {0} /\ s.stop \in Int
      /\ q = k - (IF (k - a) % d = 0 THEN d ELSE (k - a) % d)
  BY DEF Proper
<1>3. \A v \in Points(s) : v \in Int /\ OnGrid(a, d, v) /\ v <= s.stop /\ v >= a
  BY PointsAre DEF Points
<1>5. InBounds(s, q) # NoPoint <=> a <= q /\ q <= s.stop
  BY InBoundsIs
<1> HIDE DEF a, d
<1>2. /\ q < k /\ k - d <= q /\ OnGrid(a, d, q)
      /\ \A v \in Int : OnGrid(a, d, v) /\ v < k => v <= q
  BY <1>1, PrevOnGrid
<1>6. InBounds(s, q) = NoPoint /\ k <= s.stop => \A v \in Points(s) : ~ v < k
  BY <1>1, <1>2, <1>3, <1>5
<1>7. k > s.stop + d => InBounds(s, q) = NoPoint
  BY <1>1, <1>2, <1>5
<1>8. \A v \in Points(s) : v < k => v <= q
  BY <1>2, <1>3
<1>9. QED
  BY <1>2, <1>6, <1>7, <1>8 DEF a, d

\* get_next_point: the loop over excluded points finds the soonest of the points
\* of the sequence, unless the sequence begins more than a step later.
LEMMA NextPointIs ==
    ASSUME NEW s, Proper(s), s.step # 0, NEW p \in Int
    PROVE  GetNextPoint(s, p) = IF p < s.start - s.step THEN NoPoint
                                ELSE Soonest({v \in Points(s) : v > p})
<1> DEFINE on(k) == k + s.step - ((k - s.start) % s.step)
           Q == [k \in Int |-> InBounds(s, on(k))]
           later(k) == Soonest({v \in Points(s) : v > k})
           f == [k \in Int |-> IF Q[k] = NoPoint THEN NoPoint ELSE later(k)]
           NextAfter(g) == g = [k \in Int |->
                             LET q == InBounds(s, k + s.step - ((k - s.start) % s.step))
                             IN  IF q \in s.excl THEN g[q] ELSE q]
           N == CHOOSE g : NextAfter(g)
           C == s.excl \cap (s.start..s.stop)
           m == [k \in C |-> s.stop - k]
<1>0. s.start \in Int /\ s.stop \in Int /\ s.step \in Nat \ {0} /\ s.excl \subseteq Int
  BY DEF Proper
<1>1. \A k \in Int : on(k) \in Int
  <2>1. ASSUME NEW k \in Int PROVE (k - s.start) % s.step \in Int
    <3>1. k - s.start \in Int
      BY <1>0
    <3>2. PICK r : r = (k - s.start) % s.step
      OBVIOUS
    <3>3. r \in 0..s.step - 1
      BY <1>0, <3>1, <3>2, Division
    <3>4. QED
      BY <1>0, <3>2, <3>3
  <2>2. QED
    BY <1>0, <2>1
<1>2. Points(s) \subseteq Int /\ NoPoint \notin Int
  BY CyclingAssumption DEF Points
<1>3. ASSUME NEW k \in Int
      PROVE  /\ on(k) > k
             /\ \A v \in Points(s) : v > k => v >= on(k)
             /\ Q[k] = NoPoint /\ k >= s.start - s.step => \A v \in Points(s) : ~ v > k
             /\ k < s.start - s.step => Q[k] = NoPoint
             /\ Q[k] # NoPoint => Q[k] = on(k) /\ s.start <= on(k) /\ on(k) <= s.stop
             /\ Q[k] # NoPoint => (Q[k] \in Points(s) <=> Q[k] \notin s.excl)
  <2>1. PICK q \in Int : q = on(k)
    BY <1>1
  <2>2. /\ q > k /\ OnGrid(s.start, s.step, q)
        /\ \A v \in Points(s) : v > k => v >= q
        /\ InBounds(s, q) = NoPoint /\ k >= s.start - s.step
           => \A v \in Points(s) : ~ v > k
        /\ k < s.start - s.step => InBounds(s, q) = NoPoint
    BY <2>1, OneStepOn
  <2>3. Q[k] = InBounds(s, q)
    BY <2>1
  <2>4. Q[k] # NoPoint => Q[k] = q /\ s.start <= q /\ q <= s.stop
    BY <2>3, InBoundsIs
  <2>5. s.start <= q /\ q <= s.stop => (q \in Points(s) <=> q \notin s.excl)
    BY <2>2, PointsAre
  <2>6. QED
    BY <2>1, <2>2, <2>3, <2>4, <2>5
<1>4. NextAfter(f)
  <2>1. ASSUME NEW k \in Int
        PROVE  f[k] = IF Q[k] \in s.excl THEN f[Q[k]] ELSE Q[k]
    <3>1. CASE Q[k] = NoPoint
      BY <1>0, <1>2, <3>1
    <3>2. CASE Q[k] # NoPoint /\ Q[k] \notin s.excl
      <4>1. Q[k] \in Points(s) /\ Q[k] > k /\ \A v \in Points(s) : v > k => v >= Q[k]
        BY <1>3, <3>2
      <4>2. later(k) = Q[k]
        BY <1>2, <4>1, SoonestIs
      <4>3. QED
        BY <3>2, <4>2
    <3>3. CASE Q[k] # NoPoint /\ Q[k] \in s.excl
      <4>1. PICK q \in Int : q = Q[k]
        BY <1>0, <3>3
      <4>2. /\ q \notin Points(s) /\ q > k /\ \A v \in Points(s) : v > k => v >= q
            /\ q >= s.start
        BY <1>3, <3>3, <4>1
      <4>3. later(k) = later(q)
        BY <1>2, <4>1, <4>2, SoonestSkips
      <4>4. Q[q] = NoPoint => later(q) = NoPoint
        <5>1. Q[q] = NoPoint => {v \in Points(s) : v > q} = {}
          BY <1>0, <1>3, <4>2
        <5>2. QED
          BY <5>1 DEF Soonest
      <4>5. QED
        BY <3>3, <4>1, <4>3, <4>4
    <3>4. QED
      BY <3>1, <3>2, <3>3
  <2>2. QED
    BY <2>1
<1>5. NextAfter(N)
  <2> HIDE DEF NextAfter
  <2>1. QED
    BY <1>4
<1>6. \A k \in Int : N[k] = IF Q[k] \in s.excl THEN N[Q[k]] ELSE Q[k]
  BY <1>5
<1>7. \A k \in Int : f[k] = IF Q[k] \in s.excl THEN f[Q[k]] ELSE Q[k]
  BY <1>4
<1>8. ASSUME NEW k \in Int, Q[k] \in s.excl PROVE Q[k] \in C /\ Q[k] > k
  <2> HIDE DEF Q, on
  <2>1. Q[k] # NoPoint /\ Q[k] \in Int
    BY <1>0, <1>2, <1>8
  <2>2. Q[k] > k /\ s.start <= Q[k] /\ Q[k] <= s.stop
    BY <1>3, <2>1
  <2>3. QED
    BY <1>0, <1>8, <2>1, <2>2
<1>9. /\ C \in SUBSET Int /\ m \in [C -> Nat]
      /\ \A k \in C : Q[k] \in C => m[Q[k]] < m[k]
  BY <1>0, <1>8
<1>10. GetNextPoint(s, p) = N[p]
  BY DEF GetNextPoint
<1> HIDE DEF N, f, Q, C, m, later, on
<1>11. \A k \in Int : \/ N[k] = f[k]
                      \/ Q[k] \in C /\ (N[Q[k]] = f[Q[k]] => N[k] = f[k])
  BY <1>6, <1>7, <1>8
<1>12. N[p] = f[p]
  BY <1>9, <1>11, OneSolution
<1>13. CASE p < s.start - s.step
  BY <1>3, <1>10, <1>12, <1>13 DEF f
<1>14. CASE ~ p < s.start - s.step
  <2>1. Q[p] = NoPoint => {v \in Points(s) : v > p} = {}
    BY <1>0, <1>3, <1>14
  <2>2. Q[p] = NoPoint => later(p) = NoPoint
    BY <2>1 DEF Soonest, later
  <2>3. QED
    BY <1>10, <1>12, <1>14, <2>2 DEF f, later
<1>15. QED
  BY <1>13, <1>14


\* Points of one grid have the same grid.
LEMMA SameGrid ==
    ASSUME NEW a \in Int, NEW d \in Nat \ {0}, NEW b \in Int, OnGrid(a, d, b), NEW v \in Int
    PROVE  OnGrid(a, d, v) <=> OnGrid(b, d, v)
<1>1. PICK i \in Int : b = a + d * i
  BY GridPoint
<1>2. d * i \in Int
  BY Distribute
<1>3. ASSUME OnGrid(a, d, v) PROVE OnGrid(b, d, v)
  <2>1. PICK j \in Int : v = a + d * j
    BY <1>3, GridPoint
  <2>2. -i \in Int /\ j + (-i) \in Int
    OBVIOUS
  <2>3. d * (j + (-i)) = d * j + d * (-i) /\ d * (i + (-i)) = d * i + d * (-i)
        /\ d * j \in Int /\ d * (-i) \in Int
    BY <2>2, Distribute
  <2>4. d * (i + (-i)) = 0
    OBVIOUS
  <2>5. v = b + d * (j + (-i))
    BY <1>1, <1>2, <2>1, <2>3, <2>4
  <2>6. QED
    BY <2>2, <2>5, GridPoint
<1>4. ASSUME OnGrid(b, d, v) PROVE OnGrid(a, d, v)
  <2>1. PICK j \in Int : v = b + d * j
    BY <1>4, GridPoint
  <2>2. d * (i + j) = d * i + d * j /\ d * j \in Int /\ i + j \in Int
    BY Distribute
  <2>3. v = a + d * (i + j)
    BY <1>1, <1>2, <2>1, <2>2
  <2>4. QED
    BY <2>2, <2>3, GridPoint
<1>5. QED
  BY <1>3, <1>4

\* One step on along the grid through k.
LEMMA NextStep ==
    ASSUME NEW d \in Nat \ {0}, NEW k \in Int
    PROVE  /\ OnGrid(k, d, k + d)
           /\ \A v \in Int : OnGrid(k, d, v) /\ v > k => v >= k + d
<1>1. (k - k) % d = 0
  <2>1. (d * 0 + 0) % d = 0
    BY Remainder
  <2>2. d * 0 + 0 = k - k
    OBVIOUS
  <2>3. QED
    BY <2>1, <2>2
<1>2. k + d = k + d - ((k - k) % d)
  BY <1>1
<1>3. QED
  BY <1>2, NextOnGrid

\* get_next_point_on_sequence, from a point of the grid.
LEMMA NextPointOnSequenceIs ==
    ASSUME NEW s, Proper(s), s.step # 0, NEW p \in Int, OnGrid(s.start, s.step, p),
           p >= s.start - s.step
    PROVE  GetNextPointOnSequence(s, p) = Soonest({v \in Points(s) : v > p})
<1> DEFINE d == s.step
           V(k) == {v \in (s.start..s.stop) \ s.excl : OnGrid(k, d, v)}
           Q == [k \in Int |-> InBounds(s, k + s.step)]
           later(k) == Soonest({v \in V(k) : v > k})
           f == [k \in Int |-> IF Q[k] = NoPoint THEN NoPoint ELSE later(k)]
           NextAfter(g) == g = [k \in Int |-> LET q == InBounds(s, k + s.step)
                                         IN  IF q \in s.excl THEN g[q] ELSE q]
           N == CHOOSE g : NextAfter(g)
           C == s.excl \cap (s.start..s.stop)
           m == [k \in C |-> s.stop - k]
<1>0. s.start \in Int /\ s.stop \in Int /\ d \in Nat \ {0} /\ s.excl \subseteq Int
  BY DEF Proper
<1>2. NoPoint \notin Int
  BY CyclingAssumption
<1>3. ASSUME NEW k \in Int
      PROVE  /\ OnGrid(k, d, k + d) /\ k + d > k /\ k + d \in Int /\ V(k) \in SUBSET Int
             /\ \A v \in V(k) : v > k => v >= k + d
             /\ Q[k] # NoPoint <=> s.start <= k + d /\ k + d <= s.stop
             /\ Q[k] # NoPoint => Q[k] = k + d
  <2>1. k + d \in Int /\ k + d > k
    BY <1>0
  <2>2. /\ OnGrid(k, d, k + d)
        /\ \A v \in Int : OnGrid(k, d, v) /\ v > k => v >= k + d
    BY <1>0, NextStep
  <2>3. Q[k] = InBounds(s, k + d)
    OBVIOUS
  <2>4. /\ Q[k] # NoPoint <=> s.start <= k + d /\ k + d <= s.stop
        /\ Q[k] # NoPoint => Q[k] = k + d
    BY <2>1, <2>3, InBoundsIs
  <2>5. V(k) \in SUBSET Int
    BY <1>0
  <2>6. QED
    BY <2>1, <2>2, <2>4, <2>5
<1>4. NextAfter(f)
  <2>1. ASSUME NEW k \in Int
        PROVE  f[k] = IF Q[k] \in s.excl THEN f[Q[k]] ELSE Q[k]
    <3>1. CASE Q[k] = NoPoint
      BY <1>0, <1>2, <3>1
    <3>2. CASE Q[k] # NoPoint /\ Q[k] \notin s.excl
      <4>1. Q[k] \in V(k) /\ Q[k] > k /\ \A v \in V(k) : v > k => v >= Q[k]
        <5> HIDE DEF Q
        <5>1. Q[k] \in (s.start..s.stop) \ s.excl /\ Q[k] = k + d
          BY <1>0, <1>3, <3>2
        <5>2. QED
          BY <1>3, <5>1
      <4>2. later(k) = Q[k]
        BY <1>3, <4>1, SoonestIs
      <4>3. QED
        BY <3>2, <4>2
    <3>3. CASE Q[k] # NoPoint /\ Q[k] \in s.excl
      <4>1. PICK q \in Int : q = Q[k]
        BY <1>0, <3>3
      <4>2. q = k + d
        BY <1>3, <3>3, <4>1
      <4>3. q \notin V(k) /\ q > k /\ \A v \in V(k) : v > k => v >= q
        <5>1. q \notin V(k)
          BY <3>3, <4>1
        <5>2. q > k
          BY <1>3, <4>2
        <5>3. \A v \in V(k) : v > k => v >= q
          <6>1. \A v \in V(k) : v > k => v >= k + d
            BY <1>3
          <6> HIDE DEF V
          <6>2. QED
            BY <4>2, <6>1
        <5>4. QED
          BY <5>1, <5>2, <5>3
      <4>4. V(q) = V(k)
        <5>1. \A v \in s.start..s.stop : OnGrid(k, d, v) <=> OnGrid(q, d, v)
          <6>1. OnGrid(k, d, q)
            BY <1>3, <4>2
          <6>2. \A v \in Int : OnGrid(k, d, v) <=> OnGrid(q, d, v)
            BY <1>0, <6>1, SameGrid
          <6>3. QED
            BY <1>0, <6>2
        <5>2. QED
          BY <5>1
      <4>5. later(k) = Soonest({v \in V(k) : v > q})
        <5>1. V(k) \in SUBSET Int
          BY <1>3
        <5> HIDE DEF V
        <5>2. QED
          BY <4>3, <5>1, SoonestSkips
      <4>6. later(k) = later(q)
        BY <4>4, <4>5
      <4>7. Q[q] = NoPoint => later(q) = NoPoint
        <5>1. s.start <= k + d
          BY <1>3, <3>3
        <5>2. ASSUME Q[q] = NoPoint, NEW v \in V(q), v > q PROVE FALSE
          <6>1. q + d > s.stop
            BY <1>0, <1>3, <4>2, <5>1, <5>2
          <6>2. v >= q + d /\ v <= s.stop
            BY <1>0, <1>3, <5>2
          <6>3. QED
            BY <1>0, <6>1, <6>2
        <5>3. Q[q] = NoPoint => {v \in V(q) : v > q} = {}
          BY <5>2
        <5>4. QED
          BY <5>3 DEF Soonest
      <4>8. QED
        BY <3>3, <4>1, <4>6, <4>7
    <3>4. QED
      BY <3>1, <3>2, <3>3
  <2>2. QED
    BY <2>1
<1>5. NextAfter(N)
  <2> HIDE DEF NextAfter
  <2>1. QED
    BY <1>4
<1>6. \A k \in Int : N[k] = IF Q[k] \in s.excl THEN N[Q[k]] ELSE Q[k]
  BY <1>5
<1>7. \A k \in Int : f[k] = IF Q[k] \in s.excl THEN f[Q[k]] ELSE Q[k]
  BY <1>4
<1>8. ASSUME NEW k \in Int, Q[k] \in s.excl PROVE Q[k] \in C /\ Q[k] > k
  <2> HIDE DEF Q
  <2>1. Q[k] # NoPoint /\ Q[k] \in Int
    BY <1>0, <1>2, <1>8
  <2>2. Q[k] > k /\ s.start <= Q[k] /\ Q[k] <= s.stop
    BY <1>3, <2>1
  <2>3. QED
    BY <1>0, <1>8, <2>1, <2>2
<1>9. /\ C \in SUBSET Int /\ m \in [C -> Nat]
      /\ \A k \in C : Q[k] \in C => m[Q[k]] < m[k]
  BY <1>0, <1>8
<1>10. GetNextPointOnSequence(s, p) = N[p]
  BY DEF GetNextPointOnSequence
<1>11. V(p) = Points(s)
  <2>1. \A v \in Int : OnGrid(s.start, d, v) <=> OnGrid(p, d, v)
    BY <1>0, SameGrid
  <2>2. \A v \in Int : v \in V(p) <=> v \in Points(s)
    BY <1>0, <2>1, PointsAre
  <2>3. V(p) \subseteq Int /\ Points(s) \subseteq Int
    BY <1>0 DEF Points
  <2> HIDE DEF V
  <2>4. QED
    BY <2>2, <2>3
<1> HIDE DEF N, f, Q, C, m, later, V
<1>12. \A k \in Int : \/ N[k] = f[k]
                      \/ Q[k] \in C /\ (N[Q[k]] = f[Q[k]] => N[k] = f[k])
  BY <1>6, <1>7, <1>8
<1>13. N[p] = f[p]
  BY <1>9, <1>12, OneSolution
<1>14. Q[p] = NoPoint => {v \in V(p) : v > p} = {}
  <2>1. ASSUME Q[p] = NoPoint, NEW v \in V(p), v > p PROVE FALSE
    <3>1. p + d > s.stop
      <4>1. /\ Q[p] # NoPoint <=> s.start <= p + d /\ p + d <= s.stop
            /\ p + d \in Int
        BY <1>3
      <4>2. s.start <= p + d
        BY <1>0
      <4>3. QED
        BY <1>0, <2>1, <4>1, <4>2
    <3>2. v >= p + d
      <4>1. \A w \in V(p) : w > p => w >= p + d
        BY <1>3
      <4>2. QED
        BY <2>1, <4>1
    <3>3. v \in Int /\ v <= s.stop
      BY <1>0, <2>1 DEF V
    <3>4. QED
      BY <1>0, <3>1, <3>2, <3>3
  <2>2. QED
    BY <2>1
<1>15. Q[p] = NoPoint => later(p) = NoPoint
  BY <1>14 DEF Soonest, later
<1>16. QED
  BY <1>10, <1>11, <1>13, <1>15 DEF f, later


\* What is soonest is a point of the set.
LEMMA SoonestExists ==
    ASSUME NEW V \in SUBSET Int, NEW b \in Int, \A v \in V : v >= b
    PROVE  /\ Soonest(V) = NoPoint <=> V = {}
           /\ V # {} => Soonest(V) \in V /\ \A v \in V : v >= Soonest(V)
<1>0. NoPoint \notin Int
  BY CyclingAssumption
<1>1. CASE V = {}
  BY <1>1 DEF Soonest
<1>2. CASE V # {}
  <2> DEFINE S == {v - b : v \in V}
  <2>1. S \subseteq Nat /\ S # {}
    <3>1. \A v \in V : v - b \in Nat
      OBVIOUS
    <3>2. QED
      BY <1>2, <3>1
  <2>2. PICK x \in S : \A y \in S : x <= y
    BY <2>1, LeastExists
  <2>3. PICK v \in V : x = v - b
    BY <2>2
  <2>4. \A w \in V : w - b \in S
    OBVIOUS
  <2>5. \A w \in V : v <= w
    <3>1. \A w \in V : v - b <= w - b
      BY <2>2, <2>3, <2>4
    <3>2. \A w \in V : w \in Int /\ v \in Int
      OBVIOUS
    <3>3. QED
      BY <3>1, <3>2
  <2>6. Min(V) \in V /\ \A w \in V : Min(V) <= w
    BY <2>5 DEF Min
  <2>7. QED
    BY <1>0, <1>2, <2>6 DEF Soonest
<1>3. QED
  BY <1>1, <1>2

\* get_next_point, for one-offs too.
LEMMA NextPoint ==
    ASSUME NEW s, Proper(s), NEW p \in Int
    PROVE  GetNextPoint(s, p) = IF s.step # 0 /\ p < s.start - s.step THEN NoPoint
                                ELSE Soonest({v \in Points(s) : v > p})
<1>1. CASE s.step # 0
  BY <1>1, NextPointIs
<1>2. CASE s.step = 0
  <2>1. Points(s) = {s.start} /\ s.start \in Int
    BY <1>2, PointIs DEF Proper
  <2>2. CASE p < s.start
    <3>1. Soonest({v \in Points(s) : v > p}) = s.start
      <4>1. PICK V \in SUBSET Int : V = Points(s)
        BY <2>1
      <4>2. s.start \in V /\ s.start > p /\ \A v \in V : v > p => v >= s.start
        BY <2>1, <2>2, <4>1
      <4>3. Soonest({v \in V : v > p}) = s.start
        BY <4>2, SoonestIs
      <4>4. QED
        BY <4>1, <4>3
    <3>2. QED
      BY <1>2, <2>2, <3>1 DEF GetNextPoint
  <2>3. CASE ~ p < s.start
    <3>1. {v \in Points(s) : v > p} = {}
      <4>1. ASSUME NEW v \in Points(s), v > p PROVE FALSE
        BY <2>1, <2>3, <4>1
      <4>2. QED
        BY <4>1
    <3>2. QED
      BY <1>2, <2>3, <3>1 DEF GetNextPoint, Soonest
  <2>4. QED
    BY <2>2, <2>3
<1>3. QED
  BY <1>1, <1>2

\* get_first_point.
LEMMA FirstPointIs ==
    ASSUME NEW s, Proper(s), NEW p \in Int
    PROVE  GetFirstPoint(s, p) = Soonest({v \in Points(s) : v >= p})
<1> DEFINE W == {v \in Points(s) : v >= p}
           q == IF p <= s.start THEN InBounds(s, s.start)
                ELSE IF IsOnSequence(s, p) THEN InBounds(s, p)
                ELSE GetNextPoint(s, p)
<1>0. /\ s.start \in Int /\ s.stop \in Int /\ s.step \in Nat /\ s.excl \subseteq Int
      /\ NoPoint \notin Int /\ Points(s) \in SUBSET Int
      /\ \A v \in Points(s) : v >= s.start /\ v <= s.stop /\ v \notin s.excl
  <2>1. \A v \in Points(s) : v >= s.start /\ v <= s.stop /\ v \notin s.excl
    BY PointsAre, PointIs DEF Proper, Points
  <2>2. QED
    BY <2>1, CyclingAssumption DEF Proper, Points
<1>1. GetFirstPoint(s, p) = IF q \in s.excl THEN GetNextPointOnSequence(s, q) ELSE q
  BY DEF GetFirstPoint
<1>2. s.start <= s.stop => OnGrid(s.start, s.step, s.start) \/ s.step = 0
  <2>1. ASSUME s.step # 0 PROVE OnGrid(s.start, s.step, s.start)
    <3>1. s.step \in Nat \ {0}
      BY <1>0, <2>1
    <3>2. QED
      BY <1>0, <3>1, StartOnGrid
  <2>2. QED
    BY <2>1
<1>3. CASE p <= s.start /\ s.start > s.stop
  <2>1. q = NoPoint /\ W = {}
    BY <1>0, <1>3, InBoundsIs
  <2>2. q \notin s.excl
    BY <1>0, <2>1
  <2>3. QED
    BY <1>1, <2>1, <2>2 DEF Soonest
<1>4. CASE p <= s.start /\ s.start <= s.stop /\ s.start \notin s.excl
  <2>1. q = s.start
    BY <1>0, <1>4, InBoundsIs
  <2>2. s.start \in Points(s)
    BY <1>0, <1>2, <1>4, PointsAre, PointIs
  <2>3. s.start \in W /\ \A v \in W : v >= s.start
    BY <1>0, <1>4, <2>2
  <2>4. Soonest(W) = s.start
    <3>1. W = {v \in Points(s) : v > p - 1} /\ p - 1 \in Int
      BY <1>0
    <3>2. s.start > p - 1 /\ \A v \in Points(s) : v > p - 1 => v >= s.start
      BY <1>0, <1>4
    <3> HIDE DEF W
    <3>3. QED
      BY <1>0, <2>2, <3>1, <3>2, SoonestIs
  <2>5. QED
    BY <1>1, <1>4, <2>1, <2>4
<1>5. CASE p <= s.start /\ s.start <= s.stop /\ s.start \in s.excl
  <2>1. q = s.start /\ s.step # 0
    BY <1>0, <1>5, InBoundsIs DEF Proper
  <2>2. s.start >= s.start - s.step
    BY <1>0
  <2>3. GetNextPointOnSequence(s, s.start) = Soonest({v \in Points(s) : v > s.start})
    BY <1>0, <1>2, <1>5, <2>1, <2>2, NextPointOnSequenceIs
  <2>4. s.start \notin Points(s)
    BY <1>0, <1>5
  <2>5. W = {v \in Points(s) : v > s.start}
    <3>1. \A v \in Points(s) : v # s.start
      BY <2>4
    <3>2. \A v \in Points(s) : v >= p <=> v > s.start
      BY <1>0, <1>5, <3>1
    <3>3. QED
      BY <3>2
  <2>6. QED
    BY <1>1, <1>5, <2>1, <2>3, <2>5
<1>6. CASE p > s.start /\ IsOnSequence(s, p)
  <2>1. s.step # 0 /\ p \notin s.excl /\ OnGrid(s.start, s.step, p)
    BY <1>0, <1>6 DEF IsOnSequence, OnGrid
  <2>2. q = InBounds(s, p)
    BY <1>0, <1>6
  <2>3. CASE p <= s.stop
    <3>1. q = p /\ p \in Points(s)
      BY <1>0, <1>6, <2>1, <2>2, <2>3, InBoundsIs, PointsAre
    <3>2. W = {v \in Points(s) : v > p - 1} /\ p - 1 \in Int
      BY <1>0
    <3>3. p > p - 1 /\ \A v \in Points(s) : v > p - 1 => v >= p
      BY <1>0
    <3> HIDE DEF W
    <3>4. Soonest(W) = p
      BY <1>0, <3>1, <3>2, <3>3, SoonestIs
    <3>5. QED
      BY <1>1, <2>1, <3>1, <3>4 DEF W
  <2>4. CASE p > s.stop
    <3>1. q = NoPoint /\ W = {}
      BY <1>0, <2>2, <2>4, InBoundsIs
    <3>2. q \notin s.excl
      BY <1>0, <3>1
    <3>3. QED
      BY <1>1, <3>1, <3>2 DEF Soonest
  <2>5. QED
    BY <1>0, <2>3, <2>4
<1>7. CASE p > s.start /\ ~IsOnSequence(s, p)
  <2>1. q = GetNextPoint(s, p)
    BY <1>0, <1>7
  <2>2. GetNextPoint(s, p) = Soonest({v \in Points(s) : v > p})
    BY <1>0, <1>7, NextPoint
  <2>3. p \notin Points(s)
    BY <1>7 DEF Points, IsValid
  <2>4. W = {v \in Points(s) : v > p}
    <3>1. \A v \in Points(s) : v # p
      BY <2>3
    <3>2. \A v \in Points(s) : v >= p <=> v > p
      BY <1>0, <3>1
    <3>3. QED
      BY <3>2
  <2>5. W \in SUBSET Int /\ \A v \in W : v >= p /\ v \notin s.excl
    BY <1>0
  <2>6. q = Soonest(W)
    BY <2>1, <2>2, <2>4
  <2> HIDE DEF W, q
  <2>7. Soonest(W) \notin s.excl
    BY <1>0, <2>5, SoonestExists
  <2>8. QED
    BY <1>1, <2>6, <2>7 DEF W
<1>8. QED
  BY <1>0, <1>3, <1>4, <1>5, <1>6, <1>7


\* get_prev_point: the same downwards.
LEMMA PrevPointIs ==
    ASSUME NEW s, Proper(s), s.step # 0, NEW p \in Int, p <= s.stop
    PROVE  GetPrevPoint(s, p) = Latest({v \in Points(s) : v < p})
<1> DEFINE back(k) == k - (IF (k - s.start) % s.step = 0 THEN s.step
                           ELSE (k - s.start) % s.step)
           Q == [k \in Int |-> InBounds(s, back(k))]
           before(k) == Latest({v \in Points(s) : v < k})
           f == [k \in Int |-> IF Q[k] = NoPoint THEN NoPoint ELSE before(k)]
           Prev(g) == g = [k \in Int |->
                             LET rest == (k - s.start) % s.step
                                 q == InBounds(s, k - (IF rest = 0 THEN s.step ELSE rest))
                             IN  IF q \in s.excl THEN g[q] ELSE q]
           N == CHOOSE g : Prev(g)
           C == s.excl \cap (s.start..s.stop)
           m == [k \in C |-> k - s.start]
<1>0. s.start \in Int /\ s.stop \in Int /\ s.step \in Nat \ {0} /\ s.excl \subseteq Int
  BY DEF Proper
<1>1. \A k \in Int : back(k) \in Int
  <2>1. ASSUME NEW k \in Int PROVE (k - s.start) % s.step \in Int
    <3>1. k - s.start \in Int
      BY <1>0
    <3>2. PICK r : r = (k - s.start) % s.step
      OBVIOUS
    <3>3. r \in 0..s.step - 1
      BY <1>0, <3>1, <3>2, Division
    <3>4. QED
      BY <1>0, <3>2, <3>3
  <2>2. QED
    BY <1>0, <2>1
<1>2. Points(s) \subseteq Int /\ NoPoint \notin Int
  BY CyclingAssumption DEF Points
<1>3. ASSUME NEW k \in Int
      PROVE  /\ back(k) < k
             /\ \A v \in Points(s) : v < k => v <= back(k)
             /\ Q[k] = NoPoint /\ k <= s.stop => \A v \in Points(s) : ~ v < k
             /\ Q[k] # NoPoint => Q[k] = back(k) /\ s.start <= back(k) /\ back(k) <= s.stop
             /\ Q[k] # NoPoint => (Q[k] \in Points(s) <=> Q[k] \notin s.excl)
  <2>1. PICK q \in Int : q = back(k)
    BY <1>1
  <2>2. /\ q < k /\ OnGrid(s.start, s.step, q)
        /\ \A v \in Points(s) : v < k => v <= q
        /\ InBounds(s, q) = NoPoint /\ k <= s.stop => \A v \in Points(s) : ~ v < k
    BY <2>1, OneStepBack
  <2>3. Q[k] = InBounds(s, q)
    BY <2>1
  <2>4. Q[k] # NoPoint => Q[k] = q /\ s.start <= q /\ q <= s.stop
    BY <2>3, InBoundsIs
  <2>5. s.start <= q /\ q <= s.stop => (q \in Points(s) <=> q \notin s.excl)
    BY <2>2, PointsAre
  <2>6. QED
    BY <2>1, <2>2, <2>3, <2>4, <2>5
<1>4. Prev(f)
  <2>1. ASSUME NEW k \in Int
        PROVE  f[k] = IF Q[k] \in s.excl THEN f[Q[k]] ELSE Q[k]
    <3>1. CASE Q[k] = NoPoint
      BY <1>0, <1>2, <3>1
    <3>2. CASE Q[k] # NoPoint /\ Q[k] \notin s.excl
      <4>1. Q[k] \in Points(s) /\ Q[k] < k /\ \A v \in Points(s) : v < k => v <= Q[k]
        BY <1>3, <3>2
      <4>2. before(k) = Q[k]
        BY <1>2, <4>1, LatestIs
      <4>3. QED
        BY <3>2, <4>2
    <3>3. CASE Q[k] # NoPoint /\ Q[k] \in s.excl
      <4>1. PICK q \in Int : q = Q[k]
        BY <1>0, <3>3
      <4>2. /\ q \notin Points(s) /\ q < k /\ \A v \in Points(s) : v < k => v <= q
            /\ q <= s.stop
        BY <1>3, <3>3, <4>1
      <4>3. before(k) = before(q)
        BY <1>2, <4>1, <4>2, LatestSkips
      <4>4. Q[q] = NoPoint => before(q) = NoPoint
        <5>1. Q[q] = NoPoint => {v \in Points(s) : v < q} = {}
          BY <1>0, <1>3, <4>2
        <5>2. QED
          BY <5>1 DEF Latest
      <4>5. QED
        BY <3>3, <4>1, <4>3, <4>4
    <3>4. QED
      BY <3>1, <3>2, <3>3
  <2>2. QED
    BY <2>1
<1>5. Prev(N)
  <2> HIDE DEF Prev
  <2>1. QED
    BY <1>4
<1>6. \A k \in Int : N[k] = IF Q[k] \in s.excl THEN N[Q[k]] ELSE Q[k]
  BY <1>5
<1>7. \A k \in Int : f[k] = IF Q[k] \in s.excl THEN f[Q[k]] ELSE Q[k]
  BY <1>4
<1>8. ASSUME NEW k \in Int, Q[k] \in s.excl PROVE Q[k] \in C /\ Q[k] < k
  <2> HIDE DEF Q, back
  <2>1. Q[k] # NoPoint /\ Q[k] \in Int
    BY <1>0, <1>2, <1>8
  <2>2. Q[k] < k /\ s.start <= Q[k] /\ Q[k] <= s.stop
    BY <1>3, <2>1
  <2>3. QED
    BY <1>0, <1>8, <2>1, <2>2
<1>9. /\ C \in SUBSET Int /\ m \in [C -> Nat]
      /\ \A k \in C : Q[k] \in C => m[Q[k]] < m[k]
  BY <1>0, <1>8
<1>10. GetPrevPoint(s, p) = N[p]
  BY DEF GetPrevPoint
<1> HIDE DEF N, f, Q, C, m, before, back
<1>11. \A k \in Int : \/ N[k] = f[k]
                      \/ Q[k] \in C /\ (N[Q[k]] = f[Q[k]] => N[k] = f[k])
  BY <1>6, <1>7, <1>8
<1>12. N[p] = f[p]
  BY <1>9, <1>11, OneSolution
<1>13. Q[p] = NoPoint => {v \in Points(s) : v < p} = {}
  BY <1>0, <1>3
<1>14. Q[p] = NoPoint => before(p) = NoPoint
  BY <1>13 DEF Latest, before
<1>15. QED
  BY <1>10, <1>12, <1>14 DEF f, before

\* get_nearest_prev_point: the walk from the first point ends before the point,
\* if that first point is not excluded.
LEMMA NearestPrevPointIs ==
    ASSUME NEW s, Proper(s), s.step # 0, NEW p \in Int, p <= s.stop, s.start \notin s.excl
    PROVE  GetNearestPrevPoint(s, p) = Latest({v \in Points(s) : v < p})
<1> DEFINE Q == [k \in Int |-> GetNextPoint(s, k)]
           W == {v \in Points(s) : v <= p}
           f == [k \in Int |-> IF Q[k] = NoPoint \/ Q[k] > p THEN k ELSE Latest(W)]
           Walk(g) == g = [k \in Int |-> LET q == GetNextPoint(s, k)
                                         IN  IF q = NoPoint \/ q > p THEN k ELSE g[q]]
           N == CHOOSE g : Walk(g)
           C == {k \in s.start..p : k # NoPoint}
           m == [k \in C |-> p - k]
<1>0. /\ s.start \in Int /\ s.stop \in Int /\ s.step \in Nat \ {0} /\ NoPoint \notin Int
      /\ Points(s) \in SUBSET Int
  BY CyclingAssumption DEF Proper, Points
<1>1. \A v \in Points(s) : v \in Int /\ v >= s.start /\ v <= s.stop
  BY PointsAre DEF Points
<1>2. ASSUME NEW k \in Int
      PROVE  \/ Q[k] = NoPoint
             \/ /\ Q[k] \in Points(s) /\ Q[k] > k
                /\ \A v \in Points(s) : v > k => v >= Q[k]
  <2> DEFINE U == {v \in Points(s) : v > k}
  <2>1. Q[k] = NoPoint \/ Q[k] = Soonest(U)
    BY NextPointIs
  <2>2. U \in SUBSET Int /\ \A v \in U : v >= s.start
    BY <1>0, <1>1
  <2>3. \A v \in U : v \in Points(s) /\ v > k
    OBVIOUS
  <2>4. \A v \in Points(s) : v > k => v \in U
    OBVIOUS
  <2> HIDE DEF U, Q
  <2>5. Soonest(U) = NoPoint \/ (Soonest(U) \in U /\ \A v \in U : v >= Soonest(U))
    BY <1>0, <2>2, SoonestExists
  <2>6. QED
    BY <2>1, <2>3, <2>4, <2>5
<1>3. ASSUME NEW k \in Int, k >= s.start, Q[k] = NoPoint PROVE \A v \in Points(s) : v <= k
  <2> DEFINE U == {v \in Points(s) : v > k}
  <2>1. Q[k] = Soonest(U)
    BY <1>0, <1>3, NextPointIs
  <2>2. U \in SUBSET Int /\ \A v \in U : v >= s.start
    BY <1>0, <1>1
  <2>3. U = {}
    <3> HIDE DEF U, Q
    <3>1. QED
      BY <1>0, <1>3, <2>1, <2>2, SoonestExists
  <2>4. QED
    BY <1>1, <1>3, <2>3
<1>4. ASSUME NEW k \in Points(s), k <= p, Q[k] = NoPoint \/ Q[k] > p PROVE Latest(W) = k
  <2>1. k \in W /\ W \in SUBSET Int
    BY <1>0, <1>4
  <2>2. \A v \in W : v <= k
    BY <1>0, <1>1, <1>2, <1>3, <1>4
  <2>3. PICK P \in SUBSET Int : P = Points(s)
    BY <1>0
  <2>4. W = {v \in P : v < p + 1} /\ p + 1 \in Int
    BY <2>3
  <2>5. Latest({v \in P : v < p + 1}) = k
    <3>1. k \in P /\ k < p + 1 /\ \A v \in P : v < p + 1 => v <= k
      BY <1>4, <2>2, <2>3
    <3>2. QED
      BY <2>4, <3>1, LatestIs
  <2>6. QED
    BY <2>4, <2>5
<1>5. Walk(f)
  <2>1. ASSUME NEW k \in Int
        PROVE  f[k] = IF Q[k] = NoPoint \/ Q[k] > p THEN k ELSE f[Q[k]]
    <3>1. CASE Q[k] = NoPoint \/ Q[k] > p
      BY <3>1
    <3>2. CASE ~(Q[k] = NoPoint \/ Q[k] > p)
      <4>1. PICK q : q = Q[k]
        OBVIOUS
      <4>2. q \in Points(s) /\ q \in Int /\ q <= p
        BY <1>0, <1>2, <3>2, <4>1
      <4>3. Q[q] = NoPoint \/ Q[q] > p => Latest(W) = q
        BY <1>4, <4>2
      <4>4. f[k] = Latest(W)
        BY <3>2
      <4>5. f[q] = Latest(W)
        BY <4>2, <4>3
      <4>6. QED
        BY <3>2, <4>1, <4>4, <4>5
    <3>3. QED
      BY <3>1, <3>2
  <2>2. \A k \in Int : f[k] = LET q == GetNextPoint(s, k)
                             IN  IF q = NoPoint \/ q > p THEN k ELSE f[q]
    <3>1. \A k \in Int : Q[k] = GetNextPoint(s, k)
      OBVIOUS
    <3> HIDE DEF Q, f
    <3>2. QED
      BY <2>1, <3>1
  <2>3. f = [k \in Int |-> f[k]]
    OBVIOUS
  <2> HIDE DEF f
  <2>4. QED
    BY <2>2, <2>3
<1>6. Walk(N)
  <2> HIDE DEF Walk
  <2>1. QED
    BY <1>5
<1>7. \A k \in Int : N[k] = IF Q[k] = NoPoint \/ Q[k] > p THEN k ELSE N[Q[k]]
  BY <1>6
<1>8. \A k \in Int : f[k] = IF Q[k] = NoPoint \/ Q[k] > p THEN k ELSE f[Q[k]]
  BY <1>5
<1>9. ASSUME NEW k \in Int, ~(Q[k] = NoPoint \/ Q[k] > p) PROVE Q[k] \in C /\ Q[k] > k
  <2> HIDE DEF Q
  <2>1. Q[k] \in Points(s) /\ Q[k] > k
    BY <1>2, <1>9
  <2>2. Q[k] \in Int /\ Q[k] >= s.start /\ Q[k] <= p /\ Q[k] # NoPoint
    <3>1. Q[k] \in Int /\ Q[k] >= s.start
      BY <1>1, <2>1
    <3>2. QED
      BY <1>0, <1>9, <3>1
  <2>3. QED
    BY <1>0, <2>1, <2>2
<1>10. C \in SUBSET Int /\ m \in [C -> Nat]
  BY <1>0
<1>11. \A k \in C : Q[k] \in C => m[Q[k]] < m[k]
  <2> HIDE DEF Q
  <2>1. \A k \in C : Q[k] \in C => Q[k] > k /\ k \in Int /\ Q[k] \in Int
    BY <1>0, <1>2
  <2>2. QED
    BY <2>1
<1>12. GetNearestPrevPoint(s, p) =
         IF IsOnSequence(s, p) THEN GetPrevPoint(s, p)
         ELSE IF InBounds(s, s.start) = NoPoint \/ s.start > p THEN NoPoint
         ELSE N[s.start]
  BY DEF GetNearestPrevPoint
<1> HIDE DEF N, f, Q, C, m
<1>13. \A k \in Int : \/ N[k] = f[k]
                      \/ Q[k] \in C /\ (N[Q[k]] = f[Q[k]] => N[k] = f[k])
  BY <1>7, <1>8, <1>9
<1>14. \A k \in Int : N[k] = f[k]
  BY <1>10, <1>11, <1>13, OneSolution
<1>15. CASE IsOnSequence(s, p)
  BY <1>12, <1>15, PrevPointIs
<1>16. CASE ~IsOnSequence(s, p) /\ (InBounds(s, s.start) = NoPoint \/ s.start > p)
  <2>1. \A v \in Points(s) : ~ v < p
    BY <1>0, <1>1, <1>16, InBoundsIs
  <2>2. {v \in Points(s) : v < p} = {}
    BY <2>1
  <2>3. QED
    BY <1>12, <1>16, <2>2 DEF Latest
<1>17. CASE ~IsOnSequence(s, p) /\ ~(InBounds(s, s.start) = NoPoint \/ s.start > p)
  <2>1. s.start \in Points(s) /\ s.start <= p
    <3>1. OnGrid(s.start, s.step, s.start)
      BY <1>0, StartOnGrid
    <3>2. s.start <= s.stop
      BY <1>0, <1>17, InBoundsIs
    <3>3. QED
      BY <1>0, <1>17, <3>1, <3>2, PointsAre
  <2>2. f[s.start] = Latest(W)
    <3> HIDE DEF W
    <3>1. QED
      BY <1>0, <1>4, <2>1 DEF f
  <2>3. W = {v \in Points(s) : v < p}
    <3>1. p \notin Points(s)
      BY <1>17 DEF Points, IsValid
    <3>2. \A v \in Points(s) : v <= p <=> v < p
      <4>1. \A v \in Points(s) : v \in Int /\ v # p
        BY <1>1, <3>1
      <4>2. QED
        BY <4>1
    <3>3. QED
      BY <3>2
  <2>4. QED
    BY <1>0, <1>12, <1>14, <1>17, <2>2, <2>3
<1>18. QED
  BY <1>15, <1>16, <1>17


\* A stretch of a grid, counted from either end.
Onward(a, d, n) == {a + d * k : k \in 0..n}
Backward(b, d, n) == {b - d * k : k \in 0..n}

\* The points of a grid from a to b, n steps later, are those of the stretch.
LEMMA Stretch ==
    ASSUME NEW a \in Int, NEW d \in Nat \ {0}, NEW n \in Nat, NEW b \in Int, b = a + d * n,
           NEW p \in Int
    PROVE  /\ OnGrid(a, d, p) /\ a <= p /\ p <= b <=> p \in Onward(a, d, n)
           /\ OnGrid(a, d, p) /\ a <= p /\ p <= b <=> p \in Backward(b, d, n)
<1>0. d * n \in Int /\ \A k \in Int : d * k \in Int
  BY Distribute
<1>1. ASSUME OnGrid(a, d, p), a <= p, p <= b PROVE \E k \in 0..n : p = a + d * k
  <2>1. PICK j \in Int : p = a + d * j
    BY <1>1, GridPoint
  <2>2. d * j \in Int /\ 0 <= d * j /\ d * j <= d * n
    BY <1>0, <1>1, <2>1
  <2>3. j >= 0
    <3>1. ASSUME j <= -1 PROVE FALSE
      <4>1. d * j <= d * (-1)
        BY <3>1, Monotone
      <4>2. d * (-1) = -d
        OBVIOUS
      <4>3. QED
        BY <2>2, <4>1, <4>2
    <3>2. QED
      BY <3>1
  <2>4. j <= n
    <3>1. ASSUME n + 1 <= j PROVE FALSE
      <4>1. d * (n + 1) <= d * j /\ d * (n + 1) = d * n + d
        BY <3>1, Monotone, Distribute
      <4>2. QED
        BY <1>0, <2>2, <4>1
    <3>2. QED
      BY <3>1
  <2>5. QED
    BY <2>1, <2>3, <2>4
<1>2. ASSUME NEW k \in 0..n, p = a + d * k PROVE OnGrid(a, d, p) /\ a <= p /\ p <= b
  <2>1. OnGrid(a, d, p)
    BY <1>2, GridPoint
  <2>2. d * 0 <= d * k /\ d * k <= d * n
    BY Monotone
  <2>3. d * 0 = 0
    OBVIOUS
  <2>4. QED
    BY <1>0, <1>2, <2>1, <2>2, <2>3
<1>3. \A k \in 0..n : n - k \in 0..n /\ d * k + d * (n - k) = d * n
  <2> TAKE k \in 0..n
  <2>1. k \in Int /\ n - k \in Int /\ k + (n - k) = n
    OBVIOUS
  <2>2. d * (k + (n - k)) = d * k + d * (n - k)
    BY <2>1, Distribute
  <2>3. QED
    BY <2>1, <2>2
<1>4. (\E k \in 0..n : p = a + d * k) => \E k \in 0..n : p = b - d * k
  <2> SUFFICES ASSUME NEW k \in 0..n, p = a + d * k PROVE p = b - d * (n - k)
    BY <1>3
  <2>1. n - k \in Int /\ k \in Int
    OBVIOUS
  <2>2. QED
    BY <1>0, <1>3, <2>1
<1>5. (\E k \in 0..n : p = b - d * k) => \E k \in 0..n : p = a + d * k
  <2> SUFFICES ASSUME NEW k \in 0..n, p = b - d * k PROVE p = a + d * (n - k)
    BY <1>3
  <2>1. n - k \in Int /\ k \in Int
    OBVIOUS
  <2>2. QED
    BY <1>0, <1>3, <2>1
<1>6. QED
  BY <1>1, <1>2, <1>4, <1>5 DEF Onward, Backward

\* What a recurrence is made of.
LEMMA RecurrenceFacts ==
    ASSUME NEW r \in Recurrences
    PROVE  /\ r.fmt \in {3, 4} /\ r.reps \in Nat /\ r.at \in Int /\ r.intv \in Nat
           /\ r.excl \subseteq Cycles
           /\ OneOff(r) => r.excl = {}
           /\ ~OneOff(r) => r.intv \in Nat \ {0}
<1>1. PICK X : X = {x \in SUBSET Cycles : Cardinality(x) <= MaxExcluded}
  OBVIOUS
<1>2. /\ r \in [fmt : {3, 4}, reps : 0..MaxReps, at : Ats, intv : 0..MaxIntv, excl : X]
      /\ r.intv = 0 => r.reps = 1
      /\ r.reps = 1 => r.excl = {}
  BY <1>1 DEF Recurrences
<1>3. r.fmt \in {3, 4} /\ r.reps \in 0..MaxReps /\ r.at \in Ats /\ r.intv \in 0..MaxIntv /\ r.excl \in X
  BY <1>2
<1>4. r.excl \subseteq Cycles
  BY <1>1, <1>3
<1>5. r.reps \in Nat /\ r.at \in Int /\ r.intv \in Nat
  <2>1. Ats \subseteq Int /\ MaxReps \in Nat /\ MaxIntv \in Nat
    BY CyclingAssumption
  <2>2. 0..MaxReps \subseteq Nat /\ 0..MaxIntv \subseteq Nat
    BY <2>1
  <2>3. QED
    BY <1>3, <2>1, <2>2, Zenon
<1>6. QED
  BY <1>2, <1>3, <1>4, <1>5 DEF OneOff

\* The bounds of a one-off and of a recurrence before they are clipped.
LEMMA UnclippedFacts ==
    ASSUME NEW r \in Recurrences
    PROVE  /\ OneOff(r) => Unclipped(r) = [start |-> r.at, stop |-> r.at, step |-> 0]
           /\ ~OneOff(r) => /\ Unclipped(r).start \in Int /\ Unclipped(r).stop \in Int
                            /\ Unclipped(r).step = r.intv
                            /\ Unclipped(r) \in [start : Int, stop : Int, step : Nat]
<1>0. Icp \in Int /\ Fcp \in Int
  BY CyclingAssumption
<1>1. ASSUME ~OneOff(r)
      PROVE  /\ Unclipped(r).start \in Int /\ Unclipped(r).stop \in Int
             /\ Unclipped(r).step = r.intv
             /\ Unclipped(r) \in [start : Int, stop : Int, step : Nat]
  <2>1. r.intv \in Nat \ {0} /\ r.at \in Int /\ r.reps \in Nat /\ r.fmt \in {3, 4}
    BY <1>1, RecurrenceFacts
  <2>2. r.intv * (r.reps - 1) \in Int
    BY <2>1
  <2>3. (Fcp - r.at) % r.intv \in Int /\ (Fcp - Icp) % r.intv \in Int
    <3>1. Fcp - r.at \in Int /\ Fcp - Icp \in Int
      BY <1>0, <2>1
    <3>2. PICK x, y : x = (Fcp - r.at) % r.intv /\ y = (Fcp - Icp) % r.intv
      OBVIOUS
    <3>3. x \in 0..r.intv - 1 /\ y \in 0..r.intv - 1
      BY <2>1, <3>1, <3>2, Division
    <3>4. QED
      BY <2>1, <3>2, <3>3
  <2>4. r.fmt = 3 => Unclipped(r) = [start |-> r.at, step |-> r.intv,
          stop |-> IF r.reps > 0 THEN r.at + r.intv * (r.reps - 1)
                                 ELSE Fcp - ((Fcp - r.at) % r.intv)]
    BY <1>1 DEF Unclipped
  <2>5. r.fmt = 4 => Unclipped(r) = [stop |-> r.at, step |-> r.intv,
          start |-> IF r.reps > 0 THEN r.at - r.intv * (r.reps - 1)
                                  ELSE Icp - ((Fcp - Icp) % r.intv)]
    BY <1>1, <2>1 DEF Unclipped
  <2>6. CASE r.fmt = 3
    BY <1>0, <2>1, <2>2, <2>3, <2>4, <2>6
  <2>7. CASE r.fmt = 4
    BY <1>0, <2>1, <2>2, <2>3, <2>5, <2>7
  <2>8. QED
    BY <2>1, <2>6, <2>7
<1>2. QED
  BY <1>1 DEF Unclipped

\* The sequence made of a recurrence.
LEMMA SequenceFacts ==
    ASSUME NEW r \in Recurrences
    PROVE  /\ Proper(SequenceOf(r))
           /\ SequenceOf(r).excl = r.excl
           /\ OneOff(r) <=> SequenceOf(r).step = 0
           /\ SequenceOf(r).step # 0 => SequenceOf(r).start >= Icp /\ SequenceOf(r).stop <= Fcp
           /\ OneOff(r) => SequenceOf(r).start = r.at
           /\ ~OneOff(r) => SequenceOf(r).step = r.intv
           /\ ~OneOff(r) /\ Unclipped(r).start >= Icp => SequenceOf(r).start = Unclipped(r).start
           /\ ~OneOff(r) /\ Unclipped(r).start < Icp
              => SequenceOf(r).start = Icp + ((Icp - Unclipped(r).start) % r.intv)
           /\ ~OneOff(r) /\ Unclipped(r).stop <= Fcp => SequenceOf(r).stop = Unclipped(r).stop
<1>0. Icp \in Int /\ Fcp \in Int /\ Cycles \subseteq Int
  BY CyclingAssumption DEF Cycles
<1>1. CASE OneOff(r)
  <2>1. Unclipped(r) = [start |-> r.at, stop |-> r.at, step |-> 0]
    BY <1>1, UnclippedFacts
  <2>2. SequenceOf(r) = [start |-> r.at, stop |-> r.at, step |-> 0, excl |-> r.excl]
    BY <2>1 DEF SequenceOf, ClipStart, ClipStop
  <2>3. QED
    BY <1>0, <1>1, <2>2, RecurrenceFacts DEF Proper
<1>2. CASE ~OneOff(r)
  <2>1. PICK u \in [start : Int, stop : Int, step : Nat] : u = Unclipped(r)
    BY <1>2, UnclippedFacts
  <2>2. u.step = r.intv /\ u.step \in Nat \ {0} /\ u.start \in Int /\ u.stop \in Int
    BY <1>2, <2>1, UnclippedFacts, RecurrenceFacts
  <2>3. PICK c : c = ClipStart(u)
    OBVIOUS
  <2>4. /\ c.step = u.step /\ c.stop = u.stop /\ c.start \in Int /\ c.start >= Icp
        /\ u.start >= Icp => c.start = u.start
        /\ u.start < Icp => c.start = Icp + ((Icp - u.start) % u.step)
        /\ c \in [start : Int, stop : Int, step : Nat]
    <3>1. CASE u.start < Icp
      <4>1. PICK x \in 0..u.step - 1 : x = (Icp - u.start) % u.step
        <5>1. Icp - u.start \in Int
          BY <1>0, <2>2
        <5>2. QED
          BY <2>2, <5>1, Division
      <4>2. c = [u EXCEPT !.start = Icp + x]
        BY <2>2, <2>3, <3>1, <4>1 DEF ClipStart
      <4>3. Icp + x \in Int /\ Icp + x >= Icp
        BY <1>0, <2>2
      <4>4. QED
        BY <1>0, <2>2, <3>1, <4>1, <4>2, <4>3
    <3>2. CASE ~ u.start < Icp
      BY <1>0, <2>2, <2>3, <3>2 DEF ClipStart
    <3>3. QED
      BY <3>1, <3>2
  <2>5. PICK e : e = ClipStop(c)
    OBVIOUS
  <2>6. /\ e.step = c.step /\ e.start = c.start /\ e.stop \in Int /\ e.stop <= Fcp
        /\ c.stop <= Fcp => e.stop = c.stop
    <3>1. CASE c.stop > Fcp
      <4>1. PICK x \in 0..c.step - 1 : x = (Fcp - c.start) % c.step
        <5>1. Fcp - c.start \in Int
          BY <1>0, <2>4
        <5>2. QED
          BY <2>2, <2>4, <5>1, Division
      <4>2. e = [c EXCEPT !.stop = Fcp - c.step + x]
        BY <2>2, <2>4, <2>5, <3>1, <4>1 DEF ClipStop
      <4>3. Fcp - c.step + x \in Int /\ Fcp - c.step + x <= Fcp
        BY <1>0, <2>2, <2>4
      <4>4. QED
        BY <1>0, <2>4, <3>1, <4>2, <4>3
    <3>2. CASE ~ c.stop > Fcp
      BY <1>0, <2>2, <2>4, <2>5, <3>2 DEF ClipStop
    <3>3. QED
      BY <3>1, <3>2
  <2>7. SequenceOf(r) = [start |-> e.start, stop |-> e.stop, step |-> e.step, excl |-> r.excl]
    BY <2>1, <2>3, <2>5 DEF SequenceOf
  <2>8. PICK z : z = SequenceOf(r)
    OBVIOUS
  <2>9. z.start = e.start /\ z.stop = e.stop /\ z.step = e.step /\ z.excl = r.excl
    BY <2>7, <2>8
  <2>10. Proper(z)
    BY <1>0, <2>2, <2>4, <2>6, <2>9, RecurrenceFacts DEF Proper
  <2>11. QED
    BY <1>2, <2>1, <2>2, <2>4, <2>6, <2>8, <2>9, <2>10
<1>3. QED
  BY <1>1, <1>2


\* A remainder is what is left after as many steps as there are.
LEMMA Whole ==
    ASSUME NEW x \in Nat, NEW d \in Nat \ {0}
    PROVE  \E n \in Nat : x = d * n + (x % d) /\ n <= x
<1>1. PICK n \in Int : x = d * n + (x % d)
  <2>1. PICK n : n = x \div d
    OBVIOUS
  <2>2. n \in Int /\ x = d * n + (x % d)
    BY <2>1, Division
  <2>3. QED
    BY <2>2
<1>2. PICK m \in 0..d-1 : m = x % d
  BY Division
<1>3. d * n \in Int
  BY Distribute
<1>4. n >= 0
  <2>1. ASSUME n <= -1 PROVE FALSE
    <3>1. d * n <= d * (-1) /\ d * (-1) = -d
      BY <2>1, Monotone
    <3>2. QED
      BY <1>1, <1>2, <1>3, <3>1
  <2>2. QED
    BY <2>1
<1>5. n <= x
  <2>1. 1 * n <= d * n
    <3>1. n * 1 <= n * d
      BY <1>4, Monotone
    <3>2. QED
      BY <3>1
  <2>2. QED
    BY <1>1, <1>2, <1>3, <2>1
<1>6. n \in Nat
  BY <1>4
<1>7. QED
  BY <1>1, <1>5, <1>6

\* What is written, with the steps counted one way.
LEMMA WrittenIs ==
    ASSUME NEW r \in Recurrences, ~OneOff(r), NEW p \in Int, NEW many \in Int,
           many = IF r.reps > 0 THEN r.reps - 1
                  ELSE IF r.fmt = 3 THEN Fcp - r.at ELSE r.at - Icp
    PROVE  /\ r.fmt = 3 => (p \in Written(r) <=>
                p \in Cycles \ r.excl /\ \E k \in 0..many : p = r.at + r.intv * k)
           /\ r.fmt = 4 => (p \in Written(r) <=>
                p \in Cycles \ r.excl /\ \E k \in 0..many : p = r.at - r.intv * k)
<1>1. r.intv \in Nat /\ r.at \in Int /\ r.fmt \in {3, 4}
  BY RecurrenceFacts
<1>2. \A k \in 0..many : /\ r.at + 1 * k * r.intv = r.at + r.intv * k
                         /\ r.at + (-1) * k * r.intv = r.at - r.intv * k
  BY <1>1
<1>3. CASE r.fmt = 3
  <2>1. Written(r) = ({r.at + 1 * k * r.intv : k \in 0..many} \cap Cycles) \ r.excl
    BY <1>3 DEF Written
  <2>2. QED
    BY <1>2, <1>3, <2>1
<1>4. CASE r.fmt = 4
  <2>1. Written(r) = ({r.at + (-1) * k * r.intv : k \in 0..many} \cap Cycles) \ r.excl
    BY <1>4 DEF Written
  <2>2. QED
    BY <1>2, <1>4, <2>1
<1>5. QED
  BY <1>1, <1>3, <1>4


\* The points of a sequence are those that are written, if the recurrence is not
\* misplaced: each form gives a stretch of a grid.
LEMMA PointsAsWritten ==
    ASSUME NEW r \in Recurrences, ~Misplaced(r), NEW p \in Int
    PROVE  p \in Points(SequenceOf(r)) <=> p \in Written(r)
<1>0. /\ Icp \in Int /\ Fcp \in Int /\ Icp <= Fcp /\ Cycles \subseteq Int
      /\ r.fmt \in {3, 4} /\ r.reps \in Nat /\ r.at \in Int /\ r.intv \in Nat
  BY CyclingAssumption, RecurrenceFacts DEF Cycles
<1>1. CASE OneOff(r)
  <2>1. Points(SequenceOf(r)) = {r.at}
    BY <1>1, SequenceFacts, PointIs
  <2>2. r.at \in Cycles
    <3>1. Unclipped(r).start = r.at /\ Unclipped(r).stop = r.at
      BY <1>1, UnclippedFacts
    <3>2. QED
      BY <1>0, <1>1, <3>1 DEF Misplaced, Cycles, OneOff
  <2>3. Written(r) = {r.at}
    <3> DEFINE sign == IF r.fmt = 3 THEN 1 ELSE -1
    <3>1. Written(r) = ({r.at + sign * k * r.intv : k \in 0..0} \cap Cycles) \ r.excl
      BY <1>1 DEF Written
    <3>2. r.at + sign * 0 * r.intv = r.at
      BY <1>0
    <3>3. 0..0 = {0}
      OBVIOUS
    <3>4. r.excl = {}
      BY <1>1, RecurrenceFacts
    <3> HIDE DEF sign
    <3>5. QED
      BY <2>2, <3>1, <3>2, <3>3, <3>4
  <2>4. QED
    BY <2>1, <2>3
<1>2. CASE ~OneOff(r)
  <2>0. r.intv \in Nat \ {0}
    BY <1>2, RecurrenceFacts
  <2>1. PICK s : s = SequenceOf(r)
    OBVIOUS
  <2>2. /\ Proper(s) /\ s.excl = r.excl /\ s.step = r.intv /\ s.step # 0
        /\ s.start \in Int /\ s.stop \in Int /\ s.start >= Icp /\ s.stop <= Fcp
    BY <1>2, <2>0, <2>1, SequenceFacts DEF Proper
  <2>11. PICK a \in Int, b \in Int, d \in Nat \ {0} :
              a = s.start /\ b = s.stop /\ d = r.intv
    BY <2>0, <2>2
  <2>12. a \in Int /\ b \in Int /\ d \in Nat \ {0}
    BY <2>11
  <2>3. p \in Points(s) <=>
          p \notin r.excl /\ OnGrid(s.start, r.intv, p) /\ s.start <= p /\ p <= s.stop
    BY <2>2, PointsAre
  <2>4. p \in Points(s) => p \in Cycles
    BY <1>0, <2>2, <2>3 DEF Cycles
  <2>5. PICK many \in Int : many = IF r.reps > 0 THEN r.reps - 1
                                   ELSE IF r.fmt = 3 THEN Fcp - r.at ELSE r.at - Icp
    BY <1>0
  <2>6. CASE r.fmt = 3 /\ r.reps > 0
    <3>1. Unclipped(r).start = r.at /\ Unclipped(r).stop = r.at + r.intv * (r.reps - 1)
      BY <1>2, <2>6 DEF Unclipped
    <3>2. s.start = r.at /\ s.stop = r.at + r.intv * many /\ many \in Nat
      <4>1. ~ Unclipped(r).start < Icp /\ ~ Unclipped(r).stop > Fcp
        BY <2>6 DEF Misplaced
      <4>2. r.intv * (r.reps - 1) \in Int
        BY <1>0
      <4>3. s.start = r.at /\ s.stop = r.at + r.intv * (r.reps - 1)
        BY <1>0, <1>2, <2>1, <3>1, <4>1, <4>2, SequenceFacts
      <4>4. QED
        BY <1>0, <2>5, <2>6, <4>3
    <3>3. OnGrid(s.start, r.intv, p) /\ s.start <= p /\ p <= s.stop
          <=> \E k \in 0..many : p = r.at + r.intv * k
      <4>1. b = a + d * many
        BY <2>11, <3>2
      <4>0. many \in Nat
        BY <3>2
      <4>2. OnGrid(a, d, p) /\ a <= p /\ p <= b <=> p \in Onward(a, d, many)
        BY <2>12, <4>0, <4>1, Stretch
      <4>3. QED
        BY <2>11, <3>2, <4>2 DEF Onward, Backward
    <3>4. QED
      BY <1>2, <2>1, <2>3, <2>4, <2>5, <2>6, <3>3, WrittenIs
  <2>7. CASE r.fmt = 4 /\ r.reps > 0
    <3>1. Unclipped(r).stop = r.at /\ Unclipped(r).start = r.at - r.intv * (r.reps - 1)
      BY <1>2, <2>7 DEF Unclipped
    <3>2. s.stop = r.at /\ s.start = r.at - r.intv * many /\ many \in Nat
      <4>1. ~ Unclipped(r).start < Icp /\ ~ Unclipped(r).stop > Fcp
        BY <1>0, <2>7 DEF Misplaced
      <4>2. r.intv * (r.reps - 1) \in Int
        BY <1>0
      <4>3. s.stop = r.at /\ s.start = r.at - r.intv * (r.reps - 1)
        BY <1>0, <1>2, <2>1, <3>1, <4>1, <4>2, SequenceFacts
      <4>4. QED
        BY <1>0, <2>5, <2>7, <4>3
    <3>3. s.stop = s.start + r.intv * many
      <4>1. r.intv * many \in Int
        BY <1>0
      <4>2. QED
        BY <1>0, <3>2, <4>1
    <3>4. OnGrid(s.start, r.intv, p) /\ s.start <= p /\ p <= s.stop
          <=> \E k \in 0..many : p = r.at - r.intv * k
      <4>1. b = a + d * many
        BY <2>11, <3>2, <3>3
      <4>0. many \in Nat
        BY <3>2
      <4>2. OnGrid(a, d, p) /\ a <= p /\ p <= b <=> p \in Backward(b, d, many)
        BY <2>12, <4>0, <4>1, Stretch
      <4>3. QED
        BY <2>11, <3>2, <3>3, <4>2 DEF Onward, Backward
    <3>5. QED
      BY <1>2, <2>1, <2>3, <2>4, <2>5, <2>7, <3>4, WrittenIs
  <2>8. CASE r.fmt = 3 /\ r.reps = 0
    <3>1. Unclipped(r).start = r.at /\ Unclipped(r).stop = Fcp - ((Fcp - r.at) % r.intv)
      BY <1>2, <2>8 DEF Unclipped
    <3>2. Fcp - r.at \in Int
      BY <1>0
    <3>3. PICK m \in 0..r.intv-1 : m = (Fcp - r.at) % r.intv
      BY <2>0, <3>2, Division
    <3>4. s.start = r.at /\ s.stop = Fcp - m
      <4>1. ~ Unclipped(r).start < Icp /\ ~ Unclipped(r).stop > Fcp
        BY <2>8 DEF Misplaced
      <4>2. QED
        BY <1>0, <1>2, <2>1, <3>1, <3>3, <4>1, SequenceFacts
    <3>5. many = Fcp - r.at
      BY <2>5, <2>8
    <3>6. CASE r.at > Fcp
      <4>1. p \notin Points(s)
        BY <1>0, <2>0, <2>3, <3>3, <3>4, <3>6
      <4>2. 0..many = {}
        BY <1>0, <3>5, <3>6
      <4>3. p \notin Written(r)
        BY <1>2, <2>5, <2>8, <4>2, WrittenIs
      <4>4. QED
        BY <2>1, <4>1, <4>3
    <3>7. CASE r.at <= Fcp
      <4>1. Fcp - r.at \in Nat
        BY <1>0, <3>7
      <4>2. PICK n \in Nat : Fcp - r.at = r.intv * n + m /\ n <= many
        BY <2>0, <3>3, <3>5, <4>1, Whole
      <4>3. r.intv * n \in Int
        BY <1>0
      <4>4. s.stop = s.start + r.intv * n
        <5>1. m \in Int /\ Fcp - m = r.at + r.intv * n
          <6>1. PICK x \in Int : x = r.intv * n
            BY <4>3
          <6>2. m \in Int /\ Fcp - r.at = x + m
            BY <2>0, <3>3, <4>2, <6>1
          <6>3. r.at \in Int /\ Fcp \in Int
            BY <1>0
          <6>4. Fcp - m = r.at + x
            BY <6>2, <6>3, <6>1
          <6>5. QED
            BY <6>1, <6>2, <6>4
        <5>2. QED
          BY <3>4, <5>1
      <4>5. OnGrid(s.start, r.intv, p) /\ s.start <= p /\ p <= s.stop
            <=> \E k \in 0..n : p = r.at + r.intv * k
        <5>1. b = a + d * n
          BY <2>11, <3>4, <4>4
        <5>0. n \in Nat
          BY <4>2
        <5>2. OnGrid(a, d, p) /\ a <= p /\ p <= b <=> p \in Onward(a, d, n)
          BY <2>12, <5>0, <5>1, Stretch
        <5>3. QED
          BY <2>11, <3>4, <4>4, <5>2 DEF Onward, Backward
      <4>6. ASSUME NEW k \in 0..many, p = r.at + r.intv * k, p \in Cycles PROVE k \in 0..n
        <5>1. ASSUME n + 1 <= k PROVE FALSE
          <6>1. r.intv * (n + 1) <= r.intv * k /\ r.intv * (n + 1) = r.intv * n + r.intv
                /\ r.intv * k \in Int
            BY <2>0, <5>1, Monotone, Distribute
          <6>2. r.intv * k <= Fcp - r.at
            BY <1>0, <4>6, <6>1 DEF Cycles
          <6>3. QED
            BY <1>0, <2>0, <3>3, <4>2, <4>3, <6>1, <6>2
        <5>2. QED
          BY <5>1
      <4>7. 0..n \subseteq 0..many
        BY <4>2
      <4>8. p \in Written(r) <=>
              p \in Cycles \ r.excl /\ \E k \in 0..many : p = r.at + r.intv * k
        BY <1>2, <2>5, <2>8, WrittenIs
      <4>9. QED
        BY <2>1, <2>3, <2>4, <4>5, <4>6, <4>7, <4>8
    <3>8. QED
      BY <1>0, <3>6, <3>7
  <2>9. CASE r.fmt = 4 /\ r.reps = 0
    <3>0. r.at = Fcp
      BY <2>9 DEF Misplaced
    <3>1. Unclipped(r).stop = r.at /\ Unclipped(r).start = Icp - ((Fcp - Icp) % r.intv)
      BY <1>2, <2>9 DEF Unclipped
    <3>2. Fcp - Icp \in Nat
      BY <1>0
    <3>3. PICK m \in 0..r.intv-1 : m = (Fcp - Icp) % r.intv
      BY <2>0, <3>2, Division
    <3>4. m % r.intv = m
      <4>1. (r.intv * 0 + m) % r.intv = m
        BY <2>0, Remainder
      <4>2. r.intv * 0 + m = m
        BY <2>0
      <4>3. QED
        BY <4>1, <4>2
    <3>5. s.start = Icp + m /\ s.stop = Fcp
      <4>1. Unclipped(r).start = Icp - m
        BY <3>1, <3>3
      <4>2. s.stop = Fcp
        BY <1>0, <1>2, <2>1, <3>0, <3>1, SequenceFacts
      <4>3. CASE m = 0
        BY <1>0, <1>2, <2>1, <4>1, <4>2, <4>3, SequenceFacts
      <4>4. CASE m > 0
        <5>1. Icp - Unclipped(r).start = m /\ Unclipped(r).start < Icp
          BY <1>0, <3>3, <4>1, <4>4
        <5>2. s.start = Icp + (m % r.intv)
          BY <1>2, <2>1, <5>1, SequenceFacts
        <5>3. QED
          BY <3>4, <4>2, <5>2
      <4>5. QED
        BY <3>3, <4>3, <4>4
    <3>6. many = Fcp - Icp
      BY <2>5, <2>9, <3>0
    <3>7. PICK n \in Nat : Fcp - Icp = r.intv * n + m /\ n <= many
      BY <2>0, <3>2, <3>3, <3>6, Whole
    <3>8. r.intv * n \in Int
      BY <1>0
    <3>9. s.stop = s.start + r.intv * n
      <4>1. m \in Int /\ Fcp = Icp + m + r.intv * n
        <5>1. PICK x \in Int : x = r.intv * n
          BY <3>8
        <5>2. m \in Int /\ Fcp - Icp = x + m
          BY <2>0, <3>3, <3>7, <5>1
        <5>3. QED
          BY <1>0, <5>1, <5>2
      <4>2. QED
        BY <3>5, <4>1
    <3>10. OnGrid(s.start, r.intv, p) /\ s.start <= p /\ p <= s.stop
            <=> \E k \in 0..n : p = r.at - r.intv * k
      <4>1. b = a + d * n
        BY <2>11, <3>0, <3>5, <3>9
      <4>0. n \in Nat
        BY <3>7
      <4>2. OnGrid(a, d, p) /\ a <= p /\ p <= b <=> p \in Backward(b, d, n)
        BY <2>12, <4>0, <4>1, Stretch
      <4>3. QED
        BY <2>11, <3>0, <3>5, <3>9, <4>2 DEF Onward, Backward
    <3>11. ASSUME NEW k \in 0..many, p = r.at - r.intv * k, p \in Cycles PROVE k \in 0..n
      <4>1. ASSUME n + 1 <= k PROVE FALSE
        <5>1. r.intv * (n + 1) <= r.intv * k /\ r.intv * (n + 1) = r.intv * n + r.intv
              /\ r.intv * k \in Int
          BY <2>0, <4>1, Monotone, Distribute
        <5>2. r.intv * k <= Fcp - Icp
          BY <1>0, <3>0, <3>11, <5>1 DEF Cycles
        <5>3. QED
          BY <1>0, <2>0, <3>3, <3>7, <3>8, <5>1, <5>2
      <4>2. QED
        BY <4>1
    <3>12. 0..n \subseteq 0..many
      BY <3>7
    <3>13. p \in Written(r) <=>
              p \in Cycles \ r.excl /\ \E k \in 0..many : p = r.at - r.intv * k
      BY <1>2, <2>5, <2>9, WrittenIs
    <3>14. QED
      BY <2>1, <2>3, <2>4, <3>10, <3>11, <3>12, <3>13
  <2>10. QED
    BY <1>0, <2>6, <2>7, <2>8, <2>9
<1>3. QED
  BY <1>1, <1>2


\* What SequenceAsWrittenBut says of one recurrence.
LEMMA QueriesAgree ==
    ASSUME NEW r \in Recurrences, ~Misplaced(r), NEW s, s = SequenceOf(r), NEW all,
           all = Written(r)
    PROVE  /\ {p \in Cycles : IsValid(s, p)} = all
           /\ \A p \in Cycles :
                /\ GetFirstPoint(s, p) = Soonest({q \in all : q >= p})
                /\ p >= s.start => GetNextPoint(s, p) = Soonest({q \in all : q > p})
                /\ p <= s.stop /\ s.step # 0 =>
                       GetPrevPoint(s, p) = Latest({q \in all : q < p})
                /\ s.start \notin s.excl /\ p <= s.stop /\ s.step # 0 =>
                       GetNearestPrevPoint(s, p) = Latest({q \in all : q < p})
<1>1. Proper(s) /\ s.start \in Int /\ s.step \in Nat
  BY SequenceFacts DEF Proper
<1>2. Cycles \subseteq Int /\ all \subseteq Cycles
  BY CyclingAssumption DEF Cycles, Written
<1>3. \A p \in Int : p \in Points(s) <=> p \in all
  BY PointsAsWritten
<1>4. Points(s) = all
  <2>1. Points(s) \subseteq Int
    BY DEF Points
  <2>2. QED
    BY <1>2, <1>3, <2>1
<1>5. {p \in Cycles : IsValid(s, p)} = all
  <2>1. \A p \in Int : p \in Points(s) <=> IsValid(s, p)
    BY DEF Points
  <2>2. \A p \in Cycles : IsValid(s, p) <=> p \in all
    BY <1>2, <1>3, <2>1
  <2>3. QED
    BY <1>2, <2>2
<1>6. ASSUME NEW p \in Cycles
      PROVE  /\ GetFirstPoint(s, p) = Soonest({q \in all : q >= p})
             /\ p >= s.start => GetNextPoint(s, p) = Soonest({q \in all : q > p})
             /\ p <= s.stop /\ s.step # 0 =>
                    GetPrevPoint(s, p) = Latest({q \in all : q < p})
             /\ s.start \notin s.excl /\ p <= s.stop /\ s.step # 0 =>
                    GetNearestPrevPoint(s, p) = Latest({q \in all : q < p})
  <2>1. p \in Int
    BY <1>2
  <2>2. GetFirstPoint(s, p) = Soonest({q \in all : q >= p})
    BY <1>1, <1>4, <2>1, FirstPointIs
  <2>3. ASSUME p >= s.start PROVE GetNextPoint(s, p) = Soonest({q \in all : q > p})
    <3>1. ~ p < s.start - s.step
      BY <1>1, <2>1, <2>3
    <3>2. QED
      BY <1>1, <1>4, <2>1, <3>1, NextPoint
  <2>4. p <= s.stop /\ s.step # 0 => GetPrevPoint(s, p) = Latest({q \in all : q < p})
    BY <1>1, <1>4, <2>1, PrevPointIs
  <2>5. s.start \notin s.excl /\ p <= s.stop /\ s.step # 0 =>
             GetNearestPrevPoint(s, p) = Latest({q \in all : q < p})
    BY <1>1, <1>4, <2>1, NearestPrevPointIs
  <2>6. QED
    BY <2>2, <2>3, <2>4, <2>5
<1>7. QED
  BY <1>5, <1>6

\* The recurrences of a task stay as they are.
RecsInv == \E r, q \in Recurrences : recs = {r, q}

\* The points from the initial one on.
Ahead == {p \in Int : p >= Icp /\ \E r \in recs : p \in Points(SequenceOf(r))}

\* As long as no recurrence begins late, what was visited is what lies behind, and
\* nothing lies behind that was not.
WalkInv ==
    \/ \E r \in recs : BeginsLate(r)
    \/ /\ now \in Ahead \cup {NoPoint}
       /\ visited = IF now = NoPoint THEN Ahead ELSE {p \in Ahead : p < now}

\* The earliest of the soonest points of two sets.
LEMMA EarliestIs ==
    ASSUME NEW U \in SUBSET Int, NEW W \in SUBSET Int, NEW b \in Int,
           \A v \in U \cup W : v >= b
    PROVE  Earliest({Soonest(U), Soonest(W)}) = Soonest(U \cup W)
<1>0. NoPoint \notin Int
  BY CyclingAssumption
<1>1. PICK u, w : u = Soonest(U) /\ w = Soonest(W)
  OBVIOUS
<1>2. /\ u = NoPoint <=> U = {}
      /\ U # {} => u \in U /\ \A v \in U : v >= u
      /\ w = NoPoint <=> W = {}
      /\ W # {} => w \in W /\ \A v \in W : v >= w
  BY <1>1, SoonestExists
<1>3. CASE U = {} /\ W = {}
  BY <1>1, <1>2, <1>3 DEF Earliest, Soonest
<1>4. CASE ~(U = {} /\ W = {})
  <2> DEFINE S == {u, w} \ {NoPoint}
  <2>1. S # {} /\ S \subseteq U \cup W /\ \A v \in U \cup W : \E x \in S : v >= x
    BY <1>0, <1>2, <1>4
  <2>2. PICK x \in S : \A y \in S : x <= y
    <3>1. u \in Int \cup {NoPoint} /\ w \in Int \cup {NoPoint}
      BY <1>2
    <3>2. CASE u = NoPoint
      <4>1. w \in Int /\ S = {w}
        BY <1>0, <1>2, <1>4, <3>1, <3>2
      <4> HIDE DEF S
      <4>2. QED
        BY <4>1
    <3>3. CASE w = NoPoint
      <4>1. CASE u = NoPoint
        BY <3>2, <4>1
      <4>2. CASE u # NoPoint
        <5>1. u \in Int /\ S = {u}
          BY <3>1, <3>3, <4>2
        <5> HIDE DEF S
        <5>2. QED
          BY <5>1
      <4>3. QED
        BY <4>1, <4>2
    <3>4. CASE u # NoPoint /\ w # NoPoint
      <4>1. u \in Int /\ w \in Int /\ S = {u, w}
        BY <3>1, <3>4
      <4> HIDE DEF S
      <4>2. u <= w \/ w <= u
        BY <4>1
      <4>3. QED
        BY <4>1, <4>2
    <3>5. QED
      BY <3>2, <3>3, <3>4
  <2>3. x \in Int /\ x \in U \cup W
    BY <2>1, <2>2
  <2>4. \A v \in U \cup W : v >= x
    <3>1. \A y \in S : y \in Int
      BY <2>1
    <3>2. QED
      BY <2>1, <2>2, <2>3, <3>1
  <2>5. Min(S) = x
    <3>1. \A z \in S : (\A y \in S : z <= y) => z = x
      BY <2>1, <2>2, <2>3
    <3> HIDE DEF S
    <3>2. QED
      BY <2>2, <3>1 DEF Min
  <2>6. Min(U \cup W) = x
    <3>1. \A z \in U \cup W : (\A y \in U \cup W : z <= y) => z = x
      BY <2>3, <2>4
    <3>2. QED
      BY <2>3, <2>4, <3>1 DEF Min
  <2>7. Earliest({u, w}) = Min(S)
    BY <2>1 DEF Earliest
  <2>8. Soonest(U \cup W) = Min(U \cup W)
    BY <2>3 DEF Soonest
  <2>9. QED
    BY <1>1, <2>5, <2>6, <2>7, <2>8
<1>5. QED
  BY <1>3, <1>4

\* The walk begins with the first of the points.
LEMMA WalkInit == CycInit => RecsInv /\ WalkInv
<1> SUFFICES ASSUME CycInit PROVE RecsInv /\ WalkInv
  OBVIOUS
<1>0. Icp \in Int /\ NoPoint \notin Int
  BY CyclingAssumption
<1>1. PICK r \in Recurrences, q \in Recurrences : recs = {r, q}
  BY DEF CycInit
<1> DEFINE U == {v \in Points(SequenceOf(r)) : v >= Icp}
           W == {v \in Points(SequenceOf(q)) : v >= Icp}
<1>2. GetFirstPoint(SequenceOf(r), Icp) = Soonest(U)
      /\ GetFirstPoint(SequenceOf(q), Icp) = Soonest(W)
  BY <1>0, SequenceFacts, FirstPointIs
<1>3. now = Earliest({Soonest(U), Soonest(W)})
  <2>1. now = Earliest({GetFirstPoint(SequenceOf(x), Icp) : x \in {r, q}})
    BY <1>1 DEF CycInit, FirstCycle
  <2>2. {GetFirstPoint(SequenceOf(x), Icp) : x \in {r, q}} = {Soonest(U), Soonest(W)}
    BY <1>2
  <2>3. QED
    BY <2>1, <2>2
<1>4. Ahead = U \cup W
  BY <1>1 DEF Ahead, Points
<1>5. U \in SUBSET Int /\ W \in SUBSET Int /\ \A v \in U \cup W : v >= Icp
  BY DEF Points
<1> HIDE DEF U, W
<1>6. now = Soonest(Ahead)
  BY <1>0, <1>3, <1>4, <1>5, EarliestIs
<1>7. /\ now = NoPoint <=> Ahead = {}
      /\ Ahead # {} => now \in Ahead /\ \A v \in Ahead : v >= now
  BY <1>0, <1>4, <1>5, <1>6, SoonestExists
<1>8. visited = {}
  BY DEF CycInit
<1>9. now # NoPoint => {p \in Ahead : p < now} = {}
  <2>1. \A p \in Ahead : p \in Int
    BY <1>4, <1>5
  <2>2. QED
    BY <1>7, <2>1
<1>10. WalkInv
  BY <1>7, <1>8, <1>9 DEF WalkInv
<1>11. QED
  BY <1>1, <1>10 DEF RecsInv

\* One point further.
LEMMA WalkNext == ASSUME RecsInv, WalkInv, [SpawnAndGoOn]_cycVars PROVE RecsInv' /\ WalkInv'
<1>1. CASE UNCHANGED cycVars
  BY <1>1 DEF RecsInv, WalkInv, cycVars, Ahead, BeginsLate, Due
<1>2. CASE SpawnAndGoOn
  <2>0. Icp \in Int /\ Fcp \in Int /\ NoPoint \notin Int
    BY CyclingAssumption
  <2>1. recs' = recs /\ now # NoPoint /\ visited' = visited \cup {now} /\ now' = NextCycle
    BY <1>2 DEF SpawnAndGoOn
  <2>2. RecsInv'
    BY <2>1 DEF RecsInv
  <2>3. Ahead' = Ahead /\ ((\E r \in recs : BeginsLate(r))' <=> \E r \in recs : BeginsLate(r))
    BY <2>1 DEF Ahead, BeginsLate, Due
  <2>4. CASE \E r \in recs : BeginsLate(r)
    BY <2>2, <2>3, <2>4 DEF WalkInv
  <2>5. CASE ~ \E r \in recs : BeginsLate(r)
    <3>1. PICK r \in Recurrences, q \in Recurrences : recs = {r, q}
      BY DEF RecsInv
    <3>2. now \in Ahead /\ visited = {p \in Ahead : p < now} /\ now \in Int
      BY <2>1, <2>5 DEF WalkInv, Ahead
    <3>3. ASSUME NEW x \in recs
          PROVE  GetNextPoint(SequenceOf(x), now)
                 = Soonest({v \in Points(SequenceOf(x)) : v > now})
      <4>1. PICK s : s = SequenceOf(x)
        OBVIOUS
      <4>2. x \in Recurrences
        BY <3>1
      <4>3. /\ Proper(s) /\ s.step \in Nat /\ s.start \in Int /\ s.stop \in Int
            /\ s.step # 0 => s.stop <= Fcp
        BY <4>1, <4>2, SequenceFacts DEF Proper
      <4>4. CASE s.step # 0 /\ now < s.start - s.step
        <5>1. now > Fcp
          <6>1. ASSUME now <= Fcp PROVE FALSE
            <7>1. now \in Due
              BY <2>0, <3>2, <6>1 DEF Due, Ahead, Points, Cycles
            <7>2. BeginsLate(x)
              BY <4>1, <4>4, <7>1 DEF BeginsLate
            <7>3. QED
              BY <2>5, <7>2
          <6>2. QED
            BY <2>0, <3>2, <6>1
        <5>2. \A v \in Points(s) : v \in Int /\ v <= s.stop
          BY <4>3, <4>4, PointsAre DEF Points
        <5>3. {v \in Points(s) : v > now} = {}
          <6>1. ASSUME NEW v \in Points(s), v > now PROVE FALSE
            <7>1. v \in Int /\ v <= s.stop
              BY <5>2
            <7>2. QED
              BY <2>0, <3>2, <4>3, <4>4, <5>1, <6>1, <7>1
          <6>2. QED
            BY <6>1
        <5>4. QED
          BY <3>2, <4>1, <4>3, <4>4, <5>3, NextPoint DEF Soonest
      <4>5. CASE ~(s.step # 0 /\ now < s.start - s.step)
        BY <3>2, <4>1, <4>3, <4>5, NextPoint
      <4>6. QED
        BY <4>4, <4>5
    <3> DEFINE U == {v \in Points(SequenceOf(r)) : v > now}
               W == {v \in Points(SequenceOf(q)) : v > now}
    <3>4. GetNextPoint(SequenceOf(r), now) = Soonest(U)
          /\ GetNextPoint(SequenceOf(q), now) = Soonest(W)
      BY <3>1, <3>3
    <3>5. now' = Earliest({Soonest(U), Soonest(W)})
      <4>1. now' = Earliest({GetNextPoint(SequenceOf(x), now) : x \in {r, q}})
        BY <2>1, <3>1 DEF NextCycle
      <4>2. {GetNextPoint(SequenceOf(x), now) : x \in {r, q}} = {Soonest(U), Soonest(W)}
        BY <3>4
      <4>3. QED
        BY <4>1, <4>2
    <3>6. now >= Icp
      BY <3>2 DEF Ahead
    <3>7. U \cup W = {v \in Ahead : v > now}
      <4>1. \A v \in Int : v > now => v >= Icp
        BY <2>0, <3>2, <3>6
      <4>2. QED
        BY <3>1, <4>1 DEF Ahead, Points
    <3>8. U \in SUBSET Int /\ W \in SUBSET Int /\ \A v \in U \cup W : v >= now
      <4>1. U \in SUBSET Int /\ W \in SUBSET Int
        BY DEF Points
      <4>2. QED
        BY <3>2, <4>1
    <3> HIDE DEF U, W
    <3>9. now' = Soonest(U \cup W)
      BY <3>2, <3>5, <3>8, EarliestIs
    <3>10. /\ now' = NoPoint <=> U \cup W = {}
           /\ U \cup W # {} => now' \in U \cup W /\ \A v \in U \cup W : v >= now'
      BY <3>2, <3>8, <3>9, SoonestExists
    <3>11. visited' = {p \in Ahead : p <= now}
      <4>1. \A p \in Ahead : p \in Int
        BY DEF Ahead
      <4>2. \A p \in Ahead : p <= now <=> p < now \/ p = now
        BY <3>2, <4>1
      <4>3. QED
        BY <2>1, <3>2, <4>2
    <3>12. \A p \in Ahead : p \in Int
      BY DEF Ahead
    <3>13. now' = NoPoint => visited' = Ahead
      <4>1. now' = NoPoint => \A p \in Ahead : p <= now
        BY <3>2, <3>7, <3>10, <3>12
      <4>2. QED
        BY <3>11, <4>1
    <3>14. ASSUME now' # NoPoint PROVE now' \in Ahead /\ visited' = {p \in Ahead : p < now'}
      <4>1. now' \in Ahead /\ now' > now /\ now' \in Int
        BY <3>7, <3>10, <3>12, <3>14
      <4>2. \A p \in Ahead : p > now => p >= now'
        BY <3>7, <3>10, <3>14
      <4>3. \A p \in Ahead : p <= now <=> p < now'
        BY <3>2, <3>12, <4>1, <4>2
      <4>4. QED
        BY <3>11, <4>1, <4>3
    <3>15. WalkInv'
      BY <2>3, <3>13, <3>14 DEF WalkInv
    <3>16. QED
      BY <2>2, <3>15
  <2>6. QED
    BY <2>4, <2>5
<1>3. QED
  BY <1>1, <1>2

\* Whatever the recurrences of a task, its sequences are what the recurrences say and
\* the queries about them agree, except where SequenceAsWrittenBut says otherwise.
THEOREM SequencesAreAsWritten == CycSpec => []SequenceAsWrittenBut
<1>1. RecsInv => SequenceAsWrittenBut
  <2> SUFFICES ASSUME RecsInv, NEW r \in recs, ~Misplaced(r)
      PROVE  LET s == SequenceOf(r)
                 all == Written(r)
                 Least(q) == IF q = {} THEN NoPoint ELSE Min(q)
                 Most(q) == IF q = {} THEN NoPoint ELSE Max(q)
             IN  /\ {p \in Cycles : IsValid(s, p)} = all
                 /\ \A p \in Cycles :
                      /\ GetFirstPoint(s, p) = Least({q \in all : q >= p})
                      /\ p >= s.start => GetNextPoint(s, p) = Least({q \in all : q > p})
                      /\ p <= s.stop /\ s.step # 0 =>
                             GetPrevPoint(s, p) = Most({q \in all : q < p})
                      /\ s.start \notin s.excl /\ p <= s.stop /\ s.step # 0 =>
                             GetNearestPrevPoint(s, p) = Most({q \in all : q < p})
    BY DEF SequenceAsWrittenBut
  <2>1. r \in Recurrences
    BY DEF RecsInv
  <2>2. PICK s, all : s = SequenceOf(r) /\ all = Written(r)
    OBVIOUS
  <2>3. QED
    BY <2>1, <2>2, QueriesAgree DEF Soonest, Latest
<1>2. QED
  BY <1>1, WalkInit, WalkNext, PTL DEF CycSpec

\* Whatever the recurrences of a task without parents, the pool goes through all their
\* points, unless one of them begins late.
THEOREM NoCycleMissed == CycSpec => []EveryCycleSpawnedBut
<1>1. RecsInv /\ WalkInv => EveryCycleSpawnedBut
  <2> SUFFICES ASSUME RecsInv, now = NoPoint, visited = Ahead PROVE visited \cap Cycles = Due
    BY DEF WalkInv, EveryCycleSpawnedBut, EveryCycleSpawned
  <2>1. \A p \in Cycles : p \in Int /\ p >= Icp
    BY CyclingAssumption DEF Cycles
  <2>2. QED
    BY <2>1 DEF Ahead, Due, Points
<1>2. QED
  BY <1>1, WalkInit, WalkNext, PTL DEF CycSpec
===========================================================================
