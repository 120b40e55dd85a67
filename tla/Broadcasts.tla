----------------------------- MODULE Broadcasts -----------------------------
(***************************************************************************)
(* Broadcast settings (broadcast_mgr.py) and their way into the run        *)
(* database (workflow_db_mgr.py, rundb.py).                                *)
(*                                                                         *)
(* Broadcasts are set and cleared by the thread of the server, as requests *)
(* come in, and expired by the main loop.  Either changes the settings     *)
(* under a lock, and then, without it, queues statements for the database: *)
(* an insert, or a delete that also takes queued inserts back.  The main   *)
(* loop takes the queued deletes, then the queued inserts, and executes    *)
(* them in that order; for the public database, which others may lock,     *)
(* what failed is kept and tried again.                                    *)
(*                                                                         *)
(* A setting is a cycle point, 0 for all of them, and a namespace; one     *)
(* item is set there.  Of the inserts queued for a setting only the last   *)
(* one counts, so that what is queued is a value for each setting.         *)
(* Validation of settings is not modelled.                                 *)
(***************************************************************************)
EXTENDS Naturals, Sequences, Functions

CONSTANTS
    LastCycle,    \* settings are for cycle points 1..LastCycle
    Ancestry,     \* linearized_ancestors of the task: itself first, root last
    Values,       \* values of the item
    Longest,      \* interval_of_longest_sequence
    MaxRequests,  \* bound on requests
    MaxFailures   \* bound on failed writes of the public database

ASSUME BroadcastAssumption ==
    /\ LastCycle \in Nat /\ Longest \in Nat
    /\ Ancestry \in Seq(STRING) /\ Ancestry # <<>>
    /\ MaxRequests \in Nat /\ MaxFailures \in Nat
    /\ "none" \notin Values

Settings == (0..LastCycle) \X Range(Ancestry)
NoValue == "none"
Table == [Settings -> Values \cup {NoValue}]
Empty == [s \in Settings |-> NoValue]

VARIABLES
    broadcasts,  \* BroadcastMgr.broadcasts
    request,     \* what the thread of the server has still to queue, or <<>>
    expiry,      \* what the main loop has still to queue, or <<>>
    dels, ins,   \* db_deletes_map, db_inserts_map
    taken,       \* deletes and inserts taken by process_queued_ops
    writing,     \* "no", or what process_queued_ops has still to take
    pri, pub,    \* the private and the public table
    late,        \* deletes and inserts kept for the public database
    minPoint,    \* get_min_point of the pool
    raced,       \* the threads met
    requests, failures

bvars == <<broadcasts, request, expiry, dels, ins, taken, writing, pri, pub, late,
           minPoint, raced, requests, failures>>

Queues == [dels : SUBSET Settings, ins : Table]
NoItems == [dels |-> {}, ins |-> Empty]

BInit ==
    /\ broadcasts = Empty /\ pri = Empty /\ pub = Empty
    /\ request = <<>> /\ expiry = <<>>
    /\ dels = {} /\ ins = Empty
    /\ taken = NoItems /\ late = NoItems
    /\ writing = "no"
    /\ minPoint = 1
    /\ raced = FALSE
    /\ requests = 0 /\ failures = 0
-----------------------------------------------------------------------------
(* The database. *)

\* Inserts, where there are any, replace the values of a table or of earlier
\* inserts.
Insert(table, new) ==
    [s \in Settings |-> IF new[s] # NoValue THEN new[s] ELSE table[s]]

Delete(table, S) == [s \in Settings |-> IF s \in S THEN NoValue ELSE table[s]]

\* execute_queued_items: deletes before inserts.
Execute(table, q) == Insert(Delete(table, q.dels), q.ins)

Join(p, q) == [dels |-> p.dels \cup q.dels, ins |-> Insert(p.ins, q.ins)]

\* Mutant of QueueCancel: queued inserts are left.
QueueCancelOnly(S) == /\ dels' = dels \cup S
                      /\ UNCHANGED ins

\* put_broadcast of the database manager.
QueueCancel(S) ==
    /\ dels' = dels \cup S
    /\ ins' = Delete(ins, S)

QueueSet(s, v) == ins' = [ins EXCEPT ![s] = v] /\ UNCHANGED dels

\* process_queued_ops of the main loop: deletes first,
TakeDeletes ==
    /\ expiry = <<>>
    /\ writing = "no"
    /\ dels # {} \/ ins # Empty \/ late # NoItems
    /\ taken' = [NoItems EXCEPT !.dels = dels]
    /\ dels' = {}
    /\ writing' = "inserts"
    /\ raced' = (raced \/ request # <<>>)
    /\ UNCHANGED <<broadcasts, request, expiry, ins, pri, pub, late, minPoint, requests,
                   failures>>

\* then inserts,
TakeInserts ==
    /\ writing = "inserts"
    /\ taken' = [taken EXCEPT !.ins = ins]
    /\ ins' = Empty
    /\ writing' = "execute"
    /\ UNCHANGED <<broadcasts, request, expiry, dels, pri, pub, late, minPoint, raced,
                   requests, failures>>

\* then both are executed.  The public database takes what was kept for it as
\* well, or keeps it all.
ExecuteQueued(ok) ==
    /\ writing = "execute"
    /\ ok \/ failures < MaxFailures
    /\ pri' = Execute(pri, taken)
    /\ LET all == Join(late, taken) IN
         IF ok THEN pub' = Execute(pub, all) /\ late' = NoItems
               ELSE late' = all /\ UNCHANGED pub
    /\ failures' = IF ok THEN failures ELSE failures + 1
    /\ taken' = NoItems
    /\ writing' = "no"
    /\ UNCHANGED <<broadcasts, request, expiry, dels, ins, minPoint, raced, requests>>

\* recover_pub_from_pri, after MAX_TRIES failures: a copy.  What was kept for
\* the public database is still to be executed.
RecoverPublic ==
    /\ failures = MaxFailures /\ late # NoItems /\ writing = "no"
    /\ pub' = pri
    /\ UNCHANGED <<broadcasts, request, expiry, dels, ins, taken, writing, pri, late,
                   minPoint, raced, requests, failures>>
-----------------------------------------------------------------------------
(* The settings. *)

\* BroadcastMgr.put_broadcast, up to the end of the lock.
Put(s, v) ==
    /\ request = <<>>
    /\ requests < MaxRequests
    /\ broadcasts' = [broadcasts EXCEPT ![s] = v]
    /\ request' = <<"set", s, v>>
    /\ requests' = requests + 1
    /\ raced' = (raced \/ writing # "no" \/ expiry # <<>>)
    /\ UNCHANGED <<expiry, dels, ins, taken, writing, pri, pub, late, minPoint, failures>>

\* Those of S that are set are unset, and pruned.
Unset(S) == Delete(broadcasts, S)
SetIn(S) == {s \in S : broadcasts[s] # NoValue}

\* clear_broadcast, for points and namespaces.
Clear(P, N) ==
    /\ request = <<>>
    /\ requests < MaxRequests
    /\ SetIn(P \X N) # {}
    /\ broadcasts' = Unset(P \X N)
    /\ request' = <<"cancel", SetIn(P \X N)>>
    /\ requests' = requests + 1
    /\ raced' = (raced \/ writing # "no" \/ expiry # <<>>)
    /\ UNCHANGED <<expiry, dels, ins, taken, writing, pri, pub, late, minPoint, failures>>

\* The end of either: the statements are queued.
Queue ==
    /\ request # <<>>
    /\ IF request[1] = "set" THEN QueueSet(request[2], request[3])
                             ELSE QueueCancel(request[2])
    /\ request' = <<>>
    /\ UNCHANGED <<broadcasts, expiry, taken, writing, pri, pub, late, minPoint, raced,
                   requests, failures>>

\* expire_broadcast: the settings for points before the cutoff.
Expired == {s \in Settings : s[1] # 0 /\ s[1] + Longest < minPoint}

\* The main loop expires broadcasts, unless the workflow is paused.
Expire ==
    /\ writing = "no" /\ expiry = <<>>
    /\ SetIn(Expired) # {}
    /\ broadcasts' = Unset(Expired)
    /\ expiry' = <<"cancel", SetIn(Expired)>>
    /\ raced' = (raced \/ request # <<>>)
    /\ UNCHANGED <<request, dels, ins, taken, writing, pri, pub, late, minPoint, requests,
                   failures>>

QueueExpiry ==
    /\ expiry # <<>>
    /\ QueueCancel(expiry[2])
    /\ expiry' = <<>>
    /\ UNCHANGED <<broadcasts, request, taken, writing, pri, pub, late, minPoint, raced,
                   requests, failures>>

\* The oldest cycle point of the pool moves on.
MinPointMoves ==
    /\ writing = "no" /\ expiry = <<>>
    /\ minPoint <= LastCycle
    /\ minPoint' = minPoint + 1
    /\ UNCHANGED <<broadcasts, request, expiry, dels, ins, taken, writing, pri, pub, late,
                   raced, requests, failures>>

BNext ==
    \/ TakeDeletes \/ TakeInserts \/ RecoverPublic
    \/ \E ok \in BOOLEAN : ExecuteQueued(ok)
    \/ \E s \in Settings, v \in Values : Put(s, v)
    \/ \E P \in {{s[1]} : s \in Settings} \cup {0..LastCycle},
          N \in {{s[2]} : s \in Settings} \cup {Range(Ancestry)} : Clear(P, N)
    \/ Queue \/ Expire \/ QueueExpiry \/ MinPointMoves

BSpec == BInit /\ [][BNext]_bvars
-----------------------------------------------------------------------------
(* Properties. *)

Idle == /\ request = <<>> /\ expiry = <<>> /\ writing = "no"
        /\ dels = {} /\ ins = Empty

\* Every variable has its type.
BTypeOK ==
    /\ broadcasts \in Table /\ pri \in Table /\ pub \in Table
    /\ dels \subseteq Settings /\ ins \in Table
    /\ taken \in Queues /\ late \in Queues
    /\ writing \in {"no", "inserts", "execute"}
    /\ minPoint \in 1..LastCycle + 1

\* The private database needs to be always in sync with what is current: with
\* nothing left to be queued or written, its table is what a restart needs.
PriInSync == Idle => pri = broadcasts

\* So it is, however settings are set, changed, cleared and expired between two
\* writes, as long as the two threads do not meet.
PriInSyncBut == Idle /\ ~raced => pri = broadcasts
=============================================================================
