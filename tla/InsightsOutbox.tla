--------------------------- MODULE InsightsOutbox ---------------------------
(* The Insights agent of a workspace, up to its network calls: the durable    *)
(* SQLite outbox on the home volume, and the Git collector that feeds it.     *)
(*                                                                            *)
(* Each method of Outbox is one transaction under its lock, hence one step.   *)
(* A batch is its content, because its identifier is a hash of kind and       *)
(* payload.  Clock readings are left out: rows are ordered by created_at, and *)
(* any oldest rows may be past the age bound when a batch is added.           *)
EXTENDS InsightsBatches, FiniteSets

CONSTANTS
  MaxRows,      \* maximum_bytes, counted in batches
  MaxAttempts,  \* sends that may fail before a batch is dropped (12)
  MaxStamp,     \* bound on the batches an agent adds
  MaxCrashes    \* bound on agent restarts

ASSUME OutboxAssumption ==
  /\ MaxRows \in Nat \ {0} /\ MaxAttempts \in Nat \ {0}
  /\ MaxStamp \in Nat /\ MaxCrashes \in Nat

VARIABLES
  queue,    \* queue[i]: the table batches
  drops,    \* drops[i]: dropped_batches
  lost,     \* history: the batches that drops[i] counts
  stamp,    \* the clock of created_at: batches added so far
  refs,     \* refs[i]: the commits behind the refs saved as git-refs metadata
  scan,     \* scan[i]: the collector thread
  crashes

outboxVars == <<queue, drops, lost, stamp, refs, scan, crashes>>

Rows == [batch : Batches, at : 1..MaxStamp, attempts : 0..(MaxAttempts - 1)]

Unsaved == [known |-> FALSE, commits |-> {}]
Resting == [stage |-> "rest", commits |-> {}, found |-> {}]

OutboxTypeOK ==
  /\ queue \in [Instances -> SUBSET Rows]
  /\ \A i \in Instances : Cardinality(queue[i]) <= MaxRows
  /\ drops \in [Instances -> Nat]
  /\ lost \in [Instances -> SUBSET Batches]
  /\ stamp \in 0..MaxStamp
  /\ refs \in [Instances -> [known : BOOLEAN, commits : SUBSET Shas]]
  /\ scan \in [Instances -> [stage : {"rest", "read", "save"}, commits : SUBSET Shas,
                             found : SUBSET Shas]]
  /\ crashes \in 0..MaxCrashes

OutboxInit ==
  /\ queue = [i \in Instances |-> {}]
  /\ drops = [i \in Instances |-> 0]
  /\ lost = [i \in Instances |-> {}]
  /\ stamp = 0
  /\ refs = [i \in Instances |-> Unsaved]
  /\ scan = [i \in Instances |-> Resting]
  /\ crashes = 0

Kept(i) == {r.batch : r \in queue[i]}

-----------------------------------------------------------------------------
(* The outbox.                                                                *)

\* The table after INSERT OR IGNORE of a batch.
Inserted(i, b) ==
  queue[i] \cup
    (IF b \in Kept(i) THEN {}
     ELSE {[batch |-> b, at |-> stamp + 1, attempts |-> 0]})

\* What _enforce_limit may delete from a table: the oldest rows, those past the
\* age bound and as many more as the size bound wants.
Discards(rows) ==
  {gone \in SUBSET rows : /\ \A r \in gone, s \in rows \ gone : r.at < s.at
                          /\ Cardinality(rows \ gone) <= MaxRows}

\* Faulty: rows that make room are not counted.
EnqueueUncounted(i, b) ==
  /\ stamp < MaxStamp
  /\ stamp' = stamp + 1
  /\ \E gone \in Discards(Inserted(i, b)) :
       queue' = [queue EXCEPT ![i] = Inserted(i, b) \ gone]
  /\ UNCHANGED <<drops, lost>>

\* Faulty: room is made before the batch is inserted.
EnqueueAfterLimit(i, b) ==
  /\ stamp < MaxStamp
  /\ stamp' = stamp + 1
  /\ \E gone \in Discards(queue[i]) :
       /\ queue' = [queue EXCEPT ![i] = Inserted(i, b) \ gone]
       /\ drops' = [drops EXCEPT ![i] = @ + Cardinality(gone)]
       /\ lost' = [lost EXCEPT ![i] = @ \cup {r.batch : r \in gone}]

\* enqueue, in one transaction.
Enqueue(i, b) ==
  /\ stamp < MaxStamp
  /\ stamp' = stamp + 1
  /\ \E gone \in Discards(Inserted(i, b)) :
       /\ queue' = [queue EXCEPT ![i] = Inserted(i, b) \ gone]
       /\ drops' = [drops EXCEPT ![i] = @ + Cardinality(gone)]
       /\ lost' = [lost EXCEPT ![i] = @ \cup {r.batch : r \in gone}]

\* due: the oldest row whose next_attempt has come.  A row that has been tried
\* may be backing off still.
Due(i, r) ==
  /\ r \in queue[i]
  /\ \A s \in queue[i] : s.at < r.at => s.attempts > 0

Without(i, b) == {r \in queue[i] : r.batch # b}

\* sent: DELETE by identifier.
Sent(i, b) ==
  /\ queue' = [queue EXCEPT ![i] = Without(i, b)]
  /\ UNCHANGED <<drops, lost>>

\* Faulty: a batch that is given up is not counted.
GiveUpSilently(i, b) ==
  /\ queue' = [queue EXCEPT ![i] = Without(i, b)]
  /\ UNCHANGED <<drops, lost>>

\* The batch is dropped and counted, even if its row has gone since it was read.
GiveUp(i, b) ==
  /\ queue' = [queue EXCEPT ![i] = Without(i, b)]
  /\ drops' = [drops EXCEPT ![i] = @ + 1]
  /\ lost' = [lost EXCEPT ![i] = @ \cup {b}]

\* Faulty: the number of attempts is not stored.
FailedUnlimited(i, tried, permanent) ==
  \/ permanent /\ GiveUp(i, tried.batch)
  \/ ~permanent /\ UNCHANGED <<queue, drops, lost>>

\* failed: give up after a 4xx answer or too many attempts, else back off.
Failed(i, tried, permanent) ==
  IF permanent \/ tried.attempts + 1 = MaxAttempts
    THEN GiveUp(i, tried.batch)
    ELSE /\ queue' = [queue EXCEPT ![i] =
                        {IF r.batch = tried.batch
                           THEN [r EXCEPT !.attempts = tried.attempts + 1]
                           ELSE r : r \in @}]
         /\ UNCHANGED <<drops, lost>>

-----------------------------------------------------------------------------
(* Producers.                                                                 *)

\* The OTLP receiver, which answers 200 after the commit, and the heartbeat.
Produce(i, p) ==
  /\ Enqueue(i, [kind |-> "other", body |-> p])
  /\ UNCHANGED <<refs, scan, crashes>>

\* _scan_repository: the refs as the developer's work left them, and which of the
\* commits behind them the scan finds new.  It may miss some: rev-list stops at
\* 10000, a git command that fails gives a part of its output or none, and a commit
\* that cannot be shown is left out.  It may find some again: an old tip that cannot
\* be read hides nothing.  A repository that is seen for the first time only gets a
\* baseline.
ScanRefs(i) ==
  /\ scan[i].stage = "rest"
  /\ \E reached \in SUBSET Shas \ {{}} :
       \E found \in IF refs[i].known THEN SUBSET reached ELSE {{}} :
         scan' = [scan EXCEPT ![i] =
                    [stage |-> "read", commits |-> reached, found |-> found]]
  /\ UNCHANGED <<queue, drops, lost, stamp, refs, crashes>>

\* The working tree is read last; the payload goes to the outbox.
ScanEnqueues(i) ==
  /\ scan[i].stage = "read"
  /\ \E t \in Trees : Enqueue(i, [kind |-> "git", commits |-> scan[i].found, tree |-> t])
  /\ scan' = [scan EXCEPT ![i].stage = "save"]
  /\ UNCHANGED <<refs, crashes>>

\* Faulty: the refs are saved before the payload is in the outbox.
ScanSavesFirst(i) ==
  /\ scan[i].stage = "read" /\ refs[i] # [known |-> TRUE, commits |-> scan[i].commits]
  /\ refs' = [refs EXCEPT ![i] = [known |-> TRUE, commits |-> scan[i].commits]]
  /\ UNCHANGED <<queue, drops, lost, stamp, scan, crashes>>

\* Only then are the refs saved, in a transaction of its own.
ScanSaves(i) ==
  /\ scan[i].stage = "save"
  /\ refs' = [refs EXCEPT ![i] = [known |-> TRUE, commits |-> scan[i].commits]]
  /\ scan' = [scan EXCEPT ![i] = Resting]
  /\ UNCHANGED <<queue, drops, lost, stamp, crashes>>

\* for-each-ref or diff fails, a command takes more than 20 seconds, or SQLite fails:
\* the scan is abandoned until the next interval.
ScanFails(i) ==
  /\ scan[i].stage # "rest"
  /\ scan' = [scan EXCEPT ![i] = Resting]
  /\ UNCHANGED <<queue, drops, lost, stamp, refs, crashes>>

\* The agent process dies and starts again; outbox and metadata are durable.
AgentDies(i) ==
  /\ crashes < MaxCrashes
  /\ crashes' = crashes + 1
  /\ scan' = [scan EXCEPT ![i] = Resting]
  /\ UNCHANGED <<queue, drops, lost, stamp, refs>>

Collect(i) == ScanRefs(i) \/ ScanEnqueues(i) \/ ScanSaves(i) \/ ScanFails(i)
=============================================================================
