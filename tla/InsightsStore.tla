--------------------------- MODULE InsightsStore ----------------------------
(* The controller's Insights database, as far as the ingest route changes it: *)
(* the ledger of batches, Git commits and working tree snapshots.  The rows of *)
(* devbox_instances and collectors, which each batch overwrites, are left out. *)
(* Writers are serialised by _writer_lock and BEGIN IMMEDIATE, so an ingest   *)
(* is one step.  Metric values are abstracted to the batch they come in.      *)
EXTENDS InsightsBatches

VARIABLES
  ledger,    \* ledger[b]: the instance whose batch b is in ingest_batches
  commits,   \* commits[i]: code_commits
  snapshot   \* snapshot[i]: the latest working_tree_snapshots row

storeVars == <<ledger, commits, snapshot>>

NoSnapshot == [at |-> 0, tree |-> None]

StoreTypeOK ==
  /\ ledger \in [Batches -> Instances \cup {None}]
  /\ commits \in [Instances -> SUBSET Shas]
  /\ snapshot \in [Instances -> [at : Nat, tree : Trees \cup {None}]]

StoreInit ==
  /\ ledger = [b \in Batches |-> None]
  /\ commits = [i \in Instances |-> {}]
  /\ snapshot = [i \in Instances |-> NoSnapshot]

StoredBy(i) == {b \in Batches : ledger[b] = i}

\* The identifier is taken by another instance: ValueError, a 400 answer.
Conflicts(i, b) == ledger[b] \notin {None, i}

\* _latest_worktree orders by sent_at, the created_at of the batch.
Record(i, b, at) ==
  snapshot' = [snapshot EXCEPT ![i] =
                 IF at >= @.at THEN [at |-> at, tree |-> b.tree] ELSE @]

Insert(i, b, at) ==
  /\ ledger' = [ledger EXCEPT ![b] = i]
  /\ \/ b.kind = "git" /\ commits' = [commits EXCEPT ![i] = @ \cup b.commits]
        /\ Record(i, b, at)
     \/ b.kind = "other" /\ UNCHANGED <<commits, snapshot>>

\* Faulty: a batch that is in the ledger is stored again.
IngestAnew(i, b, at) == Insert(i, b, at)

\* _ingest_sync.  A batch of this instance that is in the ledger is a duplicate,
\* which changes nothing.
Ingest(i, b, at) ==
  /\ ~Conflicts(i, b)
  /\ IF ledger[b] = i THEN UNCHANGED storeVars ELSE Insert(i, b, at)
=============================================================================
