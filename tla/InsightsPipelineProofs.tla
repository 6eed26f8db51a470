----------------------- MODULE InsightsPipelineProofs -----------------------
(* Proofs about the Insights pipeline: its types and bounds, that it keeps    *)
(* InsightsPromise, and that what a scan has found is reported before the     *)
(* refs move on.                                                              *)
EXTENDS InsightsPipeline, FiniteSetTheorems, TLAPS

-----------------------------------------------------------------------------
(* The outbox.                                                                *)

\* A table: as many rows as fit, and no batch in two of them.
TableOK(rows) ==
  /\ rows \in SUBSET Rows
  /\ IsFiniteSet(rows)
  /\ Cardinality(rows) <= MaxRows
  /\ \A r, s \in rows : r.batch = s.batch => r = s

QueuesOK == queue \in [Instances -> SUBSET Rows] /\ \A i \in Instances : TableOK(queue[i])

CountersOK ==
  /\ drops \in [Instances -> Nat]
  /\ lost \in [Instances -> SUBSET Batches]
  /\ stamp \in 0..MaxStamp

LEMMA EmptyTableOK == TableOK({})
  BY FS_EmptySet, OutboxAssumption DEF TableOK

LEMMA SubTableOK ==
  ASSUME NEW rows, TableOK(rows), NEW fewer \in SUBSET rows
  PROVE  TableOK(fewer)
<1>1. IsFiniteSet(fewer) /\ Cardinality(fewer) <= Cardinality(rows)
  BY FS_Subset DEF TableOK
<1>2. Cardinality(fewer) \in Nat /\ Cardinality(rows) \in Nat
  BY <1>1, FS_CardinalityType DEF TableOK
<1> QED
  BY <1>1, <1>2, OutboxAssumption DEF TableOK

\* A table in which one queue is replaced by another.
LEMMA QueuesUpdated ==
  ASSUME QueuesOK, NEW i \in Instances, NEW rows, TableOK(rows),
         queue' = [queue EXCEPT ![i] = rows]
  PROVE  QueuesOK'
<1>1. rows \in SUBSET Rows
  BY DEF TableOK
<1>2. queue' \in [Instances -> SUBSET Rows]
  BY <1>1 DEF QueuesOK
<1>3. \A j \in Instances : TableOK(queue'[j])
  BY DEF QueuesOK
<1> QED
  BY <1>2, <1>3 DEF QueuesOK, TableOK

LEMMA InsertedRows ==
  ASSUME QueuesOK, CountersOK, stamp < MaxStamp,
         NEW i \in Instances, NEW b \in Batches
  PROVE  /\ Inserted(i, b) \in SUBSET Rows
         /\ IsFiniteSet(Inserted(i, b))
         /\ \A r, s \in Inserted(i, b) : r.batch = s.batch => r = s
         /\ {r.batch : r \in Inserted(i, b)} = Kept(i) \cup {b}
<1> DEFINE row == [batch |-> b, at |-> stamp + 1, attempts |-> 0]
<1>1. stamp + 1 \in 1..MaxStamp /\ 0 \in 0..(MaxAttempts - 1)
  BY OutboxAssumption DEF CountersOK
<1>2. row \in Rows
  BY <1>1 DEF Rows
<1>3. queue[i] \in SUBSET Rows /\ IsFiniteSet(queue[i])
      /\ \A r, s \in queue[i] : r.batch = s.batch => r = s
  BY DEF QueuesOK, TableOK
<1>4. CASE b \in Kept(i)
  BY <1>3, <1>4 DEF Inserted, Kept
<1>5. CASE b \notin Kept(i)
  <2>1. Inserted(i, b) = queue[i] \cup {row}
    BY <1>5 DEF Inserted
  <2>2. IsFiniteSet(queue[i] \cup {row})
    BY <1>3, FS_AddElement
  <2>3. row.batch = b /\ \A r \in queue[i] : r.batch # b
    BY <1>5 DEF Kept
  <2>4. {r.batch : r \in queue[i] \cup {row}} = Kept(i) \cup {b}
    BY <2>3 DEF Kept
  <2> HIDE DEF row
  <2> QED
    BY <1>2, <1>3, <2>1, <2>2, <2>3, <2>4
<1> QED
  BY <1>4, <1>5

\* Batches and rows of a table are as many.
LEMMA BatchesOfRows ==
  ASSUME NEW rows, IsFiniteSet(rows), \A r, s \in rows : r.batch = s.batch => r = s
  PROVE  Cardinality({r.batch : r \in rows}) = Cardinality(rows)
<1> DEFINE f == [r \in rows |-> r.batch]
           T == {r.batch : r \in rows}
<1>1. f \in Surjection(rows, T)
  BY DEF Surjection
<1>2. f \in Injection(rows, T)
  BY DEF Injection, IsInjective
<1> QED
  BY <1>1, <1>2, FS_Surjection

LEMMA EnqueueKeeps ==
  ASSUME QueuesOK, CountersOK, NEW i \in Instances, NEW b \in Batches, Enqueue(i, b)
  PROVE  /\ QueuesOK' /\ CountersOK'
         /\ \E gone \in SUBSET (Kept(i) \cup {b}) :
              /\ Kept(i)' = (Kept(i) \cup {b}) \ gone
              /\ drops' = [drops EXCEPT ![i] = @ + Cardinality(gone)]
              /\ lost' = [lost EXCEPT ![i] = @ \cup gone]
         /\ \A j \in Instances : j # i => Kept(j)' = Kept(j)
<1>1. PICK gone \in Discards(Inserted(i, b)) :
        /\ queue' = [queue EXCEPT ![i] = Inserted(i, b) \ gone]
        /\ drops' = [drops EXCEPT ![i] = @ + Cardinality(gone)]
        /\ lost' = [lost EXCEPT ![i] = @ \cup {r.batch : r \in gone}]
  BY DEF Enqueue
<1> DEFINE rows == Inserted(i, b)
           removed == {r.batch : r \in gone}
<1>2. /\ rows \in SUBSET Rows /\ IsFiniteSet(rows)
      /\ \A r, s \in rows : r.batch = s.batch => r = s
      /\ {r.batch : r \in rows} = Kept(i) \cup {b}
  BY InsertedRows DEF Enqueue
<1>3. gone \in SUBSET rows /\ Cardinality(rows \ gone) <= MaxRows
  BY DEF Discards
<1> HIDE DEF rows
<1>4. IsFiniteSet(rows \ gone) /\ IsFiniteSet(gone)
  BY <1>2, <1>3, FS_Subset
<1>5. Cardinality(gone) \in Nat /\ (Cardinality(gone) = 0 <=> gone = {})
  BY <1>4, FS_CardinalityType, FS_EmptySet
<1>6. TableOK(rows \ gone)
  BY <1>2, <1>3, <1>4 DEF TableOK
<1>7. QueuesOK'
  BY <1>1, <1>6, QueuesUpdated DEF rows
<1>8. Cardinality(removed) = Cardinality(gone)
  BY <1>2, <1>3, <1>4, BatchesOfRows
<1>9. removed \in SUBSET (Kept(i) \cup {b}) /\ removed \in SUBSET Batches
  BY <1>2, <1>3 DEF Rows
<1>10. queue'[i] = rows \ gone /\ \A j \in Instances : j # i => queue'[j] = queue[j]
  BY <1>1 DEF QueuesOK, rows
<1>11. Kept(i)' = (Kept(i) \cup {b}) \ removed
  BY <1>2, <1>3, <1>10 DEF Kept
<1>12. drops' = [drops EXCEPT ![i] = @ + Cardinality(removed)]
       /\ lost' = [lost EXCEPT ![i] = @ \cup removed]
  BY <1>1, <1>8
<1> HIDE DEF removed
<1>13. CountersOK'
  <2>1. drops' \in [Instances -> Nat]
    BY <1>1, <1>5 DEF CountersOK
  <2>2. lost' \in [Instances -> SUBSET Batches]
    BY <1>9, <1>12 DEF CountersOK
  <2>3. stamp' \in 0..MaxStamp
    BY OutboxAssumption DEF CountersOK, Enqueue
  <2> QED
    BY <2>1, <2>2, <2>3 DEF CountersOK
<1> QED
  BY <1>7, <1>9, <1>10, <1>11, <1>12, <1>13 DEF Kept

LEMMA WithoutKeeps ==
  ASSUME QueuesOK, NEW i \in Instances, NEW b,
         queue' = [queue EXCEPT ![i] = Without(i, b)]
  PROVE  /\ QueuesOK'
         /\ Kept(i)' = Kept(i) \ {b}
         /\ \A j \in Instances : j # i => Kept(j)' = Kept(j)
<1>1. Without(i, b) \in SUBSET queue[i] /\ TableOK(queue[i])
  BY DEF Without, QueuesOK
<1>2. TableOK(Without(i, b))
  BY <1>1, SubTableOK
<1>3. QueuesOK'
  BY <1>2, QueuesUpdated
<1>4. queue'[i] = Without(i, b) /\ \A j \in Instances : j # i => queue'[j] = queue[j]
  BY DEF QueuesOK
<1> QED
  BY <1>3, <1>4 DEF Kept, Without

\* One more attempt on the row of a batch.
Retried(rows, b, n) ==
  {IF r.batch = b THEN [r EXCEPT !.attempts = n] ELSE r : r \in rows}

LEMMA RetriedTable ==
  ASSUME NEW rows, TableOK(rows), NEW b, NEW n \in 0..(MaxAttempts - 1)
  PROVE  /\ TableOK(Retried(rows, b, n))
         /\ {r.batch : r \in Retried(rows, b, n)} = {r.batch : r \in rows}
<1> DEFINE g(r) == IF r.batch = b THEN [r EXCEPT !.attempts = n] ELSE r
           T == {g(r) : r \in rows}
           f == [r \in rows |-> g(r)]
<1>1. \A r \in rows : g(r) \in Rows /\ g(r).batch = r.batch
  BY DEF TableOK, Rows
<1>2. f \in Surjection(rows, T)
  BY DEF Surjection
<1>3. IsFiniteSet(T) /\ Cardinality(T) <= Cardinality(rows)
  BY <1>2, FS_Surjection DEF TableOK
<1>4. Cardinality(T) \in Nat /\ Cardinality(rows) \in Nat
  BY <1>3, FS_CardinalityType DEF TableOK
<1>5. Cardinality(T) <= MaxRows
  BY <1>3, <1>4, OutboxAssumption DEF TableOK
<1>6. T \in SUBSET Rows
  BY <1>1
<1>7. ASSUME NEW r \in T, NEW s \in T, r.batch = s.batch PROVE r = s
  <2>1. PICK q \in rows : r = g(q)
    OBVIOUS
  <2>2. PICK p \in rows : s = g(p)
    OBVIOUS
  <2>3. q = p
    BY <1>1, <1>7, <2>1, <2>2 DEF TableOK
  <2> QED
    BY <2>1, <2>2, <2>3
<1>8. TableOK(T)
  BY <1>3, <1>5, <1>6, <1>7 DEF TableOK
<1>9. {r.batch : r \in T} = {r.batch : r \in rows}
  BY <1>1
<1> QED
  BY <1>8, <1>9 DEF Retried

LEMMA FailedKeeps ==
  ASSUME QueuesOK, CountersOK, UNCHANGED stamp, NEW i \in Instances, NEW row \in Rows,
         NEW permanent \in BOOLEAN, Failed(i, row, permanent)
  PROVE  /\ QueuesOK' /\ CountersOK'
         /\ \/ /\ Kept(i)' = Kept(i) \ {row.batch}
               /\ drops' = [drops EXCEPT ![i] = @ + 1]
               /\ lost' = [lost EXCEPT ![i] = @ \cup {row.batch}]
            \/ Kept(i)' = Kept(i) /\ drops' = drops /\ lost' = lost
         /\ \A j \in Instances : j # i => Kept(j)' = Kept(j)
<1>1. CASE permanent \/ row.attempts + 1 = MaxAttempts
  <2>1. GiveUp(i, row.batch)
    BY <1>1 DEF Failed
  <2>2. /\ drops' = [drops EXCEPT ![i] = @ + 1]
        /\ lost' = [lost EXCEPT ![i] = @ \cup {row.batch}]
    BY <2>1 DEF GiveUp
  <2>3. row.batch \in Batches
    BY DEF Rows
  <2>4. CountersOK'
    BY <2>2, <2>3 DEF CountersOK
  <2> QED
    BY <2>1, <2>2, <2>4, WithoutKeeps DEF GiveUp
<1>2. CASE ~permanent /\ row.attempts + 1 # MaxAttempts
  <2>1. PICK n \in 0..(MaxAttempts - 1) : n = row.attempts + 1
    BY <1>2, OutboxAssumption DEF Rows
  <2>2. /\ queue' = [queue EXCEPT ![i] = Retried(@, row.batch, n)]
        /\ drops' = drops /\ lost' = lost
    BY <1>2, <2>1 DEF Failed, Retried
  <2>3. TableOK(Retried(queue[i], row.batch, n))
        /\ {r.batch : r \in Retried(queue[i], row.batch, n)} = Kept(i)
    BY RetriedTable DEF Kept, QueuesOK
  <2>4. QueuesOK'
    BY <2>2, <2>3, QueuesUpdated
  <2>5. queue'[i] = Retried(queue[i], row.batch, n)
        /\ \A j \in Instances : j # i => queue'[j] = queue[j]
    BY <2>2 DEF QueuesOK
  <2> QED
    BY <2>2, <2>3, <2>4, <2>5 DEF Kept, CountersOK
<1> QED
  BY <1>1, <1>2

-----------------------------------------------------------------------------
(* The store.                                                                 *)

\* What the ledger and the commits of a store have to do with each other.
LedgerHolds ==
  \A b \in Batches, i \in Instances :
    ledger[b] = i /\ b.kind = "git" => b.commits \subseteq commits[i]

StoreOK == StoreTypeOK /\ LedgerHolds

LEMMA GitBatch ==
  ASSUME NEW b \in Batches, b.kind = "git"
  PROVE  b.commits \in SUBSET Shas /\ b.tree \in Trees
BY DEF Batches, GitBatches

LEMMA InsertKeeps ==
  ASSUME StoreOK, NEW i \in Instances, NEW b \in Batches, NEW at \in Nat,
         ledger[b] = None, Insert(i, b, at)
  PROVE  /\ StoreOK'
         /\ \A c \in Batches : ledger'[c] = IF c = b THEN i ELSE ledger[c]
         /\ \A j \in Instances : commits[j] \subseteq commits'[j]
<1>1. ledger' \in [Batches -> Instances \cup {None}]
      /\ \A c \in Batches : ledger'[c] = IF c = b THEN i ELSE ledger[c]
  BY DEF Insert, StoreOK, StoreTypeOK
<1>2. /\ commits' \in [Instances -> SUBSET Shas]
      /\ \A j \in Instances : commits[j] \subseteq commits'[j]
      /\ b.kind = "git" => b.commits \subseteq commits'[i]
  <2>1. CASE b.kind = "git" /\ commits' = [commits EXCEPT ![i] = @ \cup b.commits]
    BY <2>1, GitBatch DEF StoreOK, StoreTypeOK
  <2>2. CASE b.kind = "other" /\ UNCHANGED commits
    BY <2>2 DEF StoreOK, StoreTypeOK
  <2> QED
    BY <2>1, <2>2 DEF Insert
<1>3. snapshot' \in [Instances -> [at : Nat, tree : Trees \cup {None}]]
  <2>1. CASE b.kind = "git" /\ Record(i, b, at)
    BY <2>1, GitBatch DEF StoreOK, StoreTypeOK, Record
  <2>2. CASE UNCHANGED snapshot
    BY <2>2 DEF StoreOK, StoreTypeOK
  <2> QED
    BY <2>1, <2>2 DEF Insert
<1>4. LedgerHolds'
  BY <1>1, <1>2 DEF StoreOK, LedgerHolds
<1> QED
  BY <1>1, <1>2, <1>3, <1>4 DEF StoreOK, StoreTypeOK

\* Ingest stores a batch that is nobody's, or changes nothing.
LEMMA IngestKeeps ==
  ASSUME StoreOK, NEW i \in Instances, NEW b \in Batches, NEW at \in Nat,
         Ingest(i, b, at)
  PROVE  /\ StoreOK'
         /\ ledger'[b] = i
         /\ \A j \in Instances : commits[j] \subseteq commits'[j]
         /\ \/ UNCHANGED storeVars
            \/ /\ ledger[b] = None
               /\ \A c \in Batches : ledger'[c] = IF c = b THEN i ELSE ledger[c]
<1>1. CASE ledger[b] = i
  <2>1. UNCHANGED storeVars
    BY <1>1 DEF Ingest
  <2> QED
    BY <1>1, <2>1 DEF storeVars, StoreOK, StoreTypeOK, LedgerHolds
<1>2. CASE ledger[b] # i
  <2>1. ledger[b] = None /\ Insert(i, b, at)
    BY <1>2 DEF Ingest, Conflicts
  <2> QED
    BY <2>1, InsertKeeps
<1> QED
  BY <1>1, <1>2

-----------------------------------------------------------------------------
(* The inductive invariant.                                                   *)

CallsOK ==
  /\ call \in [Instances -> {Idle} \cup Calls]
  /\ late \in [Instances -> SUBSET Letters]

ScansOK ==
  /\ refs \in [Instances -> [known : BOOLEAN, commits : SUBSET Shas]]
  /\ scan \in [Instances -> [stage : {"rest", "read", "save"}, commits : SUBSET Shas,
                             found : SUBSET Shas]]
  /\ crashes \in 0..MaxCrashes

\* A sender that was told that its batch is stored was told the truth.
StoredAnswersHold ==
  \A i \in Instances :
    call[i].stage = "stored" => ledger[call[i].row.batch] = i

\* A scan saves its refs only after each commit it has found is reported.
ScansReport ==
  \A i \in Instances :
    scan[i].stage = "save" => \A s \in scan[i].found : Reported(i, s)

PipelineInv ==
  /\ QueuesOK /\ CountersOK /\ StoreOK /\ CallsOK /\ ScansOK
  /\ StoredAnswersHold
  /\ ScansReport

LEMMA PipelineInit == Init => PipelineInv
<1> SUFFICES ASSUME Init PROVE PipelineInv
  OBVIOUS
<1> USE DEF Init, OutboxInit, StoreInit
<1>1. QueuesOK
  BY EmptyTableOK DEF QueuesOK, TableOK
<1>2. CountersOK
  BY OutboxAssumption DEF CountersOK
<1>3. StoreOK
  BY BatchAssumption DEF StoreOK, StoreTypeOK, LedgerHolds, NoSnapshot
<1>4. CallsOK
  BY DEF CallsOK
<1>5. ScansOK
  BY OutboxAssumption DEF ScansOK, Unsaved, Resting
<1>6. StoredAnswersHold
  BY DEF StoredAnswersHold, Idle
<1>7. ScansReport
  BY DEF ScansReport, Resting
<1> QED
  BY <1>1, <1>2, <1>3, <1>4, <1>5, <1>6, <1>7 DEF PipelineInv

-----------------------------------------------------------------------------
(* What each action does to the outbox, the ledger and the requests.          *)

\* What has been reported stays reported.
ReportsStay == \A i \in Instances : \A s : Reported(i, s) => Reported(i, s)'

LEMMA StayWhenCounted ==
  ASSUME NEW i \in Instances, UNCHANGED commits,
         \A j \in Instances : j # i => Kept(j)' = Kept(j) /\ lost'[j] = lost[j],
         Kept(i) \cup lost[i] \subseteq Kept(i)' \cup lost'[i]
  PROVE  ReportsStay
<1> SUFFICES ASSUME NEW j \in Instances, NEW s, Reported(j, s)
             PROVE  Reported(j, s)'
  BY DEF ReportsStay
<1>1. Kept(j) \cup lost[j] \subseteq Kept(j)' \cup lost'[j]
  OBVIOUS
<1> QED
  BY <1>1 DEF Reported

LEMMA ProducersKeep ==
  ASSUME PipelineInv, NEW i \in Instances, NEW b \in Batches, Enqueue(i, b)
  PROVE  /\ QueuesOK' /\ CountersOK'
         /\ UNCHANGED commits => ReportsStay
         /\ b \in Kept(i)' \cup lost'[i]
<1>1. PICK gone \in SUBSET (Kept(i) \cup {b}) :
        /\ Kept(i)' = (Kept(i) \cup {b}) \ gone
        /\ lost' = [lost EXCEPT ![i] = @ \cup gone]
  BY EnqueueKeeps DEF PipelineInv
<1>2. QueuesOK' /\ CountersOK' /\ \A j \in Instances : j # i => Kept(j)' = Kept(j)
  BY EnqueueKeeps DEF PipelineInv
<1>3. lost'[i] = lost[i] \cup gone /\ \A j \in Instances : j # i => lost'[j] = lost[j]
  BY <1>1 DEF PipelineInv, CountersOK
<1>4. Kept(i) \cup lost[i] \subseteq Kept(i)' \cup lost'[i] /\ b \in Kept(i)' \cup lost'[i]
  BY <1>1, <1>3
<1>5. UNCHANGED commits => ReportsStay
  BY <1>2, <1>3, <1>4, StayWhenCounted
<1> QED
  BY <1>2, <1>4, <1>5

LEMMA ReportsKept ==
  ASSUME ScansReport, ReportsStay, UNCHANGED scan
  PROVE  ScansReport'
<1> SUFFICES ASSUME NEW i \in Instances, scan[i].stage = "save", NEW s \in scan[i].found
             PROVE  Reported(i, s)'
  BY DEF ScansReport
<1> QED
  BY DEF ScansReport, ReportsStay

\* A scan that is not about to save its refs, and the others as they were.
LEMMA ReportsKeptElsewhere ==
  ASSUME ScansReport, ReportsStay, NEW i \in Instances, scan'[i].stage # "save",
         \A j \in Instances : j # i => scan'[j] = scan[j]
  PROVE  ScansReport'
<1> SUFFICES ASSUME NEW j \in Instances, scan'[j].stage = "save", NEW s \in scan'[j].found
             PROVE  Reported(j, s)'
  BY DEF ScansReport
<1>1. j # i /\ scan'[j] = scan[j]
  OBVIOUS
<1> QED
  BY <1>1 DEF ScansReport, ReportsStay

LEMMA NothingStored ==
  ASSUME StoreOK, UNCHANGED storeVars
  PROVE  StoreOK'
BY DEF StoreOK, StoreTypeOK, LedgerHolds, storeVars

\* The answers stay true while the ledger only grows.
LEMMA AnswersKept ==
  ASSUME StoreOK, CallsOK, StoredAnswersHold,
         \A b \in Batches, i \in Instances : ledger[b] = i => ledger'[b] = i,
         \A i \in Instances : call'[i].stage = "stored" => call'[i] = call[i]
  PROVE  StoredAnswersHold'
<1> SUFFICES ASSUME NEW i \in Instances, call'[i].stage = "stored"
             PROVE  ledger'[call'[i].row.batch] = i
  BY DEF StoredAnswersHold
<1>1. call'[i] = call[i] /\ call[i] \in Calls
  BY DEF CallsOK, Idle
<1>2. call[i].row.batch \in Batches
  BY <1>1 DEF Calls, Rows
<1> QED
  BY <1>1, <1>2 DEF StoredAnswersHold

LEMMA ProduceStep ==
  ASSUME PipelineInv, NEW i \in Instances, NEW p \in Payloads, Produce(i, p),
         UNCHANGED <<storeVars, callVars>>
  PROVE  PipelineInv'
<1>1. [kind |-> "other", body |-> p] \in Batches
  BY DEF Batches
<1>2. QueuesOK' /\ CountersOK' /\ ReportsStay
  BY <1>1, ProducersKeep DEF Produce, storeVars
<1>3. StoreOK'
  BY NothingStored DEF PipelineInv
<1>4. CallsOK' /\ ScansOK' /\ StoredAnswersHold'
  BY DEF PipelineInv, CallsOK, ScansOK, StoredAnswersHold, Produce, callVars, storeVars
<1>5. ScansReport'
  BY <1>2, ReportsKept DEF PipelineInv, Produce
<1> QED
  BY <1>2, <1>3, <1>4, <1>5 DEF PipelineInv

LEMMA ScanRefsStep ==
  ASSUME PipelineInv, NEW i \in Instances, ScanRefs(i), UNCHANGED <<storeVars, callVars>>
  PROVE  PipelineInv'
<1>1. QueuesOK' /\ CountersOK' /\ StoreOK' /\ CallsOK' /\ StoredAnswersHold'
  BY NothingStored
     DEF PipelineInv, QueuesOK, CountersOK, CallsOK, StoredAnswersHold, ScanRefs, callVars,
         storeVars
<1>2. PICK reached \in SUBSET Shas, found \in SUBSET Shas :
        scan' = [scan EXCEPT ![i] = [stage |-> "read", commits |-> reached, found |-> found]]
  <2>1. PICK reached \in SUBSET Shas \ {{}} :
          \E found \in IF refs[i].known THEN SUBSET reached ELSE {{}} :
            scan' = [scan EXCEPT ![i] =
                       [stage |-> "read", commits |-> reached, found |-> found]]
    BY DEF ScanRefs
  <2>2. (IF refs[i].known THEN SUBSET reached ELSE {{}}) \in SUBSET SUBSET Shas
    OBVIOUS
  <2> QED
    BY <2>1, <2>2
<1>3. ScansOK'
  BY <1>2 DEF PipelineInv, ScansOK, ScanRefs
<1>4. ReportsStay
  BY DEF ReportsStay, Reported, Kept, ScanRefs, storeVars
<1>5. scan'[i].stage = "read" /\ \A j \in Instances : j # i => scan'[j] = scan[j]
  BY <1>2 DEF PipelineInv, ScansOK
<1>6. ScansReport'
  BY <1>4, <1>5, ReportsKeptElsewhere DEF PipelineInv
<1> QED
  BY <1>1, <1>3, <1>6 DEF PipelineInv

LEMMA ScanEnqueuesStep ==
  ASSUME PipelineInv, NEW i \in Instances, ScanEnqueues(i), UNCHANGED <<storeVars, callVars>>
  PROVE  PipelineInv'
<1>1. PICK t \in Trees :
        Enqueue(i, [kind |-> "git", commits |-> scan[i].found, tree |-> t])
  BY DEF ScanEnqueues
<1> DEFINE b == [kind |-> "git", commits |-> scan[i].found, tree |-> t]
<1>2. b \in Batches /\ b.kind = "git" /\ b.commits = scan[i].found
  BY DEF PipelineInv, ScansOK, Batches, GitBatches
<1>3. Enqueue(i, b)
  BY <1>1
<1> HIDE DEF b
<1>4. QueuesOK' /\ CountersOK' /\ ReportsStay /\ b \in Kept(i)' \cup lost'[i]
  BY <1>2, <1>3, ProducersKeep DEF storeVars
<1>5. StoreOK' /\ CallsOK' /\ StoredAnswersHold'
  BY NothingStored DEF PipelineInv, CallsOK, StoredAnswersHold, callVars, storeVars
<1>6. scan' = [scan EXCEPT ![i] = [@ EXCEPT !.stage = "save"]]
  BY DEF ScanEnqueues
<1>7. ScansOK'
  BY <1>6 DEF PipelineInv, ScansOK, ScanEnqueues
<1>8. scan'[i].found = scan[i].found /\ \A j \in Instances : j # i => scan'[j] = scan[j]
  BY <1>6 DEF PipelineInv, ScansOK
<1>9. \A s \in scan[i].found : Reported(i, s)'
  BY <1>2, <1>4 DEF Reported
<1>10. ScansReport'
  <2> SUFFICES ASSUME NEW j \in Instances, scan'[j].stage = "save", NEW s \in scan'[j].found
               PROVE  Reported(j, s)'
    BY DEF ScansReport
  <2>1. CASE j = i
    BY <1>8, <1>9, <2>1
  <2>2. CASE j # i
    BY <1>4, <1>8, <2>2 DEF PipelineInv, ScansReport, ReportsStay
  <2> QED
    BY <2>1, <2>2
<1> QED
  BY <1>4, <1>5, <1>7, <1>10 DEF PipelineInv

LEMMA RestingOK ==
  Resting \in [stage : {"rest", "read", "save"}, commits : SUBSET Shas, found : SUBSET Shas]
BY DEF Resting

\* A scan that ends, with its refs saved or not.
LEMMA ScanEndsStep ==
  ASSUME PipelineInv, NEW i \in Instances, ScanSaves(i) \/ ScanFails(i),
         UNCHANGED <<storeVars, callVars>>
  PROVE  PipelineInv'
<1>1. QueuesOK' /\ CountersOK' /\ StoreOK' /\ CallsOK' /\ StoredAnswersHold'
  BY NothingStored
     DEF PipelineInv, QueuesOK, CountersOK, CallsOK, StoredAnswersHold, ScanSaves, ScanFails,
         callVars, storeVars
<1>2. scan' = [scan EXCEPT ![i] = Resting]
  BY DEF ScanSaves, ScanFails
<1>3. \/ refs' = [refs EXCEPT ![i] = [known |-> TRUE, commits |-> scan[i].commits]]
      \/ refs' = refs
  BY DEF ScanSaves, ScanFails
<1>4. ScansOK'
  <2>1. [known |-> TRUE, commits |-> scan[i].commits] \in [known : BOOLEAN, commits : SUBSET Shas]
    BY DEF PipelineInv, ScansOK
  <2>2. refs' \in [Instances -> [known : BOOLEAN, commits : SUBSET Shas]]
    BY <1>3, <2>1 DEF PipelineInv, ScansOK
  <2>3. crashes' \in 0..MaxCrashes
    BY DEF PipelineInv, ScansOK, ScanSaves, ScanFails
  <2> QED
    BY <1>2, <2>2, <2>3, RestingOK DEF PipelineInv, ScansOK
<1>5. ReportsStay
  BY DEF ReportsStay, Reported, Kept, ScanSaves, ScanFails, storeVars
<1>6. scan'[i].stage = "rest" /\ \A j \in Instances : j # i => scan'[j] = scan[j]
  BY <1>2 DEF PipelineInv, ScansOK, Resting
<1>7. ScansReport'
  BY <1>5, <1>6, ReportsKeptElsewhere DEF PipelineInv
<1> QED
  BY <1>1, <1>4, <1>7 DEF PipelineInv

\* What a sender does to the requests under way, when it takes up none.
Shrinks(i) ==
  /\ Wire(i)' \subseteq Wire(i)
  /\ \A j \in Instances : j # i => Wire(j)' = Wire(j)

\* Only the requests of i may change, and no new answer counts as stored.
CallsShrink(i) ==
  /\ CallsOK'
  /\ Shrinks(i)
  /\ \A j \in Instances : call'[j].stage = "stored" => call'[j] = call[j]

LEMMA CallRow ==
  ASSUME CallsOK, NEW i \in Instances, call[i] # Idle
  PROVE  /\ call[i] \in Calls
         /\ call[i].row \in Rows /\ call[i].row.batch \in Batches
         /\ Letter(i) \in Letters
BY DEF CallsOK, Calls, Rows, Letter, Letters

\* The sender is done with its request; or one request less is under way.
LEMMA CallEnds ==
  ASSUME CallsOK, NEW i \in Instances,
         call' = [call EXCEPT ![i] = Idle], UNCHANGED late
  PROVE  CallsShrink(i)
<1>1. call'[i] = Idle /\ \A j \in Instances : j # i => call'[j] = call[j]
  BY DEF CallsOK
<1> QED
  BY <1>1 DEF CallsShrink, CallsOK, Shrinks, Wire, Idle

LEMMA LeavesShrinks ==
  ASSUME CallsOK, NEW i \in Instances, Leaves(i)
  PROVE  CallsShrink(i)
<1>1. CASE UNCHANGED late
  BY <1>1, CallEnds DEF Leaves
<1>2. CASE call[i].stage = "sent" /\ late' = [late EXCEPT ![i] = @ \cup {Letter(i)}]
  <2>1. call[i] # Idle
    BY <1>2 DEF Idle
  <2>2. Letter(i) \in Letters /\ Letter(i).batch = call[i].row.batch
    BY <2>1, CallRow DEF Letter
  <2>3. call'[i] = Idle /\ \A j \in Instances : j # i => call'[j] = call[j]
    BY DEF CallsOK, Leaves
  <2>4. late'[i] = late[i] \cup {Letter(i)}
        /\ \A j \in Instances : j # i => late'[j] = late[j]
    BY <1>2 DEF CallsOK
  <2>5. CallsOK'
    BY <1>2, <2>2 DEF CallsOK, Leaves
  <2>6. Wire(i)' \subseteq Wire(i)
    BY <1>2, <2>2, <2>3, <2>4 DEF Wire, Idle
  <2>7. \A j \in Instances : j # i => Wire(j)' = Wire(j)
    BY <2>3, <2>4 DEF Wire
  <2> QED
    BY <2>3, <2>5, <2>6, <2>7 DEF CallsShrink, Shrinks, Idle
<1> QED
  BY <1>1, <1>2 DEF Leaves

\* Each row of the outbox may be sent.
LEMMA SendCalls ==
  ASSUME PipelineInv, NEW i \in Instances, Send(i)
  PROVE  /\ call[i] = Idle /\ call'[i].stage = "sent" /\ call'[i].row.batch \in Kept(i)
         /\ CallsOK'
         /\ Wire(i)' = Wire(i) \cup {call'[i].row.batch}
         /\ \A j \in Instances : j # i => call'[j] = call[j] /\ Wire(j)' = Wire(j)
<1>1. PICK r \in queue[i] : call' = [call EXCEPT ![i] = [stage |-> "sent", row |-> r]]
  BY DEF Send
<1>2. r \in Rows
  BY DEF PipelineInv, QueuesOK
<1>3. call[i] = Idle /\ late' = late
  BY DEF Send
<1>4. call'[i] = [stage |-> "sent", row |-> r]
      /\ \A j \in Instances : j # i => call'[j] = call[j]
  BY <1>1 DEF PipelineInv, CallsOK
<1>5. CallsOK'
  BY <1>1, <1>2, <1>3 DEF PipelineInv, CallsOK, Calls
<1> QED
  BY <1>3, <1>4, <1>5 DEF Wire, Kept, Idle

LEMMA SendStep ==
  ASSUME PipelineInv, NEW i \in Instances, Send(i)
  PROVE  PipelineInv'
<1>1. QueuesOK' /\ CountersOK' /\ ScansOK'
  BY DEF PipelineInv, QueuesOK, CountersOK, ScansOK, Send, outboxVars
<1>2. StoreOK'
  BY NothingStored DEF PipelineInv, Send
<1>3. StoredAnswersHold'
  BY SendCalls DEF PipelineInv, StoredAnswersHold, Send, storeVars
<1>4. ReportsStay
  BY DEF ReportsStay, Reported, Kept, Send, outboxVars, storeVars
<1>5. ScansReport'
  BY <1>4, ReportsKept DEF PipelineInv, Send, outboxVars
<1> QED
  BY <1>1, <1>2, <1>3, <1>5, SendCalls DEF PipelineInv

\* The answer that a batch is stored takes it out of the outbox.
LEMMA SentReported ==
  ASSUME PipelineInv, NEW i \in Instances, call[i].stage = "stored",
         Sent(i, call[i].row.batch), UNCHANGED commits
  PROVE  ReportsStay
<1> SUFFICES ASSUME NEW j \in Instances, NEW s, Reported(j, s) PROVE Reported(j, s)'
  BY DEF ReportsStay
<1>1. call[i].row.batch \in Batches
  BY CallRow DEF PipelineInv, Idle
<1>2. lost' = lost /\ Kept(i)' = Kept(i) \ {call[i].row.batch}
      /\ \A k \in Instances : k # i => Kept(k)' = Kept(k)
  BY WithoutKeeps DEF PipelineInv, Sent
<1>3. call[i].row.batch.kind = "git" => call[i].row.batch.commits \subseteq commits[i]
  BY <1>1 DEF PipelineInv, StoredAnswersHold, StoreOK, LedgerHolds
<1> QED
  BY <1>2, <1>3 DEF Reported

LEMMA FailedReported ==
  ASSUME PipelineInv, NEW i \in Instances, call[i] # Idle, NEW permanent \in BOOLEAN,
         Failed(i, call[i].row, permanent), UNCHANGED <<stamp, commits>>
  PROVE  QueuesOK' /\ CountersOK' /\ ReportsStay
<1>1. call[i].row \in Rows
  BY CallRow DEF PipelineInv
<1>2. /\ QueuesOK' /\ CountersOK'
      /\ \/ /\ Kept(i)' = Kept(i) \ {call[i].row.batch}
            /\ lost' = [lost EXCEPT ![i] = @ \cup {call[i].row.batch}]
         \/ Kept(i)' = Kept(i) /\ lost' = lost
      /\ \A j \in Instances : j # i => Kept(j)' = Kept(j)
  BY <1>1, FailedKeeps DEF PipelineInv
<1>3. /\ Kept(i) \cup lost[i] \subseteq Kept(i)' \cup lost'[i]
      /\ \A j \in Instances : j # i => lost'[j] = lost[j]
  BY <1>2 DEF PipelineInv, CountersOK
<1>4. ReportsStay
  BY <1>2, <1>3, StayWhenCounted
<1> QED
  BY <1>2, <1>4

LEMMA SettleStep ==
  ASSUME PipelineInv, NEW i \in Instances, Settle(i)
  PROVE  PipelineInv'
<1>1. call[i] # Idle
  BY DEF Settle, Answers, Idle
<1>2. QueuesOK' /\ CountersOK' /\ ReportsStay
  <2>1. CASE call[i].stage = "stored" /\ Sent(i, call[i].row.batch)
    <3>1. QueuesOK'
      BY <2>1, WithoutKeeps DEF PipelineInv, Sent
    <3>2. CountersOK'
      BY <2>1 DEF PipelineInv, CountersOK, Settle, Sent
    <3> QED
      BY <2>1, <3>1, <3>2, SentReported DEF Settle, storeVars
  <2>2. CASE Failed(i, call[i].row, call[i].stage = "rejected")
    BY <1>1, <2>2, FailedReported DEF Settle, storeVars
  <2> QED
    BY <2>1, <2>2 DEF Settle
<1>3. StoreOK'
  BY NothingStored DEF PipelineInv, Settle
<1>4. CallsShrink(i)
  BY CallEnds DEF PipelineInv, Settle
<1>5. StoredAnswersHold'
  BY <1>4, AnswersKept DEF PipelineInv, CallsShrink, Settle, storeVars
<1>6. ScansOK' /\ ScansReport'
  BY <1>2, ReportsKept DEF PipelineInv, ScansOK, Settle
<1> QED
  BY <1>2, <1>3, <1>4, <1>5, <1>6 DEF PipelineInv, CallsShrink

LEMMA TimesOutStep ==
  ASSUME PipelineInv, NEW i \in Instances, TimesOut(i)
  PROVE  PipelineInv'
<1>1. QueuesOK' /\ CountersOK' /\ ReportsStay
  BY FailedReported DEF TimesOut, storeVars
<1>2. StoreOK'
  BY NothingStored DEF PipelineInv, TimesOut
<1>3. CallsShrink(i)
  BY LeavesShrinks DEF PipelineInv, TimesOut
<1>4. StoredAnswersHold'
  BY <1>3, AnswersKept DEF PipelineInv, CallsShrink, TimesOut, storeVars
<1>5. ScansOK' /\ ScansReport'
  BY <1>1, ReportsKept DEF PipelineInv, ScansOK, TimesOut
<1> QED
  BY <1>1, <1>2, <1>3, <1>4, <1>5 DEF PipelineInv, CallsShrink

LEMMA DiesStep ==
  ASSUME PipelineInv, NEW i \in Instances, Dies(i)
  PROVE  PipelineInv'
<1>1. QueuesOK' /\ CountersOK'
  BY DEF PipelineInv, QueuesOK, CountersOK, Dies, AgentDies
<1>2. StoreOK'
  BY NothingStored DEF PipelineInv, Dies
<1>3. CallsShrink(i)
  BY LeavesShrinks DEF PipelineInv, Dies
<1>4. StoredAnswersHold'
  BY <1>3, AnswersKept DEF PipelineInv, CallsShrink, Dies, storeVars
<1>5. scan' = [scan EXCEPT ![i] = Resting] /\ refs' = refs
  BY DEF Dies, AgentDies
<1>6. ScansOK'
  BY <1>5, RestingOK, OutboxAssumption DEF PipelineInv, ScansOK, Dies, AgentDies
<1>7. ReportsStay
  BY DEF ReportsStay, Reported, Kept, Dies, AgentDies, storeVars
<1>8. scan'[i].stage = "rest" /\ \A j \in Instances : j # i => scan'[j] = scan[j]
  BY <1>5 DEF PipelineInv, ScansOK, Resting
<1>9. ScansReport'
  BY <1>7, <1>8, ReportsKeptElsewhere DEF PipelineInv
<1> QED
  BY <1>1, <1>2, <1>3, <1>4, <1>6, <1>9 DEF PipelineInv, CallsShrink

-----------------------------------------------------------------------------
(* What the controller does.                                                  *)

LEMMA ServeEffect ==
  ASSUME PipelineInv, NEW i \in Instances, Serve(i)
  PROVE  /\ call[i].row.batch \in Batches /\ call[i].row.batch \in Wire(i)
         /\ CallsOK' /\ Shrinks(i)
         /\ call'[i].row = call[i].row
         /\ \A j \in Instances : j # i => call'[j] = call[j]
         /\ \/ call'[i].stage = "stored" /\ Ingest(i, Letter(i).batch, Letter(i).at)
            \/ call'[i].stage # "stored" /\ UNCHANGED storeVars
<1>1. PICK a \in Answers :
        /\ call' = [call EXCEPT ![i].stage = a]
        /\ IF a = "stored" THEN Ingest(i, Letter(i).batch, Letter(i).at)
                           ELSE UNCHANGED storeVars
  BY DEF Serve
<1>2. call[i].stage = "sent" /\ late' = late
  BY DEF Serve
<1>3. call[i] # Idle
  BY <1>2 DEF Idle
<1>4. call[i] \in Calls /\ call[i].row.batch \in Batches
  BY <1>3, CallRow DEF PipelineInv
<1>5. call' = [call EXCEPT ![i] = [@ EXCEPT !.stage = a]]
  BY <1>1
<1>6. /\ call'[i] = [call[i] EXCEPT !.stage = a]
      /\ \A j \in Instances : j # i => call'[j] = call[j]
  BY <1>5 DEF PipelineInv, CallsOK
<1>7. [call[i] EXCEPT !.stage = a] \in Calls
  BY <1>4 DEF Calls
<1>8. call'[i].stage = a /\ call'[i].row = call[i].row
  BY <1>4, <1>6 DEF Calls
<1>9. CallsOK'
  BY <1>2, <1>5, <1>7 DEF PipelineInv, CallsOK
<1>10. a # "sent"
  BY DEF Answers
<1>11. call[i].row.batch \in Wire(i) /\ Shrinks(i)
  BY <1>2, <1>6, <1>8, <1>10 DEF Wire, Shrinks
<1> QED
  BY <1>1, <1>4, <1>6, <1>8, <1>9, <1>11

LEMMA LettersStored ==
  ASSUME PipelineInv, NEW i \in Instances, NEW m \in Letters, Ingest(i, m.batch, m.at)
  PROVE  /\ StoreOK' /\ ledger'[m.batch] = i
         /\ \A j \in Instances : commits[j] \subseteq commits'[j]
         /\ \A b \in Batches, j \in Instances : ledger[b] = j => ledger'[b] = j
         /\ \/ UNCHANGED storeVars
            \/ /\ ledger[m.batch] = None
               /\ \A c \in Batches : ledger'[c] = IF c = m.batch THEN i ELSE ledger[c]
<1>1. m.batch \in Batches /\ m.at \in Nat
  BY OutboxAssumption DEF Letters
<1>2. /\ StoreOK' /\ ledger'[m.batch] = i
      /\ \A j \in Instances : commits[j] \subseteq commits'[j]
      /\ \/ UNCHANGED storeVars
         \/ /\ ledger[m.batch] = None
            /\ \A c \in Batches : ledger'[c] = IF c = m.batch THEN i ELSE ledger[c]
  BY <1>1, IngestKeeps DEF PipelineInv
<1>3. \A b \in Batches, j \in Instances : ledger[b] = j => ledger'[b] = j
  BY <1>2, BatchAssumption DEF storeVars
<1> QED
  BY <1>2, <1>3

LEMMA ReportsInStore ==
  ASSUME UNCHANGED <<queue, lost>>,
         \A j \in Instances : commits[j] \subseteq commits'[j]
  PROVE  ReportsStay
BY DEF ReportsStay, Reported, Kept

LEMMA ServeStep ==
  ASSUME PipelineInv, NEW i \in Instances, Serve(i)
  PROVE  PipelineInv'
<1>1. QueuesOK' /\ CountersOK' /\ ScansOK'
  BY DEF PipelineInv, QueuesOK, CountersOK, ScansOK, Serve, outboxVars
<1>2. call[i] # Idle
  BY DEF Serve, Idle
<1>3. Letter(i) \in Letters /\ Letter(i).batch = call[i].row.batch
  BY <1>2, CallRow DEF PipelineInv, Letter
<1>4. /\ StoreOK'
      /\ \A j \in Instances : commits[j] \subseteq commits'[j]
      /\ \A b \in Batches, j \in Instances : ledger[b] = j => ledger'[b] = j
      /\ call'[i].stage = "stored" => ledger'[call[i].row.batch] = i
  <2>1. CASE call'[i].stage = "stored" /\ Ingest(i, Letter(i).batch, Letter(i).at)
    BY <1>3, <2>1, LettersStored
  <2>2. CASE call'[i].stage # "stored" /\ UNCHANGED storeVars
    BY <2>2, NothingStored DEF PipelineInv, storeVars
  <2> QED
    BY <2>1, <2>2, ServeEffect
<1>5. StoredAnswersHold'
  <2> SUFFICES ASSUME NEW j \in Instances, call'[j].stage = "stored"
               PROVE  ledger'[call'[j].row.batch] = j
    BY DEF StoredAnswersHold
  <2>1. CASE j = i
    BY <1>4, <2>1, ServeEffect
  <2>2. CASE j # i
    <3>1. call'[j] = call[j]
      BY <2>2, ServeEffect
    <3>2. call[j] # Idle
      BY <3>1 DEF Idle
    <3>3. call[j].row.batch \in Batches
      BY <3>2, CallRow DEF PipelineInv
    <3> QED
      BY <1>4, <3>1, <3>3 DEF PipelineInv, StoredAnswersHold
  <2> QED
    BY <2>1, <2>2
<1>6. ScansReport'
  BY <1>4, ReportsInStore, ReportsKept DEF PipelineInv, Serve, outboxVars
<1> QED
  BY <1>1, <1>4, <1>5, <1>6, ServeEffect DEF PipelineInv

LEMMA ServeLateEffect ==
  ASSUME PipelineInv, NEW i \in Instances, ServeLate(i)
  PROVE  /\ CallsShrink(i) /\ call' = call
         /\ \E m \in Letters : /\ m.batch \in Wire(i)
                               /\ UNCHANGED storeVars \/ Ingest(i, m.batch, m.at)
<1>1. PICK m \in late[i] :
        /\ late' = [late EXCEPT ![i] = @ \ {m}]
        /\ UNCHANGED storeVars \/ Ingest(i, m.batch, m.at)
  BY DEF ServeLate
<1>2. m \in Letters /\ m.batch \in Wire(i)
  BY DEF PipelineInv, CallsOK, Wire
<1>3. call' = call
  BY DEF ServeLate
<1>4. CallsShrink(i)
  BY <1>1, <1>3 DEF PipelineInv, CallsShrink, CallsOK, Shrinks, Wire
<1> QED
  BY <1>1, <1>2, <1>3, <1>4

LEMMA ServeLateStep ==
  ASSUME PipelineInv, NEW i \in Instances, ServeLate(i)
  PROVE  PipelineInv'
<1>1. QueuesOK' /\ CountersOK' /\ ScansOK'
  BY DEF PipelineInv, QueuesOK, CountersOK, ScansOK, ServeLate, outboxVars
<1>2. PICK m \in Letters : UNCHANGED storeVars \/ Ingest(i, m.batch, m.at)
  BY ServeLateEffect
<1>3. /\ StoreOK'
      /\ \A j \in Instances : commits[j] \subseteq commits'[j]
      /\ \A b \in Batches, j \in Instances : ledger[b] = j => ledger'[b] = j
  <2>1. CASE Ingest(i, m.batch, m.at)
    BY <2>1, LettersStored
  <2>2. CASE UNCHANGED storeVars
    BY <2>2, NothingStored DEF PipelineInv, storeVars
  <2> QED
    BY <1>2, <2>1, <2>2
<1>4. CallsShrink(i)
  BY ServeLateEffect
<1>5. StoredAnswersHold'
  BY <1>3, <1>4, AnswersKept DEF PipelineInv, CallsShrink
<1>6. ScansReport'
  BY <1>3, ReportsInStore, ReportsKept DEF PipelineInv, ServeLate, outboxVars
<1> QED
  BY <1>1, <1>3, <1>4, <1>5, <1>6 DEF PipelineInv, CallsShrink

LEMMA PipelineStep == PipelineInv /\ [Next]_pipelineVars => PipelineInv'
<1> SUFFICES ASSUME PipelineInv, [Next]_pipelineVars PROVE PipelineInv'
  OBVIOUS
<1>1. CASE UNCHANGED pipelineVars
  <2>1. QueuesOK' /\ CountersOK' /\ CallsOK' /\ ScansOK' /\ StoredAnswersHold'
    BY <1>1 DEF PipelineInv, QueuesOK, CountersOK, CallsOK, ScansOK, StoredAnswersHold,
                pipelineVars, outboxVars, storeVars, callVars
  <2>2. StoreOK'
    BY <1>1, NothingStored DEF PipelineInv, pipelineVars
  <2>3. ReportsStay
    BY <1>1 DEF ReportsStay, Reported, Kept, pipelineVars, outboxVars, storeVars
  <2>4. ScansReport'
    BY <1>1, <2>3, ReportsKept DEF PipelineInv, pipelineVars, outboxVars
  <2> QED
    BY <2>1, <2>2, <2>4 DEF PipelineInv
<1>2. CASE Next
  BY <1>2, ProduceStep, ScanRefsStep, ScanEnqueuesStep, ScanEndsStep, SendStep, SettleStep,
     TimesOutStep, DiesStep, ServeStep, ServeLateStep
     DEF Next, Collect, Sender
<1> QED
  BY <1>1, <1>2

LEMMA PipelineInvariant == Spec => []PipelineInv
  BY PipelineInit, PipelineStep, PTL DEF Spec

-----------------------------------------------------------------------------
(* Steps of the pipeline as steps of InsightsPromise.                         *)

KeptAll   == [j \in Instances |-> Kept(j)]
WireAll   == [j \in Instances |-> Wire(j)]
StoredAll == [j \in Instances |-> StoredBy(j)]

LEMMA FewerOnWire ==
  ASSUME NEW i \in Instances, Shrinks(i)
  PROVE  Promise!Fewer(i)
<1> DEFINE off == Wire(i) \ Wire(i)'
<1>1. WireAll' = [WireAll EXCEPT ![i] = @ \ off]
  BY DEF WireAll, Shrinks
<1>2. off \in SUBSET WireAll[i]
  BY DEF WireAll
<1> HIDE DEF off
<1> QED
  BY <1>1, <1>2 DEF Promise!Fewer, WireAll

LEMMA KeptSame ==
  ASSUME NEW i \in Instances, Kept(i)' = Kept(i),
         \A j \in Instances : j # i => Kept(j)' = Kept(j)
  PROVE  KeptAll' = KeptAll
BY DEF KeptAll

LEMMA KeptLoses ==
  ASSUME NEW i \in Instances, NEW b, Kept(i)' = Kept(i) \ {b},
         \A j \in Instances : j # i => Kept(j)' = Kept(j)
  PROVE  KeptAll' = [KeptAll EXCEPT ![i] = @ \ {b}]
BY DEF KeptAll

LEMMA StoredSame ==
  ASSUME UNCHANGED ledger
  PROVE  StoredAll' = StoredAll
BY DEF StoredAll, StoredBy

LEMMA WireSame ==
  ASSUME UNCHANGED callVars
  PROVE  WireAll' = WireAll
BY DEF WireAll, Wire, callVars

\* The Cardinality of InsightsPromise is the one of this module.
LEMMA SameCardinality == \A S : Promise!Cardinality(S) = Cardinality(S)
  BY DEF Promise!Cardinality, Cardinality

LEMMA RefineEnqueue ==
  ASSUME PipelineInv, NEW i \in Instances, NEW b \in Batches, Enqueue(i, b),
         UNCHANGED <<storeVars, callVars>>
  PROVE  Promise!Accept(i, b)
<1>1. PICK gone \in SUBSET (Kept(i) \cup {b}) :
        /\ Kept(i)' = (Kept(i) \cup {b}) \ gone
        /\ drops' = [drops EXCEPT ![i] = @ + Cardinality(gone)]
  BY EnqueueKeeps DEF PipelineInv
<1>2. \A j \in Instances : j # i => Kept(j)' = Kept(j)
  BY EnqueueKeeps DEF PipelineInv
<1>3. KeptAll' = [KeptAll EXCEPT ![i] = (@ \cup {b}) \ gone] /\ KeptAll[i] = Kept(i)
  BY <1>1, <1>2 DEF KeptAll
<1>4. StoredAll' = StoredAll /\ WireAll' = WireAll
  BY StoredSame, WireSame DEF storeVars
<1> QED
  BY <1>1, <1>3, <1>4, SameCardinality DEF Promise!Accept, KeptAll, StoredAll, WireAll

LEMMA RefineSend ==
  ASSUME PipelineInv, NEW i \in Instances, Send(i)
  PROVE  \E b \in Batches : Promise!Transmit(i, b)
<1>1. PICK b : b = call'[i].row.batch
  OBVIOUS
<1>2. b \in Kept(i) /\ Wire(i)' = Wire(i) \cup {b}
      /\ \A j \in Instances : j # i => Wire(j)' = Wire(j)
  BY <1>1, SendCalls
<1>3. b \in Batches
  BY <1>2 DEF PipelineInv, QueuesOK, Kept, Rows
<1>4. WireAll' = [WireAll EXCEPT ![i] = @ \cup {b}] /\ b \in KeptAll[i]
  BY <1>2 DEF WireAll, KeptAll
<1>5. KeptAll' = KeptAll /\ StoredAll' = StoredAll /\ drops' = drops
  BY StoredSame DEF KeptAll, Kept, Send, outboxVars, storeVars
<1> QED
  BY <1>3, <1>4, <1>5 DEF Promise!Transmit, KeptAll, WireAll, StoredAll

\* A failed attempt gives a batch up, and counts it, or leaves it where it is.
LEMMA RefineFailed ==
  ASSUME PipelineInv, NEW i \in Instances, call[i] # Idle, NEW permanent \in BOOLEAN,
         Failed(i, call[i].row, permanent), Shrinks(i), UNCHANGED <<stamp, storeVars>>
  PROVE  Promise!Lose(i) \/ \E b \in Batches : Promise!GiveUpCounted(i, b)
<1> DEFINE b == call[i].row.batch
<1>1. call[i].row \in Rows /\ b \in Batches
  BY CallRow DEF PipelineInv
<1>2. Promise!Fewer(i)
  BY FewerOnWire
<1>3. StoredAll' = StoredAll
  BY StoredSame DEF storeVars
<1>4. /\ \/ Kept(i)' = Kept(i) \ {b} /\ drops' = [drops EXCEPT ![i] = @ + 1]
         \/ Kept(i)' = Kept(i) /\ drops' = drops
      /\ \A j \in Instances : j # i => Kept(j)' = Kept(j)
  BY <1>1, FailedKeeps DEF PipelineInv
<1> HIDE DEF b
<1>5. CASE Kept(i)' = Kept(i) \ {b} /\ drops' = [drops EXCEPT ![i] = @ + 1]
  <2>1. KeptAll' = [KeptAll EXCEPT ![i] = @ \ {b}]
    BY <1>4, <1>5, KeptLoses
  <2>2. Promise!GiveUpCounted(i, b)
    BY <1>2, <1>3, <1>5, <2>1 DEF Promise!GiveUpCounted, KeptAll, StoredAll
  <2> QED
    BY <1>1, <2>2
<1>6. CASE Kept(i)' = Kept(i) /\ drops' = drops
  <2>1. KeptAll' = KeptAll
    BY <1>4, <1>6, KeptSame
  <2> QED
    BY <1>2, <1>3, <1>6, <2>1 DEF Promise!Lose, KeptAll, StoredAll
<1> QED
  BY <1>4, <1>5, <1>6

LEMMA RefineSettle ==
  ASSUME PipelineInv, NEW i \in Instances, Settle(i)
  PROVE  \/ Promise!Lose(i)
         \/ \E b \in Batches : Promise!GiveUpCounted(i, b) \/ Promise!Release(i, b)
<1>1. call[i] # Idle
  BY DEF Settle, Answers, Idle
<1>2. Shrinks(i)
  BY CallEnds DEF PipelineInv, Settle, CallsShrink
<1>3. CASE call[i].stage = "stored" /\ Sent(i, call[i].row.batch)
  <2> DEFINE b == call[i].row.batch
  <2>1. b \in Batches
    BY <1>1, CallRow DEF PipelineInv
  <2>2. ledger[b] = i
    BY <1>3 DEF PipelineInv, StoredAnswersHold
  <2>3. /\ Kept(i)' = Kept(i) \ {b} /\ drops' = drops
        /\ \A j \in Instances : j # i => Kept(j)' = Kept(j)
    BY <1>3, WithoutKeeps DEF PipelineInv, Sent
  <2> HIDE DEF b
  <2>4. KeptAll' = [KeptAll EXCEPT ![i] = @ \ {b}]
    BY <2>3, KeptLoses
  <2>5. b \in StoredAll[i] /\ StoredAll' = StoredAll
    BY <2>1, <2>2, StoredSame DEF StoredAll, StoredBy, Settle, storeVars
  <2>6. Promise!Fewer(i)
    BY <1>2, FewerOnWire
  <2>7. Promise!Release(i, b)
    BY <2>3, <2>4, <2>5, <2>6 DEF Promise!Release, KeptAll, StoredAll
  <2> QED
    BY <2>1, <2>7
<1>4. CASE Failed(i, call[i].row, call[i].stage = "rejected")
  BY <1>1, <1>2, <1>4, RefineFailed DEF Settle
<1> QED
  BY <1>3, <1>4 DEF Settle

LEMMA RefineTimesOut ==
  ASSUME PipelineInv, NEW i \in Instances, TimesOut(i)
  PROVE  Promise!Lose(i) \/ \E b \in Batches : Promise!GiveUpCounted(i, b)
<1>1. Shrinks(i)
  BY LeavesShrinks DEF PipelineInv, TimesOut, CallsShrink
<1> QED
  BY <1>1, RefineFailed DEF TimesOut

LEMMA RefineDies ==
  ASSUME PipelineInv, NEW i \in Instances, Dies(i)
  PROVE  Promise!Lose(i)
<1>1. Promise!Fewer(i)
  BY LeavesShrinks, FewerOnWire DEF PipelineInv, Dies, CallsShrink
<1>2. KeptAll' = KeptAll /\ StoredAll' = StoredAll /\ drops' = drops
  BY StoredSame DEF KeptAll, Kept, Dies, AgentDies, storeVars
<1> QED
  BY <1>1, <1>2 DEF Promise!Lose, KeptAll, StoredAll

\* A batch that comes off the wire is stored if it was nobody's.
LEMMA RefineStored ==
  ASSUME PipelineInv, NEW i \in Instances, NEW m \in Letters, m.batch \in Wire(i),
         Ingest(i, m.batch, m.at), Shrinks(i), UNCHANGED outboxVars
  PROVE  Promise!Lose(i) \/ \E b \in Batches : Promise!Store(i, b)
<1>1. Promise!Fewer(i)
  BY FewerOnWire
<1>2. KeptAll' = KeptAll /\ drops' = drops
  BY DEF KeptAll, Kept, outboxVars
<1>3. CASE UNCHANGED storeVars
  BY <1>1, <1>2, <1>3, StoredSame DEF Promise!Lose, KeptAll, StoredAll, storeVars
<1>4. CASE /\ ledger[m.batch] = None
           /\ \A c \in Batches : ledger'[c] = IF c = m.batch THEN i ELSE ledger[c]
  <2>1. PICK b \in Batches : b = m.batch
    BY DEF Letters
  <2>2. \A j \in Instances : b \notin StoredAll[j]
    BY <1>4, <2>1, BatchAssumption DEF StoredAll, StoredBy
  <2>3. StoredAll' = [StoredAll EXCEPT ![i] = @ \cup {b}]
    <3>1. \A j \in Instances :
            StoredBy(j)' = IF j = i THEN StoredBy(j) \cup {b} ELSE StoredBy(j)
      BY <1>4, <2>1, BatchAssumption DEF StoredBy
    <3> QED
      BY <3>1 DEF StoredAll
  <2>4. b \in WireAll[i]
    BY <2>1 DEF WireAll
  <2>5. Promise!Store(i, b)
    BY <1>1, <1>2, <2>2, <2>3, <2>4 DEF Promise!Store, KeptAll, StoredAll, WireAll
  <2> QED
    BY <2>5
<1> QED
  BY <1>3, <1>4, LettersStored

LEMMA RefineServe ==
  ASSUME PipelineInv, NEW i \in Instances, Serve(i)
  PROVE  Promise!Lose(i) \/ \E b \in Batches : Promise!Store(i, b)
<1>1. call[i] # Idle
  BY DEF Serve, Idle
<1>2. Letter(i) \in Letters /\ Letter(i).batch = call[i].row.batch
  BY <1>1, CallRow DEF PipelineInv, Letter
<1>3. Shrinks(i) /\ Letter(i).batch \in Wire(i) /\ UNCHANGED outboxVars
  BY <1>2, ServeEffect DEF Serve
<1>4. CASE Ingest(i, Letter(i).batch, Letter(i).at)
  BY <1>2, <1>3, <1>4, RefineStored
<1>5. CASE UNCHANGED storeVars
  <2>1. Promise!Fewer(i)
    BY <1>3, FewerOnWire
  <2>2. KeptAll' = KeptAll /\ StoredAll' = StoredAll /\ drops' = drops
    BY <1>3, <1>5, StoredSame DEF KeptAll, Kept, outboxVars, storeVars
  <2> QED
    BY <2>1, <2>2 DEF Promise!Lose, KeptAll, StoredAll
<1> QED
  BY <1>4, <1>5, ServeEffect

LEMMA RefineServeLate ==
  ASSUME PipelineInv, NEW i \in Instances, ServeLate(i)
  PROVE  Promise!Lose(i) \/ \E b \in Batches : Promise!Store(i, b)
<1>1. PICK m \in Letters : /\ m.batch \in Wire(i)
                           /\ UNCHANGED storeVars \/ Ingest(i, m.batch, m.at)
  BY ServeLateEffect
<1>2. Shrinks(i) /\ UNCHANGED outboxVars
  BY ServeLateEffect DEF CallsShrink, ServeLate
<1>3. CASE Ingest(i, m.batch, m.at)
  BY <1>1, <1>2, <1>3, RefineStored
<1>4. CASE UNCHANGED storeVars
  <2>1. Promise!Fewer(i)
    BY <1>2, FewerOnWire
  <2>2. KeptAll' = KeptAll /\ StoredAll' = StoredAll /\ drops' = drops
    BY <1>2, <1>4, StoredSame DEF KeptAll, Kept, outboxVars, storeVars
  <2> QED
    BY <2>1, <2>2 DEF Promise!Lose, KeptAll, StoredAll
<1> QED
  BY <1>1, <1>3, <1>4

\* Scans change nothing of the promise until they enqueue.
LEMMA RefineCollect ==
  ASSUME PipelineInv, NEW i \in Instances, Collect(i), UNCHANGED <<storeVars, callVars>>
  PROVE  UNCHANGED Promise!promiseVars \/ \E b \in Batches : Promise!Accept(i, b)
<1>1. CASE ScanEnqueues(i)
  <2>1. PICK t \in Trees :
          Enqueue(i, [kind |-> "git", commits |-> scan[i].found, tree |-> t])
    BY <1>1 DEF ScanEnqueues
  <2>2. [kind |-> "git", commits |-> scan[i].found, tree |-> t] \in Batches
    BY DEF PipelineInv, ScansOK, Batches, GitBatches
  <2> QED
    BY <2>1, <2>2, RefineEnqueue
<1>2. CASE ScanRefs(i) \/ ScanSaves(i) \/ ScanFails(i)
  <2>1. KeptAll' = KeptAll /\ StoredAll' = StoredAll /\ WireAll' = WireAll /\ drops' = drops
    BY <1>2, StoredSame, WireSame
       DEF KeptAll, Kept, ScanRefs, ScanSaves, ScanFails, storeVars
  <2> QED
    BY <2>1 DEF Promise!promiseVars, KeptAll, StoredAll, WireAll
<1> QED
  BY <1>1, <1>2 DEF Collect

LEMMA RefineProduce ==
  ASSUME PipelineInv, NEW i \in Instances, NEW p \in Payloads, Produce(i, p),
         UNCHANGED <<storeVars, callVars>>
  PROVE  \E b \in Batches : Promise!Accept(i, b)
<1>1. [kind |-> "other", body |-> p] \in Batches
  BY DEF Batches
<1> QED
  BY <1>1, RefineEnqueue DEF Produce

-----------------------------------------------------------------------------
(* Theorems.                                                                  *)

\* Every outbox keeps its bound, and tables, ledger and requests their types.
THEOREM TypesHold == Spec => []TypeOK
<1>1. PipelineInv => TypeOK
  BY DEF PipelineInv, TypeOK, OutboxTypeOK, StoreTypeOK, QueuesOK, TableOK, CountersOK,
         StoreOK, CallsOK, ScansOK
<1> QED
  BY <1>1, PipelineInvariant, PTL

\* The refs that a scan saves leave no commit behind that it has found and that is
\* not queued, stored, or in a batch counted as dropped, with crashes anywhere
\* (_scan_repository, Outbox).
THEOREM NewCommitsAreQueuedFirstHolds == Spec => NewCommitsAreQueuedFirst
<1> DEFINE Step ==
      \A i \in Instances :
        refs[i].known /\ refs'[i] # refs[i] => \A s \in scan[i].found : Reported(i, s)
<1>1. PipelineInv /\ [Next]_pipelineVars => Step
  <2> SUFFICES ASSUME PipelineInv, [Next]_pipelineVars PROVE Step
    OBVIOUS
  <2>1. CASE UNCHANGED refs
    BY <2>1
  <2>2. CASE \E i \in Instances : ScanSaves(i)
    <3>1. PICK i \in Instances : ScanSaves(i)
      BY <2>2
    <3>2. scan[i].stage = "save" /\ \A j \in Instances : j # i => refs'[j] = refs[j]
      BY <3>1 DEF ScanSaves, PipelineInv, ScansOK
    <3> QED
      BY <3>2 DEF PipelineInv, ScansReport
  <2> QED
    BY <2>1, <2>2
       DEF Next, Collect, Sender, Produce, ScanRefs, ScanEnqueues, ScanFails, Send, Settle,
           TimesOut, Serve, ServeLate, Dies, AgentDies, outboxVars, pipelineVars
<1> QED
  BY <1>1, PipelineInvariant, PTL DEF Spec, NewCommitsAreQueuedFirst

\* The pipeline implements what it promises the producers of batches: nothing
\* that was acknowledged leaves the outbox unless it is stored for its workspace
\* or counted, and nothing is stored twice, whatever is lost, late or repeated.
THEOREM PipelineKeepsPromise == Spec => KeepsPromise
<1>1. Init => Promise!PromiseInit
  BY BatchAssumption
     DEF Init, OutboxInit, StoreInit, Promise!PromiseInit, Kept, Wire, StoredBy, Idle
<1>2. PipelineInv /\ [Next]_pipelineVars => [Promise!PromiseNext]_Promise!promiseVars
  <2> SUFFICES ASSUME PipelineInv, [Next]_pipelineVars
               PROVE  [Promise!PromiseNext]_Promise!promiseVars
    OBVIOUS
  <2>1. CASE UNCHANGED pipelineVars
    <3>1. KeptAll' = KeptAll /\ StoredAll' = StoredAll /\ WireAll' = WireAll /\ drops' = drops
      BY <2>1, StoredSame, WireSame DEF KeptAll, Kept, pipelineVars, outboxVars, storeVars
    <3> QED
      BY <3>1 DEF Promise!promiseVars, KeptAll, StoredAll, WireAll
  <2>2. CASE Next
    BY <2>2, RefineProduce, RefineCollect, RefineSend, RefineSettle, RefineTimesOut,
       RefineDies, RefineServe, RefineServeLate
       DEF Next, Sender, Promise!PromiseNext
  <2> QED
    BY <2>1, <2>2
<1> QED
  BY <1>1, <1>2, PipelineInvariant, PTL DEF Spec, KeepsPromise, Promise!PromiseSpec
=============================================================================
