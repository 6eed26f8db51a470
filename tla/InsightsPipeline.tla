-------------------------- MODULE InsightsPipeline --------------------------
(* InsightsPipeline: the agents' outboxes (InsightsOutbox), the controller's  *)
(* store (InsightsStore) and the HTTP requests of Sender.run between them.    *)
(* A request may be lost, may be answered after the sender has given up on    *)
(* it, and may be stored although its answer is lost.                         *)
EXTENDS InsightsOutbox, InsightsStore

CONSTANT MaxLate  \* bound on the abandoned requests still under way per agent

ASSUME PipelineAssumption == MaxLate \in Nat

VARIABLES
  call,    \* call[i]: what the sender thread of i is doing, with which row
  late     \* late[i]: requests whose sender no longer waits for the answer

callVars == <<call, late>>
pipelineVars == <<outboxVars, storeVars, callVars>>

\* What the controller makes of a request.
Answers == {"stored", "retry", "rejected"}

Idle == [stage |-> "idle"]
Calls == [stage : {"sent"} \cup Answers, row : Rows]
Letters == [batch : Batches, at : 1..MaxStamp]

Letter(i) == [batch |-> call[i].row.batch, at |-> call[i].row.at]

Init ==
  /\ OutboxInit
  /\ StoreInit
  /\ call = [i \in Instances |-> Idle]
  /\ late = [i \in Instances |-> {}]

-----------------------------------------------------------------------------
(* The sender thread.                                                         *)

Send(i) ==
  /\ call[i] = Idle
  /\ \E r \in queue[i] :
       Due(i, r) /\ call' = [call EXCEPT ![i] = [stage |-> "sent", row |-> r]]
  /\ UNCHANGED <<outboxVars, storeVars, late>>

\* Faulty: any answer of the controller counts as accepted.
SettleAnything(i) ==
  /\ call[i].stage \in Answers
  /\ Sent(i, call[i].row.batch)
  /\ call' = [call EXCEPT ![i] = Idle]
  /\ UNCHANGED <<stamp, refs, scan, crashes, storeVars, late>>

\* 2xx; a 4xx other than 429; or 429 and 5xx.
Settle(i) ==
  /\ call[i].stage \in Answers
  /\ \/ call[i].stage = "stored" /\ Sent(i, call[i].row.batch)
     \/ call[i].stage # "stored" /\ Failed(i, call[i].row, call[i].stage = "rejected")
  /\ call' = [call EXCEPT ![i] = Idle]
  /\ UNCHANGED <<stamp, refs, scan, crashes, storeVars, late>>

\* The sender leaves a request, which may be lost or still under way.
Leaves(i) ==
  /\ call' = [call EXCEPT ![i] = Idle]
  /\ \/ UNCHANGED late
     \/ /\ call[i].stage = "sent" /\ Cardinality(late[i]) < MaxLate
        /\ late' = [late EXCEPT ![i] = @ \cup {Letter(i)}]

\* The request or its answer is lost, or none comes in ten seconds.
TimesOut(i) ==
  /\ call[i] # Idle
  /\ Failed(i, call[i].row, FALSE)
  /\ Leaves(i)
  /\ UNCHANGED <<stamp, refs, scan, crashes, storeVars>>

-----------------------------------------------------------------------------
(* The controller and the network.                                            *)

\* POST /internal/v1/insights/batches: the batch is stored, or a copy of it is
\* there; or it is refused for now (rate limit, storage error) or for good
\* (credential, format or size, an identifier in use).
Serve(i) ==
  /\ call[i].stage = "sent"
  /\ \E a \in Answers :
       /\ call' = [call EXCEPT ![i].stage = a]
       /\ IF a = "stored" THEN Ingest(i, Letter(i).batch, Letter(i).at)
                          ELSE UNCHANGED storeVars
  /\ UNCHANGED <<outboxVars, late>>

\* A request that its sender has left is refused, lost or stored after all.
ServeLate(i) ==
  /\ \E m \in late[i] :
       /\ late' = [late EXCEPT ![i] = @ \ {m}]
       /\ UNCHANGED storeVars \/ Ingest(i, m.batch, m.at)
  /\ UNCHANGED <<outboxVars, call>>

\* The agent process dies with the request it was sending.
Dies(i) ==
  /\ AgentDies(i)
  /\ Leaves(i)
  /\ UNCHANGED storeVars

Sender(i) == Send(i) \/ Settle(i) \/ TimesOut(i)

Next ==
  \E i \in Instances :
    \/ /\ (\E p \in Payloads : Produce(i, p)) \/ Collect(i)
       /\ UNCHANGED <<storeVars, callVars>>
    \/ Sender(i)
    \/ Serve(i)
    \/ ServeLate(i)
    \/ Dies(i)

\* The sender thread runs, urlopen returns within its timeout and back-offs
\* end.  Nothing is assumed of the network, the controller or the producers.
Fairness == \A i \in Instances : WF_pipelineVars(Sender(i))

Spec == Init /\ [][Next]_pipelineVars
FairSpec == Spec /\ Fairness

-----------------------------------------------------------------------------
(* Properties.                                                                *)

TypeOK ==
  /\ OutboxTypeOK
  /\ StoreTypeOK
  /\ call \in [Instances -> {Idle} \cup Calls]
  /\ late \in [Instances -> SUBSET Letters]

\* A batch the agent has acknowledged leaves the outbox only when it is stored
\* for its workspace or counted as dropped, whatever is lost, late or repeated
\* between the two, and is stored once.
Wire(i) ==
  {m.batch : m \in late[i]} \cup (IF call[i].stage = "sent" THEN {call[i].row.batch} ELSE {})

Promise == INSTANCE InsightsPromise
  WITH kept    <- [i \in Instances |-> Kept(i)],
       wire    <- [i \in Instances |-> Wire(i)],
       stored  <- [i \in Instances |-> StoredBy(i)],
       counted <- drops

KeepsPromise == Promise!PromiseSpec

\* A commit has been reported: it is in the central store, in the outbox, or in a
\* batch counted as dropped.
Reported(i, s) ==
  \/ s \in commits[i]
  \/ \E b \in Kept(i) \cup lost[i] : b.kind = "git" /\ s \in b.commits

\* The saved refs move on only after what the scan has found is reported, even if the
\* agent dies in between and whatever has become of the batch since.
NewCommitsAreQueuedFirst ==
  [][\A i \in Instances :
       refs[i].known /\ refs'[i] # refs[i] =>
         \A s \in scan[i].found : Reported(i, s)]_pipelineVars

\* No batch stays in the outbox for ever, however the controller answers: the
\* attempts are bounded and no row starves behind others.
OutboxDrains ==
  \A i \in Instances, n \in 1..MaxStamp : []<>(\A r \in queue[i] : r.at # n)

\* "accepted local metric batches survive workspace and controller outages"
\* (docs/architecture.md), and it is the "byte or age bound" that "forces
\* deletion" (docs/insights.md): a batch the controller has not rejected is
\* dropped only to make room in the outbox.
DroppedOnlyAtBounds ==
  [][\A i \in Instances :
       drops'[i] > drops[i] => stamp' > stamp \/ call[i].stage = "rejected"]_pipelineVars

\* "Working tree: Latest staged and unstaged tracked changes"
\* (docs/insights.md): when the report of a scan is accepted and none of a later
\* scan is stored, the tree shown is the one it reports.
ShowsLatestTree ==
  \A i \in Instances :
    LET row == call[i].row
    IN call[i].stage = "stored" /\ row.batch.kind = "git" /\ row.at > snapshot[i].at
         => snapshot[i].tree = row.batch.tree
=============================================================================
