-------------------------- MODULE InsightsPromise ---------------------------
(* What the Insights pipeline promises the producer whose batch it has        *)
(* acknowledged: the batch stays in the outbox until it is stored for its     *)
(* workspace, or the loss is counted; it is stored once, for one workspace.   *)
EXTENDS Naturals, FiniteSets

CONSTANTS Instances, Batches

VARIABLES
  kept,      \* kept[i]: batches in the outbox of i
  wire,      \* wire[i]: batches on their way to the controller
  stored,    \* stored[i]: batches the controller has
  counted    \* counted[i]: losses the agent reports

promiseVars == <<kept, wire, stored, counted>>

PromiseInit ==
  /\ kept = [i \in Instances |-> {}]
  /\ wire = [i \in Instances |-> {}]
  /\ stored = [i \in Instances |-> {}]
  /\ counted = [i \in Instances |-> 0]

Fewer(i) ==
  \E lost \in SUBSET wire[i] : wire' = [wire EXCEPT ![i] = @ \ lost]

\* A new batch is acknowledged; older ones may be discarded, and are counted.
Accept(i, b) ==
  /\ \E gone \in SUBSET (kept[i] \cup {b}) :
       /\ kept' = [kept EXCEPT ![i] = (@ \cup {b}) \ gone]
       /\ counted' = [counted EXCEPT ![i] = @ + Cardinality(gone)]
  /\ UNCHANGED <<wire, stored>>

Transmit(i, b) ==
  /\ b \in kept[i]
  /\ wire' = [wire EXCEPT ![i] = @ \cup {b}]
  /\ UNCHANGED <<kept, stored, counted>>

\* A copy is stored, unless a workspace has the batch already.
Store(i, b) ==
  /\ b \in wire[i]
  /\ \A j \in Instances : b \notin stored[j]
  /\ stored' = [stored EXCEPT ![i] = @ \cup {b}]
  /\ Fewer(i)
  /\ UNCHANGED <<kept, counted>>

Release(i, b) ==
  /\ b \in stored[i]
  /\ kept' = [kept EXCEPT ![i] = @ \ {b}]
  /\ Fewer(i)
  /\ UNCHANGED <<stored, counted>>

GiveUpCounted(i, b) ==
  /\ kept' = [kept EXCEPT ![i] = @ \ {b}]
  /\ counted' = [counted EXCEPT ![i] = @ + 1]
  /\ Fewer(i)
  /\ UNCHANGED stored

Lose(i) == Fewer(i) /\ UNCHANGED <<kept, stored, counted>>

PromiseNext ==
  \E i \in Instances :
    \/ Lose(i)
    \/ \E b \in Batches :
         Accept(i, b) \/ Transmit(i, b) \/ Store(i, b) \/ Release(i, b)
           \/ GiveUpCounted(i, b)

PromiseSpec == PromiseInit /\ [][PromiseNext]_promiseVars
=============================================================================
