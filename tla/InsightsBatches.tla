-------------------------- MODULE InsightsBatches ---------------------------
(* What travels through the Insights pipeline.  A batch is its content: its   *)
(* identifier is a hash of kind and payload.                                  *)
EXTENDS Naturals

CONSTANTS
  Instances,    \* workspaces, each with one home volume and one agent
  Payloads,     \* contents of OTLP and heartbeat batches
  Shas,         \* commits
  Trees,        \* states of the working tree
  Clean,        \* the one without changes
  None

ASSUME BatchAssumption == Clean \in Trees /\ None \notin Instances \cup Trees

\* A Git payload: the commits new since the last scan, and the working tree.
GitBatches == [kind : {"git"}, commits : SUBSET Shas, tree : Trees]
Batches    == [kind : {"other"}, body : Payloads] \cup GitBatches
=============================================================================
