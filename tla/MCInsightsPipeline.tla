------------------------- MODULE MCInsightsPipeline -------------------------
(* InsightsPipeline for TLC.  Commits are symmetric in the runs without       *)
(* liveness.                                                                  *)
EXTENDS InsightsPipeline, TLC

Symmetry == Permutations(Shas)
=============================================================================
