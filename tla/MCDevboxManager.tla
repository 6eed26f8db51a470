-------------------------- MODULE MCDevboxManager --------------------------
(* Instances of DevboxManager for TLC: boxes, tasks and controllers are sets  *)
(* of model values, the functions over them are defined here.                 *)
EXTENDS DevboxManager, TLC

\* One tenant holds every box, or each of two tenants one of two boxes; one
\* controller runs every task.
OneTenant     == [b \in Boxes |-> CHOOSE t \in Tenants : TRUE]
TwoTenants ==
  LET first == CHOOSE t \in Tenants : TRUE
      other == CHOOSE t \in Tenants : t # first
      home  == CHOOSE b \in Boxes : TRUE
  IN [b \in Boxes |-> IF b = home THEN first ELSE other]

OneController == [t \in Tasks |-> CHOOSE c \in Controllers : TRUE]

Symmetry == Permutations(Ids) \cup Permutations(Requests)
=============================================================================
