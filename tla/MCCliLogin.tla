----------------------------- MODULE MCCliLogin ----------------------------
(* Instances of CliLogin for TLC. *)
EXTENDS CliLogin, TLC

CONSTANTS op, ann, l1, l2, port, x, y, w1, w2

\* Two attempts get the same ephemeral port, one after the other.
MCRedirectOf == [a \in Attempts |-> port]

Installation(operatorSecret, annSecret, key, annRole, ttl) ==
  [secret |-> op :> operatorSecret @@ ann :> annSecret,
   key |-> key,
   role |-> op :> [t \in Tenants |-> "operator"] @@ ann :> [t \in Tenants |-> annRole],
   ttl |-> ttl]

\* The first installation; and one where the secret of ann was rotated, one where
\* her role and the lifetime of tokens were reduced, one with a new master token.
MCFirst == {Installation(x, w1, None, "admin", 2)}

MCConfigs == MCFirst \cup
  {Installation(x, w2, None, "admin", 2),
   Installation(x, w1, None, "viewer", 1),
   Installation(y, w1, None, "admin", 2)}
=============================================================================
