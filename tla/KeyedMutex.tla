----------------------------- MODULE KeyedMutex -----------------------------
(* What DevboxManager._lock_lifecycle promises its callers: for every         *)
(* workspace key, at most one task is inside the locked section.  A task      *)
(* asks for one key at a time, is granted it while nobody holds it, or gives  *)
(* up (its task is cancelled).                                                *)
EXTENDS Naturals

CONSTANTS Tasks,   \* the asyncio tasks of one controller process
          Keys,    \* "tenant/resource" keys
          None     \* not a task, not a key

VARIABLES want,    \* want[t]: the key t waits for or holds, or None
          holder   \* holder[k]: the task inside the section of k, or None

mutexVars == <<want, holder>>

MutexInit ==
  /\ want = [t \in Tasks |-> None]
  /\ holder = [k \in Keys |-> None]

Ask(t, k) ==
  /\ want[t] = None
  /\ want' = [want EXCEPT ![t] = k]
  /\ UNCHANGED holder

Grant(t) ==
  /\ want[t] # None
  /\ holder[want[t]] = None
  /\ holder' = [holder EXCEPT ![want[t]] = t]
  /\ UNCHANGED want

\* The fast path: the lock is free, so asking and entering is one step.
AskGranted(t, k) ==
  /\ want[t] = None
  /\ holder[k] = None
  /\ want' = [want EXCEPT ![t] = k]
  /\ holder' = [holder EXCEPT ![k] = t]

Leave(t) ==
  /\ want[t] # None
  /\ want' = [want EXCEPT ![t] = None]
  /\ holder' = [k \in Keys |-> IF holder[k] = t THEN None ELSE holder[k]]

MutexNext ==
  \E t \in Tasks :
    \/ \E k \in Keys : Ask(t, k) \/ AskGranted(t, k)
    \/ Grant(t)
    \/ Leave(t)

MutexSpec == MutexInit /\ [][MutexNext]_mutexVars
=============================================================================
