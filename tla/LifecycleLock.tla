--------------------------- MODULE LifecycleLock ---------------------------
(* DevboxManager._lock_lifecycle: a dictionary of reference-counted           *)
(* asyncio.Lock objects, one per workspace key, created on demand and removed *)
(* by the last task that used or awaited it.                                  *)
(*                                                                            *)
(* asyncio runs one task at a time and switches only where a task suspends.   *)
(* The two sections guarded by _lifecycle_locks_guard contain no suspension   *)
(* point, so each is one step together with the code around it.               *)
(*                                                                            *)
(* asyncio.Lock (external) keeps a deque of futures.  acquire() takes a free  *)
(* lock at once unless an uncancelled future is queued; release() resolves    *)
(* the first future; the woken task sets the lock when it runs; a cancelled   *)
(* waiter passes the wake-up on when it finds the lock free.                  *)
(*                                                                            *)
(* The deque is modelled by its order: ahead[t] is the set of tasks queued in *)
(* front of t on the same lock object.                                        *)
EXTENDS Naturals, FiniteSets

CONSTANTS Tasks,   \* asyncio tasks of the controller process
          Keys,    \* "tenant/resource" keys of workspaces
          Locks,   \* identities of _LifecycleLock objects
          None

ASSUME LockAssumption ==
  /\ IsFiniteSet(Tasks)
  /\ None \notin Tasks \cup Keys \cup Locks

VARIABLES table,   \* self._lifecycle_locks: Keys -> Locks or None (absent)
          refs,    \* refs[l]: _LifecycleLock.references
          locked,  \* locked[l]: asyncio.Lock._locked
          stage,   \* where task t is in the context manager
          key,     \* the key t passed to _lock_lifecycle
          lock,    \* t's local variable lifecycle_lock
          ahead    \* the waiters queued in front of t

lockVars == <<table, refs, locked, stage, key, lock, ahead>>

\* pending: its future is unresolved; woken: resolved by release();
\* cancelled: the future was cancelled; spoiled: woken, then the task was
\* cancelled before it ran.
Stages == {"out", "pending", "woken", "cancelled", "spoiled", "inside"}
Queued == {"pending", "woken", "cancelled", "spoiled"}

Waiters(l) == {t \in Tasks : lock[t] = l /\ stage[t] \in Queued}
Users(l)   == {t \in Tasks : lock[t] = l /\ stage[t] # "out"}
Fresh      == {l \in Locks : Users(l) = {} /\ \A k \in Keys : table[k] # l}

TypeOK ==
  /\ table \in [Keys -> Locks \cup {None}]
  /\ refs \in [Locks -> Nat]
  /\ locked \in [Locks -> BOOLEAN]
  /\ stage \in [Tasks -> Stages]
  /\ key \in [Tasks -> Keys \cup {None}]
  /\ lock \in [Tasks -> Locks \cup {None}]
  /\ ahead \in [Tasks -> SUBSET Tasks]

Init ==
  /\ table = [k \in Keys |-> None]
  /\ refs = [l \in Locks |-> 0]
  /\ locked = [l \in Locks |-> FALSE]
  /\ stage = [t \in Tasks |-> "out"]
  /\ key = [t \in Tasks |-> None]
  /\ lock = [t \in Tasks |-> None]
  /\ ahead = [t \in Tasks |-> {}]

-----------------------------------------------------------------------------
(* Entering: setdefault, references += 1, then asyncio.Lock.acquire().        *)

\* Faulty: every task makes a lock object of its own.
EntryAnew(k, l) == l \in Fresh

\* setdefault(resource, _LifecycleLock()): the entry, or a new object.
Entry(k, l) == IF table[k] # None THEN l = table[k] ELSE l \in Fresh

\* Faulty: the reference is not counted.
RegisterUncounted(t, k, l) ==
  /\ stage[t] = "out"
  /\ Entry(k, l)
  /\ table' = [table EXCEPT ![k] = l]
  /\ key' = [key EXCEPT ![t] = k]
  /\ lock' = [lock EXCEPT ![t] = l]
  /\ UNCHANGED refs

Register(t, k, l) ==
  /\ stage[t] = "out"
  /\ Entry(k, l)
  /\ table' = [table EXCEPT ![k] = l]
  /\ refs' = [refs EXCEPT ![l] = @ + 1]
  /\ key' = [key EXCEPT ![t] = k]
  /\ lock' = [lock EXCEPT ![t] = l]

\* acquire() does not suspend: free, and every queued future is cancelled.
EnterAtOnce(t, k, l) ==
  /\ Register(t, k, l)
  /\ ~locked[l]
  /\ \A w \in Waiters(l) : stage[w] = "cancelled"
  /\ locked' = [locked EXCEPT ![l] = TRUE]
  /\ stage' = [stage EXCEPT ![t] = "inside"]
  /\ UNCHANGED ahead

EnterQueue(t, k, l) ==
  /\ Register(t, k, l)
  /\ \/ locked[l]
     \/ \E w \in Waiters(l) : stage[w] # "cancelled"
  /\ stage' = [stage EXCEPT ![t] = "pending"]
  /\ ahead' = [ahead EXCEPT ![t] = Waiters(l)]
  /\ UNCHANGED locked

-----------------------------------------------------------------------------
(* Leaving.  Unqueue is the deque.remove of a waiter that resumes;            *)
(* WakeFirst(l, gone) resolves the first future left once gone is out of the  *)
(* queue, unless that future is done already; Drop is the finally block.      *)

Unqueue(t) ==
  ahead' = [u \in Tasks |-> IF u = t THEN {} ELSE ahead[u] \ {t}]

Stepped(t, l, wake) ==
  stage' = [u \in Tasks |->
              IF u = t THEN "out"
              ELSE IF /\ wake
                      /\ u \in Waiters(l)
                      /\ ahead[u] \subseteq {t}
                      /\ stage[u] = "pending"
                   THEN "woken"
                   ELSE stage[u]]

\* Faulty: the entry goes while others still use or await its lock.
DropAlways(t, l) ==
  /\ refs' = [refs EXCEPT ![l] = @ - 1]
  /\ table' = [table EXCEPT ![key[t]] = None]
  /\ key' = [key EXCEPT ![t] = None]
  /\ lock' = [lock EXCEPT ![t] = None]

\* Faulty: the entry is never removed.
DropNever(t, l) ==
  /\ refs' = [refs EXCEPT ![l] = @ - 1]
  /\ key' = [key EXCEPT ![t] = None]
  /\ lock' = [lock EXCEPT ![t] = None]
  /\ UNCHANGED table

Drop(t, l) ==
  /\ refs' = [refs EXCEPT ![l] = @ - 1]
  /\ table' = IF refs[l] - 1 = 0 /\ table[key[t]] = l
                THEN [table EXCEPT ![key[t]] = None]
                ELSE table
  /\ key' = [key EXCEPT ![t] = None]
  /\ lock' = [lock EXCEPT ![t] = None]

\* Faulty: releasing the lock wakes nobody.
ExitSilently(t) ==
  /\ stage[t] = "inside"
  /\ locked' = [locked EXCEPT ![lock[t]] = FALSE]
  /\ Stepped(t, lock[t], FALSE)
  /\ Drop(t, lock[t])
  /\ UNCHANGED ahead

\* The locked body returned, raised or was cancelled: release(), then finally.
Exit(t) ==
  /\ stage[t] = "inside"
  /\ locked' = [locked EXCEPT ![lock[t]] = FALSE]
  /\ Stepped(t, lock[t], TRUE)
  /\ Drop(t, lock[t])
  /\ UNCHANGED ahead

\* A woken waiter runs: it takes the lock without looking at it again.
Resume(t) ==
  /\ stage[t] = "woken"
  /\ locked' = [locked EXCEPT ![lock[t]] = TRUE]
  /\ stage' = [stage EXCEPT ![t] = "inside"]
  /\ Unqueue(t)
  /\ UNCHANGED <<table, refs, key, lock>>

\* Task.cancel() on a waiter, before and after its future was resolved.
Cancel(t) ==
  /\ \/ /\ stage[t] = "pending"
        /\ stage' = [stage EXCEPT ![t] = "cancelled"]
     \/ /\ stage[t] = "woken"
        /\ stage' = [stage EXCEPT ![t] = "spoiled"]
  /\ UNCHANGED <<table, refs, locked, key, lock, ahead>>

\* CancelledError reaches acquire(): wake the next waiter if the lock is free.
ResumeCancelled(t) ==
  /\ stage[t] \in {"cancelled", "spoiled"}
  /\ Stepped(t, lock[t], ~locked[lock[t]])
  /\ Unqueue(t)
  /\ Drop(t, lock[t])
  /\ UNCHANGED locked

-----------------------------------------------------------------------------

Next ==
  \E t \in Tasks :
    \/ \E k \in Keys, l \in Locks : EnterAtOnce(t, k, l) \/ EnterQueue(t, k, l)
    \/ Exit(t)
    \/ Resume(t)
    \/ Cancel(t)
    \/ ResumeCancelled(t)

\* asyncio runs every ready task, and a locked body ends: each Kubernetes call
\* in it returns or raises.  Nothing obliges a task to enter or be cancelled.
Fairness ==
  \A t \in Tasks : WF_lockVars(Exit(t) \/ Resume(t) \/ ResumeCancelled(t))

Spec == Init /\ [][Next]_lockVars
FairSpec == Spec /\ Fairness

-----------------------------------------------------------------------------
(* Properties.                                                                *)

\* Lifecycle and Insights work on one workspace is serialised: two tasks that
\* are both inside the section are there for different keys.  It depends on
\* every task of a key sharing one lock object for as long as any uses it.
MutualExclusion ==
  \A t, u \in Tasks :
    stage[t] = "inside" /\ stage[u] = "inside" /\ key[t] = key[u] => t = u

\* Nothing is kept for a deleted workspace, and nothing is dropped under a
\* waiter: an entry exists exactly while some task uses or awaits it.
NoLeakedEntry ==
  \A k \in Keys :
    table[k] # None <=> \E t \in Tasks : stage[t] # "out" /\ key[t] = k

\* The section of a key is handed to one task at a time: an abstract mutex
\* whose holder is the task inside and whose requests are the keys asked for.
Inside(k) == {t \in Tasks : stage[t] = "inside" /\ key[t] = k}

Holder == [k \in Keys |-> IF Inside(k) # {} THEN CHOOSE t \in Inside(k) : TRUE
                                           ELSE None]

Mutex == INSTANCE KeyedMutex WITH want <- key, holder <- Holder

ImplementsMutex == Mutex!MutexSpec

\* No waiter starves: the queue is first come, first served, so a task that
\* waits gets in or, if cancelled, leaves.
WaiterServed ==
  \A t \in Tasks : stage[t] \in Queued ~> stage[t] \in {"inside", "out"}
=============================================================================
