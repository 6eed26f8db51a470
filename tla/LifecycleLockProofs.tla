------------------------ MODULE LifecycleLockProofs ------------------------
(* Proofs about LifecycleLock for any number of tasks, keys and lock objects. *)
(*                                                                            *)
(* MutualExclusion is not inductive.  It needs that a task's lock object is   *)
(* the one in the table (Tabled), which needs that an entry is dropped only   *)
(* when nobody else uses it, hence that references counts the users exactly   *)
(* (Counted), and that the asyncio.Lock itself admits one task (Admitted),    *)
(* which needs that at most one waiter has been woken (Woken, Ordered).       *)
EXTENDS LifecycleLock, FiniteSetTheorems, TLAPS

Local ==
  \A t \in Tasks :
    IF stage[t] = "out" THEN key[t] = None /\ lock[t] = None
                        ELSE key[t] \in Keys /\ lock[t] \in Locks

Tabled == \A t \in Tasks : stage[t] # "out" => table[key[t]] = lock[t]

Used ==
  \A k \in Keys :
    table[k] # None => \E t \in Tasks : stage[t] # "out" /\ key[t] = k

Distinct == \A j, k \in Keys : table[j] = table[k] /\ table[k] # None => j = k

Counted == \A l \in Locks : refs[l] = Cardinality(Users(l))

Admitted ==
  /\ \A t \in Tasks : stage[t] = "inside" => locked[lock[t]]
  /\ \A t, u \in Tasks :
       stage[t] = "inside" /\ stage[u] = "inside" /\ lock[t] = lock[u] => t = u

Ordered ==
  /\ \A t, u \in Tasks :
       stage[t] \in Queued /\ stage[u] \in Queued /\ lock[t] = lock[u] /\ t # u
         => t \in ahead[u] \/ u \in ahead[t]
  /\ \A t, u \in Tasks : t \in ahead[u] => stage[t] \in Queued

Woken ==
  \A t \in Tasks :
    stage[t] \in {"woken", "spoiled"} => ahead[t] = {} /\ ~locked[lock[t]]

LockInv ==
  /\ TypeOK
  /\ Local
  /\ Tabled
  /\ Used
  /\ Distinct
  /\ Counted
  /\ Admitted
  /\ Ordered
  /\ Woken

USE DEF Stages, Queued

\* The users of a lock object form a finite set.
LEMMA UsersFinite ==
  ASSUME NEW l PROVE IsFiniteSet(Users(l))
  BY LockAssumption, FS_Subset, Users(l) \subseteq Tasks DEF Users

LEMMA InitLockInv == Init => LockInv
<1> SUFFICES ASSUME Init PROVE LockInv
  OBVIOUS
<1>1. TypeOK /\ Local /\ Tabled /\ Used /\ Distinct /\ Admitted /\ Ordered /\ Woken
  BY DEF Init, TypeOK, Local, Tabled, Used, Distinct, Admitted, Ordered, Woken
<1>2. Counted
  <2> SUFFICES ASSUME NEW l \in Locks PROVE refs[l] = Cardinality(Users(l))
    BY DEF Counted
  <2>1. Users(l) = {}
    BY DEF Init, Users
  <2> QED
    BY <2>1, FS_EmptySet DEF Init
<1> QED
  BY <1>1, <1>2 DEF LockInv

-----------------------------------------------------------------------------

\* What registering does to the table and to the reference counts.
LEMMA RegisterStep ==
  ASSUME LockInv, NEW t \in Tasks, NEW k \in Keys, NEW l \in Locks,
         Register(t, k, l),
         \/ stage' = [stage EXCEPT ![t] = "inside"]
         \/ stage' = [stage EXCEPT ![t] = "pending"]
  PROVE  Local' /\ Tabled' /\ Used' /\ Distinct' /\ Counted'
<1> USE DEF LockInv, Register, Entry, TypeOK
<1>1. Local'
  BY DEF Local
<1>2. \A u \in Tasks : stage[u] # "out" /\ key[u] = k => lock[u] = l
  BY LockAssumption DEF Local, Tabled
<1>3. Tabled'
  BY <1>2, LockAssumption DEF Local, Tabled
<1>4. Used'
  BY LockAssumption DEF Used
<1>5. Distinct'
  BY LockAssumption DEF Distinct, Fresh
<1>6. Counted'
  <2> SUFFICES ASSUME NEW m \in Locks PROVE refs'[m] = Cardinality(Users(m)')
    BY DEF Counted
  <2>1. CASE m = l
    <3>1. Users(m)' = Users(m) \cup {t} /\ t \notin Users(m)
      BY <2>1 DEF Users
    <3>2. Cardinality(Users(m)') = Cardinality(Users(m)) + 1
      BY <3>1, UsersFinite, FS_AddElement
    <3> QED
      BY <3>2, <2>1 DEF Counted
  <2>2. CASE m # l
    <3>1. Users(m)' = Users(m)
      BY <2>2, LockAssumption DEF Users, Local
    <3> QED
      BY <3>1, <2>2 DEF Counted
  <2> QED
    BY <2>1, <2>2
<1> QED
  BY <1>1, <1>3, <1>4, <1>5, <1>6

\* What the finally block does to them: the entry goes with its last user.
LEMMA DropStep ==
  ASSUME LockInv, NEW t \in Tasks, stage[t] # "out", Drop(t, lock[t]),
         NEW l \in Locks, lock[t] = l, NEW k \in Keys, key[t] = k,
         stage' \in [Tasks -> Stages],
         \A u \in Tasks : stage'[u] = "out" <=> u = t \/ stage[u] = "out"
  PROVE  Local' /\ Tabled' /\ Used' /\ Distinct' /\ Counted'
<1> USE DEF LockInv, TypeOK
<1>0. table[k] = l
  BY DEF Tabled
<1>1. Local'
  BY DEF Drop, Local
<1>2. \A m \in Locks : Users(m)' = Users(m) \ {t}
  BY LockAssumption DEF Users, Drop
<1>3. \A m \in Locks : m # l => Users(m)' = Users(m)
  BY <1>2 DEF Users
<1>4. t \in Users(l)
  BY DEF Users
<1>5. Cardinality(Users(l)') = Cardinality(Users(l)) - 1
  BY <1>0, <1>2, <1>4, UsersFinite, FS_RemoveElement
<1>6. Counted'
  BY <1>0, <1>3, <1>5 DEF Counted, Drop
<1>7. refs[l] - 1 = 0 <=> Users(l)' = {}
  <2>1. IsFiniteSet(Users(l)')
    BY <1>0, <1>2, UsersFinite, FS_Subset, Users(l) \ {t} \subseteq Users(l)
  <2>2. Cardinality(Users(l)') = 0 <=> Users(l)' = {}
    BY <2>1, FS_EmptySet
  <2> QED
    BY <2>2, <1>0, <1>5 DEF Counted
<1>8. \A u \in Tasks : u # t /\ stage[u] # "out" /\ key[u] = k => u \in Users(l)'
  BY <1>0, <1>2, LockAssumption DEF Users, Tabled
<1>9. Tabled'
  BY <1>0, <1>7, <1>8 DEF Tabled, Local, Drop
<1>10. Used'
  <2> SUFFICES ASSUME NEW j \in Keys, table'[j] # None
               PROVE  \E u \in Tasks : stage'[u] # "out" /\ key'[u] = j
    BY DEF Used
  <2>1. CASE j = k
    <3>1. Users(l)' # {}
      BY <1>0, <1>7, <2>1 DEF Drop
    <3>2. PICK u \in Tasks : u # t /\ u \in Users(l)
      BY <3>1, <1>0, <1>2 DEF Users
    <3>3. key[u] = k
      BY <3>2, <1>0, LockAssumption DEF Users, Tabled, Local, Distinct
    <3> QED
      BY <3>2, <3>3, <2>1 DEF Users, Drop
  <2>2. CASE j # k
    BY <2>2, <1>0 DEF Drop, Used
  <2> QED
    BY <2>1, <2>2
<1>11. Distinct'
  BY <1>0 DEF Distinct, Drop
<1> QED
  BY <1>1, <1>6, <1>9, <1>10, <1>11

-----------------------------------------------------------------------------
\* One lemma per action.

LEMMA EnterAtOnceInv ==
  ASSUME LockInv, NEW t \in Tasks, NEW k \in Keys, NEW l \in Locks,
         EnterAtOnce(t, k, l)
  PROVE  LockInv'
<1> USE DEF EnterAtOnce
<1>1. TypeOK'
  BY DEF LockInv, TypeOK, Register
<1>2. Local' /\ Tabled' /\ Used' /\ Distinct' /\ Counted'
  BY RegisterStep
<1>3. Admitted' /\ Ordered' /\ Woken'
  BY LockAssumption
  DEF LockInv, TypeOK, Local, Register, Admitted, Ordered, Woken, Waiters
<1> QED
  BY <1>1, <1>2, <1>3 DEF LockInv

LEMMA EnterQueueInv ==
  ASSUME LockInv, NEW t \in Tasks, NEW k \in Keys, NEW l \in Locks,
         EnterQueue(t, k, l)
  PROVE  LockInv'
<1> USE DEF EnterQueue
<1>1. TypeOK'
  BY DEF LockInv, TypeOK, Register, Waiters
<1>2. Local' /\ Tabled' /\ Used' /\ Distinct' /\ Counted'
  BY RegisterStep
<1>3. Admitted' /\ Ordered' /\ Woken'
  BY LockAssumption
  DEF LockInv, TypeOK, Local, Register, Admitted, Ordered, Woken, Waiters
<1> QED
  BY <1>1, <1>2, <1>3 DEF LockInv

LEMMA ExitInv ==
  ASSUME LockInv, NEW t \in Tasks, Exit(t)
  PROVE  LockInv'
<1> USE DEF Exit
<1>0. lock[t] \in Locks /\ key[t] \in Keys
  BY DEF LockInv, Local
<1>1. TypeOK'
  <2>1. refs[lock[t]] - 1 \in Nat
    <3>1. t \in Users(lock[t])
      BY DEF Users
    <3>2. Cardinality(Users(lock[t])) \in Nat /\ Cardinality(Users(lock[t])) # 0
      BY <3>1, UsersFinite, FS_CardinalityType, FS_EmptySet
    <3> QED
      BY <3>2, <1>0 DEF LockInv, Counted
  <2> QED
    BY <1>0, <2>1 DEF LockInv, TypeOK, Drop, Stepped
<1>2. Local' /\ Tabled' /\ Used' /\ Distinct' /\ Counted'
  <2>1. /\ stage' \in [Tasks -> Stages]
        /\ \A u \in Tasks : stage'[u] = "out" <=> u = t \/ stage[u] = "out"
    BY DEF Stepped, LockInv, TypeOK, Waiters
  <2> QED
    BY <1>0, <2>1, DropStep
<1>3. Admitted' /\ Ordered' /\ Woken'
  BY <1>0, LockAssumption
  DEF LockInv, TypeOK, Local, Drop, Stepped, Admitted, Ordered, Woken, Waiters
<1> QED
  BY <1>1, <1>2, <1>3 DEF LockInv

LEMMA ResumeInv ==
  ASSUME LockInv, NEW t \in Tasks, Resume(t)
  PROVE  LockInv'
<1> USE DEF Resume, Unqueue
<1>1. TypeOK' /\ Local' /\ Tabled' /\ Used' /\ Distinct'
  BY DEF LockInv, TypeOK, Local, Tabled, Used, Distinct
<1>2. Counted'
  <2>1. \A l \in Locks : Users(l)' = Users(l)
    BY DEF Users, LockInv, TypeOK
  <2> QED
    BY <2>1 DEF LockInv, Counted
<1>3. Admitted'
  BY DEF LockInv, TypeOK, Local, Admitted, Woken
<1>4. Ordered' /\ Woken'
  BY DEF LockInv, TypeOK, Local, Ordered, Woken
<1> QED
  BY <1>1, <1>2, <1>3, <1>4 DEF LockInv

LEMMA CancelInv ==
  ASSUME LockInv, NEW t \in Tasks, Cancel(t)
  PROVE  LockInv'
<1> USE DEF Cancel
<1>1. TypeOK' /\ Local' /\ Tabled' /\ Used' /\ Distinct'
  BY DEF LockInv, TypeOK, Local, Tabled, Used, Distinct
<1>2. Counted'
  <2>1. \A l \in Locks : Users(l)' = Users(l)
    BY DEF Users, LockInv, TypeOK
  <2> QED
    BY <2>1 DEF LockInv, Counted
<1>3. Admitted' /\ Ordered' /\ Woken'
  BY DEF LockInv, TypeOK, Admitted, Ordered, Woken
<1> QED
  BY <1>1, <1>2, <1>3 DEF LockInv

LEMMA ResumeCancelledInv ==
  ASSUME LockInv, NEW t \in Tasks, ResumeCancelled(t)
  PROVE  LockInv'
<1> USE DEF ResumeCancelled
<1>0. lock[t] \in Locks /\ key[t] \in Keys /\ stage[t] # "out"
  BY DEF LockInv, Local
<1>1. TypeOK'
  <2>1. refs[lock[t]] - 1 \in Nat
    <3>1. t \in Users(lock[t])
      BY <1>0 DEF Users
    <3>2. Cardinality(Users(lock[t])) \in Nat /\ Cardinality(Users(lock[t])) # 0
      BY <3>1, UsersFinite, FS_CardinalityType, FS_EmptySet
    <3> QED
      BY <3>2, <1>0 DEF LockInv, Counted
  <2> QED
    BY <1>0, <2>1 DEF LockInv, TypeOK, Drop, Stepped, Unqueue
<1>2. Local' /\ Tabled' /\ Used' /\ Distinct' /\ Counted'
  <2>1. /\ stage' \in [Tasks -> Stages]
        /\ \A u \in Tasks : stage'[u] = "out" <=> u = t \/ stage[u] = "out"
    BY DEF Stepped, LockInv, TypeOK, Waiters
  <2> QED
    BY <1>0, <2>1, DropStep
<1>3. Admitted' /\ Ordered' /\ Woken'
  BY <1>0, LockAssumption
  DEF LockInv, TypeOK, Local, Drop, Stepped, Unqueue, Admitted, Ordered, Woken, Waiters
<1> QED
  BY <1>1, <1>2, <1>3 DEF LockInv

LEMMA NextLockInv == LockInv /\ [Next]_lockVars => LockInv'
<1> SUFFICES ASSUME LockInv, [Next]_lockVars PROVE LockInv'
  OBVIOUS
<1>1. CASE Next
  BY <1>1, EnterAtOnceInv, EnterQueueInv, ExitInv, ResumeInv, CancelInv,
     ResumeCancelledInv DEF Next
<1>2. CASE UNCHANGED lockVars
  <2>1. \A l \in Locks : Users(l)' = Users(l)
    BY <1>2 DEF lockVars, Users
  <2>2. Counted'
    BY <2>1, <1>2 DEF lockVars, LockInv, Counted
  <2> QED
    BY <2>2, <1>2 DEF lockVars, LockInv, TypeOK, Local, Tabled, Used, Distinct,
                     Admitted, Ordered, Woken
<1> QED
  BY <1>1, <1>2

\* The inductive invariant holds in every reachable state.
THEOREM LockInvariant == Spec => []LockInv
<1> QED
  BY InitLockInv, NextLockInv, PTL DEF Spec

\* The table, the locks and the waiters keep their types.
THEOREM TypesHold == Spec => []TypeOK
<1>1. LockInv => TypeOK
  BY DEF LockInv
<1> QED
  BY <1>1, LockInvariant, PTL


\* Two tasks inside the locked section of _lock_lifecycle are there for
\* different workspaces, however many tasks, workspaces and lock objects.
THEOREM MutualExclusionHolds == Spec => []MutualExclusion
<1>1. LockInv => MutualExclusion
  BY DEF LockInv, MutualExclusion, Tabled, Admitted
<1> QED
  BY <1>1, LockInvariant, PTL

\* The dictionary of _lock_lifecycle holds exactly the keys in use or awaited:
\* nothing is retained for deleted workspaces, nothing dropped under a waiter.
THEOREM NoLeakedEntryHolds == Spec => []NoLeakedEntry
<1>1. LockInv => NoLeakedEntry
  BY LockAssumption DEF LockInv, NoLeakedEntry, Tabled, Used, Local
<1> QED
  BY <1>1, LockInvariant, PTL

-----------------------------------------------------------------------------
(* The refinement: every step of the lock is a step of KeyedMutex or changes  *)
(* neither key nor Holder.                                                    *)

\* Who holds a key is determined by the tasks inside its section.
LEMMA HolderOf ==
  ASSUME LockInv, NEW k \in Keys
  PROVE  /\ \A t \in Tasks : stage[t] = "inside" /\ key[t] = k => Inside(k) = {t}
         /\ \A t \in Tasks : Inside(k) = {t} => Holder[k] = t
         /\ Inside(k) = {} => Holder[k] = None
<1>1. \A t \in Tasks : stage[t] = "inside" /\ key[t] = k => Inside(k) = {t}
  BY DEF LockInv, Tabled, Admitted, Inside
<1>2. \A t \in Tasks : Inside(k) = {t} => Holder[k] = t
  <2> SUFFICES ASSUME NEW t \in Tasks, Inside(k) = {t} PROVE Holder[k] = t
    OBVIOUS
  <2>1. (CHOOSE x \in Inside(k) : TRUE) \in Inside(k)
    OBVIOUS
  <2> QED
    BY <2>1 DEF Holder
<1>3. Inside(k) = {} => Holder[k] = None
  BY DEF Holder
<1> QED
  BY <1>1, <1>2, <1>3

\* The holder moves only where the set of tasks inside does.
LEMMA HolderSame ==
  ASSUME NEW k \in Keys, Inside(k)' = Inside(k)
  PROVE  Holder'[k] = Holder[k]
  BY DEF Holder

LEMMA HoldersSame ==
  ASSUME \A k \in Keys : Inside(k)' = Inside(k)
  PROVE  Holder' = Holder
<1>1. \A k \in Keys : Holder'[k] = Holder[k]
  BY HolderSame
<1> QED
  BY <1>1 DEF Holder

LEMMA HolderGained ==
  ASSUME LockInv, LockInv', NEW t \in Tasks, NEW k \in Keys,
         Inside(k) = {}, Inside(k)' = {t},
         \A j \in Keys : j # k => Inside(j)' = Inside(j)
  PROVE  Holder[k] = None /\ Holder' = [Holder EXCEPT ![k] = t]
<1>1. Holder[k] = None
  BY HolderOf
<1>2. Holder'[k] = t
  <2>1. (CHOOSE x \in Inside(k)' : TRUE) \in Inside(k)'
    OBVIOUS
  <2> QED
    BY <2>1 DEF Holder
<1>3. \A j \in Keys : j # k => Holder'[j] = Holder[j]
  BY HolderSame
<1> QED
  BY <1>1, <1>2, <1>3 DEF Holder

LEMMA RefineEnterAtOnce ==
  ASSUME LockInv, LockInv', NEW t \in Tasks, NEW k \in Keys, NEW l \in Locks,
         EnterAtOnce(t, k, l)
  PROVE  Mutex!AskGranted(t, k)
<1> USE DEF EnterAtOnce, Register
<1>1. key[t] = None /\ key' = [key EXCEPT ![t] = k]
  BY DEF LockInv, Local
<1>2. Inside(k) = {}
  <2> SUFFICES ASSUME NEW u \in Tasks, stage[u] = "inside", key[u] = k
               PROVE  FALSE
    BY DEF Inside
  <2>1. lock[u] \in Locks /\ table[k] = lock[u] /\ locked[lock[u]]
    BY DEF LockInv, Local, Tabled, Admitted
  <2>2. lock[u] = l
    BY <2>1, LockAssumption DEF Entry
  <2> QED
    BY <2>1, <2>2
<1>3. Inside(k)' = {t}
  BY <1>2 DEF Inside, LockInv, TypeOK
<1>4. \A j \in Keys : j # k => Inside(j)' = Inside(j)
  BY DEF Inside, LockInv, TypeOK
<1> QED
  BY <1>1, <1>2, <1>3, <1>4, HolderGained DEF Mutex!AskGranted

LEMMA RefineEnterQueue ==
  ASSUME LockInv, NEW t \in Tasks, NEW k \in Keys, NEW l \in Locks,
         EnterQueue(t, k, l)
  PROVE  Mutex!Ask(t, k)
<1> USE DEF EnterQueue, Register
<1>1. key[t] = None /\ key' = [key EXCEPT ![t] = k]
  BY DEF LockInv, Local
<1>2. \A j \in Keys : Inside(j)' = Inside(j)
  BY DEF Inside, LockInv, TypeOK
<1>3. Holder' = Holder
  BY <1>2, HoldersSame
<1> QED
  BY <1>1, <1>3 DEF Mutex!Ask

LEMMA RefineResume ==
  ASSUME LockInv, LockInv', NEW t \in Tasks, Resume(t)
  PROVE  Mutex!Grant(t)
<1> USE DEF Resume
<1>1. key[t] \in Keys /\ key[t] # None /\ lock[t] \in Locks /\ ~locked[lock[t]]
  BY LockAssumption DEF LockInv, Local, Woken
<1>2. PICK k \in Keys : k = key[t]
  BY <1>1
<1>3. Inside(k) = {}
  BY <1>1, <1>2 DEF Inside, LockInv, Tabled, Admitted
<1>4. Inside(k)' = {t}
  BY <1>2, <1>3 DEF Inside, LockInv, TypeOK
<1>5. \A j \in Keys : j # k => Inside(j)' = Inside(j)
  BY <1>2 DEF Inside, LockInv, TypeOK
<1> QED
  BY <1>1, <1>2, <1>3, <1>4, <1>5, HolderGained DEF Mutex!Grant

LEMMA RefineExit ==
  ASSUME LockInv, LockInv', NEW t \in Tasks, Exit(t)
  PROVE  Mutex!Leave(t)
<1> USE DEF Exit
<1>1. key[t] \in Keys /\ key[t] # None /\ key' = [key EXCEPT ![t] = None]
  BY LockAssumption DEF LockInv, Local, Drop
<1>2. PICK k \in Keys : k = key[t]
  BY <1>1
<1>3. Inside(k) = {t}
  BY <1>2, HolderOf
<1>4. \A u \in Tasks : stage'[u] = "inside" <=> u # t /\ stage[u] = "inside"
  BY DEF Stepped, LockInv, TypeOK
<1>5. \A j \in Keys : Inside(j)' = Inside(j) \ {t}
  BY <1>1, <1>4 DEF Inside, LockInv, TypeOK
<1>6. \A j \in Keys : j # k => Inside(j)' = Inside(j) /\ Holder[j] # t
  <2> SUFFICES ASSUME NEW j \in Keys, j # k
               PROVE  Inside(j)' = Inside(j) /\ Holder[j] # t
    OBVIOUS
  <2>1. t \notin Inside(j)
    BY <1>2 DEF Inside
  <2>2. Holder[j] # t
    <3>1. CASE Inside(j) = {}
      BY <3>1, HolderOf, LockAssumption
    <3>2. CASE Inside(j) # {}
      BY <3>2, <2>1 DEF Holder
    <3> QED
      BY <3>1, <3>2
  <2> QED
    BY <2>1, <2>2, <1>5
<1>7. Holder[k] = t /\ Holder'[k] = None
  <2>1. Inside(k)' = {}
    BY <1>3, <1>5
  <2> QED
    BY <2>1, <1>3, HolderOf DEF Holder
<1>8. Holder' = [j \in Keys |-> IF Holder[j] = t THEN None ELSE Holder[j]]
  <2>1. \A j \in Keys : j # k => Holder'[j] = Holder[j]
    BY <1>6, HolderSame
  <2>2. \A j \in Keys : Holder'[j] = IF Holder[j] = t THEN None ELSE Holder[j]
    BY <2>1, <1>6, <1>7
  <2> QED
    BY <2>2 DEF Holder
<1> QED
  BY <1>1, <1>8 DEF Mutex!Leave

LEMMA RefineResumeCancelled ==
  ASSUME LockInv, NEW t \in Tasks, ResumeCancelled(t)
  PROVE  Mutex!Leave(t)
<1> USE DEF ResumeCancelled
<1>1. key[t] \in Keys /\ key[t] # None /\ key' = [key EXCEPT ![t] = None]
  BY LockAssumption DEF LockInv, Local, Drop
<1>2. \A u \in Tasks : stage'[u] = "inside" <=> stage[u] = "inside"
  BY DEF Stepped, LockInv, TypeOK
<1>3. \A j \in Keys : Inside(j)' = Inside(j) /\ t \notin Inside(j)
  BY <1>1, <1>2 DEF Inside, LockInv, TypeOK
<1>4. \A j \in Keys : Holder[j] # t
  <2> SUFFICES ASSUME NEW j \in Keys PROVE Holder[j] # t
    OBVIOUS
  <2>1. CASE Inside(j) = {}
    BY <2>1, HolderOf, LockAssumption
  <2>2. CASE Inside(j) # {}
    BY <2>2, <1>3 DEF Holder
  <2> QED
    BY <2>1, <2>2
<1>5. Holder' = [j \in Keys |-> IF Holder[j] = t THEN None ELSE Holder[j]]
  <2>1. Holder' = Holder
    BY <1>3, HoldersSame
  <2> QED
    BY <2>1, <1>4 DEF Holder
<1> QED
  BY <1>1, <1>5 DEF Mutex!Leave

LEMMA RefineCancel ==
  ASSUME LockInv, NEW t \in Tasks, Cancel(t)
  PROVE  UNCHANGED Mutex!mutexVars
<1>1. \A j \in Keys : Inside(j)' = Inside(j)
  BY DEF Cancel, Inside, LockInv, TypeOK
<1>2. Holder' = Holder
  BY <1>1, HoldersSame
<1> QED
  BY <1>2 DEF Cancel, Mutex!mutexVars

\* _lock_lifecycle implements the keyed mutex its callers rely on.
THEOREM LockImplementsMutex == Spec => ImplementsMutex
<1>1. Init => Mutex!MutexInit
  BY DEF Init, Mutex!MutexInit, Holder, Inside
<1>2. LockInv /\ LockInv' /\ [Next]_lockVars => [Mutex!MutexNext]_Mutex!mutexVars
  <2> SUFFICES ASSUME LockInv, LockInv', [Next]_lockVars
               PROVE  [Mutex!MutexNext]_Mutex!mutexVars
    OBVIOUS
  <2>1. CASE UNCHANGED lockVars
    BY <2>1 DEF lockVars, Mutex!mutexVars, Holder, Inside
  <2>2. CASE Next
    BY <2>2, RefineEnterAtOnce, RefineEnterQueue, RefineExit, RefineResume,
       RefineCancel, RefineResumeCancelled DEF Next, Mutex!MutexNext
  <2> QED
    BY <2>1, <2>2
<1> QED
  BY <1>1, <1>2, LockInvariant, PTL DEF Spec, ImplementsMutex, Mutex!MutexSpec
=============================================================================
