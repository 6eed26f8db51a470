-------------------------- MODULE WorkspaceProofs --------------------------
(* What relates the Kubernetes objects of a workspace to each other.          *)
(*                                                                            *)
(* CollectsUnderVolumeIdentity relates a Deployment to a PVC that no single   *)
(* call reads together.  What links them is the identity a task carries from  *)
(* its read of the PVC to its write of the Deployment (Placed): the lock of   *)
(* the box, held in between, keeps the PVC and the template as they were.     *)
(*                                                                            *)
(* ComputeIsWhole, CollectorHasCredential and ReconcileNeverRevives relate    *)
(* the Deployment, the Service and the Secret, which are written one after    *)
(* the other.  A task in between knows what it has left to do (Orderly), and  *)
(* a box no such task is at is whole, as long as no call fails.               *)
EXTENDS DevboxManagerProofs

\* The calls between reading a Deployment, or that there is none, and writing it.
Preparing == ColdPcs \cup {"makeDeployment"}

\* Calls made with Insights on only, and those made once the volume has its
\* identity.
CollectingPcs == {"stampVolume", "readSecret", "makeSecret", "patchSecret"} \cup Patching
IdentifiedPcs == {"growVolume", "readSecret", "makeSecret", "patchSecret",
                  "makeDeployment"} \cup Patching

Carries(j, d, v) ==
  /\ On /\ j.pc \in IdentifiedPcs /\ v[j.box].phase = "bound" => v[j.box].inst = j.id
  /\ j.pc \in Preparing =>
       IF j.op = "create" THEN d[j.box].phase = "absent"
                          ELSE d[j.box].phase # "absent" => d[j.box].tmpl = j.seen.tmpl
  /\ j.pc = "patchMark" => j.seen.tmpl.inst = j.id

Placed(j, d, v) ==
  /\ On \/ j.id = None
  /\ j.op = "reconcile" => On
  /\ j.pc \in CollectingPcs => On
  /\ j.pc \in {"makeVolume", "growVolume", "makeDeployment"} => j.op = "create"
  /\ j.pc = "readVolume" => j.op = "create" \/ On
  /\ Configs # {Off} => Carries(j, d, v)

Sound(d, v) ==
  /\ Configs = {Off} => d.tmpl.inst = None
  /\ d.phase = "live" /\ d.tmpl.inst # None /\ d.mark = "collecting" /\ v.phase = "bound"
       => d.tmpl.inst = v.inst /\ d.inst = v.inst

CyclesOn    == \A l \in Loops : agenda[l].phase = "reconcile" => On
TasksPlaced == \A t \in Tasks : Placed(job[t], dep, pvc)
BoxesSound  == \A b \in Boxes : Sound(dep[b], pvc[b])

IdentityInv == CyclesOn /\ TasksPlaced /\ BoxesSound

-----------------------------------------------------------------------------

LEMMA NoJobPlaced == \A d, v : Placed(NoJob, d, v)
  BY NoJobFacts
  DEF Placed, Carries, NoJob, Preparing, ColdPcs, CollectingPcs, IdentifiedPcs, Patching

LEMMA InitIdentityInv == Init => IdentityInv
<1> SUFFICES ASSUME Init PROVE IdentityInv
  OBVIOUS
<1>1. CyclesOn
  BY DEF Init, CyclesOn, Asleep
<1>2. TasksPlaced
  BY NoJobPlaced DEF Init, TasksPlaced
<1>3. BoxesSound
  <2> SUFFICES ASSUME NEW b \in Boxes PROVE dep[b].tmpl.inst = None
    BY DEF BoxesSound, Sound
  <2> QED
    BY DEF Init, LegacyDeployment, NoDeployment, NoSidecar
<1> QED
  BY <1>1, <1>2, <1>3 DEF IdentityInv

\* Placed does not look at resource versions.
LEMMA PlacedByFields ==
  ASSUME NEW j, NEW k, NEW d, NEW v,
         k.pc = j.pc, k.op = j.op, k.box = j.box, k.seen = j.seen, k.id = j.id,
         Placed(j, d, v)
  PROVE  Placed(k, d, v)
  BY DEF Placed, Carries

\* A task that waits is placed wherever it was.
LEMMA WaitingPlaced ==
  ASSUME NEW j, NEW d, NEW v, NEW e, NEW w, j.pc \in Waiting, Placed(j, d, v)
  PROVE  Placed(j, e, w)
  BY DEF Placed, Carries, Waiting, Preparing, ColdPcs, CollectingPcs, IdentifiedPcs,
         Patching

-----------------------------------------------------------------------------
(* What every step of a task inside its section does to its own job.          *)

Heads(t) ==
  \E j \in Jobs, W \in SUBSET Boxes :
    \/ Goes(t, j, W) /\ j.box = job[t].box /\ Placed(j, dep', pvc')
    \/ j = NoJob /\ (Ends(t, W) \/ Raises(t, W))

LEMMA HeadsInv ==
  ASSUME ManagerInv, IdentityInv, NEW t \in Tasks, Section(t), Heads(t),
         \A b \in Boxes : Sound(dep'[b], pvc'[b])
  PROVE  IdentityInv'
<1>1. /\ job[t].pc \notin Waiting /\ cfg' = cfg
      /\ \A a \in Boxes : a # job[t].box => dep'[a] = dep[a] /\ pvc'[a] = pvc[a]
  BY DEF Section, Confined
<1>2. PICK j \in Jobs, W \in SUBSET Boxes :
        \/ Goes(t, j, W) /\ j.box = job[t].box /\ Placed(j, dep', pvc')
        \/ j = NoJob /\ (Ends(t, W) \/ Raises(t, W))
  BY DEF Heads
<1>3. Moves(t, j, W) /\ Placed(j, dep', pvc')
  BY <1>2, NoJobPlaced DEF Goes, Ends, Raises
<1>4. \A u \in Tasks :
        /\ job'[u].pc = After(t, j, u).pc /\ job'[u].op = After(t, j, u).op
        /\ job'[u].box = After(t, j, u).box /\ job'[u].seen = After(t, j, u).seen
        /\ job'[u].id = After(t, j, u).id
  <2>1. job \in [Tasks -> Jobs]
    BY DEF ManagerInv, TypeOK
  <2>2. /\ job' \in [Tasks -> Jobs]
        /\ \A u \in Tasks :
             /\ job'[u].pc = After(t, j, u).pc /\ job'[u].op = After(t, j, u).op
             /\ job'[u].box = After(t, j, u).box /\ job'[u].seen = After(t, j, u).seen
             /\ job'[u].id = After(t, j, u).id
             /\ job'[u].fresh => After(t, j, u).fresh /\ After(t, j, u).box \notin W
    BY <1>3, <2>1, MovesFacts
  <2> QED
    BY <2>2
<1>5. ASSUME NEW u \in Tasks PROVE Placed(After(t, j, u), dep', pvc')
  <2>1. CASE u = t
    BY <1>3, <2>1 DEF After
  <2>2. CASE u # t /\ job[u].pc \in Waiting
    BY <2>2, WaitingPlaced DEF After, IdentityInv, TasksPlaced
  <2>3. CASE u # t /\ job[u].pc \notin Waiting
    <3>1. Placed(job[u], dep, pvc) /\ job[u].box \in Boxes
      BY <2>3, Inside DEF IdentityInv, TasksPlaced
    <3>2. Configs # {Off} => job[u].box # job[t].box
      BY <1>1, <2>3, SingleWriterAssumption, ManagerAssumption DEF ManagerInv, Owned
    <3>3. Configs # {Off} => /\ dep'[job[u].box] = dep[job[u].box]
                             /\ pvc'[job[u].box] = pvc[job[u].box]
      BY <1>1, <3>1, <3>2
    <3> QED
      BY <2>3, <3>1, <3>3 DEF Placed, Carries, After
  <2> QED
    BY <2>1, <2>2, <2>3
<1>6. \A u \in Tasks : Placed(job'[u], dep', pvc')
  BY <1>4, <1>5, PlacedByFields
<1>7. TasksPlaced'
  BY <1>1, <1>6 DEF TasksPlaced, Placed, Carries, On
<1>8. CyclesOn'
  BY <1>1, <1>2 DEF CyclesOn, IdentityInv, Goes, Ends, Raises, On, Asleep, ManagerInv,
                    TypeOK
<1>9. BoxesSound'
  BY DEF BoxesSound, Sound
<1> QED
  BY <1>7, <1>8, <1>9 DEF IdentityInv

-----------------------------------------------------------------------------
(* Steps to a call that neither prepares nor writes a template.               *)

LEMMA Quitting ==
  ASSUME NEW t, NEW W \in SUBSET Boxes, Ends(t, W) \/ Raises(t, W)
  PROVE  Heads(t)
  BY NoJobFacts DEF Heads

LEMMA PlainStep ==
  ASSUME IdentityInv, NEW t \in Tasks, NEW W \in SUBSET Boxes,
         NEW j \in Jobs, Goes(t, j, W),
         j.box = job[t].box, j.op = job[t].op, j.id = job[t].id,
         j.pc \notin Preparing
  PROVE  Heads(t)
<1>1. Placed(job[t], dep, pvc)
  BY DEF IdentityInv, TasksPlaced
<1>2. Placed(j, dep', pvc')
  BY <1>1 DEF Placed, Carries, Preparing, ColdPcs, CollectingPcs, IdentifiedPcs, Patching
<1> QED
  BY <1>2 DEF Heads

LEMMA PlainGo ==
  ASSUME ManagerInv, IdentityInv, NEW t \in Tasks, NEW W \in SUBSET Boxes,
         NEW pc \in Pcs \ Preparing, Goes(t, [job[t] EXCEPT !.pc = pc], W)
  PROVE  Heads(t)
<1>1. job[t] \in Jobs
  BY DEF ManagerInv, TypeOK
<1>2. PICK k : k = [job[t] EXCEPT !.pc = pc]
  OBVIOUS
<1>3. k \in Jobs /\ k.pc = pc /\ k.box = job[t].box /\ k.op = job[t].op /\ k.id = job[t].id
  BY <1>1, <1>2, PcFields
<1> QED
  BY <1>2, <1>3, PlainStep

LEMMA UndoHeads ==
  ASSUME ManagerInv, IdentityInv, NEW t \in Tasks, NEW W \in SUBSET Boxes,
         UndoSecret(t, W)
  PROVE  Heads(t)
  BY PlainGo, Quitting DEF UndoSecret, To, Pcs, Preparing, ColdPcs

LEMMA RetriesHeads ==
  ASSUME ManagerInv, IdentityInv, NEW t \in Tasks, Retries(t)
  PROVE  Heads(t)
<1>1. job[t] \in Jobs
  BY DEF ManagerInv, TypeOK
<1>2. CASE job[t].tries + 1 = ScaleAttempts
  BY <1>2, Quitting DEF Retries
<1>3. CASE job[t].tries + 1 # ScaleAttempts
  <2>1. PICK k : k = [job[t] EXCEPT !.pc = "readDeployment", !.tries = @ + 1]
    OBVIOUS
  <2>2. /\ k \in Jobs /\ k.pc = "readDeployment" /\ k.box = job[t].box
        /\ k.op = job[t].op /\ k.id = job[t].id
    BY <1>1, <1>3, <2>1, RetryFields
  <2>3. Goes(t, k, {})
    BY <1>3, <2>1 DEF Retries
  <2> QED
    BY <2>2, <2>3, PlainStep DEF Preparing, ColdPcs
<1> QED
  BY <1>2, <1>3

\* To a call made with a copy of the Deployment that was read.
LEMMA CopyHeads ==
  ASSUME ManagerInv, IdentityInv, NEW t \in Tasks, NEW W \in SUBSET Boxes,
         job[t].box \in Boxes, NEW pc \in {"readVolume", "patchScale", "patchExpired"},
         Goes(t, [job[t] EXCEPT !.pc = pc, !.seen = dep[job[t].box], !.fresh = TRUE], W),
         dep' = dep,
         pc = "readVolume" => On /\ job[t].op # "create"
  PROVE  Heads(t)
<1>1. job[t] \in Jobs /\ dep[job[t].box] \in Deployments /\ pc \in Pcs
  BY DEF ManagerInv, TypeOK, Pcs
<1>2. PICK k : k = Copied(job[t], pc, dep[job[t].box])
  OBVIOUS
<1>3. /\ k \in Jobs /\ k.pc = pc /\ k.box = job[t].box /\ k.op = job[t].op
      /\ k.seen = dep[job[t].box] /\ k.id = job[t].id
  BY <1>1, <1>2, CopyFields
<1>4. Goes(t, k, W)
  BY <1>2 DEF Copied
<1>5. Placed(job[t], dep, pvc)
  BY DEF IdentityInv, TasksPlaced
<1>6. Placed(k, dep', pvc')
  BY <1>3, <1>5 DEF Placed, Carries, Preparing, ColdPcs, CollectingPcs, IdentifiedPcs,
                    Patching
<1> QED
  BY <1>3, <1>4, <1>6 DEF Heads

-----------------------------------------------------------------------------
(* Steps that find out or use the identity.                                   *)

\* From one preparing call to the next, with objects as they were or with the
\* identity of the volume just recorded.
LEMMA PreparedGo ==
  ASSUME ManagerInv, IdentityInv, NEW t \in Tasks, job[t].pc \in Preparing, dep' = dep,
         NEW j \in Jobs, j.box = job[t].box, j.op = job[t].op, j.seen = job[t].seen,
         NEW pc \in Pcs, Goes(t, [j EXCEPT !.pc = pc], {}),
         On \/ j.id = None,
         pc \in CollectingPcs => On,
         pc \in {"makeVolume", "growVolume", "makeDeployment"} => job[t].op = "create",
         pc # "readVolume",
         On /\ pc \in IdentifiedPcs /\ pvc'[job[t].box].phase = "bound"
           => pvc'[job[t].box].inst = j.id,
         pc = "patchMark" => j.seen.tmpl.inst = j.id
  PROVE  Heads(t)
<1>1. PICK k : k = [j EXCEPT !.pc = pc]
  OBVIOUS
<1>2. /\ k \in Jobs /\ k.pc = pc /\ k.box = job[t].box /\ k.op = job[t].op
      /\ k.seen = job[t].seen /\ k.id = j.id
  BY <1>1, PcFields
<1>3. Placed(job[t], dep, pvc)
  BY DEF IdentityInv, TasksPlaced
<1>4. Placed(k, dep', pvc')
  BY <1>2, <1>3 DEF Placed, Carries
<1>5. Goes(t, k, {})
  BY <1>1
<1> QED
  BY <1>2, <1>4, <1>5 DEF Heads

LEMMA IdentifiedHeads ==
  ASSUME ManagerInv, IdentityInv, NEW t \in Tasks, job[t].pc \in Preparing, dep' = dep,
         NEW j \in Jobs, j.box = job[t].box, j.op = job[t].op, j.seen = job[t].seen,
         On \/ j.id = None, j.op = "create" \/ On,
         On /\ pvc'[job[t].box].phase = "bound" => pvc'[job[t].box].inst = j.id,
         Identified(t, j)
  PROVE  Heads(t)
<1>1. CASE Raises(t, {})
  BY <1>1, Quitting
<1>2. CASE ~Raises(t, {})
  <2>1. PICK pc \in {"readSecret", "makeDeployment"} :
          /\ Goes(t, [j EXCEPT !.pc = pc], {})
          /\ IF On THEN pc = "readSecret" ELSE pc = "makeDeployment"
    BY <1>2 DEF Identified
  <2>2. pc \in Pcs /\ (pc \in CollectingPcs => On)
    BY <2>1 DEF Pcs, CollectingPcs, Patching
  <2> QED
    BY <2>1, <2>2, PreparedGo
<1> QED
  BY <1>1, <1>2

LEMMA SizedHeads ==
  ASSUME ManagerInv, IdentityInv, NEW t \in Tasks, job[t].pc \in Preparing, dep' = dep,
         NEW j \in Jobs, j.box = job[t].box, j.op = job[t].op, j.seen = job[t].seen,
         On \/ j.id = None, j.op = "create" \/ On,
         On /\ pvc'[job[t].box].phase = "bound" => pvc'[job[t].box].inst = j.id,
         Sized(t, j)
  PROVE  Heads(t)
<1>1. CASE Identified(t, j)
  BY <1>1, IdentifiedHeads
<1>2. CASE j.op = "create" /\ Goes(t, [j EXCEPT !.pc = "growVolume"], {})
  BY <1>2, PreparedGo DEF Pcs, CollectingPcs, Patching
<1> QED
  BY <1>1, <1>2 DEF Sized

LEMMA CredentialedHeads ==
  ASSUME ManagerInv, IdentityInv, NEW t \in Tasks,
         job[t].pc \in {"readSecret", "makeSecret", "patchSecret"},
         dep' = dep, pvc' = pvc, Credentialed(t)
  PROVE  Heads(t)
<1>1. /\ job[t] \in Jobs /\ job[t].pc \in Preparing /\ On
      /\ Placed(job[t], dep, pvc)
  BY DEF ManagerInv, TypeOK, Preparing, ColdPcs, IdentityInv, TasksPlaced, Placed,
         CollectingPcs
<1>2. Configs # {Off}
  BY <1>1 DEF On, ManagerInv, TypeOK
<1>3. pvc[job[t].box].phase = "bound" => pvc[job[t].box].inst = job[t].id
  BY <1>1, <1>2 DEF Placed, Carries, IdentifiedPcs
<1>4. CASE Ends(t, {})
  BY <1>4, Quitting
<1>5. CASE ~Ends(t, {})
  <2>1. PICK pc \in {"makeDeployment", "patchMark", "patchTemplate", "patchScale",
                     "markRestart"} :
          /\ Goes(t, [job[t] EXCEPT !.pc = pc], {})
          /\ pc = "makeDeployment" => job[t].op = "create"
          /\ pc = "patchMark" => job[t].seen.tmpl = [inst |-> job[t].id, cfg |-> cfg]
    BY <1>5 DEF Credentialed, Verdict, To
  <2>2. pc = "patchMark" => job[t].seen.tmpl.inst = job[t].id
    BY <2>1
  <2>3. pc \in Pcs
    BY DEF Pcs
  <2> QED
    BY <1>1, <1>3, <2>1, <2>2, <2>3, PreparedGo
<1> QED
  BY <1>4, <1>5

\* What the invariants say of a task between two calls.
LEMMA InsidePlaced ==
  ASSUME ManagerInv, IdentityInv, NEW t \in Tasks, job[t].pc \notin Waiting
  PROVE  /\ job[t] \in Jobs /\ job[t].box \in Boxes
         /\ Placed(job[t], dep, pvc)
         /\ Configs = {Off} => ~On
  BY Inside DEF IdentityInv, TasksPlaced, On, ManagerInv, TypeOK

LEMMA ReadVolumeHeads ==
  ASSUME ManagerInv, IdentityInv, NEW t \in Tasks, ReadVolume(t)
  PROVE  Heads(t)
<1>1. job[t].pc = "readVolume" /\ job[t].pc \in Preparing
  BY DEF ReadVolume, At, Preparing, ColdPcs
<1>2. dep' = dep /\ pvc' = pvc
  BY DEF ReadVolume, clusterVars
<1>3. /\ job[t] \in Jobs /\ job[t].box \in Boxes
      /\ job[t].op = "create" \/ On
      /\ pvc[job[t].box] \in Volumes
  BY <1>1, InsidePlaced, Inside DEF Waiting, Placed
<1>4. CASE pvc[Box(t)].phase = "absent"
  <2>1. PICK i \in Identity :
          /\ On \/ i = None
          /\ IF job[t].op = "create"
               THEN Goes(t, [[job[t] EXCEPT !.id = i] EXCEPT !.pc = "makeVolume"], {})
               ELSE Identified(t, [job[t] EXCEPT !.id = i])
    BY <1>3, <1>4 DEF ReadVolume, Identity, NewIds, Jobs
  <2>2. PICK j : j = [job[t] EXCEPT !.id = i]
    OBVIOUS
  <2>3. /\ j \in Jobs /\ j.box = job[t].box /\ j.op = job[t].op
        /\ j.seen = job[t].seen /\ j.id = i
    BY <1>3, <2>2, IdFields
  <2>4. CASE job[t].op = "create"
    <3>1. "makeVolume" \in Pcs \ (CollectingPcs \cup IdentifiedPcs)
      BY DEF Pcs, CollectingPcs, IdentifiedPcs, Patching
    <3>2. Goes(t, [j EXCEPT !.pc = "makeVolume"], {})
      BY <2>1, <2>2, <2>4
    <3> QED
      BY <1>1, <1>2, <2>1, <2>3, <2>4, <3>1, <3>2, PreparedGo
  <2>5. CASE job[t].op # "create"
    <3>1. Identified(t, j)
      BY <2>1, <2>2, <2>5
    <3> QED
      BY <1>1, <1>2, <1>3, <1>4, <2>1, <2>3, <2>5, <3>1, IdentifiedHeads DEF Box
  <2> QED
    BY <2>4, <2>5
<1>5. CASE pvc[Box(t)].phase # "absent" /\ (pvc[Box(t)].inst # None \/ ~On)
  <2>1. PICK i \in Identity :
          /\ On \/ i = None
          /\ On => i = pvc[job[t].box].inst
          /\ Sized(t, [job[t] EXCEPT !.id = i])
    BY <1>3, <1>5 DEF ReadVolume, Identity, Volumes, Box
  <2>2. PICK j : j = [job[t] EXCEPT !.id = i]
    OBVIOUS
  <2>3. /\ j \in Jobs /\ j.box = job[t].box /\ j.op = job[t].op
        /\ j.seen = job[t].seen /\ j.id = i
    BY <1>3, <2>2, IdFields
  <2>4. Sized(t, j)
    BY <2>1, <2>2
  <2> QED
    BY <1>1, <1>2, <1>3, <2>1, <2>3, <2>4, SizedHeads
<1>6. CASE pvc[Box(t)].phase # "absent" /\ pvc[Box(t)].inst = None /\ On
  <2>1. PICK i \in Identity : Goes(t, [job[t] EXCEPT !.pc = "stampVolume", !.id = i], {})
    BY <1>6 DEF ReadVolume, Identity, NewIds
  <2>2. PICK j : j = [job[t] EXCEPT !.id = i]
    OBVIOUS
  <2>3. /\ j \in Jobs /\ j.box = job[t].box /\ j.op = job[t].op
        /\ j.seen = job[t].seen /\ j.id = i
    BY <1>3, <2>2, IdFields
  <2>4. Goes(t, [j EXCEPT !.pc = "stampVolume"], {})
    <3>1. [j EXCEPT !.pc = "stampVolume"] = [job[t] EXCEPT !.pc = "stampVolume", !.id = i]
      BY <1>3, <2>2 DEF Jobs
    <3> QED
      BY <2>1, <3>1
  <2>5. "stampVolume" \in Pcs \ IdentifiedPcs
    BY DEF Pcs, IdentifiedPcs, Patching
  <2> QED
    BY <1>1, <1>2, <1>6, <2>3, <2>4, <2>5, PreparedGo
<1> QED
  BY <1>4, <1>5, <1>6

LEMMA StampVolumeHeads ==
  ASSUME ManagerInv, IdentityInv, NEW t \in Tasks, StampVolume(t)
  PROVE  Heads(t)
<1>1. job[t].pc = "stampVolume" /\ job[t].pc \in Preparing
  BY DEF StampVolume, At, Preparing, ColdPcs
<1>2. job[t] \in Jobs /\ job[t].box \in Boxes /\ On
  BY <1>1, InsidePlaced DEF Waiting, Placed, CollectingPcs
<1>3. CASE Raises(t, {})
  BY <1>3, Quitting
<1>4. CASE ~Raises(t, {})
  <2>1. Sized(t, job[t]) /\ dep' = dep /\ pvc' = [pvc EXCEPT ![job[t].box].inst = job[t].id]
    BY <1>4 DEF StampVolume, AnswerLost, Box
  <2>2. pvc \in [Boxes -> Volumes] /\ pvc[job[t].box] \in Volumes
    BY <1>2 DEF ManagerInv, TypeOK
  <2>3. pvc'[job[t].box].inst = job[t].id
    BY <1>2, <2>1, <2>2 DEF Volumes
  <2> QED
    BY <1>1, <1>2, <2>1, <2>3, SizedHeads
<1> QED
  BY <1>3, <1>4

LEMMA MakeVolumeHeads ==
  ASSUME ManagerInv, IdentityInv, NEW t \in Tasks, MakeVolume(t)
  PROVE  Heads(t)
<1>1. job[t].pc = "makeVolume" /\ job[t].pc \in Preparing
  BY DEF MakeVolume, At, Preparing, ColdPcs
<1>2. /\ job[t] \in Jobs /\ job[t].box \in Boxes /\ job[t].op = "create"
      /\ On \/ job[t].id = None
  BY <1>1, InsidePlaced DEF Waiting, Placed
<1>3. CASE Raises(t, {})
  BY <1>3, Quitting
<1>4. CASE ~Raises(t, {})
  <2>1. /\ Identified(t, job[t]) /\ dep' = dep
        /\ pvc' = [pvc EXCEPT ![job[t].box] = [phase |-> "bound", inst |-> job[t].id]]
    BY <1>4 DEF MakeVolume, AnswerLost, Box
  <2>2. pvc'[job[t].box].inst = job[t].id
    BY <1>2, <2>1 DEF ManagerInv, TypeOK
  <2> QED
    BY <1>1, <1>2, <2>1, <2>2, IdentifiedHeads
<1> QED
  BY <1>3, <1>4

LEMMA GrowVolumeHeads ==
  ASSUME ManagerInv, IdentityInv, NEW t \in Tasks, GrowVolume(t)
  PROVE  Heads(t)
<1>1. job[t].pc = "growVolume" /\ job[t].pc \in Preparing
  BY DEF GrowVolume, At, Preparing, ColdPcs
<1>2. /\ job[t] \in Jobs /\ job[t].op = "create"
      /\ On \/ job[t].id = None
      /\ On /\ pvc[job[t].box].phase = "bound" => pvc[job[t].box].inst = job[t].id
  BY <1>1, InsidePlaced DEF Waiting, Placed, Carries, IdentifiedPcs
<1>3. dep' = dep /\ pvc' = pvc /\ (Raises(t, {}) \/ Identified(t, job[t]))
  BY DEF GrowVolume, clusterVars
<1> QED
  BY <1>1, <1>2, <1>3, Quitting, IdentifiedHeads

LEMMA SecretHeads ==
  ASSUME ManagerInv, IdentityInv, NEW t \in Tasks, ReadSecret(t) \/ WriteSecret(t)
  PROVE  Heads(t)
<1>1. /\ job[t].pc \in {"readSecret", "makeSecret", "patchSecret"}
      /\ dep' = dep /\ pvc' = pvc
  BY DEF ReadSecret, WriteSecret, At, clusterVars
<1>2. CASE Credentialed(t)
  BY <1>1, <1>2, CredentialedHeads
<1>3. CASE Raises(t, {})
  BY <1>3, Quitting
<1>4. ASSUME NEW pc \in {"makeSecret", "patchSecret"}, Goes(t, To(t, pc), {}),
             job[t].pc = "readSecret"
      PROVE  Heads(t)
  <2>1. /\ job[t] \in Jobs /\ job[t].pc \in Preparing /\ On
        /\ Placed(job[t], dep, pvc) /\ Configs # {Off}
    BY <1>4, InsidePlaced DEF Waiting, Preparing, ColdPcs, Placed, CollectingPcs
  <2>2. pvc[job[t].box].phase = "bound" => pvc[job[t].box].inst = job[t].id
    BY <1>4, <2>1 DEF Placed, Carries, IdentifiedPcs
  <2>3. pc \in Pcs /\ pc \in CollectingPcs
    BY DEF Pcs, CollectingPcs
  <2> QED
    BY <1>1, <1>4, <2>1, <2>2, <2>3, PreparedGo DEF To
<1>5. CASE ReadSecret(t)
  <2>1. job[t].pc = "readSecret"
    BY <1>5 DEF ReadSecret, At
  <2> QED
    BY <1>2, <1>4, <1>5, <2>1 DEF ReadSecret
<1>6. CASE WriteSecret(t)
  BY <1>2, <1>3, <1>6 DEF WriteSecret, AnswerLost
<1> QED
  BY <1>5, <1>6

-----------------------------------------------------------------------------
(* The other steps of a task.                                                 *)

LEMMA ReadingHeads ==
  ASSUME ManagerInv, IdentityInv, NEW t \in Tasks,
         \/ CreateReads(t) \/ ScaleReads(t) \/ DeleteReads(t)
         \/ t \in Loops /\ (ReconcileReads(t) \/ ExpireReads(t))
  PROVE  Heads(t)
<1>1. /\ job[t].pc = "readDeployment" /\ job[t].pc \notin Waiting
      /\ dep' = dep /\ pvc' = pvc
  BY DEF CreateReads, ScaleReads, DeleteReads, ReconcileReads, ExpireReads, At, Waiting,
         clusterVars
<1>2. job[t] \in Jobs /\ job[t].box \in Boxes /\ Placed(job[t], dep, pvc)
  BY <1>1, InsidePlaced
<1>3. CASE Raises(t, {}) \/ Ends(t, {})
  BY <1>3, Quitting
<1>4. CASE CreateReads(t) /\ ~Raises(t, {})
  <2>1. /\ Goes(t, [job[t] EXCEPT !.pc = "readVolume"], {}) /\ job[t].op = "create"
        /\ dep[job[t].box].phase = "absent"
    BY <1>4 DEF CreateReads, To, Box
  <2>2. PICK k : k = [job[t] EXCEPT !.pc = "readVolume"]
    OBVIOUS
  <2>3. "readVolume" \in Pcs
    BY DEF Pcs
  <2>4. /\ k \in Jobs /\ k.pc = "readVolume" /\ k.box = job[t].box
        /\ k.op = job[t].op /\ k.id = job[t].id
    BY <1>2, <2>2, <2>3, PcFields
  <2>5. Placed(k, dep', pvc')
    BY <1>1, <1>2, <2>1, <2>4
    DEF Placed, Carries, CollectingPcs, IdentifiedPcs, Patching
  <2> QED
    BY <2>1, <2>2, <2>4, <2>5 DEF Heads
<1>5. CASE ScaleReads(t) /\ ~Raises(t, {})
  <2>1. PICK pc \in {"readVolume", "patchScale"} :
          /\ Goes(t, [job[t] EXCEPT !.pc = pc, !.seen = dep[job[t].box],
                                    !.fresh = TRUE], {})
          /\ pc = "readVolume" => On /\ job[t].op = "start"
    BY <1>5 DEF ScaleReads, Box
  <2> QED
    BY <1>1, <1>2, <2>1, CopyHeads
<1>6. CASE ReconcileReads(t) /\ ~Ends(t, {})
  <2>1. /\ Goes(t, [job[t] EXCEPT !.pc = "readVolume", !.seen = dep[job[t].box],
                                  !.fresh = TRUE], {})
        /\ job[t].op = "reconcile"
    BY <1>6 DEF ReconcileReads, Box
  <2>2. On
    BY <1>2, <2>1 DEF Placed
  <2> QED
    BY <1>1, <1>2, <2>1, <2>2, CopyHeads
<1>7. CASE ExpireReads(t) /\ ~Ends(t, {})
  <2>1. Goes(t, [job[t] EXCEPT !.pc = "patchExpired", !.seen = dep[job[t].box],
                               !.fresh = TRUE], {})
    BY <1>7 DEF ExpireReads, Box
  <2> QED
    BY <1>1, <1>2, <2>1, CopyHeads
<1>8. CASE DeleteReads(t) /\ ~Raises(t, {})
  <2>1. PICK k : k = [job[t] EXCEPT !.pc = "deleteParts", !.parts = Parts]
    OBVIOUS
  <2>2. /\ k \in Jobs /\ k.pc = "deleteParts" /\ k.box = job[t].box
        /\ k.op = job[t].op /\ k.id = job[t].id
    BY <1>2, <2>1 DEF Jobs, Pcs
  <2>3. Goes(t, k, {})
    BY <1>8, <2>1 DEF DeleteReads
  <2> QED
    BY <2>2, <2>3, PlainStep DEF Preparing, ColdPcs
<1> QED
  BY <1>3, <1>4, <1>5, <1>6, <1>7, <1>8

LEMMA DeletingHeads ==
  ASSUME ManagerInv, IdentityInv, NEW t \in Tasks, NEW p \in Parts,
         DeletePart(t, p) \/ DeletePartFails(t, p)
  PROVE  Heads(t)
<1>1. job[t].pc = "deleteParts" /\ job[t].pc \notin Waiting
  BY DEF DeletePart, DeletePartFails, At, Waiting
<1>2. job[t] \in Jobs /\ job[t].box \in Boxes
  BY <1>1, InsidePlaced
<1>3. PICK W \in SUBSET Boxes : W = Touched(Box(t), p)
  BY <1>2 DEF Touched, Box
<1>4. CASE Ends(t, W) \/ Raises(t, W) \/ Raises(t, {})
  BY <1>4, Quitting
<1>5. CASE Goes(t, [job[t] EXCEPT !.parts = @ \ {p}], W)
  <2>1. PICK k : k = [job[t] EXCEPT !.parts = @ \ {p}]
    OBVIOUS
  <2>2. /\ k \in Jobs /\ k.pc = "deleteParts" /\ k.box = job[t].box
        /\ k.op = job[t].op /\ k.id = job[t].id
    BY <1>1, <1>2, <2>1 DEF Jobs
  <2> QED
    BY <1>5, <2>1, <2>2, PlainStep DEF Preparing, ColdPcs
<1>6. CASE Goes(t, [job[t] EXCEPT !.pc = "deleteVolume", !.parts = {}], W)
  <2>1. PICK k : k = [job[t] EXCEPT !.pc = "deleteVolume", !.parts = {}]
    OBVIOUS
  <2>2. /\ k \in Jobs /\ k.pc = "deleteVolume" /\ k.box = job[t].box
        /\ k.op = job[t].op /\ k.id = job[t].id
    BY <1>2, <2>1 DEF Jobs, Pcs
  <2> QED
    BY <1>6, <2>1, <2>2, PlainStep DEF Preparing, ColdPcs
<1> QED
  BY <1>3, <1>4, <1>5, <1>6 DEF DeletePart, DeletePartFails

LEMMA WritingHeads ==
  ASSUME ManagerInv, IdentityInv, NEW t \in Tasks, job[t].pc \notin Waiting,
         \/ MakeDeployment(t) \/ MakeService(t) \/ UndoDeployment(t) \/ FinishUndo(t)
         \/ PatchPrepared(t) \/ PatchScale(t) \/ DeleteVolume(t)
         \/ t \in Loops /\ (MarkRestart(t) \/ PatchExpired(t))
  PROVE  Heads(t)
<1>1. {job[t].box} \in SUBSET Boxes
  BY InsidePlaced
<1>2. ASSUME NEW W \in SUBSET Boxes,
             \/ Ends(t, W) \/ Raises(t, W) \/ UndoSecret(t, W)
             \/ \E pc \in {"makeService", "undoDeployment", "respond",
                           "rereadDeployment"} : Goes(t, To(t, pc), W)
      PROVE  Heads(t)
  BY <1>2, Quitting, UndoHeads, PlainGo DEF To, Pcs, Preparing, ColdPcs
<1>3. \E W \in {{}, {job[t].box}} :
        \/ Ends(t, W) \/ Raises(t, W) \/ UndoSecret(t, W)
        \/ \E pc \in {"makeService", "undoDeployment", "respond",
                      "rereadDeployment"} : Goes(t, To(t, pc), W)
  BY DEF MakeDeployment, MakeService, UndoDeployment, FinishUndo, PatchPrepared,
         PatchScale, DeleteVolume, MarkRestart, PatchExpired, AnswerLost, Box
<1> QED
  BY <1>1, <1>2, <1>3

LEMMA EndingHeads ==
  ASSUME ManagerInv, IdentityInv, NEW t \in Tasks, job[t].pc \notin Waiting,
         \/ SecretMoved(t) \/ Refused(t) \/ Respond(t) \/ RereadDeployment(t)
         \/ ScaleConflicts(t) \/ CallFails(t)
  PROVE  Heads(t)
<1>1. job[t] \in Jobs /\ job[t].box \in Boxes
  BY InsidePlaced
<1>2. CASE Raises(t, {}) \/ Ends(t, {})
  BY <1>2, Quitting
<1>3. CASE Retries(t)
  BY <1>3, RetriesHeads
<1>4. CASE UndoSecret(t, {})
  BY <1>4, UndoHeads
<1>5. CASE Goes(t, To(t, "undoDeployment"), {})
  BY <1>5, PlainGo DEF To, Pcs, Preparing, ColdPcs
<1>6. CASE RereadDeployment(t) /\ Goes(t, [job[t] EXCEPT !.pc = "patchScale",
                                         !.seen = dep[Box(t)], !.fresh = TRUE], {})
  <2>1. dep' = dep
    BY <1>6 DEF RereadDeployment, clusterVars
  <2> QED
    BY <1>1, <1>6, <2>1, CopyHeads DEF Box
<1> QED
  BY <1>2, <1>3, <1>4, <1>5, <1>6
  DEF SecretMoved, Refused, Respond, RereadDeployment, ScaleConflicts, CallFails

LEMMA InnerHeads ==
  ASSUME ManagerInv, IdentityInv, NEW t \in Tasks, Inner(t)
  PROVE  Heads(t)
<1>1. job[t].pc \notin Waiting
  BY InnerInv DEF Section
<1>2. CASE TaskStep(t)
  BY <1>1, <1>2, ReadVolumeHeads, StampVolumeHeads, MakeVolumeHeads, GrowVolumeHeads,
     SecretHeads, ReadingHeads, DeletingHeads, WritingHeads, EndingHeads
  DEF TaskStep
<1>3. CASE ~TaskStep(t)
  BY <1>1, <1>3, ReadingHeads, DeletingHeads, WritingHeads, EndingHeads DEF Inner
<1> QED
  BY <1>2, <1>3

-----------------------------------------------------------------------------
(* Deployments and volumes stay sound.                                        *)

\* What a step may make of the PVC of b.
Revolumed(b) ==
  \/ pvc'[b] = pvc[b]
  \/ pvc'[b].phase # "bound"
  \/ /\ dep' = dep
     /\ \E t \in Tasks : /\ Box(t) = b
                         /\ \/ At(t, "stampVolume") /\ pvc'[b].phase = pvc[b].phase
                            \/ At(t, "makeVolume")

LEMMA InnerRevolumes ==
  ASSUME ManagerInv, NEW t \in Tasks, Inner(t), NEW b \in Boxes
  PROVE  Revolumed(b)
<1>1. pvc \in [Boxes -> Volumes]
  BY DEF ManagerInv, TypeOK
<1>2. CASE pvc' = pvc
  BY <1>2 DEF Revolumed
<1>3. CASE StampVolume(t)
  <2>1. CASE Box(t) # b \/ pvc' = pvc
    BY <1>1, <1>3, <2>1 DEF StampVolume, Revolumed
  <2>2. CASE Box(t) = b /\ pvc' # pvc
    <3>1. PICK v : v = [pvc[b] EXCEPT !.inst = job[t].id] /\ pvc' = [pvc EXCEPT ![b] = v]
      BY <1>1, <1>3, <2>2 DEF StampVolume
    <3>2. v.phase = pvc[b].phase
      BY <1>1, <3>1 DEF Volumes
    <3> QED
      BY <1>1, <1>3, <2>2, <3>1, <3>2 DEF StampVolume, Revolumed
  <2> QED
    BY <2>1, <2>2
<1>4. CASE MakeVolume(t)
  BY <1>1, <1>4 DEF MakeVolume, Revolumed
<1>5. CASE DeleteVolume(t)
  <2>1. PICK v : /\ v = [pvc[Box(t)] EXCEPT
                           !.phase = IF @ = "bound" THEN "deleting" ELSE @]
                 /\ pvc' = [pvc EXCEPT ![Box(t)] = v]
    BY <1>1, <1>5 DEF DeleteVolume
  <2>2. Box(t) = b => v.phase # "bound"
    BY <1>1, <2>1 DEF Volumes
  <2> QED
    BY <1>1, <2>1, <2>2 DEF Revolumed
<1>6. CASE TaskStep(t) /\ pvc' # pvc
  BY <1>3, <1>4, <1>5, <1>6
  DEF TaskStep, ReadVolume, ReadSecret, WriteSecret, SecretMoved, CreateReads,
      GrowVolume, MakeDeployment, MakeService, UndoDeployment, FinishUndo, Refused,
      Respond, ScaleReads, PatchPrepared, RereadDeployment, PatchScale,
      ScaleConflicts, DeleteReads, DeletePart, clusterVars
<1>7. CASE ~TaskStep(t)
  BY <1>2, <1>7
  DEF Inner, ReconcileReads, MarkRestart, ExpireReads, PatchExpired, CallFails,
      DeletePartFails, clusterVars
<1> QED
  BY <1>2, <1>6, <1>7

LEMMA NextRevolumes ==
  ASSUME ManagerInv, [Next]_vars, NEW b \in Boxes
  PROVE  Revolumed(b)
<1>1. CASE pvc' = pvc
  BY <1>1 DEF Revolumed
<1>2. ASSUME NEW a \in Boxes, VolumeGone(a) PROVE Revolumed(b)
  BY <1>2 DEF VolumeGone, NoVolume, ManagerInv, TypeOK, Revolumed
<1>3. CASE Next /\ pvc' # pvc
  <2>1. (\E t \in Tasks : Inner(t)) \/ (\E a \in Boxes : VolumeGone(a))
    BY <1>3, NextCases
    DEF Request, Goes, Enter, Visit, Wake, StartExpiring, FinishCycle, ListFails,
        ListTenant, DeploymentGone, ForeignWrite, Straggle, Restart, Tick, clusterVars
  <2> QED
    BY <1>2, <2>1, InnerRevolumes
<1> QED
  BY <1>1, <1>3 DEF vars, clusterVars

\* A volume gets its identity while no collector runs on it.
LEMMA NewIdentitySound ==
  ASSUME ManagerInv, IdentityInv, NEW b \in Boxes, dep' = dep, NEW t \in Tasks,
         Box(t) = b,
         \/ At(t, "stampVolume") /\ pvc'[b].phase = pvc[b].phase
         \/ At(t, "makeVolume")
  PROVE  Sound(dep'[b], pvc'[b])
<1>1. Sound(dep[b], pvc[b]) /\ Placed(job[t], dep, pvc) /\ Blank(job[t], pvc)
  BY DEF IdentityInv, BoxesSound, TasksPlaced, ManagerInv, StampView
<1>2. CASE Configs = {Off}
  BY <1>1, <1>2 DEF Sound
<1>3. CASE Configs # {Off} /\ At(t, "makeVolume")
  <2>1. dep[b].phase = "absent"
    BY <1>1, <1>3 DEF Placed, Carries, Preparing, ColdPcs, At, Box
  <2> QED
    BY <1>1, <2>1 DEF Sound
<1>4. CASE At(t, "stampVolume") /\ pvc'[b].phase = pvc[b].phase
  <2>1. pvc[b].inst = None
    BY <1>1, <1>4 DEF Blank, At, Box
  <2> QED
    BY <1>1, <1>4, <2>1 DEF Sound
<1> QED
  BY <1>2, <1>3, <1>4

\* A task that writes a template writes the identity of the volume.
LEMMA PreparedSound ==
  ASSUME ManagerInv, IdentityInv, NEW t \in Tasks, NEW b \in Boxes, Box(t) = b,
         job[t].pc \in Patching \cup {"makeDeployment"}
  PROVE  /\ On \/ job[t].id = None
         /\ Configs = {Off} => ~On
         /\ job[t].pc \in Patching => On
         /\ On /\ pvc[b].phase = "bound" => pvc[b].inst = job[t].id
         /\ job[t].pc = "patchMark" /\ dep[b].phase # "absent"
              => dep[b].tmpl.inst = job[t].id
<1>1. Placed(job[t], dep, pvc) /\ (Configs = {Off} => ~On)
  BY InsidePlaced DEF Waiting, Patching
<1>2. /\ job[t].pc \in IdentifiedPcs /\ job[t].pc \in Preparing
      /\ job[t].pc \in Patching => job[t].pc \in CollectingPcs
  BY DEF IdentifiedPcs, Preparing, ColdPcs, CollectingPcs, Patching
<1>3. job[t].pc \in Patching => job[t].op # "create"
  BY DEF ManagerInv, ColdView, Cold
<1> QED
  BY <1>1, <1>2, <1>3 DEF Placed, Carries, Box, Patching

LEMMA RewrittenSound ==
  ASSUME ManagerInv, IdentityInv, NEW b \in Boxes, Rewritten(b),
         pvc'[b] = pvc[b] \/ pvc'[b].phase # "bound"
  PROVE  Sound(dep'[b], pvc'[b])
<1>1. PICK d \in Deployments : d = dep[b]
  BY DEF ManagerInv, TypeOK
<1>2. Sound(d, pvc[b])
  BY <1>1 DEF IdentityInv, BoxesSound
<1>3. CASE dep'[b] = d
  BY <1>2, <1>3 DEF Sound
<1>4. CASE dep'[b] = Doomed(b)
  <2>1. dep'[b].tmpl = d.tmpl /\ dep'[b].phase # "live"
    BY <1>1, <1>4 DEF Doomed, Deployments
  <2> QED
    BY <1>2, <2>1 DEF Sound
<1>5. CASE dep'[b] = NoDeployment
  BY <1>5 DEF Sound, NoDeployment, NoSidecar
<1>6. ASSUME NEW t \in Tasks, Box(t) = b, At(t, "makeDeployment"), dep'[b] = Built(t)
      PROVE  Sound(dep'[b], pvc'[b])
  <2>1. /\ dep'[b].tmpl.inst = job[t].id /\ dep'[b].inst = job[t].id
    BY <1>6 DEF Built
  <2> QED
    BY <1>6, <2>1, PreparedSound DEF Sound, At
<1>7. ASSUME NEW t \in Tasks, Box(t) = b, job[t].pc \in Patching, NEW e,
             e = [d EXCEPT !.inst = job[t].id, !.mark = "collecting"],
             \/ At(t, "patchMark") /\ dep'[b] = e
             \/ dep'[b] = [e EXCEPT !.tmpl = [inst |-> job[t].id, cfg |-> cfg]]
      PROVE  Sound(dep'[b], pvc'[b])
  <2>1. /\ e.inst = job[t].id /\ e.phase = d.phase /\ e.tmpl = d.tmpl
        /\ DOMAIN e = {"phase", "replicas", "expires", "auto", "inst", "tmpl", "mark"}
    BY <1>7 DEF Deployments
  <2>2. ASSUME NEW f, NEW m, f = [e EXCEPT !.tmpl = m]
        PROVE  f.inst = e.inst /\ f.phase = e.phase /\ f.tmpl = m
    BY <2>1, <2>2
  <2>3. [inst |-> job[t].id, cfg |-> cfg].inst = job[t].id
    OBVIOUS
  <2>4. /\ dep'[b].inst = job[t].id /\ dep'[b].phase = d.phase
        /\ \/ At(t, "patchMark") /\ dep'[b].tmpl = d.tmpl
           \/ dep'[b].tmpl.inst = job[t].id
    BY <1>7, <2>1, <2>2, <2>3
  <2> QED
    BY <1>1, <1>7, <2>4, PreparedSound DEF Sound, At
<1>8. ASSUME NEW i, dep'[b] = [d EXCEPT !.mark = "restart_required", !.inst = i]
      PROVE  Sound(dep'[b], pvc'[b])
  <2>1. dep'[b].tmpl = d.tmpl /\ dep'[b].mark = "restart_required"
    BY <1>8 DEF Deployments
  <2> QED
    BY <1>2, <2>1 DEF Sound
<1>9. ASSUME NEW e,
             \/ e = [d EXCEPT !.replicas = 0, !.auto = TRUE]
             \/ e = [d EXCEPT !.replicas = 1, !.expires = now + Ttl, !.auto = FALSE]
             \/ e = [d EXCEPT !.replicas = 0],
             dep'[b] = e
      PROVE  Sound(dep'[b], pvc'[b])
  <2>1. e.tmpl = d.tmpl /\ e.mark = d.mark /\ e.phase = d.phase /\ e.inst = d.inst
    BY <1>9 DEF Deployments
  <2> QED
    BY <1>2, <1>9, <2>1 DEF Sound
<1>10. CASE dep'[b] \notin {d, Doomed(b), NoDeployment}
  <2>1. PICK t \in Tasks :
          /\ Box(t) = b
          /\ \/ At(t, "makeDeployment") /\ dep'[b] = Built(t)
             \/ dep'[b] = Scaled(t)
             \/ /\ job[t].pc \in Patching
                /\ LET prepared == [d EXCEPT !.inst = job[t].id, !.mark = "collecting"]
                   IN \/ At(t, "patchMark") /\ dep'[b] = prepared
                      \/ dep'[b] = [prepared EXCEPT
                                      !.tmpl = [inst |-> job[t].id, cfg |-> cfg]]
             \/ dep'[b] = [d EXCEPT !.mark = "restart_required", !.inst = job[t].id]
             \/ dep'[b] = [d EXCEPT !.replicas = 0, !.auto = TRUE]
    BY <1>1, <1>10 DEF Rewritten
  <2>2. CASE dep'[b] = Scaled(t)
    BY <1>1, <1>9, <2>1, <2>2 DEF Scaled
  <2> QED
    BY <1>6, <1>7, <1>8, <1>9, <2>1, <2>2
<1> QED
  BY <1>3, <1>4, <1>5, <1>10

LEMMA NextSound ==
  ASSUME ManagerInv, IdentityInv, [Next]_vars, NEW b \in Boxes
  PROVE  Sound(dep'[b], pvc'[b])
<1>1. Rewritten(b) /\ Revolumed(b)
  BY NextRewrites, NextRevolumes
<1> QED
  BY <1>1, RewrittenSound, NewIdentitySound DEF Revolumed

-----------------------------------------------------------------------------
(* Steps from outside the sections.                                           *)

\* A Deployment or a volume may go, but not come or change its identity.
Ebbs(b) ==
  /\ dep[b].phase = "absent" => dep'[b].phase = "absent"
  /\ dep'[b].phase # "absent" => dep[b].phase # "absent" /\ dep'[b].tmpl = dep[b].tmpl
  /\ pvc'[b].phase = "bound" => pvc'[b] = pvc[b]

LEMMA EbbingPlaced ==
  ASSUME ManagerInv, IdentityInv, \A b \in Boxes : Ebbs(b), NEW u \in Tasks
  PROVE  Placed(job[u], dep', pvc')
<1>1. Placed(job[u], dep, pvc)
  BY DEF IdentityInv, TasksPlaced
<1>2. CASE job[u].pc \in Waiting
  BY <1>1, <1>2, WaitingPlaced
<1>3. CASE job[u].pc \notin Waiting
  <2>1. Ebbs(job[u].box)
    BY <1>3, Inside
  <2> QED
    BY <1>1, <2>1 DEF Placed, Carries, Ebbs
<1> QED
  BY <1>2, <1>3

\* A step that moves one job, or none, while Deployments and volumes only go.
LEMMA EbbingInv ==
  ASSUME ManagerInv, IdentityInv, cfg' = cfg, \A b \in Boxes : Ebbs(b),
         NEW t, NEW j \in Jobs, NEW W, Moves(t, j, W), Placed(j, dep', pvc')
  PROVE  TasksPlaced'
<1>1. job \in [Tasks -> Jobs]
  BY DEF ManagerInv, TypeOK
<1>2. /\ job' \in [Tasks -> Jobs]
      /\ \A u \in Tasks :
           /\ job'[u].pc = After(t, j, u).pc /\ job'[u].op = After(t, j, u).op
           /\ job'[u].box = After(t, j, u).box /\ job'[u].seen = After(t, j, u).seen
           /\ job'[u].id = After(t, j, u).id
           /\ job'[u].fresh => After(t, j, u).fresh /\ After(t, j, u).box \notin W
  BY <1>1, MovesFacts
<1>3. \A u \in Tasks : Placed(After(t, j, u), dep', pvc')
  BY EbbingPlaced DEF After
<1>4. \A u \in Tasks : Placed(job'[u], dep', pvc')
  BY <1>2, <1>3, PlacedByFields
<1> QED
  BY <1>4 DEF TasksPlaced, Placed, Carries, On

LEMMA DoorPlaced ==
  ASSUME ManagerInv, IdentityInv, NEW t \in Tasks,
         \/ \E op \in Ops, b \in Boxes : t \in Requests /\ Request(t, op, b)
         \/ Enter(t)
         \/ \E b \in Boxes : t \in Loops /\ Visit(t, b)
  PROVE  TasksPlaced' /\ CyclesOn'
<1>1. cfg' = cfg /\ dep' = dep /\ pvc' = pvc /\ \A b \in Boxes : Ebbs(b)
  BY DEF Request, Enter, Visit, clusterVars, Ebbs
<1>2. \A l \in Loops : agenda'[l].phase = agenda[l].phase
  <2>1. agenda \in [Loops -> Agendas]
    BY DEF ManagerInv, TypeOK
  <2>2. CASE agenda' = agenda
    BY <2>2
  <2>3. ASSUME NEW b \in Boxes, t \in Loops, Visit(t, b)
        PROVE  \A l \in Loops : agenda'[l].phase = agenda[l].phase
    <3>1. PICK a : a = [agenda[t] EXCEPT !.todo = @ \ {b}] /\ agenda' = [agenda EXCEPT ![t] = a]
      BY <2>1, <2>3 DEF Visit
    <3>2. a.phase = agenda[t].phase
      BY <2>1, <2>3, <3>1 DEF Agendas
    <3> QED
      BY <2>1, <2>3, <3>1, <3>2
  <2> QED
    BY <2>2, <2>3 DEF Request, Enter, Goes
<1>3. CyclesOn'
  BY <1>1, <1>2 DEF CyclesOn, IdentityInv, On
<1>4. job[t] \in Jobs /\ Placed(job[t], dep, pvc)
  BY DEF ManagerInv, TypeOK, IdentityInv, TasksPlaced
<1>5. ASSUME NEW j \in Jobs, Moves(t, j, {}), j.pc \in {"lock", "readDeployment"},
             On \/ j.id = None, j.op = "reconcile" => On
      PROVE  TasksPlaced'
  <2>1. Placed(j, dep', pvc')
    BY <1>5 DEF Placed, Carries, Preparing, ColdPcs, CollectingPcs, IdentifiedPcs, Patching
  <2> QED
    BY <1>1, <1>5, <2>1, EbbingInv
<1>6. ASSUME NEW op \in Ops \cup {"reconcile", "expire"}, NEW b \in Boxes,
             Moves(t, [NoJob EXCEPT !.pc = "lock", !.op = op, !.box = b], {}),
             op = "reconcile" => On
      PROVE  TasksPlaced'
  <2>1. PICK j : j = [NoJob EXCEPT !.pc = "lock", !.op = op, !.box = b]
    OBVIOUS
  <2>2. j \in Jobs /\ j.pc = "lock" /\ j.op = op /\ j.id = None
    BY <2>1, NoJobFacts DEF Jobs, NoJob, Pcs
  <2> QED
    BY <1>5, <1>6, <2>1, <2>2
<1>7. ASSUME NEW op \in Ops, NEW b \in Boxes, Request(t, op, b) PROVE TasksPlaced'
  <2>1. op # "reconcile"
    BY ManagerAssumption
  <2> QED
    BY <1>6, <1>7, <2>1 DEF Request, Goes
<1>8. CASE Enter(t)
  <2>1. PICK j : j = [job[t] EXCEPT !.pc = "readDeployment"]
    OBVIOUS
  <2>2. "readDeployment" \in Pcs
    BY DEF Pcs
  <2>3. j \in Jobs /\ j.pc = "readDeployment" /\ j.op = job[t].op /\ j.id = job[t].id
    BY <1>4, <2>1, <2>2, PcFields
  <2>4. Moves(t, j, {})
    BY <1>8, <2>1 DEF Enter, To
  <2>5. (On \/ j.id = None) /\ (j.op = "reconcile" => On)
    BY <1>4, <2>3 DEF Placed
  <2> QED
    BY <1>3, <1>5, <2>3, <2>4, <2>5
<1>9. ASSUME NEW b \in Boxes, t \in Loops, Visit(t, b) PROVE TasksPlaced'
  <2>1. /\ Moves(t, [NoJob EXCEPT !.pc = "lock", !.op = agenda[t].phase, !.box = b], {})
        /\ b \in agenda[t].todo
    BY <1>9 DEF Visit
  <2>2. /\ agenda[t].phase \in {"reconcile", "expire"}
        /\ agenda[t].phase = "reconcile" => On
    BY <1>9, <2>1 DEF ManagerInv, TypeOK, AgendaOK, Agendas, IdentityInv, CyclesOn
  <2> QED
    BY <1>6, <2>1, <2>2
<1> QED
  BY <1>3, <1>7, <1>8, <1>9

LEMMA CyclePlaced ==
  ASSUME ManagerInv, IdentityInv, NEW l \in Loops,
         \/ Wake(l) \/ StartExpiring(l) \/ FinishCycle(l) \/ ListFails(l)
         \/ \E tenant \in Tenants : ListTenant(l, tenant)
  PROVE  TasksPlaced' /\ CyclesOn'
<1>1. cfg' = cfg /\ dep' = dep /\ pvc' = pvc /\ job' = job
  BY DEF Wake, StartExpiring, FinishCycle, ListFails, ListTenant, clusterVars
<1>2. TasksPlaced'
  BY <1>1 DEF IdentityInv, TasksPlaced, Placed, Carries, On
<1>3. agenda \in [Loops -> Agendas] /\ CyclesOn
  BY DEF ManagerInv, TypeOK, IdentityInv
<1>4. CASE Wake(l) \/ StartExpiring(l) \/ FinishCycle(l) \/ ListFails(l)
  <2>1. PICK a : /\ a.phase = "reconcile" => On
                 /\ agenda' = [agenda EXCEPT ![l] = a]
    <3>1. CASE Wake(l)
      <4>1. PICK a : /\ a = [phase |-> IF On THEN "reconcile" ELSE "expire",
                            tenants |-> Tenants, todo |-> {},
                            cutoff |-> IF On THEN 0 ELSE now]
                     /\ agenda' = [agenda EXCEPT ![l] = a]
        BY <3>1 DEF Wake
      <4>2. a.phase = "reconcile" => On
        BY <4>1
      <4> QED
        BY <4>1, <4>2
    <3>2. CASE StartExpiring(l)
      BY <3>2 DEF StartExpiring
    <3>3. CASE FinishCycle(l) \/ ListFails(l)
      BY <3>3 DEF FinishCycle, ListFails, Asleep
    <3> QED
      BY <1>4, <3>1, <3>2, <3>3
  <2> QED
    BY <1>1, <1>2, <1>3, <2>1 DEF CyclesOn, On
<1>5. ASSUME NEW tenant \in Tenants, ListTenant(l, tenant) PROVE CyclesOn'
  <2>1. PICK a : /\ a = [agenda[l] EXCEPT !.tenants = @ \ {tenant},
                                          !.todo = Listed(l, tenant)]
                 /\ agenda' = [agenda EXCEPT ![l] = a]
    BY <1>3, <1>5 DEF ListTenant
  <2>2. a.phase = agenda[l].phase
    BY <1>3, <2>1 DEF Agendas
  <2> QED
    BY <1>1, <1>3, <2>1, <2>2 DEF CyclesOn, On
<1> QED
  BY <1>2, <1>4, <1>5

LEMMA OutsidePlaced ==
  ASSUME ManagerInv, IdentityInv, NEW b \in Boxes,
         \/ DeploymentGone(b) \/ VolumeGone(b) \/ ForeignWrite(b)
         \/ \E p \in Parts : Straggle(b, p)
  PROVE  TasksPlaced' /\ CyclesOn'
<1>1. cfg' = cfg /\ agenda' = agenda
  BY DEF DeploymentGone, VolumeGone, ForeignWrite, Straggle
<1>2. dep \in [Boxes -> Deployments] /\ pvc \in [Boxes -> Volumes]
  BY DEF ManagerInv, TypeOK
<1>3. \A a \in Boxes : Ebbs(a)
  <2>1. CASE DeploymentGone(b)
    BY <1>2, <2>1 DEF DeploymentGone, Ebbs, NoDeployment
  <2>2. CASE VolumeGone(b)
    BY <1>2, <2>2 DEF VolumeGone, Ebbs, NoVolume
  <2>3. CASE ForeignWrite(b)
    BY <2>3 DEF ForeignWrite, Ebbs, clusterVars
  <2>4. ASSUME NEW p \in Parts, Straggle(b, p), NEW a \in Boxes PROVE Ebbs(a)
    <3>1. pvc' = pvc /\ (dep' = dep \/ dep' = [dep EXCEPT ![b] = Doomed(b)])
      BY <2>4 DEF Straggle, Erase
    <3>2. /\ Doomed(b).phase = "absent" <=> dep[b].phase = "absent"
          /\ Doomed(b).tmpl = dep[b].tmpl
      BY <1>2 DEF Doomed, Deployments
    <3> QED
      BY <1>2, <3>1, <3>2 DEF Ebbs
  <2> QED
    BY <2>1, <2>2, <2>3, <2>4
<1>4. CyclesOn'
  BY <1>1 DEF IdentityInv, CyclesOn, On
<1>5. CASE job' = job
  <2>1. \A u \in Tasks : Placed(job'[u], dep', pvc')
    BY <1>3, <1>5, EbbingPlaced
  <2>2. TasksPlaced'
    BY <1>1, <2>1 DEF TasksPlaced, Placed, Carries, On
  <2> QED
    BY <1>4, <2>2
<1>6. ASSUME NEW W, Moves(None, NoJob, W) PROVE TasksPlaced'
  <2>1. NoJob \in Jobs /\ Placed(NoJob, dep', pvc')
    BY NoJobFacts, NoJobPlaced
  <2> QED
    BY <1>1, <1>3, <1>6, <2>1, EbbingInv
<1> QED
  BY <1>4, <1>5, <1>6 DEF DeploymentGone, VolumeGone, ForeignWrite, Straggle

\* With Insights on, one controller runs every task, so that a change of the
\* configuration finds no task.
LEMMA RestartPlaced ==
  ASSUME ManagerInv, IdentityInv, NEW c \in Controllers, Restart(c)
  PROVE  TasksPlaced' /\ CyclesOn'
<1>1. /\ dep' = dep /\ pvc' = pvc /\ cfg \in Configs /\ cfg' \in Configs
      /\ job' = [t \in Tasks |-> IF ControllerOf[t] = c THEN NoJob ELSE job[t]]
      /\ agenda' = [l \in Loops |-> IF ControllerOf[l] = c THEN Asleep ELSE agenda[l]]
  BY DEF Restart, clusterVars, ManagerInv, TypeOK
<1>2. Configs # {Off} => \A t \in Tasks : ControllerOf[t] = c
  BY SingleWriterAssumption, ManagerAssumption
<1>3. TasksPlaced'
  <2> SUFFICES ASSUME NEW t \in Tasks PROVE Placed(job[t], dep, pvc)'
    BY DEF TasksPlaced
  <2>1. CASE job'[t] = NoJob
    BY <2>1, NoJobFacts
    DEF Placed, Carries, NoJob, Preparing, ColdPcs, CollectingPcs, IdentifiedPcs,
        Patching
  <2>2. CASE job'[t] = job[t] /\ Configs = {Off}
    BY <1>1, <2>2 DEF IdentityInv, TasksPlaced, Placed, On
  <2> QED
    BY <1>1, <1>2, <2>1, <2>2
<1>4. CyclesOn'
  <2>1. Asleep.phase = "sleep" /\ Loops \subseteq Tasks
    BY DEF Asleep, Tasks
  <2> QED
    BY <1>1, <1>2, <2>1 DEF CyclesOn, IdentityInv, On
<1> QED
  BY <1>3, <1>4

LEMMA NextIdentityInv ==
  ManagerInv /\ IdentityInv /\ [Next]_vars => IdentityInv'
<1> SUFFICES ASSUME ManagerInv, IdentityInv, [Next]_vars PROVE IdentityInv'
  OBVIOUS
<1>1. \A b \in Boxes : Sound(dep'[b], pvc'[b])
  BY NextSound
<1>2. BoxesSound'
  BY <1>1 DEF BoxesSound, Sound
<1>3. CASE UNCHANGED vars
  BY <1>3
  DEF vars, clusterVars, IdentityInv, CyclesOn, TasksPlaced, BoxesSound, Placed,
      Carries, Sound, On
<1>4. ASSUME NEW t \in Tasks, Inner(t) PROVE IdentityInv'
  BY <1>1, <1>4, InnerInv, InnerHeads, HeadsInv
<1>5. ASSUME TasksPlaced', CyclesOn' PROVE IdentityInv'
  BY <1>2, <1>5 DEF IdentityInv
<1>6. Requests \subseteq Tasks /\ Loops \subseteq Tasks
  BY DEF Tasks
<1>7. CASE Tick
  BY <1>7
  DEF Tick, clusterVars, IdentityInv, CyclesOn, TasksPlaced, BoxesSound, Placed,
      Carries, Sound, On
<1>8. CASE Next
  BY <1>4, <1>5, <1>6, <1>7, <1>8, NextCases, DoorPlaced, CyclePlaced, OutsidePlaced,
     RestartPlaced
<1> QED
  BY <1>3, <1>8

\* A collector reports under the identity of the volume it runs on: the task
\* that writes a template holds the lock since it read, or recorded, the
\* identity of the volume, and nobody else can give a volume an identity or a
\* box a Deployment in between.
THEOREM CollectsUnderVolumeIdentityHolds == Spec => []CollectsUnderVolumeIdentity
<1>1. IdentityInv => CollectsUnderVolumeIdentity
  BY DEF IdentityInv, BoxesSound, Sound, CollectsUnderVolumeIdentity, Live
<1> QED
  BY <1>1, InitIdentityInv, NextIdentityInv, ManagerInvariant, PTL DEF Spec

-----------------------------------------------------------------------------
(* Deployment, Service and Secret, as long as nothing fails.                  *)

\* Without failures a box is whole but while a create or a delete is half done,
\* and its Secret is there but while it is deleted.
HalfDone == {"makeService", "undoDeployment", "deleteParts"}

\* Calls made, with Insights on, once the task knows an identity.
NamedPcs == {"stampVolume", "makeVolume", "growVolume", "readSecret", "makeSecret",
             "patchSecret"}

Whole(d, s)    == s <=> d.phase = "live"
Credited(d, c) == d.phase = "live" /\ d.tmpl.inst # None => c # None

\* A create has found no Deployment, a reconciliation one that is not deleted.
Expects(j, d) ==
  /\ j.op = "create" => d.phase = "absent"
  /\ j.op = "reconcile" => d.phase = "live"

\* What the calls of an operation rely on, of the Deployment d, the Service s and
\* the Secret c of its box.
Orderly(j, d, s, c) ==
  /\ j.pc = "makeService" => d.phase = "live"
  /\ j.pc \in {"makeService", "undoDeployment", "undoSecret"} => ~s
  /\ j.pc = "undoSecret" => d.phase # "live"
  /\ j.pc = "deleteParts" => /\ "service" \notin j.parts => ~s
                             /\ "deployment" \notin j.parts => d.phase # "live"
  /\ On /\ j.pc \in NamedPcs => j.id # None
  /\ j.pc \in Patching \cup {"makeDeployment"} /\ j.id # None => c # None
  /\ j.pc \in Preparing => Expects(j, d)

TasksOrderly ==
  \A t \in Tasks : job[t].pc \notin Waiting =>
    Orderly(job[t], dep[job[t].box], svc[job[t].box], sec[job[t].box])

Halfway(b) == \E t \in Tasks : job[t].box = b /\ job[t].pc \in HalfDone
Deleting(b) == \E t \in Tasks : job[t].box = b /\ job[t].pc = "deleteParts"

BoxesWhole ==
  \A b \in Boxes : /\ stray[b] = {}
                   /\ Halfway(b) \/ Whole(dep[b], svc[b])
                   /\ Deleting(b) \/ Credited(dep[b], sec[b])

CalmInv == TasksOrderly /\ BoxesWhole

\* The chart's Recreate with one replica; nothing but the lock of a process
\* keeps two operations on a box apart.
SingleController == \A c, d \in Controllers : c = d

LEMMA InitCalm == Init => CalmInv
<1> SUFFICES ASSUME Init PROVE CalmInv
  OBVIOUS
<1>1. TasksOrderly
  BY NoJobFacts DEF Init, TasksOrderly, Waiting
<1>2. ASSUME NEW b \in Boxes
      PROVE  stray[b] = {} /\ Whole(dep[b], svc[b]) /\ Credited(dep[b], sec[b])
  <2>1. PICK origin \in [Boxes -> Origins] :
          /\ dep = [a \in Boxes |->
                      CASE origin[a] = "running" -> LegacyDeployment(1)
                        [] origin[a] = "stopped" -> LegacyDeployment(0)
                        [] OTHER                 -> NoDeployment]
          /\ svc = [a \in Boxes |-> origin[a] \in {"stopped", "running"}]
    BY DEF Init
  <2>2. /\ \A r : /\ LegacyDeployment(r).phase = "live"
                  /\ LegacyDeployment(r).tmpl.inst = None
        /\ NoDeployment.phase # "live"
    BY DEF LegacyDeployment, NoDeployment, NoSidecar
  <2>3. svc[b] <=> origin[b] \in {"stopped", "running"}
    <3>1. svc[b] = (origin[b] \in {"stopped", "running"})
      BY <2>1
    <3> QED
      BY <3>1
  <2>4. /\ dep[b].phase = "live" <=> origin[b] \in {"stopped", "running"}
        /\ dep[b].phase = "live" => dep[b].tmpl.inst = None
    <3>1. /\ origin[b] = "running" => dep[b] = LegacyDeployment(1)
          /\ origin[b] = "stopped" => dep[b] = LegacyDeployment(0)
          /\ origin[b] \notin {"stopped", "running"} => dep[b] = NoDeployment
      BY <2>1
    <3> QED
      BY <2>2, <3>1
  <2>5. stray[b] = {}
    BY DEF Init
  <2> QED
    BY <2>3, <2>4, <2>5 DEF Whole, Credited
<1> QED
  BY <1>1, <1>2 DEF CalmInv, BoxesWhole

\* Orderly looks at a few fields only.
LEMMA OrderlyByFields ==
  ASSUME NEW j, NEW k, NEW d, NEW s, NEW c,
         k.pc = j.pc, k.op = j.op, k.id = j.id, k.parts = j.parts,
         Orderly(j, d, s, c)
  PROVE  Orderly(k, d, s, c)
  BY DEF Orderly, Expects

\* What MovesFacts says, of the deletions of a gather.
LEMMA MovesParts ==
  ASSUME job \in [Tasks -> Jobs], NEW t, NEW j \in Jobs, NEW W, Moves(t, j, W)
  PROVE  \A u \in Tasks : job'[u].parts = After(t, j, u).parts
<1> DEFINE moved == [job EXCEPT ![t] = j]
<1>1. \A u \in Tasks : moved[u] = After(t, j, u) /\ moved[u] \in Jobs
  BY DEF After
<1> HIDE DEF moved
<1>2. job' = [v \in Tasks |-> IF moved[v].box \in W
                                THEN [moved[v] EXCEPT !.fresh = FALSE] ELSE moved[v]]
  BY DEF Moves, moved
<1>3. ASSUME NEW u \in Tasks, NEW k \in Jobs, k = After(t, j, u)
      PROVE  job'[u].parts = k.parts
  <2>1. job'[u] = IF k.box \in W THEN [k EXCEPT !.fresh = FALSE] ELSE k
    BY <1>1, <1>2, <1>3
  <2> QED
    BY <2>1 DEF Jobs
<1> QED
  BY <1>1, <1>3

\* With one controller the task at a box is the only one, and knows the box.
LEMMA Alone ==
  ASSUME ManagerInv, CalmInv, SingleController, NEW t \in Tasks,
         job[t].pc \notin Waiting, NEW b, b = job[t].box
  PROVE  /\ b \in Boxes /\ job[t] \in Jobs
         /\ Orderly(job[t], dep[b], svc[b], sec[b])
         /\ stray[b] = {} /\ svc[b] \in BOOLEAN
         /\ job[t].pc \notin HalfDone => Whole(dep[b], svc[b])
         /\ job[t].pc # "deleteParts" => Credited(dep[b], sec[b])
         /\ \A u \in Tasks : job[u].box = b /\ job[u].pc \notin Waiting => u = t
<1>1. b \in Boxes /\ job[t] \in Jobs /\ svc \in [Boxes -> BOOLEAN]
  BY Inside
<1>2. \A u \in Tasks : job[u].box = b /\ job[u].pc \notin Waiting => u = t
  BY ManagerAssumption DEF ManagerInv, Owned, SingleController
<1>3. \A u \in Tasks : job[u].pc \in HalfDone => job[u].pc \notin Waiting
  BY DEF HalfDone, Waiting
<1>4. "deleteParts" \in HalfDone
  BY DEF HalfDone
<1> QED
  BY <1>1, <1>2, <1>3, <1>4 DEF CalmInv, TasksOrderly, BoxesWhole, Halfway, Deleting

\* What a step of the task at a box does: it goes on to a call that can rely on
\* what it needs, or it leaves the box whole.
Fits(j, b) ==
  /\ j.box = b
  /\ Orderly(j, dep'[b], svc'[b], sec'[b])
  /\ j.pc \in HalfDone \/ Whole(dep'[b], svc'[b])
  /\ j.pc = "deleteParts" \/ Credited(dep'[b], sec'[b])

Proper(t) ==
  \E j \in Jobs, W \in SUBSET Boxes :
    /\ Moves(t, j, W)
    /\ \/ Fits(j, job[t].box)
       \/ /\ j = NoJob
          /\ Whole(dep'[job[t].box], svc'[job[t].box])
          /\ Credited(dep'[job[t].box], sec'[job[t].box])

\* It leaves the other boxes alone.
Secluded(b) ==
  /\ cfg' = cfg /\ stray' = stray
  /\ \A a \in Boxes : a # b => dep'[a] = dep[a] /\ svc'[a] = svc[a] /\ sec'[a] = sec[a]

LEMMA ProperCalm ==
  ASSUME ManagerInv, CalmInv, SingleController, NEW t \in Tasks,
         job[t].pc \notin Waiting, Proper(t), Secluded(job[t].box)
  PROVE  CalmInv'
<1>1. PICK b : b = job[t].box
  OBVIOUS
<1>2. PICK j \in Jobs, W \in SUBSET Boxes :
        /\ Moves(t, j, W)
        /\ \/ Fits(j, b)
           \/ j = NoJob /\ Whole(dep'[b], svc'[b]) /\ Credited(dep'[b], sec'[b])
  BY <1>1 DEF Proper
<1>3. job \in [Tasks -> Jobs]
  BY DEF ManagerInv, TypeOK
<1>4. \A u \in Tasks :
        /\ job'[u].pc = After(t, j, u).pc /\ job'[u].op = After(t, j, u).op
        /\ job'[u].box = After(t, j, u).box /\ job'[u].id = After(t, j, u).id
        /\ job'[u].parts = After(t, j, u).parts
  <2>1. \A u \in Tasks : job'[u].parts = After(t, j, u).parts
    BY <1>2, <1>3, MovesParts
  <2>2. /\ job' \in [Tasks -> Jobs]
        /\ \A u \in Tasks :
             /\ job'[u].pc = After(t, j, u).pc /\ job'[u].op = After(t, j, u).op
             /\ job'[u].box = After(t, j, u).box /\ job'[u].seen = After(t, j, u).seen
             /\ job'[u].id = After(t, j, u).id
             /\ job'[u].fresh => After(t, j, u).fresh /\ After(t, j, u).box \notin W
    BY <1>2, <1>3, MovesFacts
  <2> QED
    BY <2>1, <2>2
<1>5. \A u \in Tasks : u # t /\ job[u].pc \notin Waiting =>
        /\ job[u].box # b /\ job[u].box \in Boxes
        /\ Orderly(job[u], dep[job[u].box], svc[job[u].box], sec[job[u].box])
  BY <1>1, Alone, Inside DEF CalmInv, TasksOrderly
<1>6. \A a \in Boxes : a # b => dep'[a] = dep[a] /\ svc'[a] = svc[a] /\ sec'[a] = sec[a]
  BY <1>1 DEF Secluded
<1>7. ASSUME NEW u \in Tasks, job'[u].pc \notin Waiting
      PROVE  Orderly(job'[u], dep'[job'[u].box], svc'[job'[u].box], sec'[job'[u].box])
  <2>1. CASE u = t
    <3>1. Fits(j, b)
      BY <1>2, <1>4, <1>7, <2>1, NoJobFacts DEF After, Waiting
    <3>2. Orderly(j, dep'[b], svc'[b], sec'[b]) /\ j.box = b
      BY <3>1 DEF Fits
    <3>3. After(t, j, u) = j
      BY <2>1 DEF After
    <3> QED
      BY <1>4, <3>2, <3>3, OrderlyByFields
  <2>2. CASE u # t
    <3>1. After(t, j, u) = job[u]
      BY <2>2 DEF After
    <3>2. /\ job[u].box # b /\ job[u].box \in Boxes
          /\ Orderly(job[u], dep[job[u].box], svc[job[u].box], sec[job[u].box])
      BY <1>4, <1>5, <1>7, <2>2, <3>1
    <3>3. Orderly(job[u], dep'[job[u].box], svc'[job[u].box], sec'[job[u].box])
      BY <1>6, <3>2
    <3> QED
      BY <1>4, <3>1, <3>3, OrderlyByFields
  <2> QED
    BY <2>1, <2>2
<1>8. On' = On
  BY DEF On, Secluded
<1>9. TasksOrderly'
  BY <1>7, <1>8 DEF TasksOrderly, Orderly, Expects
<1>10. \A a \in Boxes : a # b => (Halfway(a) => Halfway(a)') /\ (Deleting(a) => Deleting(a)')
  <2>1. \A u \in Tasks : u # t => job'[u].pc = job[u].pc /\ job'[u].box = job[u].box
    BY <1>4 DEF After
  <2> QED
    BY <1>1, <2>1 DEF Halfway, Deleting
<1>11. ASSUME Fits(j, b)
       PROVE  job'[t].box = b /\ job'[t].pc = j.pc
  BY <1>4, <1>11 DEF After, Fits
<1>12. /\ Halfway(b)' \/ Whole(dep'[b], svc'[b])
       /\ Deleting(b)' \/ Credited(dep'[b], sec'[b])
  <2>1. CASE Fits(j, b)
    <3>1. j.pc \in HalfDone \/ Whole(dep'[b], svc'[b])
      BY <2>1 DEF Fits
    <3>2. j.pc = "deleteParts" \/ Credited(dep'[b], sec'[b])
      BY <2>1 DEF Fits
    <3>3. j.pc \in HalfDone => Halfway(b)'
      BY <1>11, <2>1 DEF Halfway
    <3>4. j.pc = "deleteParts" => Deleting(b)'
      BY <1>11, <2>1 DEF Deleting
    <3> QED
      BY <3>1, <3>2, <3>3, <3>4
  <2> QED
    BY <1>2, <2>1
<1>13. ASSUME NEW a \in Boxes
       PROVE  /\ stray'[a] = {}
              /\ Halfway(a)' \/ Whole(dep'[a], svc'[a])
              /\ Deleting(a)' \/ Credited(dep'[a], sec'[a])
  <2>1. /\ stray[a] = {}
        /\ Halfway(a) \/ Whole(dep[a], svc[a])
        /\ Deleting(a) \/ Credited(dep[a], sec[a])
    BY DEF CalmInv, BoxesWhole
  <2> QED
    BY <1>6, <1>10, <1>12, <2>1 DEF Secluded
<1>14. BoxesWhole'
  BY <1>13 DEF BoxesWhole, Whole, Credited
<1> QED
  BY <1>9, <1>14 DEF CalmInv

-----------------------------------------------------------------------------
(* Steps that leave the objects of the box as good as they were.              *)

Settled(b) ==
  /\ dep'[b].phase = dep[b].phase /\ dep'[b].tmpl = dep[b].tmpl
  /\ svc'[b] = svc[b]
  /\ sec'[b] = None => sec[b] = None

\* The hypotheses of all that follows.
Calm(t) ==
  /\ ManagerInv /\ IdentityInv /\ CalmInv /\ SingleController
  /\ job[t].pc \notin Waiting

LEMMA SteadyEnd ==
  ASSUME NEW t \in Tasks, Calm(t), job[t].pc \notin HalfDone, Settled(job[t].box),
         NEW W \in SUBSET Boxes, Ends(t, W) \/ Raises(t, W)
  PROVE  Proper(t)
<1>1. PICK b : b = job[t].box
  OBVIOUS
<1>2. Whole(dep[b], svc[b]) /\ Credited(dep[b], sec[b])
  BY <1>1, Alone DEF Calm, HalfDone
<1>3. Whole(dep'[b], svc'[b]) /\ Credited(dep'[b], sec'[b])
  BY <1>1, <1>2 DEF Settled, Whole, Credited
<1> QED
  BY <1>1, <1>3, NoJobFacts DEF Proper, Ends, Raises

LEMMA Steady ==
  ASSUME NEW t \in Tasks, Calm(t), job[t].pc \notin HalfDone, Settled(job[t].box),
         NEW W \in SUBSET Boxes, NEW j \in Jobs, Goes(t, j, W),
         j.box = job[t].box, j.op = job[t].op,
         j.pc \notin {"makeService", "undoDeployment", "undoSecret"},
         j.pc = "deleteParts" => j.parts = Parts,
         On /\ j.pc \in NamedPcs => j.id # None,
         j.pc \in Patching \cup {"makeDeployment"} /\ j.id # None => sec'[job[t].box] # None,
         j.pc \in Preparing => job[t].pc \in Preparing \/ Expects(j, dep[job[t].box])
  PROVE  Proper(t)
<1>1. PICK b : b = job[t].box
  OBVIOUS
<1>2. /\ Whole(dep[b], svc[b]) /\ Credited(dep[b], sec[b])
      /\ Orderly(job[t], dep[b], svc[b], sec[b])
  BY <1>1, Alone DEF Calm, HalfDone
<1>3. Whole(dep'[b], svc'[b]) /\ Credited(dep'[b], sec'[b])
  BY <1>1, <1>2 DEF Settled, Whole, Credited
<1>4. Orderly(j, dep'[b], svc'[b], sec'[b])
  <2>1. "service" \in Parts /\ "deployment" \in Parts
    BY DEF Parts
  <2>2. j.pc \in Preparing => Expects(j, dep'[b])
    BY <1>1, <1>2 DEF Orderly, Expects, Settled
  <2> QED
    BY <1>1, <2>1, <2>2 DEF Orderly, Settled
<1> QED
  BY <1>1, <1>3, <1>4 DEF Proper, Fits, Goes

\* The same for a change of pc, with the objects as they were.
LEMMA SteadyGo ==
  ASSUME NEW t \in Tasks, Calm(t), job[t].pc \notin HalfDone, Settled(job[t].box),
         NEW W \in SUBSET Boxes, NEW j \in Jobs, NEW pc \in Pcs,
         j.box = job[t].box, j.op = job[t].op, Goes(t, [j EXCEPT !.pc = pc], W),
         pc \notin {"makeService", "undoDeployment", "undoSecret", "deleteParts"},
         On /\ pc \in NamedPcs => j.id # None,
         pc \in Patching \cup {"makeDeployment"} /\ j.id # None => sec'[job[t].box] # None,
         pc \in Preparing => job[t].pc \in Preparing \/ Expects(j, dep[job[t].box])
  PROVE  Proper(t)
<1>1. PICK k : k = [j EXCEPT !.pc = pc]
  OBVIOUS
<1>2. k \in Jobs /\ k.pc = pc /\ k.box = j.box /\ k.op = j.op /\ k.id = j.id
  BY <1>1, PcFields
<1>3. Goes(t, k, W)
  BY <1>1
<1>4. k.pc \in Preparing => job[t].pc \in Preparing \/ Expects(k, dep[job[t].box])
  BY <1>2 DEF Expects
<1> QED
  BY <1>2, <1>3, <1>4, Steady

LEMMA IdentifiedProper ==
  ASSUME NEW t \in Tasks, Calm(t), job[t].pc \in Preparing, Settled(job[t].box),
         NEW j \in Jobs, j.box = job[t].box, j.op = job[t].op,
         On <=> j.id # None, Identified(t, j)
  PROVE  Proper(t)
<1>1. job[t].pc \notin HalfDone
  BY DEF HalfDone, Preparing, ColdPcs
<1>2. CASE Raises(t, {})
  BY <1>1, <1>2, SteadyEnd
<1>3. CASE ~Raises(t, {})
  <2>1. PICK pc \in {"readSecret", "makeDeployment"} :
          /\ Goes(t, [j EXCEPT !.pc = pc], {})
          /\ On <=> pc = "readSecret"
    BY <1>3 DEF Identified
  <2>2. pc \in Pcs
    BY DEF Pcs
  <2>3. pc \in Patching \cup {"makeDeployment"} => j.id = None
    BY <2>1 DEF Patching
  <2> QED
    BY <1>1, <2>1, <2>2, <2>3, SteadyGo
<1> QED
  BY <1>2, <1>3

LEMMA SizedProper ==
  ASSUME NEW t \in Tasks, Calm(t), job[t].pc \in Preparing, Settled(job[t].box),
         NEW j \in Jobs, j.box = job[t].box, j.op = job[t].op,
         On <=> j.id # None, Sized(t, j)
  PROVE  Proper(t)
<1>1. job[t].pc \notin HalfDone
  BY DEF HalfDone, Preparing, ColdPcs
<1>2. CASE Identified(t, j)
  BY <1>2, IdentifiedProper
<1>3. CASE j.op = "create" /\ Goes(t, [j EXCEPT !.pc = "growVolume"], {})
  <2>1. "growVolume" \in Pcs \ (Patching \cup {"makeDeployment"})
    BY DEF Pcs, Patching
  <2> QED
    BY <1>1, <1>3, <2>1, SteadyGo
<1> QED
  BY <1>2, <1>3 DEF Sized

\* Identities that are not recorded, and those that are, are identities.
LEMMA SomeIdentity == \A i \in NewIds : i \in Ids /\ i # None /\ i \in Identity
  BY ManagerAssumption DEF NewIds, Identity

LEMMA ReadVolumeProper ==
  ASSUME NEW t \in Tasks, Calm(t), ReadVolume(t)
  PROVE  Proper(t)
<1>1. /\ job[t].pc = "readVolume" /\ job[t].pc \in Preparing
      /\ job[t].pc \notin HalfDone
  BY DEF ReadVolume, At, Preparing, ColdPcs, HalfDone
<1>2. Settled(job[t].box)
  BY DEF ReadVolume, clusterVars, Settled
<1>3. job[t] \in Jobs /\ job[t].box \in Boxes /\ pvc[job[t].box] \in Volumes
  BY Inside DEF Calm
<1>4. ASSUME NEW i \in Identity, On <=> i # None, NEW j, j = [job[t] EXCEPT !.id = i],
             \/ Goes(t, [j EXCEPT !.pc = "makeVolume"], {})
             \/ Goes(t, [j EXCEPT !.pc = "stampVolume"], {})
             \/ Sized(t, j) \/ Identified(t, j)
      PROVE  Proper(t)
  <2>1. /\ j \in Jobs /\ j.box = job[t].box /\ j.op = job[t].op /\ j.id = i
    BY <1>3, <1>4, IdFields
  <2>2. {"makeVolume", "stampVolume"} \subseteq Pcs \ (Patching \cup {"makeDeployment"})
    BY DEF Pcs, Patching
  <2>3. CASE \/ Goes(t, [j EXCEPT !.pc = "makeVolume"], {})
             \/ Goes(t, [j EXCEPT !.pc = "stampVolume"], {})
    BY <1>1, <1>2, <1>4, <2>1, <2>2, <2>3, SteadyGo
  <2>4. CASE Sized(t, j) \/ Identified(t, j)
    BY <1>1, <1>2, <1>4, <2>1, <2>4, SizedProper, IdentifiedProper
  <2> QED
    BY <1>4, <2>3, <2>4
<1>5. CASE pvc[Box(t)].phase = "absent"
  <2>1. PICK i \in Identity :
          /\ On <=> i # None
          /\ \/ Goes(t, [[job[t] EXCEPT !.id = i] EXCEPT !.pc = "makeVolume"], {})
             \/ Identified(t, [job[t] EXCEPT !.id = i])
    BY <1>5, SomeIdentity DEF ReadVolume, Identity
  <2> QED
    BY <1>4, <2>1
<1>6. CASE pvc[Box(t)].phase # "absent" /\ (pvc[Box(t)].inst # None \/ ~On)
  <2>1. PICK i \in Identity : /\ On <=> i # None
                              /\ Sized(t, [job[t] EXCEPT !.id = i])
    BY <1>3, <1>6 DEF ReadVolume, Identity, Volumes, Box
  <2> QED
    BY <1>4, <2>1
<1>7. CASE pvc[Box(t)].phase # "absent" /\ pvc[Box(t)].inst = None /\ On
  <2>1. PICK i \in Identity :
          i # None /\ Goes(t, [job[t] EXCEPT !.pc = "stampVolume", !.id = i], {})
    BY <1>7, SomeIdentity DEF ReadVolume
  <2>2. PICK j : j = [job[t] EXCEPT !.id = i]
    OBVIOUS
  <2>3. [j EXCEPT !.pc = "stampVolume"] = [job[t] EXCEPT !.pc = "stampVolume", !.id = i]
    BY <1>3, <2>2 DEF Jobs
  <2>4. Goes(t, [j EXCEPT !.pc = "stampVolume"], {})
    BY <2>1, <2>3
  <2> QED
    BY <1>4, <1>7, <2>1, <2>2, <2>4
<1> QED
  BY <1>5, <1>6, <1>7

\* Recording the identity, or growing the volume.
LEMMA VolumeProper ==
  ASSUME NEW t \in Tasks, Calm(t),
         StampVolume(t) \/ MakeVolume(t) \/ GrowVolume(t)
  PROVE  Proper(t)
<1>1. /\ job[t].pc \in {"stampVolume", "makeVolume", "growVolume"}
      /\ job[t].pc \in Preparing /\ job[t].pc \notin HalfDone
  BY DEF StampVolume, MakeVolume, GrowVolume, At, Preparing, ColdPcs, HalfDone
<1>2. Settled(job[t].box)
  BY DEF StampVolume, MakeVolume, GrowVolume, clusterVars, Settled
<1>3. job[t] \in Jobs
  BY Inside DEF Calm
<1>4. On <=> job[t].id # None
  <2>1. Orderly(job[t], dep[job[t].box], svc[job[t].box], sec[job[t].box])
    BY Alone DEF Calm
  <2>2. On \/ job[t].id = None
    BY DEF Calm, IdentityInv, TasksPlaced, Placed
  <2> QED
    BY <1>1, <2>1, <2>2 DEF Orderly, NamedPcs
<1>5. Raises(t, {}) \/ Sized(t, job[t]) \/ Identified(t, job[t])
  BY DEF StampVolume, MakeVolume, GrowVolume, AnswerLost
<1> QED
  BY <1>1, <1>2, <1>3, <1>4, <1>5, SteadyEnd, SizedProper, IdentifiedProper

LEMMA CredentialedProper ==
  ASSUME NEW t \in Tasks, Calm(t),
         job[t].pc \in {"readSecret", "makeSecret", "patchSecret"},
         dep' = dep, svc' = svc, sec'[job[t].box] = job[t].id, job[t].id # None,
         Credentialed(t)
  PROVE  Proper(t)
<1>1. job[t].pc \in Preparing /\ job[t].pc \notin HalfDone /\ job[t] \in Jobs
  BY Inside DEF Calm, Preparing, ColdPcs, HalfDone
<1>2. Settled(job[t].box)
  BY DEF Settled
<1>3. CASE Ends(t, {})
  BY <1>1, <1>2, <1>3, SteadyEnd
<1>4. CASE ~Ends(t, {})
  <2>1. PICK pc \in {"makeDeployment", "patchMark", "patchTemplate", "patchScale",
                     "markRestart"} : Goes(t, [job[t] EXCEPT !.pc = pc], {})
    BY <1>4 DEF Credentialed, Verdict, To
  <2>2. pc \in Pcs \ NamedPcs
    BY DEF Pcs, NamedPcs
  <2> QED
    BY <1>1, <1>2, <2>1, <2>2, SteadyGo
<1> QED
  BY <1>3, <1>4

LEMMA RetriesProper ==
  ASSUME NEW t \in Tasks, Calm(t), job[t].pc \notin HalfDone, Settled(job[t].box),
         Retries(t)
  PROVE  Proper(t)
<1>1. job[t] \in Jobs
  BY Inside DEF Calm
<1>2. CASE job[t].tries + 1 = ScaleAttempts
  BY <1>2, SteadyEnd DEF Retries
<1>3. CASE job[t].tries + 1 # ScaleAttempts
  <2>1. PICK k : k = [job[t] EXCEPT !.pc = "readDeployment", !.tries = @ + 1]
    OBVIOUS
  <2>2. k \in Jobs /\ k.pc = "readDeployment" /\ k.box = job[t].box /\ k.op = job[t].op
    BY <1>1, <1>3, <2>1, RetryFields
  <2>3. Goes(t, k, {})
    BY <1>3, <2>1 DEF Retries
  <2>4. "readDeployment" \notin Preparing \cup NamedPcs \cup Patching
    BY DEF Preparing, ColdPcs, NamedPcs, Patching
  <2> QED
    BY <2>2, <2>3, <2>4, Steady
<1> QED
  BY <1>2, <1>3

\* Reading, making and patching the Secret.
LEMMA SecretProper ==
  ASSUME NEW t \in Tasks, Calm(t), ReadSecret(t) \/ WriteSecret(t) \/ SecretMoved(t)
  PROVE  Proper(t)
<1>1. /\ job[t].pc \in {"readSecret", "makeSecret", "patchSecret"}
      /\ job[t].pc \in Preparing /\ job[t].pc \notin HalfDone
      /\ dep' = dep /\ svc' = svc
  BY DEF ReadSecret, WriteSecret, SecretMoved, At, Preparing, ColdPcs, HalfDone, clusterVars
<1>2. /\ job[t] \in Jobs /\ job[t].box \in Boxes /\ sec \in [Boxes -> Identity]
      /\ On /\ job[t].id # None
  <2>1. Orderly(job[t], dep[job[t].box], svc[job[t].box], sec[job[t].box])
    BY Alone DEF Calm
  <2>2. On
    BY <1>1, InsidePlaced DEF Calm, Placed, CollectingPcs
  <2> QED
    BY <1>1, <2>1, <2>2, Inside DEF Calm, Orderly, NamedPcs
<1>3. ASSUME sec' = sec,
             \/ Raises(t, {}) \/ Retries(t)
             \/ Goes(t, To(t, "makeSecret"), {}) \/ Goes(t, To(t, "patchSecret"), {})
      PROVE  Proper(t)
  <2>1. Settled(job[t].box)
    BY <1>1, <1>3 DEF Settled
  <2>2. {"makeSecret", "patchSecret"} \subseteq Pcs \ (Patching \cup {"makeDeployment"})
    BY DEF Pcs, Patching
  <2>3. CASE Goes(t, To(t, "makeSecret"), {}) \/ Goes(t, To(t, "patchSecret"), {})
    BY <1>1, <1>2, <2>1, <2>2, <2>3, SteadyGo DEF To
  <2> QED
    BY <1>1, <1>3, <2>1, <2>3, SteadyEnd, RetriesProper
<1>4. CASE ReadSecret(t)
  <2>1. sec' = sec
    BY <1>4 DEF ReadSecret, clusterVars
  <2>2. CASE sec[job[t].box] = job[t].id
    BY <1>1, <1>2, <1>4, <2>1, <2>2, CredentialedProper DEF ReadSecret, Box
  <2>3. CASE sec[job[t].box] # job[t].id
    BY <1>3, <1>4, <2>1, <2>3 DEF ReadSecret, Box
  <2> QED
    BY <2>2, <2>3
<1>5. CASE WriteSecret(t)
  <2>1. sec'[job[t].box] = job[t].id
    BY <1>2, <1>5 DEF WriteSecret, Box
  <2>2. Settled(job[t].box)
    BY <1>1, <1>2, <2>1 DEF Settled
  <2>3. CASE Raises(t, {})
    BY <1>1, <2>2, <2>3, SteadyEnd
  <2>4. CASE Credentialed(t)
    BY <1>1, <1>2, <2>1, <2>4, CredentialedProper
  <2> QED
    BY <1>5, <2>3, <2>4 DEF WriteSecret, AnswerLost
<1>6. CASE SecretMoved(t)
  <2>1. sec' = sec
    BY <1>6 DEF SecretMoved, clusterVars
  <2> QED
    BY <1>3, <1>6, <2>1 DEF SecretMoved
<1> QED
  BY <1>4, <1>5, <1>6

\* The first call under the lock.
LEMMA ReadingProper ==
  ASSUME NEW t \in Tasks, Calm(t),
         \/ CreateReads(t) \/ ScaleReads(t) \/ DeleteReads(t)
         \/ ReconcileReads(t) \/ ExpireReads(t)
  PROVE  Proper(t)
<1>1. job[t].pc = "readDeployment" /\ job[t].pc \notin HalfDone /\ Settled(job[t].box)
  BY DEF CreateReads, ScaleReads, DeleteReads, ReconcileReads, ExpireReads, At, HalfDone,
         clusterVars, Settled
<1>2. /\ job[t] \in Jobs /\ job[t].box \in Boxes
      /\ dep[job[t].box] \in Deployments
  BY Inside DEF Calm
<1>3. CASE Raises(t, {}) \/ Ends(t, {})
  BY <1>1, <1>3, SteadyEnd
<1>4. {"readVolume", "patchScale", "patchExpired", "deleteParts"}
        \subseteq Pcs \ (NamedPcs \cup Patching \cup {"makeDeployment"})
  BY DEF Pcs, NamedPcs, Patching
<1>5. "patchScale" \notin Preparing /\ "patchExpired" \notin Preparing
      /\ "deleteParts" \notin Preparing
  BY DEF Preparing, ColdPcs
<1>6. CASE CreateReads(t) /\ ~Raises(t, {})
  <2>1. /\ Goes(t, [job[t] EXCEPT !.pc = "readVolume"], {})
        /\ Expects(job[t], dep[job[t].box])
    BY <1>6 DEF CreateReads, To, Box, Expects
  <2> QED
    BY <1>1, <1>2, <1>4, <2>1, SteadyGo
<1>7. ASSUME NEW pc \in {"readVolume", "patchScale", "patchExpired"},
             Goes(t, Copied(job[t], pc, dep[job[t].box]), {}),
             pc = "readVolume" => Expects(job[t], dep[job[t].box])
      PROVE  Proper(t)
  <2>1. PICK k : k = Copied(job[t], pc, dep[job[t].box])
    OBVIOUS
  <2>2. k \in Jobs /\ k.pc = pc /\ k.box = job[t].box /\ k.op = job[t].op
    BY <1>2, <1>4, <2>1, CopyFields
  <2>3. Goes(t, k, {})
    BY <1>7, <2>1
  <2>4. k.pc \in Preparing => Expects(k, dep[job[t].box])
    BY <1>5, <1>7, <2>2 DEF Expects
  <2> QED
    BY <1>1, <1>4, <2>2, <2>3, <2>4, Steady
<1>8. CASE ScaleReads(t) /\ ~Raises(t, {})
  <2>1. PICK pc \in {"readVolume", "patchScale"} :
          Goes(t, Copied(job[t], pc, dep[job[t].box]), {})
    BY <1>8 DEF ScaleReads, Box, Copied
  <2> QED
    BY <1>7, <1>8, <2>1 DEF ScaleReads, Expects
<1>9. CASE ReconcileReads(t) /\ ~Ends(t, {})
  BY <1>7, <1>9 DEF ReconcileReads, Box, Copied, Expects
<1>10. CASE ExpireReads(t) /\ ~Ends(t, {})
  BY <1>7, <1>10 DEF ExpireReads, Box, Copied
<1>11. CASE DeleteReads(t) /\ ~Raises(t, {})
  <2>1. PICK k : k = [job[t] EXCEPT !.pc = "deleteParts", !.parts = Parts]
    OBVIOUS
  <2>2. /\ k \in Jobs /\ k.pc = "deleteParts" /\ k.box = job[t].box
        /\ k.op = job[t].op /\ k.parts = Parts
    BY <1>2, <2>1 DEF Jobs, Pcs
  <2>3. Goes(t, k, {})
    BY <1>11, <2>1 DEF DeleteReads
  <2> QED
    BY <1>1, <1>4, <1>5, <2>2, <2>3, Steady
<1> QED
  BY <1>3, <1>6, <1>8, <1>9, <1>10, <1>11

-----------------------------------------------------------------------------
(* Steps that write the Deployment, the Service or the Secret.                *)

\* A patch of the Deployment that keeps its phase and its template.
LEMMA PatchedProper ==
  ASSUME NEW t \in Tasks, Calm(t),
         \/ PatchScale(t) \/ MarkRestart(t) \/ PatchExpired(t)
  PROVE  Proper(t)
<1>1. /\ job[t].pc \in {"patchScale", "markRestart", "patchExpired"}
      /\ job[t].pc \notin HalfDone /\ svc' = svc /\ sec' = sec
  BY DEF PatchScale, MarkRestart, PatchExpired, At, HalfDone
<1>2. /\ job[t] \in Jobs /\ job[t].box \in Boxes /\ {job[t].box} \in SUBSET Boxes
      /\ dep \in [Boxes -> Deployments]
  BY Inside DEF Calm, ManagerInv, TypeOK
<1>3. PICK d \in Deployments : d = dep[job[t].box]
  BY <1>2
<1>4. Settled(job[t].box)
  <2>1. CASE dep' = dep
    BY <1>1, <2>1 DEF Settled
  <2>2. ASSUME NEW e, dep' = [dep EXCEPT ![job[t].box] = e],
               \/ e = [d EXCEPT !.replicas = 1, !.expires = now + Ttl, !.auto = FALSE]
               \/ e = [d EXCEPT !.replicas = 0]
               \/ e = [d EXCEPT !.mark = "restart_required", !.inst = job[t].id]
               \/ e = [d EXCEPT !.replicas = 0, !.auto = TRUE]
        PROVE  Settled(job[t].box)
    <3>1. e.phase = d.phase /\ e.tmpl = d.tmpl
      BY <2>2 DEF Deployments
    <3> QED
      BY <1>1, <1>2, <1>3, <2>2, <3>1 DEF Settled
  <2>3. CASE PatchScale(t)
    BY <1>3, <2>2, <2>3 DEF PatchScale, Scaled, Box
  <2>4. CASE MarkRestart(t)
    <3>1. dep' = dep \/ dep' = [dep EXCEPT ![job[t].box] =
                                  [d EXCEPT !.mark = "restart_required", !.inst = job[t].id]]
      BY <1>2, <1>3, <2>4 DEF MarkRestart, Box, Deployments
    <3> QED
      BY <2>1, <2>2, <3>1
  <2>5. CASE PatchExpired(t)
    <3>1. dep' = dep \/ dep' = [dep EXCEPT ![job[t].box] =
                                  [d EXCEPT !.replicas = 0, !.auto = TRUE]]
      BY <1>2, <1>3, <2>5 DEF PatchExpired, Box, Deployments
    <3> QED
      BY <2>1, <2>2, <3>1
  <2> QED
    BY <2>3, <2>4, <2>5
<1>5. PICK W \in {{}, {job[t].box}} :
        Ends(t, W) \/ Raises(t, W) \/ Goes(t, [job[t] EXCEPT !.pc = "respond"], W)
  BY DEF PatchScale, MarkRestart, PatchExpired, AnswerLost, Box, To
<1>6. "respond" \in Pcs \ (NamedPcs \cup Preparing \cup Patching)
  BY DEF Pcs, NamedPcs, Preparing, ColdPcs, Patching
<1> QED
  BY <1>1, <1>2, <1>4, <1>5, <1>6, SteadyEnd, SteadyGo

\* Calls that change none of the three objects.
LEMMA PlainProper ==
  ASSUME NEW t \in Tasks, Calm(t),
         \/ RereadDeployment(t) \/ ScaleConflicts(t) \/ Respond(t) \/ DeleteVolume(t)
  PROVE  Proper(t)
<1>1. /\ job[t].pc \notin HalfDone /\ Settled(job[t].box)
  BY DEF RereadDeployment, ScaleConflicts, Respond, DeleteVolume, At, HalfDone, Settled,
         clusterVars
<1>2. /\ job[t] \in Jobs /\ dep[job[t].box] \in Deployments
  BY Inside DEF Calm
<1>3. CASE Ends(t, {}) \/ Raises(t, {}) \/ Retries(t)
  BY <1>1, <1>3, SteadyEnd, RetriesProper
<1>4. CASE Goes(t, Copied(job[t], "patchScale", dep[job[t].box]), {})
  <2>1. "patchScale" \in Pcs \ (NamedPcs \cup Preparing \cup Patching)
    BY DEF Pcs, NamedPcs, Preparing, ColdPcs, Patching
  <2>2. PICK k : k = Copied(job[t], "patchScale", dep[job[t].box])
    OBVIOUS
  <2>3. k \in Jobs /\ k.pc = "patchScale" /\ k.box = job[t].box /\ k.op = job[t].op
    BY <1>2, <2>1, <2>2, CopyFields
  <2>4. Goes(t, k, {})
    BY <1>4, <2>2
  <2>5. "patchScale" \notin Preparing \cup {"makeDeployment"}
    BY <2>1 DEF Preparing
  <2> QED
    BY <1>1, <2>1, <2>3, <2>4, <2>5, Steady
<1> QED
  BY <1>3, <1>4
  DEF RereadDeployment, ScaleConflicts, Respond, DeleteVolume, Box, Copied

\* The Insights patch: its template is that of an identity with a Secret.
LEMMA PreparedProper ==
  ASSUME NEW t \in Tasks, Calm(t), PatchPrepared(t)
  PROVE  Proper(t)
<1>1. PICK b : b = job[t].box
  OBVIOUS
<1>2. /\ job[t].pc \in Patching /\ job[t].pc \notin HalfDone /\ job[t].pc # "deleteParts"
      /\ svc' = svc /\ sec' = sec
  BY DEF PatchPrepared, At, Patching, HalfDone
<1>3. /\ job[t] \in Jobs /\ b \in Boxes /\ {b} \in SUBSET Boxes
      /\ dep \in [Boxes -> Deployments]
      /\ Whole(dep[b], svc[b]) /\ Credited(dep[b], sec[b])
      /\ Orderly(job[t], dep[b], svc[b], sec[b])
  BY <1>1, <1>2, Inside, Alone DEF Calm, ManagerInv, TypeOK
<1>4. CASE dep' = dep /\ Raises(t, {})
  <2>1. Settled(job[t].box)
    BY <1>2, <1>4 DEF Settled
  <2> QED
    BY <1>2, <1>4, <2>1, SteadyEnd
<1>5. CASE ~(dep' = dep /\ Raises(t, {}))
  <2>1. PICK d \in Deployments : d = dep[b]
    BY <1>3
  <2>2. PICK e : /\ dep' = [dep EXCEPT ![b] = e]
                 /\ LET prepared == [d EXCEPT !.inst = job[t].id, !.mark = "collecting"]
                    IN \/ e = prepared
                       \/ e = [prepared EXCEPT !.tmpl = [inst |-> job[t].id, cfg |-> cfg]]
    BY <1>1, <1>5, <2>1 DEF PatchPrepared, Box
  <2>3. /\ e.phase = d.phase
        /\ e.tmpl = d.tmpl \/ e.tmpl.inst = job[t].id
    <3>1. PICK p : p = [d EXCEPT !.inst = job[t].id, !.mark = "collecting"]
      OBVIOUS
    <3>2. p \in Deployments /\ p.phase = d.phase /\ p.tmpl = d.tmpl
      BY <1>3, <3>1 DEF Deployments, Jobs
    <3>3. e = p \/ e = [p EXCEPT !.tmpl = [inst |-> job[t].id, cfg |-> cfg]]
      BY <2>2, <3>1
    <3> QED
      BY <3>2, <3>3 DEF Deployments
  <2>4. Whole(dep'[b], svc'[b]) /\ Credited(dep'[b], sec'[b])
    <3>1. job[t].id # None => sec[b] # None
      BY <1>2, <1>3 DEF Orderly
    <3> QED
      BY <1>2, <1>3, <2>1, <2>2, <2>3, <3>1 DEF Whole, Credited
  <2>5. CASE Raises(t, {b})
    BY <1>1, <1>3, <2>4, <2>5, NoJobFacts DEF Proper, Raises
  <2>6. CASE Goes(t, To(t, "rereadDeployment"), {b})
    <3>1. PICK k : k = [job[t] EXCEPT !.pc = "rereadDeployment"]
      OBVIOUS
    <3>2. "rereadDeployment" \in Pcs
      BY DEF Pcs
    <3>3. k \in Jobs /\ k.pc = "rereadDeployment" /\ k.box = b
      BY <1>1, <1>3, <3>1, <3>2, PcFields
    <3>4. Moves(t, k, {b})
      BY <2>6, <3>1 DEF Goes, To
    <3>5. Orderly(k, dep'[b], svc'[b], sec'[b])
      BY <3>3 DEF Orderly, NamedPcs, Patching, Preparing, ColdPcs
    <3> QED
      BY <1>1, <1>3, <2>4, <3>3, <3>4, <3>5 DEF Proper, Fits
  <2> QED
    BY <1>1, <1>5, <2>5, <2>6 DEF PatchPrepared, AnswerLost, Box
<1> QED
  BY <1>4, <1>5

\* The except clauses go on to the Secret when nothing else is left.
LEMMA UndoProper ==
  ASSUME NEW t \in Tasks, Calm(t), NEW W \in SUBSET Boxes, UndoSecret(t, W),
         ~svc'[job[t].box], dep'[job[t].box].phase # "live"
  PROVE  Proper(t)
<1>1. PICK b : b = job[t].box
  OBVIOUS
<1>2. Whole(dep'[b], svc'[b]) /\ Credited(dep'[b], sec'[b])
  BY <1>1 DEF Whole, Credited
<1>3. CASE Raises(t, W)
  BY <1>1, <1>2, <1>3, NoJobFacts DEF Proper, Raises
<1>4. CASE Goes(t, To(t, "undoSecret"), W)
  <2>1. PICK k : k = [job[t] EXCEPT !.pc = "undoSecret"]
    OBVIOUS
  <2>2. "undoSecret" \in Pcs
    BY DEF Pcs
  <2>3. k \in Jobs /\ k.pc = "undoSecret" /\ k.box = b
    BY <1>1, <2>1, <2>2, Inside, PcFields DEF Calm
  <2>4. Moves(t, k, W)
    BY <1>4, <2>1 DEF Goes, To
  <2>5. Orderly(k, dep'[b], svc'[b], sec'[b])
    BY <1>1, <2>3 DEF Orderly, NamedPcs, Patching, Preparing, ColdPcs
  <2> QED
    BY <1>1, <1>2, <2>3, <2>4, <2>5 DEF Proper, Fits
<1> QED
  BY <1>3, <1>4 DEF UndoSecret

\* create_namespaced_deployment finds none, so it succeeds or is refused.
LEMMA MakeDeploymentProper ==
  ASSUME NEW t \in Tasks, Calm(t), faults' = 0,
         \/ MakeDeployment(t)
         \/ At(t, "makeDeployment") /\ UndoSecret(t, {}) /\ UNCHANGED clusterVars
  PROVE  Proper(t)
<1>1. PICK b : b = job[t].box
  OBVIOUS
<1>2. /\ job[t].pc = "makeDeployment" /\ job[t].pc \in Preparing
      /\ job[t].pc \notin HalfDone /\ svc' = svc /\ sec' = sec
  BY DEF MakeDeployment, At, Preparing, HalfDone, clusterVars
<1>3. /\ job[t] \in Jobs /\ b \in Boxes /\ {b} \in SUBSET Boxes
      /\ dep \in [Boxes -> Deployments] /\ faults \in Nat
      /\ job[t].op = "create"
  BY <1>1, Inside DEF Calm, ManagerInv, TypeOK, MakeDeployment, At, IdentityInv,
                      TasksPlaced, Placed
<1>4. /\ dep[b].phase = "absent" /\ ~svc[b]
      /\ job[t].id # None => sec[b] # None
  <2>1. Whole(dep[b], svc[b]) /\ Orderly(job[t], dep[b], svc[b], sec[b])
    BY <1>1, <1>2, Alone DEF Calm
  <2> QED
    BY <1>2, <1>3, <2>1 DEF Whole, Orderly, Expects
<1>5. CASE UndoSecret(t, {}) /\ dep' = dep
  BY <1>1, <1>2, <1>4, <1>5, UndoProper
<1>6. CASE MakeDeployment(t)
  <2>1. dep' = [dep EXCEPT ![b] = Built(t)] /\ Goes(t, To(t, "makeService"), {b})
    BY <1>1, <1>3, <1>4, <1>6 DEF MakeDeployment, Spend, Box
  <2>2. dep'[b] = Built(t)
    BY <1>3, <2>1
  <2>3. Built(t).phase = "live" /\ Built(t).tmpl.inst = job[t].id
    BY DEF Built
  <2>4. PICK k : k = [job[t] EXCEPT !.pc = "makeService"]
    OBVIOUS
  <2>5. "makeService" \in Pcs
    BY DEF Pcs
  <2>6. k \in Jobs /\ k.pc = "makeService" /\ k.box = b
    BY <1>1, <1>3, <2>4, <2>5, PcFields
  <2>7. Moves(t, k, {b})
    BY <2>1, <2>4 DEF Goes, To
  <2>8. Orderly(k, dep'[b], svc'[b], sec'[b])
    BY <1>2, <1>4, <2>2, <2>3, <2>6 DEF Orderly, NamedPcs, Patching, Preparing, ColdPcs
  <2>9. Credited(dep'[b], sec'[b])
    BY <1>2, <1>4, <2>2, <2>3 DEF Credited
  <2>10. k.pc \in HalfDone
    BY <2>6 DEF HalfDone
  <2> QED
    BY <1>1, <1>3, <2>6, <2>7, <2>8, <2>9, <2>10 DEF Proper, Fits
<1> QED
  BY <1>5, <1>6 DEF clusterVars

\* create_namespaced_service finds none; if it is refused, the Deployment goes.
LEMMA MakeServiceProper ==
  ASSUME NEW t \in Tasks, Calm(t), faults' = 0,
         \/ MakeService(t)
         \/ /\ At(t, "makeService") /\ Goes(t, To(t, "undoDeployment"), {})
            /\ UNCHANGED clusterVars
  PROVE  Proper(t)
<1>1. PICK b : b = job[t].box
  OBVIOUS
<1>2. job[t].pc = "makeService" /\ dep' = dep /\ sec' = sec
  BY DEF MakeService, At, clusterVars
<1>3. /\ job[t] \in Jobs /\ b \in Boxes /\ faults \in Nat
      /\ svc \in [Boxes -> BOOLEAN]
  BY <1>1, Inside DEF Calm
<1>4. /\ dep[b].phase = "live" /\ ~svc[b]
      /\ Credited(dep[b], sec[b])
  <2>1. Orderly(job[t], dep[b], svc[b], sec[b]) /\ Credited(dep[b], sec[b])
    BY <1>1, <1>2, Alone DEF Calm
  <2> QED
    BY <1>2, <2>1 DEF Orderly
<1>5. PICK pc \in {"respond", "undoDeployment"} :
        /\ Goes(t, To(t, pc), {})
        /\ pc = "respond" => svc' = [svc EXCEPT ![b] = TRUE]
        /\ pc = "undoDeployment" => svc' = svc
  BY <1>1, <1>3, <1>4 DEF MakeService, Spend, Box, clusterVars
<1>6. PICK k : k = [job[t] EXCEPT !.pc = pc]
  OBVIOUS
<1>7. pc \in Pcs
  BY DEF Pcs
<1>8. k \in Jobs /\ k.pc = pc /\ k.box = b
  BY <1>1, <1>3, <1>6, <1>7, PcFields
<1>9. Moves(t, k, {})
  BY <1>5, <1>6 DEF Goes, To
<1>10. pc = "respond" => svc'[b]
  BY <1>3, <1>5
<1>11. Orderly(k, dep'[b], svc'[b], sec'[b])
  BY <1>2, <1>4, <1>5, <1>8
  DEF Orderly, NamedPcs, Patching, Preparing, ColdPcs
<1>12. k.pc \in HalfDone \/ Whole(dep'[b], svc'[b])
  BY <1>2, <1>4, <1>8, <1>10 DEF HalfDone, Whole
<1>13. Credited(dep'[b], sec'[b])
  BY <1>2, <1>4
<1> QED
  BY <1>1, <1>8, <1>9, <1>11, <1>12, <1>13 DEF Proper, Fits

\* The end of a create that is undone.
LEMMA UndoingProper ==
  ASSUME NEW t \in Tasks, Calm(t), UndoDeployment(t) \/ FinishUndo(t)
  PROVE  Proper(t)
<1>1. PICK b : b = job[t].box
  OBVIOUS
<1>2. job[t].pc \in {"undoDeployment", "undoSecret"} /\ svc' = svc
  BY DEF UndoDeployment, FinishUndo, At
<1>3. /\ b \in Boxes /\ {b} \in SUBSET Boxes /\ dep \in [Boxes -> Deployments]
      /\ Orderly(job[t], dep[b], svc[b], sec[b])
  BY <1>1, Inside, Alone DEF Calm, ManagerInv, TypeOK
<1>4. ~svc'[b]
  BY <1>2, <1>3 DEF Orderly
<1>5. CASE UndoDeployment(t)
  <2>1. dep'[b] = Doomed(b)
    BY <1>1, <1>3, <1>5 DEF UndoDeployment, Box
  <2>2. Doomed(b).phase # "live"
    <3>1. PICK d \in Deployments : d = dep[b]
      BY <1>3
    <3>2. [d EXCEPT !.phase = "deleting"].phase = "deleting"
      BY DEF Deployments
    <3> QED
      BY <3>1, <3>2 DEF Doomed
  <2>3. UndoSecret(t, {b}) \/ Raises(t, {b})
    BY <1>1, <1>5 DEF UndoDeployment, AnswerLost, Box
  <2>4. CASE Raises(t, {b})
    <3>1. Whole(dep'[b], svc'[b]) /\ Credited(dep'[b], sec'[b])
      BY <1>4, <2>1, <2>2 DEF Whole, Credited
    <3> QED
      BY <1>1, <1>3, <2>4, <3>1, NoJobFacts DEF Proper, Raises
  <2> QED
    BY <1>1, <1>3, <1>4, <2>1, <2>2, <2>3, <2>4, UndoProper
<1>6. CASE FinishUndo(t)
  <2>1. job[t].pc = "undoSecret" /\ dep' = dep /\ Raises(t, {})
    BY <1>6 DEF FinishUndo, At
  <2>2. dep'[b].phase # "live"
    BY <1>3, <2>1 DEF Orderly
  <2>3. Whole(dep'[b], svc'[b]) /\ Credited(dep'[b], sec'[b])
    BY <1>4, <2>2 DEF Whole, Credited
  <2> QED
    BY <1>1, <2>1, <2>3, NoJobFacts DEF Proper, Raises
<1> QED
  BY <1>5, <1>6

\* One deletion of the gather; after the last of them nothing is left.
LEMMA DeletePartProper ==
  ASSUME NEW t \in Tasks, Calm(t), faults' = 0, NEW p \in Parts, DeletePart(t, p)
  PROVE  Proper(t)
<1>1. PICK b : b = job[t].box
  OBVIOUS
<1>2. job[t].pc = "deleteParts" /\ p \in job[t].parts /\ Erase(b, p)
  BY <1>1 DEF DeletePart, At, Box
<1>3. /\ b \in Boxes /\ job[t] \in Jobs /\ dep \in [Boxes -> Deployments]
      /\ svc \in [Boxes -> BOOLEAN] /\ sec \in [Boxes -> Identity]
      /\ Orderly(job[t], dep[b], svc[b], sec[b]) /\ faults \in Nat
      /\ job[t].parts \in SUBSET Parts
  BY <1>1, Inside, Alone DEF Calm, ManagerInv, TypeOK, Jobs
<1>4. PICK W \in SUBSET Boxes : W = Touched(b, p)
  BY <1>3 DEF Touched
<1>5. Doomed(b).phase # "live"
  <2>1. PICK d \in Deployments : d = dep[b]
    BY <1>3
  <2>2. [d EXCEPT !.phase = "deleting"].phase = "deleting"
    BY DEF Deployments
  <2> QED
    BY <2>1, <2>2 DEF Doomed
<1>6. /\ "service" \notin job[t].parts \ {p} => ~svc'[b]
      /\ "deployment" \notin job[t].parts \ {p} => dep'[b].phase # "live"
  <2>1. /\ "service" \notin job[t].parts => ~svc[b]
        /\ "deployment" \notin job[t].parts => dep[b].phase # "live"
    BY <1>2, <1>3 DEF Orderly
  <2>2. /\ p = "deployment" => dep'[b] = Doomed(b)
        /\ p # "deployment" => dep' = dep
    BY <1>2, <1>3 DEF Erase
  <2>3. /\ p = "service" => ~svc'[b]
        /\ p # "service" => svc' = svc
    BY <1>2, <1>3 DEF Erase
  <2> QED
    BY <1>5, <2>1, <2>2, <2>3
<1>7. CASE job[t].parts # {p}
  <2>1. PICK k : k = [job[t] EXCEPT !.parts = @ \ {p}]
    OBVIOUS
  <2>2. /\ k \in Jobs /\ k.pc = "deleteParts" /\ k.box = b
        /\ k.parts = job[t].parts \ {p}
    BY <1>1, <1>2, <1>3, <2>1 DEF Jobs
  <2>3. Moves(t, k, W)
    BY <1>1, <1>3, <1>4, <1>7, <2>1 DEF DeletePart, Scatter, Spend, Goes, Box
  <2>4. Orderly(k, dep'[b], svc'[b], sec'[b])
    BY <1>6, <2>2 DEF Orderly, NamedPcs, Patching, Preparing, ColdPcs
  <2>5. k.pc \in HalfDone
    BY <2>2 DEF HalfDone
  <2> QED
    BY <1>1, <2>2, <2>3, <2>4, <2>5 DEF Proper, Fits
<1>8. CASE job[t].parts = {p}
  <2>1. Whole(dep'[b], svc'[b]) /\ Credited(dep'[b], sec'[b])
    BY <1>6, <1>8 DEF Whole, Credited
  <2>2. CASE Ends(t, W)
    BY <1>1, <2>1, <2>2, NoJobFacts DEF Proper, Ends
  <2>3. CASE Goes(t, [job[t] EXCEPT !.pc = "deleteVolume", !.parts = {}], W)
    <3>1. PICK k : k = [job[t] EXCEPT !.pc = "deleteVolume", !.parts = {}]
      OBVIOUS
    <3>2. k \in Jobs /\ k.pc = "deleteVolume" /\ k.box = b
      BY <1>1, <1>3, <3>1 DEF Jobs, Pcs
    <3>3. Moves(t, k, W)
      BY <2>3, <3>1 DEF Goes
    <3>4. Orderly(k, dep'[b], svc'[b], sec'[b])
      BY <3>2 DEF Orderly, NamedPcs, Patching, Preparing, ColdPcs
    <3> QED
      BY <1>1, <2>1, <3>2, <3>3, <3>4 DEF Proper, Fits
  <2>4. Ends(t, W) \/ Goes(t, [job[t] EXCEPT !.pc = "deleteVolume", !.parts = {}], W)
    BY <1>1, <1>3, <1>4, <1>8 DEF DeletePart, Scatter, Spend, Box
  <2> QED
    BY <2>2, <2>3, <2>4
<1> QED
  BY <1>7, <1>8

-----------------------------------------------------------------------------
(* Every step.                                                                *)

LEMMA InnerProper ==
  ASSUME NEW t \in Tasks, Calm(t), faults' = 0, Inner(t)
  PROVE  Proper(t)
<1>1. faults \in Nat
  BY DEF Calm, ManagerInv, TypeOK
<1>2. ~CallFails(t) /\ \A p \in Parts : ~DeletePartFails(t, p)
  BY <1>1 DEF CallFails, DeletePartFails, Scatter, Spend
<1>3. CASE Refused(t)
  <2>1. CASE job[t].pc \in {"makeVolume", "growVolume", "makeSecret"} /\ Raises(t, {})
    <3>1. job[t].pc \notin HalfDone
      BY <2>1 DEF HalfDone
    <3>2. Settled(job[t].box)
      BY <1>3 DEF Refused, clusterVars, Settled
    <3> QED
      BY <2>1, <3>1, <3>2, SteadyEnd
  <2> QED
    BY <1>3, <2>1, MakeDeploymentProper, MakeServiceProper DEF Refused
<1>4. CASE TaskStep(t)
  BY <1>3, <1>4, ReadVolumeProper, VolumeProper, SecretProper, ReadingProper,
     PatchedProper, PlainProper, PreparedProper, MakeDeploymentProper, MakeServiceProper,
     UndoingProper, DeletePartProper
  DEF TaskStep
<1> QED
  BY <1>2, <1>4, ReadingProper, PatchedProper DEF Inner

LEMMA InnerSecluded ==
  ASSUME ManagerInv, NEW t \in Tasks, faults' = 0, Inner(t)
  PROVE  Secluded(job[t].box)
<1>1. /\ job[t].box \in Boxes /\ faults \in Nat
      /\ svc \in [Boxes -> BOOLEAN] /\ sec \in [Boxes -> Identity]
      /\ cfg' = cfg
      /\ \A a \in Boxes : a # job[t].box => dep'[a] = dep[a]
  BY InnerInv, Inside DEF Section, Confined
<1>2. CASE TaskStep(t)
  <2>1. svc' = svc \/ \E x \in BOOLEAN : svc' = [svc EXCEPT ![job[t].box] = x]
    <3>1. svc' = svc \/ MakeService(t) \/ \E p \in Parts : DeletePart(t, p)
      BY <1>2
      DEF TaskStep, ReadVolume, StampVolume, ReadSecret, WriteSecret, SecretMoved,
          CreateReads, MakeVolume, GrowVolume, MakeDeployment, UndoDeployment,
          FinishUndo, Refused, Respond, ScaleReads, PatchPrepared, RereadDeployment,
          PatchScale, ScaleConflicts, DeleteReads, DeleteVolume, clusterVars
    <3>2. CASE MakeService(t)
      <4>1. svc' = svc \/ svc' = [svc EXCEPT ![job[t].box] = TRUE]
        BY <3>2 DEF MakeService, Box
      <4> QED
        BY <4>1
    <3>3. ASSUME NEW p \in Parts, DeletePart(t, p)
          PROVE  \/ svc' = svc
                 \/ \E x \in BOOLEAN : svc' = [svc EXCEPT ![job[t].box] = x]
      <4>1. svc' = svc \/ svc' = [svc EXCEPT ![job[t].box] = FALSE]
        BY <3>3 DEF DeletePart, Erase, Box
      <4> QED
        BY <4>1
    <3> QED
      BY <3>1, <3>2, <3>3
  <2>2. sec' = sec \/ \E i : sec' = [sec EXCEPT ![job[t].box] = i]
    BY <1>2
    DEF TaskStep, ReadVolume, StampVolume, ReadSecret, WriteSecret, SecretMoved,
        CreateReads, MakeVolume, GrowVolume, MakeDeployment, MakeService, UndoDeployment,
        FinishUndo, Refused, Respond, ScaleReads, PatchPrepared, RereadDeployment,
        PatchScale, ScaleConflicts, DeleteReads, DeletePart, Erase, DeleteVolume,
        clusterVars, Box
  <2>3. stray' = stray
    <3>1. ASSUME NEW p \in Parts, DeletePart(t, p) PROVE stray' = stray
      <4>1. ~Scatter(t, p)
        BY <1>1 DEF Scatter, Spend
      <4> QED
        BY <3>1, <4>1 DEF DeletePart
    <3> QED
      BY <1>2, <3>1
      DEF TaskStep, ReadVolume, StampVolume, ReadSecret, WriteSecret, SecretMoved,
          CreateReads, MakeVolume, GrowVolume, MakeDeployment, MakeService,
          UndoDeployment, FinishUndo, Refused, Respond, ScaleReads, PatchPrepared,
          RereadDeployment, PatchScale, ScaleConflicts, DeleteReads, DeleteVolume
  <2> QED
    BY <1>1, <2>1, <2>2, <2>3 DEF Secluded
<1>3. CASE ~TaskStep(t)
  BY <1>1, <1>3
  DEF Inner, ReconcileReads, MarkRestart, ExpireReads, PatchExpired, CallFails,
      DeletePartFails, Scatter, Spend, clusterVars, Secluded
<1> QED
  BY <1>2, <1>3

\* A step of no task inside its section, which may end a foreground deletion.
LEMMA OuterCalm ==
  ASSUME CalmInv, cfg' = cfg, stray' = stray, svc' = svc, sec' = sec,
         \A b \in Boxes : \/ dep'[b] = dep[b]
                          \/ dep[b].phase = "deleting" /\ dep'[b].phase = "absent",
         \A u \in Tasks : job[u].pc \notin Waiting => job[u].box \in Boxes,
         \A u \in Tasks :
           \/ job[u].pc \in Waiting /\ job'[u].pc \in Waiting \cup {"readDeployment"}
           \/ /\ job'[u].pc = job[u].pc /\ job'[u].op = job[u].op
              /\ job'[u].box = job[u].box /\ job'[u].id = job[u].id
              /\ job'[u].parts = job[u].parts
  PROVE  CalmInv'
<1>1. On' = On
  BY DEF On
<1>2. ASSUME NEW u \in Tasks, job'[u].pc \notin Waiting
      PROVE  Orderly(job'[u], dep'[job'[u].box], svc'[job'[u].box], sec'[job'[u].box])
  <2>1. CASE job'[u].pc = "readDeployment"
    BY <2>1 DEF Orderly, NamedPcs, Patching, Preparing, ColdPcs
  <2>2. CASE job'[u].pc # "readDeployment"
    <3>1. /\ job'[u].pc = job[u].pc /\ job'[u].op = job[u].op
          /\ job'[u].box = job[u].box /\ job'[u].id = job[u].id
          /\ job'[u].parts = job[u].parts
      BY <1>2, <2>2
    <3>2. PICK b \in Boxes : b = job[u].box
      BY <1>2, <3>1
    <3>3. Orderly(job[u], dep[b], svc[b], sec[b])
      BY <1>2, <3>1, <3>2 DEF CalmInv, TasksOrderly
    <3>4. Orderly(job[u], dep'[b], svc'[b], sec'[b])
      BY <3>3 DEF Orderly, Expects
    <3> QED
      BY <3>1, <3>2, <3>4, OrderlyByFields
  <2> QED
    BY <2>1, <2>2
<1>3. TasksOrderly'
  BY <1>1, <1>2 DEF TasksOrderly, Orderly, Expects
<1>4. \A b \in Boxes : (Halfway(b) => Halfway(b)') /\ (Deleting(b) => Deleting(b)')
  BY DEF Halfway, Deleting, HalfDone, Waiting
<1>5. ASSUME NEW b \in Boxes
      PROVE  /\ stray'[b] = {}
             /\ Halfway(b)' \/ Whole(dep'[b], svc'[b])
             /\ Deleting(b)' \/ Credited(dep'[b], sec'[b])
  <2>1. /\ stray[b] = {}
        /\ Halfway(b) \/ Whole(dep[b], svc[b])
        /\ Deleting(b) \/ Credited(dep[b], sec[b])
    BY DEF CalmInv, BoxesWhole
  <2> QED
    BY <1>4, <2>1 DEF Whole, Credited
<1>6. BoxesWhole'
  BY <1>5 DEF BoxesWhole, Whole, Credited
<1> QED
  BY <1>3, <1>6 DEF CalmInv

LEMMA DoorCalm ==
  ASSUME ManagerInv, CalmInv, NEW t \in Tasks,
         \/ \E op \in Ops, b \in Boxes : t \in Requests /\ Request(t, op, b)
         \/ Enter(t)
         \/ \E b \in Boxes : t \in Loops /\ Visit(t, b)
  PROVE  CalmInv'
<1>1. /\ job \in [Tasks -> Jobs]
      /\ \A u \in Tasks : job[u].pc \notin Waiting => job[u].box \in Boxes
  BY Inside DEF ManagerInv, TypeOK
<1>2. /\ UNCHANGED <<cfg, stray, svc, sec, dep>>
      /\ job[t].pc \in Waiting
  BY DEF Request, Enter, Visit, At, Waiting, clusterVars
<1>3. PICK j \in Jobs : /\ j.pc \in Waiting \cup {"readDeployment"}
                        /\ Moves(t, j, {})
  <2>1. ASSUME NEW b \in Boxes, NEW op \in Ops \cup {"reconcile", "expire"},
               Moves(t, [NoJob EXCEPT !.pc = "lock", !.op = op, !.box = b], {})
        PROVE  \E j \in Jobs : j.pc \in Waiting \cup {"readDeployment"} /\ Moves(t, j, {})
    <3>1. PICK j : j = [NoJob EXCEPT !.pc = "lock", !.op = op, !.box = b]
      OBVIOUS
    <3>2. j \in Jobs /\ j.pc = "lock"
      BY <2>1, <3>1, NoJobFacts DEF Jobs, NoJob, Pcs
    <3> QED
      BY <2>1, <3>1, <3>2 DEF Waiting
  <2>2. CASE Enter(t)
    <3>1. PICK j : j = [job[t] EXCEPT !.pc = "readDeployment"]
      OBVIOUS
    <3>2. j \in Jobs /\ j.pc = "readDeployment"
      BY <1>1, <3>1 DEF Jobs, Pcs
    <3> QED
      BY <2>2, <3>1, <3>2 DEF Enter, To
  <2>3. ASSUME NEW b \in Boxes, t \in Loops, Visit(t, b)
        PROVE  \E j \in Jobs : j.pc \in Waiting \cup {"readDeployment"} /\ Moves(t, j, {})
    <3>1. agenda[t].phase \in {"reconcile", "expire"}
      BY <2>3 DEF Visit, ManagerInv, TypeOK, AgendaOK, Agendas
    <3>2. Moves(t, [NoJob EXCEPT !.pc = "lock", !.op = agenda[t].phase, !.box = b], {})
      BY <2>3 DEF Visit
    <3> QED
      BY <2>1, <3>1, <3>2
  <2>4. ASSUME NEW op \in Ops, NEW b \in Boxes, Request(t, op, b)
        PROVE  \E j \in Jobs : j.pc \in Waiting \cup {"readDeployment"} /\ Moves(t, j, {})
    <3>1. Moves(t, [NoJob EXCEPT !.pc = "lock", !.op = op, !.box = b], {})
      BY <2>4 DEF Request, Goes
    <3> QED
      BY <2>1, <3>1
  <2> QED
    BY <2>2, <2>3, <2>4
<1>4. \A u \in Tasks :
        /\ job'[u].pc = After(t, j, u).pc /\ job'[u].op = After(t, j, u).op
        /\ job'[u].box = After(t, j, u).box /\ job'[u].id = After(t, j, u).id
  <2>1. /\ job' \in [Tasks -> Jobs]
        /\ \A u \in Tasks :
             /\ job'[u].pc = After(t, j, u).pc /\ job'[u].op = After(t, j, u).op
             /\ job'[u].box = After(t, j, u).box /\ job'[u].seen = After(t, j, u).seen
             /\ job'[u].id = After(t, j, u).id
             /\ job'[u].fresh => After(t, j, u).fresh /\ After(t, j, u).box \notin {}
    BY <1>1, <1>3, MovesFacts
  <2> QED
    BY <2>1
<1>5. \A u \in Tasks : job'[u].parts = After(t, j, u).parts
  BY <1>1, <1>3, MovesParts
<1> QED
  BY <1>1, <1>2, <1>3, <1>4, <1>5, OuterCalm DEF After

\* A move of no task.
LEMMA NobodyMoves ==
  ASSUME job \in [Tasks -> Jobs], NEW z, NEW j \in Jobs, NEW W, Moves(z, j, W),
         z \notin Tasks
  PROVE  \A u \in Tasks : /\ job'[u].pc = job[u].pc /\ job'[u].op = job[u].op
                          /\ job'[u].box = job[u].box /\ job'[u].id = job[u].id
                          /\ job'[u].parts = job[u].parts
<1>1. /\ job' \in [Tasks -> Jobs]
      /\ \A u \in Tasks :
           /\ job'[u].pc = After(z, j, u).pc /\ job'[u].op = After(z, j, u).op
           /\ job'[u].box = After(z, j, u).box /\ job'[u].seen = After(z, j, u).seen
           /\ job'[u].id = After(z, j, u).id
           /\ job'[u].fresh => After(z, j, u).fresh /\ After(z, j, u).box \notin W
  BY MovesFacts
<1>2. \A u \in Tasks : job'[u].parts = After(z, j, u).parts
  BY MovesParts
<1>3. \A u \in Tasks : After(z, j, u) = job[u]
  BY DEF After
<1> QED
  BY <1>1, <1>2, <1>3

\* Kubernetes completes deletions; without failures nothing else happens.
LEMMA OutsideCalm ==
  ASSUME ManagerInv, CalmInv, faults' = 0, NEW b \in Boxes,
         \/ DeploymentGone(b) \/ VolumeGone(b) \/ ForeignWrite(b)
         \/ \E p \in Parts : Straggle(b, p)
  PROVE  CalmInv'
<1>1. /\ job \in [Tasks -> Jobs] /\ dep \in [Boxes -> Deployments] /\ faults \in Nat
      /\ \A u \in Tasks : job[u].pc \notin Waiting => job[u].box \in Boxes
  BY Inside DEF ManagerInv, TypeOK
<1>2. ~ForeignWrite(b) /\ \A p \in Parts : ~Straggle(b, p)
  BY <1>1 DEF ForeignWrite, Spend, Straggle, CalmInv, BoxesWhole
<1>3. /\ UNCHANGED <<cfg, stray, svc, sec>>
      /\ \A a \in Boxes : \/ dep'[a] = dep[a]
                          \/ dep[a].phase = "deleting" /\ dep'[a].phase = "absent"
  BY <1>1, <1>2 DEF DeploymentGone, VolumeGone, NoDeployment
<1>4. ASSUME NEW u \in Tasks
      PROVE  /\ job'[u].pc = job[u].pc /\ job'[u].op = job[u].op
             /\ job'[u].box = job[u].box /\ job'[u].id = job[u].id
             /\ job'[u].parts = job[u].parts
  <2>1. CASE job' = job
    BY <2>1
  <2>2. CASE Moves(None, NoJob, {b})
    <3>1. NoJob \in Jobs /\ None \notin Tasks
      BY NoJobFacts, ManagerAssumption
    <3> QED
      BY <1>1, <2>2, <3>1, NobodyMoves
  <2> QED
    BY <1>2, <2>1, <2>2 DEF DeploymentGone, VolumeGone
<1> QED
  BY <1>1, <1>3, <1>4, OuterCalm

\* The cycle of a cleanup loop, the clock, and steps that change nothing.
LEMMA CycleCalm ==
  ASSUME ManagerInv, CalmInv, UNCHANGED <<cfg, clusterVars, job, stray>>
  PROVE  CalmInv'
<1>1. \A u \in Tasks : job[u].pc \notin Waiting => job[u].box \in Boxes
  BY Inside
<1> QED
  BY <1>1, OuterCalm DEF clusterVars

\* A step is a disturbance, which is counted, or it does not touch the count.
LEMMA FaultsCounted ==
  ASSUME ManagerInv, [Next]_vars
  PROVE  faults' = faults \/ Spend
<1>1. CASE UNCHANGED vars
  BY <1>1 DEF vars
<1>2. ASSUME NEW t \in Tasks, Inner(t) PROVE faults' = faults \/ Spend
  <2>1. CASE TaskStep(t)
    <3>1. ASSUME NEW p \in Parts, DeletePart(t, p) PROVE faults' = faults \/ Spend
      BY <3>1 DEF DeletePart, Scatter
    <3> QED
      BY <2>1, <3>1
      DEF TaskStep, ReadVolume, StampVolume, ReadSecret, WriteSecret, SecretMoved,
          CreateReads, MakeVolume, GrowVolume, MakeDeployment, MakeService,
          UndoDeployment, FinishUndo, Refused, Respond, ScaleReads, PatchPrepared,
          RereadDeployment, PatchScale, ScaleConflicts, DeleteReads, DeleteVolume,
          AnswerLost
  <2>2. CASE ~TaskStep(t)
    BY <1>2, <2>2
    DEF Inner, ReconcileReads, MarkRestart, ExpireReads, PatchExpired, CallFails,
        DeletePartFails, Scatter, AnswerLost
  <2> QED
    BY <2>1, <2>2
<1>3. CASE Next /\ ~\E t \in Tasks : Inner(t)
  BY <1>3, NextCases
  DEF Request, Enter, Visit, Wake, StartExpiring, FinishCycle, ListFails, ListTenant,
      DeploymentGone, VolumeGone, ForeignWrite, Straggle, Restart, Tick
<1> QED
  BY <1>1, <1>2, <1>3

LEMMA NextCalm ==
  ManagerInv /\ IdentityInv /\ SingleController /\ (faults = 0 => CalmInv) /\ [Next]_vars
    => (faults' = 0 => CalmInv')
<1> SUFFICES ASSUME ManagerInv, IdentityInv, SingleController, faults = 0 => CalmInv,
                    [Next]_vars, faults' = 0
             PROVE  CalmInv'
  OBVIOUS
<1>1. faults = 0 /\ CalmInv
  BY FaultsCounted DEF Spend, ManagerInv, TypeOK
<1>2. CASE UNCHANGED vars
  BY <1>1, <1>2, CycleCalm DEF vars, clusterVars
<1>3. ASSUME NEW t \in Tasks, Inner(t) PROVE CalmInv'
  <2>1. job[t].pc \notin Waiting
    BY <1>3, InnerInv DEF Section
  <2>2. Calm(t)
    BY <1>1, <2>1 DEF Calm
  <2> QED
    BY <1>1, <1>3, <2>1, <2>2, InnerProper, InnerSecluded, ProperCalm
<1>4. CASE \E t \in Tasks :
             \/ \E op \in Ops, b \in Boxes : t \in Requests /\ Request(t, op, b)
             \/ Enter(t)
             \/ \E b \in Boxes : t \in Loops /\ Visit(t, b)
  BY <1>1, <1>4, DoorCalm
<1>5. ASSUME NEW l \in Loops,
             \/ Wake(l) \/ StartExpiring(l) \/ FinishCycle(l) \/ ListFails(l)
             \/ \E tenant \in Tenants : ListTenant(l, tenant)
      PROVE  CalmInv'
  BY <1>1, <1>5, CycleCalm
  DEF Wake, StartExpiring, FinishCycle, ListFails, ListTenant
<1>6. ASSUME NEW b \in Boxes,
             \/ DeploymentGone(b) \/ VolumeGone(b) \/ ForeignWrite(b)
             \/ \E p \in Parts : Straggle(b, p)
      PROVE  CalmInv'
  BY <1>1, <1>6, OutsideCalm
<1>7. \A c \in Controllers : ~Restart(c)
  BY <1>1 DEF Restart, Spend
<1>8. CASE Tick
  BY <1>1, <1>8, CycleCalm DEF Tick
<1>9. Requests \subseteq Tasks /\ Loops \subseteq Tasks
  BY DEF Tasks
<1>10. CASE Next
  BY <1>3, <1>4, <1>5, <1>6, <1>7, <1>8, <1>9, <1>10, NextCases
<1> QED
  BY <1>2, <1>10

LEMMA IdentityInvariant == Spec => []IdentityInv
  BY InitIdentityInv, NextIdentityInv, ManagerInvariant, PTL DEF Spec

LEMMA CalmInvariant ==
  ASSUME SingleController
  PROVE  Spec => [](faults = 0 => CalmInv)
<1>1. Init => (faults = 0 => CalmInv)
  BY InitCalm
<1>2. IdentityInv /\ ManagerInv /\ (faults = 0 => CalmInv) /\ [Next]_vars
        => (faults = 0 => CalmInv)'
  BY NextCalm
<1> QED
  BY <1>1, <1>2, ManagerInvariant, IdentityInvariant, PTL DEF Spec

\* As long as nothing fails, a workspace with no operation under way has a
\* Service if and only if its Deployment is live: create undoes what it made
\* when a quota refuses the rest, and a delete waits for all its deletions.
THEOREM ComputeIsWholeHolds ==
  ASSUME SingleController
  PROVE  Spec => [](faults = 0 => ComputeIsWhole)
<1>1. ManagerInv /\ (faults = 0 => CalmInv) => (faults = 0 => ComputeIsWhole)
  <2> SUFFICES ASSUME CalmInv, NEW b \in Boxes, Quiet(b)
               PROVE  /\ Live(b) => svc[b]
                      /\ dep[b].phase = "absent" => ~svc[b]
    BY DEF ComputeIsWhole
  <2>1. ~Halfway(b)
    BY DEF Quiet, Busy, Halfway, HalfDone
  <2> QED
    BY <2>1 DEF CalmInv, BoxesWhole, Whole, Live
<1> QED
  BY <1>1, CalmInvariant, ManagerInvariant, PTL

\* As long as nothing fails, a Deployment whose pods mount the Insights Secret
\* finds it, except while its box is being deleted: with Insights on the chart
\* runs one controller, whose lock keeps the credential a task has checked or
\* written until the Deployment that refers to it is written.
THEOREM CollectorHasCredentialHolds ==
  Spec => [](faults = 0 => CollectorHasCredential)
<1>1. CASE Configs = {Off}
  <2>1. IdentityInv => (faults = 0 => CollectorHasCredential)
    BY <1>1 DEF IdentityInv, BoxesSound, Sound, CollectorHasCredential
  <2> QED
    BY <2>1, IdentityInvariant, PTL
<1>2. CASE Configs # {Off}
  <2>1. SingleController
    BY <1>2, SingleWriterAssumption DEF SingleController
  <2>2. (faults = 0 => CalmInv) => (faults = 0 => CollectorHasCredential)
    <3> SUFFICES ASSUME CalmInv, NEW b \in Boxes, Live(b), dep[b].tmpl.inst # None
                 PROVE  sec[b] # None \/ \E t \in Tasks : At(t, "deleteParts") /\ Box(t) = b
      BY DEF CollectorHasCredential
    <3> QED
      BY DEF CalmInv, BoxesWhole, Credited, Deleting, Live, At, Box
  <2>3. Spec => [](faults = 0 => CalmInv)
    BY <2>1, CalmInvariant
  <2> QED
    BY <2>2, <2>3, PTL
<1> QED
  BY <1>1, <1>2

-----------------------------------------------------------------------------

\* Only the two calls of _ensure_insights_secret make a Secret.
LEMMA SecretWritten ==
  ASSUME ManagerInv, [Next]_vars, NEW b \in Boxes, sec[b] = None, sec'[b] # None
  PROVE  \E t \in Tasks : Inner(t) /\ Box(t) = b /\ job[t].pc \in {"makeSecret", "patchSecret"}
<1>1. sec \in [Boxes -> Identity] /\ sec' # sec
  BY DEF ManagerInv, TypeOK
<1>2. ASSUME NEW a \in Boxes, NEW i, sec' = [sec EXCEPT ![a] = i]
      PROVE  a = b /\ i # None
  BY <1>1, <1>2
<1>3. ASSUME NEW a \in Boxes, NEW p \in Parts, Erase(a, p) PROVE FALSE
  BY <1>1, <1>2, <1>3 DEF Erase
<1>4. PICK t \in Tasks : Inner(t)
  <2>1. Next
    BY <1>1 DEF vars
  <2>2. \A a \in Boxes, p \in Parts : ~Straggle(a, p)
    BY <1>3 DEF Straggle
  <2> QED
    BY <1>1, <2>1, <2>2, NextCases
    DEF Request, Goes, Enter, Visit, Wake, StartExpiring, FinishCycle, ListFails,
        ListTenant, DeploymentGone, VolumeGone, ForeignWrite, Restart, Tick, clusterVars
<1>5. Box(t) \in Boxes
  BY <1>4, InnerInv, Inside DEF Section, Box
<1>6. \A p \in Parts : ~DeletePart(t, p)
  BY <1>3, <1>5 DEF DeletePart
<1>7. ~FinishUndo(t)
  BY <1>2, <1>5 DEF FinishUndo
<1>8. CASE TaskStep(t)
  <2>1. WriteSecret(t)
    BY <1>1, <1>6, <1>7, <1>8
    DEF TaskStep, ReadVolume, StampVolume, ReadSecret, SecretMoved, CreateReads,
        MakeVolume, GrowVolume, MakeDeployment, MakeService, UndoDeployment, Refused,
        Respond, ScaleReads, PatchPrepared, RereadDeployment, PatchScale,
        ScaleConflicts, DeleteReads, DeleteVolume, clusterVars
  <2>2. Box(t) = b
    BY <1>2, <1>5, <2>1 DEF WriteSecret
  <2> QED
    BY <1>4, <2>1, <2>2 DEF WriteSecret, At
<1>9. CASE ~TaskStep(t)
  BY <1>1, <1>4, <1>9
  DEF Inner, ReconcileReads, MarkRestart, ExpireReads, PatchExpired, CallFails,
      DeletePartFails, clusterVars
<1> QED
  BY <1>8, <1>9

LEMMA RevivesNothing ==
  ASSUME ManagerInv, IdentityInv, Configs # {Off} => CalmInv, [Next]_vars,
         NEW b \in Boxes, sec[b] = None, sec'[b] # None, NEW l \in Loops, Busy(l, b)
  PROVE  Live(b)
<1>1. PICK t \in Tasks : Box(t) = b /\ job[t].pc \in {"makeSecret", "patchSecret"}
  BY SecretWritten
<1>2. Configs # {Off}
  BY <1>1 DEF IdentityInv, TasksPlaced, Placed, CollectingPcs, On, ManagerInv, TypeOK
<1>3. /\ l \in Tasks /\ job[l].pc \notin Waiting /\ job[l].box = b
      /\ job[t].pc \notin Waiting /\ job[t].box = b
  BY <1>1 DEF Busy, Waiting, Tasks, Box
<1>4. t = l
  BY <1>2, <1>3, SingleWriterAssumption, ManagerAssumption DEF ManagerInv, Owned
<1>5. job[l].pc \in ColdPcs /\ job[l].pc \in Preparing
  BY <1>1, <1>4 DEF ColdPcs, Preparing
<1>6. job[l].op = "reconcile"
  BY <1>3, <1>5 DEF ManagerInv, LocalOK, ColdView, Cold, Waiting
<1>7. Orderly(job[l], dep[b], svc[b], sec[b])
  BY <1>2, <1>3 DEF CalmInv, TasksOrderly
<1> QED
  BY <1>5, <1>6, <1>7 DEF Orderly, Expects, Live

\* Without failures the cleanup loop never gives a workspace that was deleted
\* its Secret back: it reads the Deployment again under the lock, and no delete
\* can begin between that and its write of the Secret.
THEOREM ReconcileNeverRevivesHolds ==
  ASSUME MaxFaults = 0
  PROVE  Spec => ReconcileNeverRevives
<1>1. Init => faults = 0
  BY DEF Init
<1>2. ManagerInv /\ faults = 0 /\ [Next]_vars => (faults = 0)'
  BY FaultsCounted DEF Spend
<1>3. Spec => [](faults = 0)
  BY <1>1, <1>2, ManagerInvariant, PTL DEF Spec
<1>4. Spec => [](Configs # {Off} => CalmInv)
  <2>1. CASE Configs = {Off}
    <3>1. ManagerInv => (Configs # {Off} => CalmInv)
      BY <2>1
    <3> QED
      BY <3>1, ManagerInvariant, PTL
  <2>2. CASE Configs # {Off}
    <3>1. SingleController
      BY <2>2, SingleWriterAssumption DEF SingleController
    <3>2. Spec => [](faults = 0 => CalmInv)
      BY <3>1, CalmInvariant
    <3>3. faults = 0 /\ (faults = 0 => CalmInv) => (Configs # {Off} => CalmInv)
      OBVIOUS
    <3> QED
      BY <1>3, <3>2, <3>3, PTL
  <2> QED
    BY <2>1, <2>2
<1>5. ManagerInv /\ IdentityInv /\ (Configs # {Off} => CalmInv) /\ [Next]_vars =>
        [\A b \in Boxes :
           /\ sec[b] = None /\ sec'[b] # None
           /\ \E l \in Loops : Busy(l, b)
           => Live(b)]_vars
  BY RevivesNothing
<1> QED
  BY <1>4, <1>5, ManagerInvariant, IdentityInvariant, PTL DEF Spec, ReconcileNeverRevives
=============================================================================
