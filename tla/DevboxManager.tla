--------------------------- MODULE DevboxManager ---------------------------
(* DevboxManager: lifecycle requests (create, start, stop, delete, purge) and *)
(* the cleanup loop of app.py (reconcile Insights, then stop expired boxes)   *)
(* act on the Kubernetes objects of each workspace: a Deployment, a Service,  *)
(* an Insights Secret and a home PVC.                                         *)
(*                                                                            *)
(* Every Kubernetes call is awaited in a worker thread, so one call is one    *)
(* step and any other task may run between two calls.  The code between two   *)
(* calls belongs to the step of the call before it.                           *)
EXTENDS Naturals, FiniteSets

CONSTANTS
  Boxes,          \* workspaces, each with one set of resource names
  Tenants,
  TenantOf,       \* [Boxes -> Tenants]
  Controllers,    \* controller processes
  Requests,       \* request tasks
  Loops,          \* cleanup-loop tasks, one per controller
  ControllerOf,   \* [Requests \cup Loops -> Controllers]
  Ops,            \* the operations requests may ask for
  Ids,            \* instance identities (uuid4)
  Configs,        \* controller configurations; Off has Insights disabled
  Off,
  Unresolvable,   \* boxes whose profile snapshot does not validate, or that have
                  \* none and name a profile that is not configured
  Quota,          \* TRUE if a ResourceQuota may reject a creation
  Ttl,            \* lifetime a start grants
  MaxTime,        \* bound on the clock
  MaxFaults,      \* bound on API errors, lost answers, restarts, foreign writes
  ScaleAttempts,  \* _SCALE_CONFLICT_ATTEMPTS
  None

Tasks == Requests \cup Loops

ASSUME ManagerAssumption ==
  /\ TenantOf \in [Boxes -> Tenants]
  /\ ControllerOf \in [Tasks -> Controllers]
  /\ Requests \cap Loops = {}
  /\ Ops \subseteq {"create", "start", "stop", "delete", "purge"}
  /\ Unresolvable \subseteq Boxes
  /\ Quota \in BOOLEAN
  /\ Ttl \in Nat /\ MaxTime \in Nat /\ MaxFaults \in Nat
  /\ ScaleAttempts \in Nat \ {0}
  /\ None \notin Boxes \cup Ids \cup Tasks \cup Configs \cup {"reconcile", "expire"}

\* The chart runs one controller, replaced by Recreate, when Insights is on.
ASSUME SingleWriterAssumption ==
  Configs # {Off} => \A c, d \in Controllers : c = d

VARIABLES
  now,      \* the clock
  faults,   \* disturbances so far
  cfg,      \* the configuration the controllers run with
  dep,      \* dep[b]: the Deployment
  svc,      \* svc[b]: the Service exists
  sec,      \* sec[b]: the identity whose credential the Secret holds, or None
  pvc,      \* pvc[b]: the home PVC
  holder,   \* holder[c][b]: the task in the section _lock_lifecycle(b) of c
  job,      \* job[t]: where task t is, and its local variables
  agenda,   \* agenda[l]: what the cleanup loop l has left to do in this cycle
  stray     \* stray[b]: deletions still running after their gather raised

clusterVars == <<dep, svc, sec, pvc>>
vars == <<now, faults, cfg, dep, svc, sec, pvc, holder, job, agenda, stray>>

-----------------------------------------------------------------------------
(* Kubernetes objects.                                                        *)

Identity  == Ids \cup {None}
Templates == [inst : Identity, cfg : Configs \cup {Off}]
NoSidecar == [inst |-> None, cfg |-> Off]

\* tmpl stands for the pod template and the template-hash annotation, a hash of
\* the rendered pod and of the credential; mark is the insights-state
\* annotation; auto is the auto-stopped-at annotation.
Deployments ==
  [phase : {"absent", "live", "deleting"}, replicas : {0, 1}, expires : Nat,
   auto : BOOLEAN, inst : Identity, tmpl : Templates,
   mark : {"collecting", "restart_required", "disabled"}]

NoDeployment ==
  [phase |-> "absent", replicas |-> 0, expires |-> 0, auto |-> FALSE,
   inst |-> None, tmpl |-> NoSidecar, mark |-> "disabled"]

Volumes  == [phase : {"absent", "bound", "deleting"}, inst : Identity]
NoVolume == [phase |-> "absent", inst |-> None]

Parts == {"deployment", "service", "secret"}

Pcs == {"idle", "lock", "readDeployment", "readVolume", "stampVolume",
        "makeVolume", "growVolume", "readSecret", "makeSecret", "patchSecret",
        "makeDeployment", "makeService", "undoDeployment", "undoSecret",
        "patchMark", "patchTemplate", "rereadDeployment", "markRestart",
        "patchScale", "patchExpired", "deleteParts", "deleteVolume", "respond"}

Jobs == [pc : Pcs,
         op : Ops \cup {"reconcile", "expire", None},
         box : Boxes \cup {None},
         seen : Deployments,    \* the Deployment object last read
         fresh : BOOLEAN,       \* its resourceVersion is still the current one
         id : Identity,         \* instance_id
         tries : 0..(ScaleAttempts - 1),
         parts : SUBSET Parts]  \* deletions of the gather not answered yet

NoJob == [pc |-> "idle", op |-> None, box |-> None, seen |-> NoDeployment,
          fresh |-> FALSE, id |-> None, tries |-> 0, parts |-> {}]

Agendas == [phase : {"sleep", "reconcile", "expire"}, tenants : SUBSET Tenants,
            todo : SUBSET Boxes, cutoff : Nat]

Asleep == [phase |-> "sleep", tenants |-> {}, todo |-> {}, cutoff |-> 0]

\* A box may date from before Insights was enabled: nothing, a retained volume
\* without an identity, or a whole workspace, running or stopped.
Origins == {"none", "volume", "stopped", "running"}

LegacyDeployment(replicas) ==
  [NoDeployment EXCEPT !.phase = "live", !.replicas = replicas, !.expires = Ttl]

Init ==
  /\ now = 0
  /\ faults = 0
  /\ cfg \in Configs
  /\ \E origin \in [Boxes -> Origins] :
       /\ dep = [b \in Boxes |->
                   CASE origin[b] = "running" -> LegacyDeployment(1)
                     [] origin[b] = "stopped" -> LegacyDeployment(0)
                     [] OTHER                 -> NoDeployment]
       /\ svc = [b \in Boxes |-> origin[b] \in {"stopped", "running"}]
       /\ pvc = [b \in Boxes |->
                   IF origin[b] = "none" THEN NoVolume
                                         ELSE [phase |-> "bound", inst |-> None]]
  /\ sec = [b \in Boxes |-> None]
  /\ holder = [c \in Controllers |-> [b \in Boxes |-> None]]
  /\ job = [t \in Tasks |-> NoJob]
  /\ agenda = [l \in Loops |-> Asleep]
  /\ stray = [b \in Boxes |-> {}]

-----------------------------------------------------------------------------
(* How a step moves its task.  W is the set of boxes whose Deployment the     *)
(* step wrote: every other copy of it gets an old resourceVersion.            *)

Moves(t, j, W) ==
  LET moved == [job EXCEPT ![t] = j]
  IN job' = [u \in Tasks |-> IF moved[u].box \in W
                                THEN [moved[u] EXCEPT !.fresh = FALSE]
                                ELSE moved[u]]

Goes(t, j, W) ==
  /\ Moves(t, j, W)
  /\ UNCHANGED <<holder, agenda>>

Unlock(t) ==
  holder' = [holder EXCEPT ![ControllerOf[t]] =
               [b \in Boxes |-> IF @[b] = t THEN None ELSE @[b]]]

\* The locked section ends; a loop goes on to the next box of its agenda.
Ends(t, W) ==
  /\ Moves(t, NoJob, W)
  /\ Unlock(t)
  /\ UNCHANGED agenda

\* Faulty: the exception path forgets to release the lock.
RaisesHoldingLock(t, W) ==
  /\ Moves(t, NoJob, W)
  /\ agenda' = IF t \in Loops THEN [agenda EXCEPT ![t] = Asleep] ELSE agenda
  /\ UNCHANGED holder

\* An exception leaves the section.  It ends the request, or the whole cycle of
\* _cleanup_loop: one try block covers reconcile_insights and stop_expired.
Raises(t, W) ==
  /\ Moves(t, NoJob, W)
  /\ Unlock(t)
  /\ agenda' = IF t \in Loops THEN [agenda EXCEPT ![t] = Asleep] ELSE agenda

Spend == faults < MaxFaults /\ faults' = faults + 1

\* A call took effect but its answer was lost: the caller gets an exception.
AnswerLost(t, W) == Spend /\ Raises(t, W)

At(t, pc) == job[t].pc = pc
To(t, pc) == [job[t] EXCEPT !.pc = pc]
Box(t)    == job[t].box
On        == cfg # Off

\* uuid4: an identity that nothing in the system refers to.
Known == {sec[b] : b \in Boxes} \cup {pvc[b].inst : b \in Boxes}
         \cup {dep[b].inst : b \in Boxes} \cup {dep[b].tmpl.inst : b \in Boxes}
         \cup {job[t].id : t \in Tasks} \cup {job[t].seen.inst : t \in Tasks}
NewIds == Ids \ Known

-----------------------------------------------------------------------------
(* Requests and the lifecycle lock.                                           *)

Request(t, op, b) ==
  /\ t \in Requests
  /\ At(t, "idle")
  /\ Goes(t, [NoJob EXCEPT !.pc = "lock", !.op = op, !.box = b], {})
  /\ UNCHANGED <<now, faults, cfg, clusterVars, stray>>

\* Faulty: the section is not locked.
EnterUnlocked(t) ==
  /\ At(t, "lock")
  /\ Moves(t, To(t, "readDeployment"), {})
  /\ UNCHANGED <<now, faults, cfg, clusterVars, holder, agenda, stray>>

\* async with self._lock_lifecycle(...), a keyed mutex per process.
Enter(t) ==
  /\ At(t, "lock")
  /\ holder[ControllerOf[t]][Box(t)] = None
  /\ holder' = [holder EXCEPT ![ControllerOf[t]][Box(t)] = t]
  /\ Moves(t, To(t, "readDeployment"), {})
  /\ UNCHANGED <<now, faults, cfg, clusterVars, agenda, stray>>

-----------------------------------------------------------------------------
(* Identity and credential, shared by create, start and reconciliation:       *)
(* _read_pvc, _instance_id and _ensure_insights_secret.                       *)

\* Once the identity is known: resolve the profile, by its snapshot if the box has
\* one, else by its name; either may raise.
Identified(t, j) ==
  IF j.op # "create" /\ j.box \in Unresolvable
    THEN Raises(t, {})
    ELSE Goes(t, [j EXCEPT !.pc = IF On THEN "readSecret" ELSE "makeDeployment"], {})

\* A volume smaller than the preset wants is grown first (create only).
Sized(t, j) ==
  \/ j.op = "create" /\ Goes(t, [j EXCEPT !.pc = "growVolume"], {})
  \/ Identified(t, j)

\* Faulty: an identity recorded on the PVC is not reused.
ReadVolumeAnew(t) ==
  /\ At(t, "readVolume")
  /\ \E i \in IF On THEN NewIds ELSE {None} :
       LET j == [job[t] EXCEPT !.id = i] IN
       IF pvc[Box(t)].phase # "absent" /\ On
         THEN Goes(t, [j EXCEPT !.pc = "stampVolume"], {})
         ELSE IF j.op = "create" THEN Goes(t, [j EXCEPT !.pc = "makeVolume"], {})
                                 ELSE Identified(t, j)
  /\ UNCHANGED <<now, faults, cfg, clusterVars, stray>>

ReadVolume(t) ==
  /\ At(t, "readVolume")
  /\ \/ /\ pvc[Box(t)].phase = "absent"
        /\ \E i \in IF On THEN NewIds ELSE {None} :
             LET j == [job[t] EXCEPT !.id = i] IN
             IF j.op = "create" THEN Goes(t, [j EXCEPT !.pc = "makeVolume"], {})
                                ELSE Identified(t, j)
     \/ /\ pvc[Box(t)].phase # "absent"
        /\ pvc[Box(t)].inst # None \/ ~On
        /\ Sized(t, [job[t] EXCEPT !.id = IF On THEN pvc[Box(t)].inst ELSE None])
     \/ /\ pvc[Box(t)].phase # "absent"
        /\ pvc[Box(t)].inst = None /\ On
        /\ \E i \in NewIds :
             Goes(t, [job[t] EXCEPT !.pc = "stampVolume", !.id = i], {})
  /\ UNCHANGED <<now, faults, cfg, clusterVars, stray>>

\* Record a new identity on a PVC that has none; 404 if it is gone by now.
StampVolume(t) ==
  /\ At(t, "stampVolume")
  /\ IF pvc[Box(t)].phase = "absent"
       THEN Raises(t, {}) /\ UNCHANGED <<pvc, faults>>
       ELSE /\ pvc' = [pvc EXCEPT ![Box(t)].inst = job[t].id]
            /\ \/ Sized(t, job[t]) /\ UNCHANGED faults
               \/ AnswerLost(t, {})
  /\ UNCHANGED <<now, cfg, dep, svc, sec, stray>>

\* Faulty: reconciliation takes a running Deployment for a stopped one.
VerdictIgnoringReplicas(t) ==
  LET seen == job[t].seen
  IN IF seen.tmpl # [inst |-> job[t].id, cfg |-> cfg] \/ seen.inst # job[t].id
       THEN "patchTemplate"
       ELSE IF seen.mark # "collecting" THEN "patchMark"
       ELSE IF job[t].op = "start" THEN "patchScale" ELSE "idle"

\* With the credential in place: create builds the Deployment, start and
\* reconciliation compare the template they have read with the desired one.
Verdict(t) ==
  LET seen  == job[t].seen
      match == /\ seen.tmpl = [inst |-> job[t].id, cfg |-> cfg]
               /\ seen.inst = job[t].id
  IN IF job[t].op = "start" \/ seen.replicas = 0
       THEN IF ~match THEN "patchTemplate"
            ELSE IF seen.mark # "collecting" THEN "patchMark"
            ELSE IF job[t].op = "start" THEN "patchScale" ELSE "idle"
       ELSE IF ~match /\ (seen.mark # "restart_required" \/ seen.inst # job[t].id)
              THEN "markRestart" ELSE "idle"

Credentialed(t) ==
  IF job[t].op = "create" THEN Goes(t, To(t, "makeDeployment"), {})
  ELSE IF Verdict(t) = "idle" THEN Ends(t, {})
  ELSE Goes(t, To(t, Verdict(t)), {})

\* Faulty: a Secret that is missing is taken for one that is up to date.
ReadSecretLax(t) ==
  /\ At(t, "readSecret")
  /\ IF sec[Box(t)] \in {None, job[t].id}
       THEN Credentialed(t) ELSE Goes(t, To(t, "patchSecret"), {})
  /\ UNCHANGED <<now, faults, cfg, clusterVars, stray>>

ReadSecret(t) ==
  /\ At(t, "readSecret")
  /\ CASE sec[Box(t)] = None      -> Goes(t, To(t, "makeSecret"), {})
       [] sec[Box(t)] = job[t].id -> Credentialed(t)
       [] OTHER                   -> Goes(t, To(t, "patchSecret"), {})
  /\ UNCHANGED <<now, faults, cfg, clusterVars, stray>>

\* create_namespaced_secret, or the patch of a stale one.
WriteSecret(t) ==
  /\ \/ At(t, "makeSecret") /\ sec[Box(t)] = None
     \/ At(t, "patchSecret") /\ sec[Box(t)] # None
  /\ sec' = [sec EXCEPT ![Box(t)] = job[t].id]
  /\ \/ Credentialed(t) /\ UNCHANGED faults
     \/ AnswerLost(t, {})
  /\ UNCHANGED <<now, cfg, dep, svc, pvc, stray>>

\* 409 in the loop of _scale_locked: read again, a few times.
Retries(t) ==
  IF job[t].tries + 1 = ScaleAttempts
    THEN Raises(t, {})
    ELSE Goes(t, [job[t] EXCEPT !.pc = "readDeployment", !.tries = @ + 1], {})

\* 409 if there is a Secret by now, 404 if there is none any more.
SecretMoved(t) ==
  /\ \/ /\ At(t, "makeSecret") /\ sec[Box(t)] # None
        /\ IF job[t].op = "start" THEN Retries(t) ELSE Raises(t, {})
     \/ At(t, "patchSecret") /\ sec[Box(t)] = None /\ Raises(t, {})
  /\ UNCHANGED <<now, faults, cfg, clusterVars, stray>>

-----------------------------------------------------------------------------
(* create.                                                                    *)

\* 409 while any Deployment of that name exists, one being deleted included.
CreateReads(t) ==
  /\ At(t, "readDeployment") /\ job[t].op = "create"
  /\ IF dep[Box(t)].phase = "absent" THEN Goes(t, To(t, "readVolume"), {})
                                     ELSE Raises(t, {})
  /\ UNCHANGED <<now, faults, cfg, clusterVars, stray>>

\* Faulty: the identity is not recorded on a new PVC.
MakeVolumeUnmarked(t) ==
  /\ At(t, "makeVolume")
  /\ IF pvc[Box(t)].phase = "absent"
       THEN /\ pvc' = [pvc EXCEPT ![Box(t)] = [phase |-> "bound", inst |-> None]]
            /\ Identified(t, job[t])
       ELSE Raises(t, {}) /\ UNCHANGED pvc
  /\ UNCHANGED <<now, faults, cfg, dep, svc, sec, stray>>

MakeVolume(t) ==
  /\ At(t, "makeVolume")
  /\ IF pvc[Box(t)].phase = "absent"
       THEN /\ pvc' = [pvc EXCEPT ![Box(t)] = [phase |-> "bound", inst |-> job[t].id]]
            /\ \/ Identified(t, job[t]) /\ UNCHANGED faults
               \/ AnswerLost(t, {})
       ELSE Raises(t, {}) /\ UNCHANGED <<pvc, faults>>
  /\ UNCHANGED <<now, cfg, dep, svc, sec, stray>>

\* Raise the storage request of a retained PVC; sizes are not modelled.
GrowVolume(t) ==
  /\ At(t, "growVolume")
  /\ IF pvc[Box(t)].phase = "absent" THEN Raises(t, {}) ELSE Identified(t, job[t])
  /\ UNCHANGED <<now, faults, cfg, clusterVars, stray>>

Built(t) ==
  [phase |-> "live", replicas |-> 1, expires |-> now + Ttl, auto |-> FALSE,
   inst |-> job[t].id, tmpl |-> [inst |-> job[t].id, cfg |-> cfg],
   mark |-> IF On THEN "collecting" ELSE "disabled"]

\* The except clauses: undo the Deployment if its creation was confirmed, then
\* the Secret if Insights made one, then raise.
UndoSecret(t, W) ==
  IF On THEN Goes(t, To(t, "undoSecret"), W) ELSE Raises(t, W)

MakeDeployment(t) ==
  /\ At(t, "makeDeployment")
  /\ IF dep[Box(t)].phase = "absent"
       THEN /\ dep' = [dep EXCEPT ![Box(t)] = Built(t)]
            /\ \/ Goes(t, To(t, "makeService"), {Box(t)}) /\ UNCHANGED faults
               \/ Spend /\ UndoSecret(t, {Box(t)})           \* answer lost
       ELSE UndoSecret(t, {}) /\ UNCHANGED <<dep, faults>>    \* 409
  /\ UNCHANGED <<now, cfg, svc, sec, pvc, stray>>

MakeService(t) ==
  /\ At(t, "makeService")
  /\ IF svc[Box(t)]
       THEN Goes(t, To(t, "undoDeployment"), {}) /\ UNCHANGED <<svc, faults>>
       ELSE /\ svc' = [svc EXCEPT ![Box(t)] = TRUE]
            /\ \/ Goes(t, To(t, "respond"), {}) /\ UNCHANGED faults
               \/ Spend /\ Goes(t, To(t, "undoDeployment"), {})  \* answer lost
  /\ UNCHANGED <<now, cfg, dep, sec, pvc, stray>>

\* Foreground deletion: the Deployment stays, marked, until its pods are gone.
Doomed(b) ==
  IF dep[b].phase = "live" THEN [dep[b] EXCEPT !.phase = "deleting"] ELSE dep[b]

\* Faulty: a failed create leaves its Deployment behind.
UndoDeploymentSkipped(t) ==
  /\ At(t, "undoDeployment")
  /\ UndoSecret(t, {})
  /\ UNCHANGED <<now, faults, cfg, clusterVars, stray>>

UndoDeployment(t) ==
  /\ At(t, "undoDeployment")
  /\ dep' = [dep EXCEPT ![Box(t)] = Doomed(Box(t))]
  /\ \/ UndoSecret(t, {Box(t)}) /\ UNCHANGED faults
     \/ AnswerLost(t, {Box(t)})
  /\ UNCHANGED <<now, cfg, svc, sec, pvc, stray>>

FinishUndo(t) ==
  /\ At(t, "undoSecret")
  /\ sec' = [sec EXCEPT ![Box(t)] = None]
  /\ Raises(t, {})
  /\ UNCHANGED <<now, faults, cfg, dep, svc, pvc, stray>>

\* A ResourceQuota rejects a creation (403): raised, after the undo if any.
Refused(t) ==
  /\ Quota
  /\ \/ job[t].pc \in {"makeVolume", "growVolume", "makeSecret"} /\ Raises(t, {})
     \/ At(t, "makeDeployment") /\ UndoSecret(t, {})
     \/ At(t, "makeService") /\ Goes(t, To(t, "undoDeployment"), {})
  /\ UNCHANGED <<now, faults, cfg, clusterVars, stray>>

\* The concluding get() only reads.
Respond(t) ==
  /\ At(t, "respond")
  /\ Ends(t, {})
  /\ UNCHANGED <<now, faults, cfg, clusterVars, stray>>

-----------------------------------------------------------------------------
(* start and stop: _scale_locked.                                             *)

ScaleReads(t) ==
  /\ At(t, "readDeployment") /\ job[t].op \in {"start", "stop"}
  /\ IF dep[Box(t)].phase = "absent"
       THEN Raises(t, {})
       ELSE Goes(t, [job[t] EXCEPT
                       !.pc = IF job[t].op = "start" /\ On THEN "readVolume"
                                                          ELSE "patchScale",
                       !.seen = dep[Box(t)], !.fresh = TRUE], {})
  /\ UNCHANGED <<now, faults, cfg, clusterVars, stray>>

\* _prepare_insights_template patches without a resourceVersion; 404 if gone.
PatchPrepared(t) ==
  /\ At(t, "patchMark") \/ At(t, "patchTemplate")
  /\ LET d == dep[Box(t)]
         prepared == [d EXCEPT !.inst = job[t].id, !.mark = "collecting"]
     IN IF d.phase = "absent"
          THEN Raises(t, {}) /\ UNCHANGED <<dep, faults>>
          ELSE /\ dep' = [dep EXCEPT ![Box(t)] =
                            IF At(t, "patchMark") THEN prepared
                            ELSE [prepared EXCEPT
                                    !.tmpl = [inst |-> job[t].id, cfg |-> cfg]]]
               /\ \/ Goes(t, To(t, "rereadDeployment"), {Box(t)}) /\ UNCHANGED faults
                  \/ AnswerLost(t, {Box(t)})
  /\ UNCHANGED <<now, cfg, svc, sec, pvc, stray>>

RereadDeployment(t) ==
  /\ At(t, "rereadDeployment")
  /\ IF dep[Box(t)].phase = "absent" THEN Raises(t, {})
     ELSE IF job[t].op = "reconcile" THEN Ends(t, {})
     ELSE Goes(t, [job[t] EXCEPT !.pc = "patchScale", !.seen = dep[Box(t)],
                                 !.fresh = TRUE], {})
  /\ UNCHANGED <<now, faults, cfg, clusterVars, stray>>

Scaled(t) ==
  IF job[t].op = "start"
    THEN [dep[Box(t)] EXCEPT !.replicas = 1, !.expires = now + Ttl, !.auto = FALSE]
    ELSE [dep[Box(t)] EXCEPT !.replicas = 0]

PatchScale(t) ==
  /\ At(t, "patchScale") /\ job[t].fresh
  /\ dep' = [dep EXCEPT ![Box(t)] = Scaled(t)]
  /\ \/ Goes(t, To(t, "respond"), {Box(t)}) /\ UNCHANGED faults
     \/ AnswerLost(t, {Box(t)})
  /\ UNCHANGED <<now, cfg, svc, sec, pvc, stray>>

\* Faulty: a conflict is retried without limit.
ScaleConflictsForever(t) ==
  /\ At(t, "patchScale") /\ ~job[t].fresh
  /\ IF dep[Box(t)].phase = "absent"
       THEN Raises(t, {})
       ELSE Goes(t, [job[t] EXCEPT !.pc = "readDeployment", !.tries = @ + 1], {})
  /\ UNCHANGED <<now, faults, cfg, clusterVars, stray>>

\* 404, or 409 because the resourceVersion is old.
ScaleConflicts(t) ==
  /\ At(t, "patchScale") /\ ~job[t].fresh
  /\ IF dep[Box(t)].phase = "absent" THEN Raises(t, {}) ELSE Retries(t)
  /\ UNCHANGED <<now, faults, cfg, clusterVars, stray>>

-----------------------------------------------------------------------------
(* delete.                                                                    *)

DeleteReads(t) ==
  /\ At(t, "readDeployment") /\ job[t].op \in {"delete", "purge"}
  /\ IF dep[Box(t)].phase = "absent"
       THEN Raises(t, {})
       ELSE Goes(t, [job[t] EXCEPT !.pc = "deleteParts", !.parts = Parts], {})
  /\ UNCHANGED <<now, faults, cfg, clusterVars, stray>>

\* One deletion of the gather takes effect; an object already gone is ignored.
Erase(b, p) ==
  /\ dep' = IF p = "deployment" THEN [dep EXCEPT ![b] = Doomed(b)] ELSE dep
  /\ svc' = IF p = "service" THEN [svc EXCEPT ![b] = FALSE] ELSE svc
  /\ sec' = IF p = "secret" THEN [sec EXCEPT ![b] = None] ELSE sec

Touched(b, p) == IF p = "deployment" THEN {b} ELSE {}

\* gather raises at the first failure and leaves the other calls running.
Scatter(t, p) ==
  /\ Spend
  /\ stray' = [stray EXCEPT ![Box(t)] = @ \cup (job[t].parts \ {p})]

DeletePart(t, p) ==
  /\ At(t, "deleteParts") /\ p \in job[t].parts
  /\ Erase(Box(t), p)
  /\ \/ /\ job[t].parts # {p}
        /\ Goes(t, [job[t] EXCEPT !.parts = @ \ {p}], Touched(Box(t), p))
        /\ UNCHANGED <<faults, stray>>
     \/ /\ job[t].parts = {p}
        /\ IF job[t].op = "purge"
             THEN Goes(t, [job[t] EXCEPT !.pc = "deleteVolume", !.parts = {}],
                       Touched(Box(t), p))
             ELSE Ends(t, Touched(Box(t), p))
        /\ UNCHANGED <<faults, stray>>
     \/ Scatter(t, p) /\ Raises(t, Touched(Box(t), p))         \* answer lost
  /\ UNCHANGED <<now, cfg, pvc>>

DeletePartFails(t, p) ==
  /\ At(t, "deleteParts") /\ p \in job[t].parts
  /\ Scatter(t, p)
  /\ Raises(t, {})
  /\ UNCHANGED <<now, cfg, clusterVars>>

DeleteVolume(t) ==
  /\ At(t, "deleteVolume")
  /\ pvc' = [pvc EXCEPT ![Box(t)].phase = IF @ = "bound" THEN "deleting" ELSE @]
  /\ Ends(t, {})
  /\ UNCHANGED <<now, faults, cfg, dep, svc, sec, stray>>

-----------------------------------------------------------------------------
(* The cleanup loop: reconcile_insights, then stop_expired, then sleep.       *)

Wake(l) ==
  /\ agenda[l].phase = "sleep"
  /\ agenda' = [agenda EXCEPT ![l] =
       [phase |-> IF On THEN "reconcile" ELSE "expire", tenants |-> Tenants,
        todo |-> {}, cutoff |-> IF On THEN 0 ELSE now]]
  /\ UNCHANGED <<now, faults, cfg, clusterVars, holder, job, stray>>

\* stop_expired reads the clock once, before it lists any tenant.
StartExpiring(l) ==
  /\ agenda[l].phase = "reconcile" /\ At(l, "idle")
  /\ agenda[l].tenants = {} /\ agenda[l].todo = {}
  /\ agenda' = [agenda EXCEPT ![l] =
       [phase |-> "expire", tenants |-> Tenants, todo |-> {}, cutoff |-> now]]
  /\ UNCHANGED <<now, faults, cfg, clusterVars, holder, job, stray>>

FinishCycle(l) ==
  /\ agenda[l].phase = "expire" /\ At(l, "idle")
  /\ agenda[l].tenants = {} /\ agenda[l].todo = {}
  /\ agenda' = [agenda EXCEPT ![l] = Asleep]
  /\ UNCHANGED <<now, faults, cfg, clusterVars, holder, job, stray>>

\* Every managed Deployment of a tenant, or its running and expired boxes.
Listed(l, tenant) ==
  {b \in Boxes :
     /\ TenantOf[b] = tenant
     /\ dep[b].phase # "absent"
     /\ agenda[l].phase = "expire" =>
          dep[b].replicas # 0 /\ dep[b].expires <= agenda[l].cutoff}

ListTenant(l, tenant) ==
  /\ agenda[l].phase # "sleep" /\ At(l, "idle")
  /\ agenda[l].todo = {} /\ tenant \in agenda[l].tenants
  /\ agenda' = [agenda EXCEPT ![l].tenants = @ \ {tenant},
                              ![l].todo = Listed(l, tenant)]
  /\ UNCHANGED <<now, faults, cfg, clusterVars, holder, job, stray>>

Visit(l, b) ==
  /\ At(l, "idle") /\ b \in agenda[l].todo
  /\ agenda' = [agenda EXCEPT ![l].todo = @ \ {b}]
  /\ Moves(l, [NoJob EXCEPT !.pc = "lock", !.op = agenda[l].phase, !.box = b], {})
  /\ UNCHANGED <<now, faults, cfg, clusterVars, holder, stray>>

\* Faulty: a Deployment that is being deleted is reconciled.
ReconcileReadsDeleted(l) ==
  /\ At(l, "readDeployment") /\ job[l].op = "reconcile"
  /\ IF dep[Box(l)].phase = "absent"
       THEN Ends(l, {})
       ELSE Goes(l, [job[l] EXCEPT !.pc = "readVolume", !.seen = dep[Box(l)],
                                   !.fresh = TRUE], {})
  /\ UNCHANGED <<now, faults, cfg, clusterVars, stray>>

\* Under the lock the Deployment is read again; one that is gone or is being
\* deleted is skipped.
ReconcileReads(l) ==
  /\ At(l, "readDeployment") /\ job[l].op = "reconcile"
  /\ IF dep[Box(l)].phase # "live"
       THEN Ends(l, {})
       ELSE Goes(l, [job[l] EXCEPT !.pc = "readVolume", !.seen = dep[Box(l)],
                                   !.fresh = TRUE], {})
  /\ UNCHANGED <<now, faults, cfg, clusterVars, stray>>

MarkRestart(l) ==
  /\ At(l, "markRestart")
  /\ IF dep[Box(l)].phase = "absent"
       THEN Raises(l, {}) /\ UNCHANGED <<dep, faults>>
       ELSE /\ dep' = [dep EXCEPT ![Box(l)].mark = "restart_required",
                                  ![Box(l)].inst = job[l].id]
            /\ \/ Ends(l, {Box(l)}) /\ UNCHANGED faults
               \/ AnswerLost(l, {Box(l)})
  /\ UNCHANGED <<now, cfg, svc, sec, pvc, stray>>

\* Faulty: a box is not expired at the instant its lifetime ends.
StillExpiredStrictly(l) ==
  /\ dep[Box(l)].phase # "absent"
  /\ dep[Box(l)].replicas # 0
  /\ dep[Box(l)].expires < agenda[l].cutoff

\* Faulty: the listing is trusted, nothing is checked again under the lock.
StillExpiredAsListed(l) == dep[Box(l)].phase # "absent"

\* The replicas and the expiry are checked again on the object read under the
\* lock, against the clock of the start of the pass.
StillExpired(l) ==
  /\ dep[Box(l)].phase # "absent"
  /\ dep[Box(l)].replicas # 0
  /\ dep[Box(l)].expires <= agenda[l].cutoff

ExpireReads(l) ==
  /\ At(l, "readDeployment") /\ job[l].op = "expire"
  /\ IF StillExpired(l)
       THEN Goes(l, [job[l] EXCEPT !.pc = "patchExpired", !.seen = dep[Box(l)],
                                   !.fresh = TRUE], {})
       ELSE Ends(l, {})
  /\ UNCHANGED <<now, faults, cfg, clusterVars, stray>>

\* Faulty: the patch carries no resourceVersion.
PatchExpiredBlindly(l) ==
  /\ At(l, "patchExpired")
  /\ IF dep[Box(l)].phase # "absent"
       THEN /\ dep' = [dep EXCEPT ![Box(l)].replicas = 0, ![Box(l)].auto = TRUE]
            /\ Ends(l, {Box(l)})
       ELSE Raises(l, {}) /\ UNCHANGED dep
  /\ UNCHANGED <<now, faults, cfg, svc, sec, pvc, stray>>

\* The patch carries the resourceVersion: 409 (or 404) ends the cycle.
PatchExpired(l) ==
  /\ At(l, "patchExpired")
  /\ IF job[l].fresh
       THEN /\ dep' = [dep EXCEPT ![Box(l)].replicas = 0, ![Box(l)].auto = TRUE]
            /\ \/ Ends(l, {Box(l)}) /\ UNCHANGED faults
               \/ AnswerLost(l, {Box(l)})
       ELSE Raises(l, {}) /\ UNCHANGED <<dep, faults>>
  /\ UNCHANGED <<now, cfg, svc, sec, pvc, stray>>

-----------------------------------------------------------------------------
(* Failures and the environment.                                              *)

\* A call fails without effect; what create and delete do about it.
CallFails(t) ==
  /\ Spend
  /\ \/ /\ job[t].pc \notin {"idle", "lock", "makeDeployment", "makeService",
                             "deleteParts"}
        /\ Raises(t, {})
     \/ At(t, "makeDeployment") /\ UndoSecret(t, {})
     \/ At(t, "makeService") /\ Goes(t, To(t, "undoDeployment"), {})
  /\ UNCHANGED <<now, cfg, clusterVars, stray>>

\* A list call of the loop fails.
ListFails(l) ==
  /\ Spend
  /\ agenda[l].phase # "sleep" /\ At(l, "idle") /\ agenda[l].todo = {}
  /\ agenda[l].tenants # {}
  /\ agenda' = [agenda EXCEPT ![l] = Asleep]
  /\ UNCHANGED <<now, cfg, clusterVars, holder, job, stray>>

\* A deletion left behind by gather takes effect.
Straggle(b, p) ==
  /\ p \in stray[b]
  /\ Erase(b, p)
  /\ stray' = [stray EXCEPT ![b] = @ \ {p}]
  /\ Moves(None, NoJob, Touched(b, p))
  /\ UNCHANGED <<now, faults, cfg, pvc, holder, agenda>>

\* A controller dies, or shuts down, and starts again, perhaps upgraded.
Restart(c) ==
  /\ Spend
  /\ job' = [t \in Tasks |-> IF ControllerOf[t] = c THEN NoJob ELSE job[t]]
  /\ agenda' = [l \in Loops |-> IF ControllerOf[l] = c THEN Asleep ELSE agenda[l]]
  /\ holder' = [holder EXCEPT ![c] = [b \in Boxes |-> None]]
  /\ cfg' \in Configs
  /\ stray' \in {stray, [b \in Boxes |-> {}]}
  /\ UNCHANGED <<now, clusterVars>>

\* Kubernetes completes a foreground deletion, or removes a released PVC.
DeploymentGone(b) ==
  /\ dep[b].phase = "deleting"
  /\ dep' = [dep EXCEPT ![b] = NoDeployment]
  /\ Moves(None, NoJob, {b})
  /\ UNCHANGED <<now, faults, cfg, svc, sec, pvc, holder, agenda, stray>>

VolumeGone(b) ==
  /\ pvc[b].phase = "deleting"
  /\ pvc' = [pvc EXCEPT ![b] = NoVolume]
  /\ UNCHANGED <<now, faults, cfg, dep, svc, sec, holder, job, agenda, stray>>

\* Another writer, such as the Deployment controller's status update, gives
\* the Deployment a new resourceVersion.
ForeignWrite(b) ==
  /\ Spend
  /\ dep[b].phase # "absent"
  /\ Moves(None, NoJob, {b})
  /\ UNCHANGED <<now, cfg, clusterVars, holder, agenda, stray>>

Tick ==
  /\ now < MaxTime
  /\ now' = now + 1
  /\ UNCHANGED <<faults, cfg, clusterVars, holder, job, agenda, stray>>

-----------------------------------------------------------------------------

TaskStep(t) ==
  \/ ReadVolume(t) \/ StampVolume(t) \/ ReadSecret(t) \/ WriteSecret(t)
  \/ SecretMoved(t)
  \/ CreateReads(t) \/ MakeVolume(t) \/ GrowVolume(t) \/ MakeDeployment(t)
  \/ MakeService(t) \/ UndoDeployment(t) \/ FinishUndo(t) \/ Refused(t)
  \/ Respond(t)
  \/ ScaleReads(t) \/ PatchPrepared(t) \/ RereadDeployment(t) \/ PatchScale(t)
  \/ ScaleConflicts(t)
  \/ DeleteReads(t) \/ (\E p \in Parts : DeletePart(t, p)) \/ DeleteVolume(t)

LoopStep(l) ==
  \/ Wake(l) \/ StartExpiring(l) \/ FinishCycle(l)
  \/ \E tenant \in Tenants : ListTenant(l, tenant)
  \/ \E b \in Boxes : Visit(l, b)
  \/ ReconcileReads(l) \/ MarkRestart(l) \/ ExpireReads(l) \/ PatchExpired(l)

Kubernetes(b) ==
  DeploymentGone(b) \/ VolumeGone(b) \/ (\E p \in Parts : Straggle(b, p))

Disturbance ==
  \/ \E t \in Tasks : CallFails(t) \/ \E p \in Parts : DeletePartFails(t, p)
  \/ \E l \in Loops : ListFails(l)
  \/ \E c \in Controllers : Restart(c)
  \/ \E b \in Boxes : ForeignWrite(b)

Next ==
  \/ \E t \in Requests, op \in Ops, b \in Boxes : Request(t, op, b)
  \/ \E t \in Tasks : Enter(t) \/ TaskStep(t)
  \/ \E l \in Loops : LoopStep(l)
  \/ \E b \in Boxes : Kubernetes(b)
  \/ Disturbance
  \/ Tick

Spec == Init /\ [][Next]_vars

\* Every awaited call is answered and asyncio runs every ready task; the lock
\* queue is first come, first served (LifecycleLock), which is strong fairness
\* of Enter; the clock advances and Kubernetes completes deletions.  Nothing is
\* assumed of requests or disturbances.
Fairness ==
  /\ \A t \in Tasks : WF_vars(TaskStep(t)) /\ SF_vars(Enter(t))
  /\ \A l \in Loops : WF_vars(LoopStep(l))
  /\ \A b \in Boxes : WF_vars(Kubernetes(b))
  /\ WF_vars(Tick)

FairSpec == Spec /\ Fairness

-----------------------------------------------------------------------------
(* Properties.                                                                *)

TypeOK ==
  /\ now \in Nat
  /\ faults \in Nat
  /\ cfg \in Configs
  /\ dep \in [Boxes -> Deployments]
  /\ svc \in [Boxes -> BOOLEAN]
  /\ sec \in [Boxes -> Identity]
  /\ pvc \in [Boxes -> Volumes]
  /\ holder \in [Controllers -> [Boxes -> Tasks \cup {None}]]
  /\ job \in [Tasks -> Jobs]
  /\ agenda \in [Loops -> Agendas]
  /\ stray \in [Boxes -> SUBSET Parts]

\* A task between two calls of an operation on b, in any controller.
Busy(t, b) == job[t].box = b /\ job[t].pc \notin {"idle", "lock"}
Quiet(b)   == stray[b] = {} /\ \A t \in Tasks : ~Busy(t, b)

Live(b)    == dep[b].phase = "live"
Running(b) == Live(b) /\ dep[b].replicas = 1

\* stop_expired stops a box only when its lifetime, as it is at that moment, is
\* over: a start that renewed it between the listing and the patch is never
\* undone, whichever process served it.
NeverStoppedEarly ==
  [][\A b \in Boxes :
       dep'[b].auto /\ ~dep[b].auto => dep[b].expires <= now]_vars

\* The cleanup loop reconciles Insights "without restarting active workspaces"
\* (reconcile_insights): a running Deployment's pod template is replaced only
\* by a start, although the loop's patch carries no resourceVersion.
ActiveNeverRestarted ==
  [][\A b \in Boxes :
       Running(b) /\ dep'[b].phase = "live" /\ dep'[b].tmpl # dep[b].tmpl
         => \E t \in Requests : Busy(t, b) /\ job[t].op = "start"]_vars

\* The identity on a home PVC, once recorded, lasts as long as the PVC: a task
\* that found none cannot overwrite one recorded since by another task.
IdentityStable ==
  [][\A b \in Boxes :
       pvc[b].inst # None /\ pvc'[b].phase # "absent"
         => pvc'[b].inst = pvc[b].inst]_vars

\* A collector reports under the identity of the volume it runs on, so history
\* is not split or merged: the template of a Deployment marked collecting has
\* the identity recorded on its bound PVC.
CollectsUnderVolumeIdentity ==
  \A b \in Boxes :
    /\ Live(b) /\ dep[b].tmpl.inst # None /\ dep[b].mark = "collecting"
    /\ pvc[b].phase = "bound" /\ pvc[b].inst # None
    => dep[b].tmpl.inst = pvc[b].inst /\ dep[b].inst = pvc[b].inst

\* Without failures, a template that refers to the Insights Secret finds it,
\* except while a deletion of the box is under way.
CollectorHasCredential ==
  \A b \in Boxes :
    Live(b) /\ dep[b].tmpl.inst # None => \/ sec[b] # None
                                        \/ \E t \in Tasks : At(t, "deleteParts") /\ Box(t) = b

\* Without failures, a create is all or nothing and a delete is complete: with
\* no operation under way a live Deployment has its Service, and a name that
\* has no Deployment has no Service left either.
ComputeIsWhole ==
  \A b \in Boxes : Quiet(b) => /\ Live(b) => svc[b]
                               /\ dep[b].phase = "absent" => ~svc[b]

\* Without failures, the cleanup loop writes the Secret of a live Deployment
\* only: one that was listed and then deleted does not get its Secret back.
ReconcileNeverRevives ==
  [][\A b \in Boxes :
       /\ sec[b] = None /\ sec'[b] # None
       /\ \E l \in Loops : Busy(l, b)
       => Live(b)]_vars

\* "The generated per-workspace Secret is deleted with workspace compute"
\* (docs/credentials.md): a box without a Deployment has no Insights Secret.
SecretGoesWithCompute ==
  \A b \in Boxes : Quiet(b) /\ dep[b].phase = "absent" => sec[b] = None

Expired(b) == Running(b) /\ dep[b].expires <= now

\* "TTL expiry is equivalent to stop" (docs/architecture.md): a running box
\* whose lifetime is over is stopped, deleted or renewed eventually.
ExpiredIsStopped == \A b \in Boxes : []<>~Expired(b)

\* "TTL expiry is equivalent to `stop`" (docs/architecture.md) for every box that can
\* be reconciled, whatever is the matter with a box of another tenant.
ResolvableBoxesExpire == \A b \in Boxes \ Unresolvable : []<>~Expired(b)

\* Every request ends, and the loop always gets back to sleep: no call sequence
\* leaves a lock behind that others wait for.
RequestsEnd ==
  /\ \A t \in Requests : []<>At(t, "idle")
  /\ \A l \in Loops : []<>(agenda[l].phase = "sleep")
=============================================================================
