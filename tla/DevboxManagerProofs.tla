------------------------ MODULE DevboxManagerProofs ------------------------
(* Proofs about DevboxManager for any number of boxes, tasks, controllers,    *)
(* identities and configurations.                                             *)
(*                                                                            *)
(* NeverStoppedEarly needs that a copy whose resourceVersion is current is    *)
(* the Deployment itself (FreshView) and that the expiry was compared with a  *)
(* clock that has only advanced since (LocalOK, AgendaOK).                    *)
(* ActiveNeverRestarted and IdentityStable have no resourceVersion to rely    *)
(* on: they need that a task between two calls holds the lock of its box      *)
(* (Owned), so that what it read about replicas or about a missing identity   *)
(* is still true when it patches (ColdView, StampView).                       *)
EXTENDS DevboxManager, TLAPS

Waiting == {"idle", "lock"}

AgendaOK ==
  \A l \in Loops :
    /\ agenda[l].phase = "sleep" => agenda[l].todo = {}
    /\ agenda[l].phase = "reconcile" => Configs # {Off}
    /\ agenda[l].cutoff <= now

LocalOK ==
  \A t \in Tasks :
    /\ job[t].pc # "idle" => /\ job[t].box \in Boxes
                             /\ job[t].op \in IF t \in Loops THEN {"reconcile", "expire"}
                                                             ELSE Ops
    /\ job[t].pc # "idle" /\ t \in Loops => agenda[t].phase # "sleep"
    /\ job[t].op = "reconcile" => Configs # {Off}
    /\ job[t].pc = "patchExpired" => /\ t \in Loops
                                     /\ job[t].seen.expires <= agenda[t].cutoff

Owned ==
  \A t \in Tasks :
    job[t].pc \notin Waiting => holder[ControllerOf[t]][job[t].box] = t

FreshView ==
  \A t \in Tasks :
    job[t].fresh => job[t].box \in Boxes /\ dep[job[t].box] = job[t].seen

\* Between reading a Deployment and replacing its template.  A reconciliation
\* gets to replace it only after reading the box stopped, and it still is.
ColdPcs == {"readVolume", "stampVolume", "makeVolume", "growVolume", "readSecret",
            "makeSecret", "patchSecret", "patchMark", "patchTemplate"}

Patching == {"patchMark", "patchTemplate"}

Cold(j, d) ==
  /\ j.pc \in ColdPcs => j.op \in {"create", "start", "reconcile"}
  /\ j.pc \in Patching => j.op # "create"
  /\ j.op = "reconcile" =>
       /\ j.pc \in Patching => j.seen.replicas = 0
       /\ j.pc \in ColdPcs /\ j.seen.replicas = 0 => d[j.box].replicas = 0

ColdView == \A t \in Tasks : Cold(job[t], dep)

\* Between finding a PVC without an identity and recording one.
Blank(j, v) == j.pc = "stampVolume" => Configs # {Off} /\ v[j.box].inst = None

StampView ==
  /\ \A t \in Tasks : Blank(job[t], pvc)
  /\ \A b \in Boxes : pvc[b].phase = "absent" => pvc[b].inst = None

ManagerInv ==
  TypeOK /\ AgendaOK /\ LocalOK /\ Owned /\ FreshView /\ ColdView /\ StampView

-----------------------------------------------------------------------------

LEMMA NoJobFacts ==
  /\ NoJob \in Jobs /\ NoJob.pc = "idle" /\ ~NoJob.fresh
  /\ NoJob.op = None /\ NoJob.box = None /\ NoJob.op # "reconcile"
  BY ManagerAssumption
  DEF NoJob, Jobs, NoDeployment, Deployments, NoSidecar, Templates, Identity, Pcs

LEMMA InitManagerInv == Init => ManagerInv
<1> SUFFICES ASSUME Init PROVE ManagerInv
  OBVIOUS
<1>1. /\ NoVolume \in Volumes
      /\ [phase |-> "bound", inst |-> None] \in Volumes
      /\ NoDeployment \in Deployments
      /\ \A r \in {0, 1} : LegacyDeployment(r) \in Deployments
      /\ Asleep \in Agendas
  BY ManagerAssumption
  DEF NoVolume, Volumes, Identity, NoDeployment, Deployments, NoSidecar, Templates,
      LegacyDeployment, Asleep, Agendas
<1>2. TypeOK
  BY <1>1, NoJobFacts DEF Init, TypeOK, Identity, Origins
<1>3. \A t \in Tasks : job[t] = NoJob
  BY DEF Init
<1>4. AgendaOK
  BY DEF Init, AgendaOK, Asleep
<1>5. LocalOK /\ Owned /\ FreshView
  BY <1>3, NoJobFacts DEF LocalOK, Owned, FreshView, Waiting
<1>6. ColdView
  BY <1>3, NoJobFacts DEF ColdView, Cold, ColdPcs, Patching
<1>7. StampView
  BY <1>3, NoJobFacts DEF Init, StampView, Blank, NoVolume
<1> QED
  BY <1>2, <1>4, <1>5, <1>6, <1>7 DEF ManagerInv

-----------------------------------------------------------------------------

\* The job of u once t has moved to j.
After(t, j, u) == IF u = t THEN j ELSE job[u]

\* What Moves leaves of every job: all of it, but for resourceVersions.
LEMMA MovesFacts ==
  ASSUME job \in [Tasks -> Jobs], NEW t, NEW j \in Jobs, NEW W, Moves(t, j, W)
  PROVE  /\ job' \in [Tasks -> Jobs]
         /\ \A u \in Tasks :
              /\ job'[u].pc = After(t, j, u).pc /\ job'[u].op = After(t, j, u).op
              /\ job'[u].box = After(t, j, u).box /\ job'[u].seen = After(t, j, u).seen
              /\ job'[u].id = After(t, j, u).id
              /\ job'[u].fresh => /\ After(t, j, u).fresh
                                  /\ After(t, j, u).box \notin W
<1> DEFINE moved == [job EXCEPT ![t] = j]
<1>1. /\ moved \in [Tasks -> Jobs]
      /\ \A u \in Tasks : moved[u] = After(t, j, u)
  BY DEF After
<1>2. \A i \in Jobs : [i EXCEPT !.fresh = FALSE] \in Jobs
  BY DEF Jobs
<1> HIDE DEF moved
<1>3. job' = [v \in Tasks |-> IF moved[v].box \in W
                                THEN [moved[v] EXCEPT !.fresh = FALSE] ELSE moved[v]]
  BY DEF Moves, moved
<1>4. job' \in [Tasks -> Jobs]
  BY <1>1, <1>2, <1>3
<1>5. ASSUME NEW u \in Tasks, NEW k \in Jobs, k = After(t, j, u)
      PROVE  /\ job'[u].pc = k.pc /\ job'[u].op = k.op /\ job'[u].box = k.box
             /\ job'[u].seen = k.seen /\ job'[u].id = k.id
             /\ job'[u].fresh => k.fresh /\ k.box \notin W
  <2>1. job'[u] = IF k.box \in W THEN [k EXCEPT !.fresh = FALSE] ELSE k
    BY <1>1, <1>3, <1>5
  <2> QED
    BY <2>1 DEF Jobs
<1>6. \A u \in Tasks : After(t, j, u) \in Jobs
  BY DEF After
<1> QED
  BY <1>4, <1>5, <1>6

-----------------------------------------------------------------------------
(* What every step of a task inside its section does to the invariant: the    *)
(* task moves to a job j that is right about the objects after the step, or   *)
(* leaves the section, and only objects of its own box change.                *)

Moved(t, j, W) ==
  \/ /\ Goes(t, j, W)
     /\ j.pc \notin Waiting
     /\ j.box = job[t].box /\ j.op = job[t].op
     /\ j.pc = "patchExpired" => t \in Loops /\ j.seen.expires <= agenda[t].cutoff
     /\ j.fresh => job[t].box \in W \/ dep'[job[t].box] = j.seen
     /\ Cold(j, dep')
     /\ Blank(j, pvc')
  \/ j = NoJob /\ (Ends(t, W) \/ Raises(t, W))

Confined(b) ==
  /\ dep' \in [Boxes -> Deployments]
  /\ pvc' \in [Boxes -> Volumes]
  /\ svc' \in [Boxes -> BOOLEAN]
  /\ sec' \in [Boxes -> Identity]
  /\ \A a \in Boxes : a # b => dep'[a] = dep[a] /\ pvc'[a] = pvc[a]
  /\ pvc'[b].phase = "absent" => pvc'[b].inst = None

LEMMA SectionStep ==
  ASSUME ManagerInv, NEW t \in Tasks, NEW j \in Jobs, NEW W \in SUBSET Boxes,
         job[t].pc \notin Waiting,
         Moved(t, j, W), Confined(job[t].box),
         \A b \in Boxes : b \notin W => dep'[b] = dep[b],
         now' = now, cfg' = cfg, faults' \in Nat, stray' \in [Boxes -> SUBSET Parts]
  PROVE  ManagerInv'
<1> DEFINE Now(u) == After(t, j, u)
<1>1. job \in [Tasks -> Jobs] /\ Moves(t, j, W)
  BY DEF ManagerInv, TypeOK, Moved, Goes, Ends, Raises
<1>2. /\ job' \in [Tasks -> Jobs]
      /\ \A u \in Tasks :
           /\ job'[u].pc = Now(u).pc /\ job'[u].op = Now(u).op
           /\ job'[u].box = Now(u).box /\ job'[u].seen = Now(u).seen
           /\ job'[u].id = Now(u).id
           /\ job'[u].fresh => Now(u).fresh /\ Now(u).box \notin W
  BY <1>1, MovesFacts
<1> USE DEF ManagerInv
<1>3. TypeOK'
  <2>1. holder' \in [Controllers -> [Boxes -> Tasks \cup {None}]]
    BY ManagerAssumption DEF Moved, Goes, Ends, Raises, Unlock, TypeOK
  <2>2. agenda' \in [Loops -> Agendas]
    BY DEF Moved, Goes, Ends, Raises, TypeOK, Asleep, Agendas
  <2> QED
    BY <1>2, <2>1, <2>2 DEF TypeOK, Confined
<1>4. AgendaOK'
  BY DEF Moved, Goes, Ends, Raises, AgendaOK, Asleep, TypeOK
<1> HIDE DEF Now
<1>5. LocalOK'
  <2> SUFFICES ASSUME NEW u \in Tasks
               PROVE  /\ Now(u).pc # "idle" =>
                           /\ Now(u).box \in Boxes
                           /\ Now(u).op \in IF u \in Loops THEN {"reconcile", "expire"}
                                                           ELSE Ops
                      /\ Now(u).pc # "idle" /\ u \in Loops =>
                           agenda'[u].phase # "sleep"
                      /\ Now(u).op = "reconcile" => Configs # {Off}
                      /\ Now(u).pc = "patchExpired" =>
                           u \in Loops /\ Now(u).seen.expires <= agenda'[u].cutoff
    BY <1>2 DEF LocalOK
  <2>1. CASE u = t /\ j = NoJob
    BY <2>1, NoJobFacts DEF Now, After
  <2>2. CASE u = t /\ j # NoJob
    BY <2>2 DEF Now, After, Moved, Goes, LocalOK, Waiting
  <2>3. CASE u # t
    <3>1. u \in Loops => agenda'[u] = agenda[u]
      BY <2>3 DEF Moved, Goes, Ends, Raises, TypeOK
    <3> QED
      BY <2>3, <3>1 DEF Now, After, LocalOK
  <2> QED
    BY <2>1, <2>2, <2>3
<1>6. Owned'
  <2> SUFFICES ASSUME NEW u \in Tasks, Now(u).pc \notin Waiting
               PROVE  holder'[ControllerOf[u]][Now(u).box] = u
    BY <1>2 DEF Owned
  <2>1. CASE u = t
    BY <2>1, NoJobFacts DEF Now, After, Moved, Goes, Owned, Waiting
  <2>2. CASE u # t
    <3>1. holder[ControllerOf[u]][job[u].box] = u /\ job[u].box \in Boxes
      BY <2>2 DEF Now, After, Owned, LocalOK, Waiting
    <3> QED
      BY <2>2, <3>1, ManagerAssumption
      DEF Now, After, Moved, Goes, Ends, Raises, Unlock, TypeOK
  <2> QED
    BY <2>1, <2>2
<1>7. FreshView'
  <2> SUFFICES ASSUME NEW u \in Tasks, Now(u).fresh, Now(u).box \notin W
               PROVE  Now(u).box \in Boxes /\ dep'[Now(u).box] = Now(u).seen
    BY <1>2 DEF FreshView
  <2>1. CASE u = t
    BY <2>1, NoJobFacts DEF Now, After, Moved, LocalOK, Waiting
  <2>2. CASE u # t
    BY <2>2 DEF Now, After, FreshView
  <2> QED
    BY <2>1, <2>2
<1>8. \A u \in Tasks : u # t /\ job[u].pc \notin Waiting /\ Configs # {Off}
                       => job[u].box # job[t].box
  BY SingleWriterAssumption, ManagerAssumption DEF Owned
<1>9. ColdView'
  <2> SUFFICES ASSUME NEW u \in Tasks PROVE Cold(Now(u), dep')
    BY <1>2 DEF ColdView, Cold
  <2>1. CASE u = t
    BY <2>1, NoJobFacts DEF Now, After, Moved, Cold, ColdPcs, Patching
  <2>2. CASE u # t
    <3>1. Now(u) = job[u] /\ Cold(job[u], dep)
      BY <2>2 DEF Now, After, ColdView
    <3>2. CASE job[u].op = "reconcile" /\ job[u].pc \notin Waiting
      <4>1. job[u].box \in Boxes /\ job[u].box # job[t].box
        BY <1>8, <2>2, <3>2 DEF LocalOK, Waiting
      <4>2. dep'[job[u].box] = dep[job[u].box]
        BY <4>1 DEF Confined
      <4> QED
        BY <3>1, <4>2 DEF Cold
    <3>3. CASE job[u].op # "reconcile" \/ job[u].pc \in Waiting
      BY <3>1, <3>3 DEF Cold, Waiting, ColdPcs, Patching
    <3> QED
      BY <3>2, <3>3
  <2> QED
    BY <2>1, <2>2
<1>10. StampView'
  <2>1. ASSUME NEW u \in Tasks PROVE Blank(Now(u), pvc')
    <3>1. CASE u = t
      BY <3>1, NoJobFacts DEF Now, After, Moved, Blank
    <3>2. CASE u # t /\ job[u].pc # "stampVolume"
      BY <3>2 DEF Now, After, Blank
    <3>3. CASE u # t /\ job[u].pc = "stampVolume"
      <4>1. Configs # {Off} /\ pvc[job[u].box].inst = None /\ job[u].box \in Boxes
        BY <3>3 DEF StampView, Blank, LocalOK
      <4>2. pvc'[job[u].box] = pvc[job[u].box]
        BY <1>8, <3>3, <4>1 DEF Confined, Waiting
      <4> QED
        BY <3>3, <4>1, <4>2 DEF Now, After, Blank
    <3> QED
      BY <3>1, <3>2, <3>3
  <2>2. \A b \in Boxes : pvc'[b].phase = "absent" => pvc'[b].inst = None
    BY DEF Confined, StampView
  <2> QED
    BY <1>2, <2>1, <2>2 DEF StampView, Blank
<1> QED
  BY <1>3, <1>4, <1>5, <1>6, <1>7, <1>9, <1>10

\* The same, with the hypotheses of SectionStep as one formula.
Section(t) ==
  /\ job[t].pc \notin Waiting
  /\ Confined(job[t].box)
  /\ \E j \in Jobs, W \in SUBSET Boxes :
       /\ Moved(t, j, W)
       /\ \A b \in Boxes : b \notin W => dep'[b] = dep[b]
  /\ now' = now /\ cfg' = cfg /\ faults' \in Nat
  /\ stray' \in [Boxes -> SUBSET Parts]

LEMMA SectionInv ==
  ASSUME ManagerInv, NEW t \in Tasks, Section(t)
  PROVE  ManagerInv'
  BY SectionStep DEF Section

\* A step that changes no object.
LEMMA Reading ==
  ASSUME ManagerInv, NEW t \in Tasks, job[t].pc \notin Waiting,
         UNCHANGED <<now, cfg, clusterVars>>, faults' \in Nat,
         stray' \in [Boxes -> SUBSET Parts],
         NEW j \in Jobs, Moved(t, j, {})
  PROVE  Section(t)
<1>1. Confined(job[t].box)
  BY DEF clusterVars, Confined, ManagerInv, TypeOK, StampView, LocalOK, Waiting
<1>2. \A b \in Boxes : dep'[b] = dep[b]
  BY DEF clusterVars
<1> QED
  BY <1>1, <1>2 DEF Section, clusterVars

\* A step that writes the Deployment of its box and nothing else.
LEMMA Writing ==
  ASSUME ManagerInv, NEW t \in Tasks, job[t].pc \notin Waiting,
         UNCHANGED <<now, cfg, svc, sec, pvc>>, faults' \in Nat,
         stray' \in [Boxes -> SUBSET Parts],
         NEW d \in Deployments, dep' = [dep EXCEPT ![job[t].box] = d],
         NEW j \in Jobs, Moved(t, j, {job[t].box})
  PROVE  Section(t)
<1>1. job[t].box \in Boxes
  BY DEF ManagerInv, LocalOK, Waiting
<1>2. Confined(job[t].box)
  BY <1>1 DEF Confined, ManagerInv, TypeOK, StampView
<1>3. \A b \in Boxes : b \notin {job[t].box} => dep'[b] = dep[b]
  BY DEF ManagerInv, TypeOK
<1> QED
  BY <1>1, <1>2, <1>3 DEF Section

\* A step that writes the Service, the Secret or the PVC of its box.
LEMMA WritingParts ==
  ASSUME ManagerInv, NEW t \in Tasks, job[t].pc \notin Waiting,
         UNCHANGED <<now, cfg, dep>>, faults' \in Nat,
         stray' \in [Boxes -> SUBSET Parts],
         svc' \in [Boxes -> BOOLEAN], sec' \in [Boxes -> Identity],
         NEW v \in Volumes, v.phase = "absent" => v.inst = None,
         pvc' = pvc \/ pvc' = [pvc EXCEPT ![job[t].box] = v],
         NEW j \in Jobs, Moved(t, j, {})
  PROVE  Section(t)
<1>1. job[t].box \in Boxes
  BY DEF ManagerInv, LocalOK, Waiting
<1>2. Confined(job[t].box)
  BY <1>1 DEF Confined, ManagerInv, TypeOK, StampView
<1> QED
  BY <1>1, <1>2 DEF Section

\* The fields of a changed job.
LEMMA PcFields ==
  ASSUME NEW j \in Jobs, NEW pc \in Pcs, NEW k, k = [j EXCEPT !.pc = pc]
  PROVE  /\ k \in Jobs
         /\ k.pc = pc /\ k.box = j.box /\ k.op = j.op /\ k.seen = j.seen
         /\ k.fresh = j.fresh /\ k.id = j.id
  BY DEF Jobs

LEMMA IdFields ==
  ASSUME NEW j \in Jobs, NEW i \in Identity, NEW k, k = [j EXCEPT !.id = i]
  PROVE  /\ k \in Jobs
         /\ k.pc = j.pc /\ k.box = j.box /\ k.op = j.op /\ k.seen = j.seen
         /\ k.fresh = j.fresh /\ k.id = i
  BY DEF Jobs

Copied(j, pc, d) == [j EXCEPT !.pc = pc, !.seen = d, !.fresh = TRUE]

LEMMA CopyFields ==
  ASSUME NEW j \in Jobs, NEW pc \in Pcs, NEW d \in Deployments
  PROVE  /\ Copied(j, pc, d) \in Jobs
         /\ Copied(j, pc, d).pc = pc /\ Copied(j, pc, d).box = j.box
         /\ Copied(j, pc, d).op = j.op /\ Copied(j, pc, d).seen = d
         /\ Copied(j, pc, d).id = j.id
  BY DEF Copied, Jobs

LEMMA PartFields ==
  ASSUME NEW j \in Jobs, NEW P \in SUBSET Parts, NEW k, k = [j EXCEPT !.parts = P]
  PROVE  /\ k \in Jobs
         /\ k.pc = j.pc /\ k.box = j.box /\ k.op = j.op /\ k.seen = j.seen
         /\ k.fresh = j.fresh /\ k.id = j.id
  BY DEF Jobs

LEMMA RetryFields ==
  ASSUME NEW j \in Jobs, j.tries + 1 # ScaleAttempts, NEW k,
         k = [j EXCEPT !.pc = "readDeployment", !.tries = @ + 1]
  PROVE  /\ k \in Jobs
         /\ k.pc = "readDeployment" /\ k.box = j.box /\ k.op = j.op
         /\ k.seen = j.seen /\ k.fresh = j.fresh /\ k.id = j.id
<1>1. j.tries + 1 \in 0..(ScaleAttempts - 1)
  BY ManagerAssumption DEF Jobs
<1> QED
  BY <1>1 DEF Jobs, Pcs

\* The ways out of the section.
LEMMA Leaving ==
  ASSUME NEW t, NEW W, Ends(t, W) \/ Raises(t, W)
  PROVE  Moved(t, NoJob, W) /\ NoJob \in Jobs
  BY NoJobFacts DEF Moved

\* The way to another call of the same operation that keeps the copy read.
LEMMA Going ==
  ASSUME ManagerInv, NEW t \in Tasks, job[t].pc \notin Waiting, NEW W,
         NEW j \in Jobs, Goes(t, j, W),
         j.box = job[t].box, j.op = job[t].op, j.seen = job[t].seen,
         j.fresh = job[t].fresh,
         j.pc \notin Waiting \cup {"patchExpired", "stampVolume"},
         job[t].box \in W \/ dep'[job[t].box] = dep[job[t].box],
         Cold(j, dep')
  PROVE  Moved(t, j, W)
  BY DEF Moved, ManagerInv, FreshView, Blank

\* The same for a change of pc.
LEMMA GoingTo ==
  ASSUME ManagerInv, NEW t \in Tasks, job[t].pc \notin Waiting, NEW W,
         NEW j \in Jobs, j.box = job[t].box, j.op = job[t].op,
         j.seen = job[t].seen, j.fresh = job[t].fresh,
         NEW pc \in Pcs \ (Waiting \cup {"patchExpired", "stampVolume"}),
         Goes(t, [j EXCEPT !.pc = pc], W),
         job[t].box \in W \/ dep'[job[t].box] = dep[job[t].box],
         pc \in ColdPcs => job[t].op \in {"create", "start", "reconcile"},
         pc \in Patching => job[t].op # "create",
         job[t].op = "reconcile" =>
           /\ pc \in Patching => job[t].seen.replicas = 0
           /\ pc \in ColdPcs /\ job[t].seen.replicas = 0
                => dep'[job[t].box].replicas = 0
  PROVE  \E i \in Jobs : Moved(t, i, W)
<1>1. PICK k : k = [j EXCEPT !.pc = pc]
  OBVIOUS
<1>2. /\ k \in Jobs
      /\ k.pc = pc /\ k.box = j.box /\ k.op = j.op /\ k.seen = j.seen
      /\ k.fresh = j.fresh
  BY <1>1, PcFields
<1>3. Cold(k, dep')
  BY <1>2 DEF Cold
<1>4. Goes(t, k, W)
  BY <1>1
<1>5. Moved(t, k, W)
  BY <1>2, <1>3, <1>4, Going
<1> QED
  BY <1>2, <1>5

-----------------------------------------------------------------------------
\* Identity and credential.

\* Identified moves a job that is still right about the box, if cold.
LEMMA IdentifiedMoves ==
  ASSUME ManagerInv, NEW t \in Tasks, job[t].pc \in ColdPcs \ Patching, dep' = dep,
         NEW j \in Jobs, j.box = job[t].box, j.op = job[t].op,
         j.seen = job[t].seen, j.fresh = job[t].fresh,
         Identified(t, j)
  PROVE  \E i \in Jobs : Moved(t, i, {})
<1>1. CASE Raises(t, {})
  BY <1>1, Leaving
<1>2. CASE ~Raises(t, {})
  <2>1. PICK pc \in {"readSecret", "makeDeployment"} :
          Goes(t, [j EXCEPT !.pc = pc], {})
    BY <1>2 DEF Identified
  <2>2. Cold(job[t], dep) /\ job[t].pc \notin Waiting
    BY DEF ManagerInv, ColdView, ColdPcs, Waiting
  <2> QED
    BY <2>1, <2>2, GoingTo DEF Cold, Pcs, Waiting, Patching
<1> QED
  BY <1>1, <1>2

LEMMA SizedMoves ==
  ASSUME ManagerInv, NEW t \in Tasks, job[t].pc \in ColdPcs \ Patching, dep' = dep,
         NEW j \in Jobs, j.box = job[t].box, j.op = job[t].op,
         j.seen = job[t].seen, j.fresh = job[t].fresh,
         Sized(t, j)
  PROVE  \E i \in Jobs : Moved(t, i, {})
<1>1. CASE Identified(t, j)
  BY <1>1, IdentifiedMoves
<1>2. CASE j.op = "create" /\ Goes(t, [j EXCEPT !.pc = "growVolume"], {})
  BY <1>2, GoingTo DEF Pcs, Waiting, Patching, ColdPcs
<1> QED
  BY <1>1, <1>2 DEF Sized

LEMMA CredentialedMoves ==
  ASSUME ManagerInv, NEW t \in Tasks,
         job[t].pc \in {"readSecret", "makeSecret", "patchSecret"}, dep' = dep,
         Credentialed(t)
  PROVE  \E i \in Jobs : Moved(t, i, {})
<1>1. CASE Ends(t, {})
  BY <1>1, Leaving
<1>2. CASE ~Ends(t, {})
  <2>1. PICK pc \in {"makeDeployment", "patchMark", "patchTemplate", "patchScale",
                     "markRestart"} :
          /\ Goes(t, [job[t] EXCEPT !.pc = pc], {})
          /\ pc \in Patching => /\ job[t].op # "create"
                                /\ job[t].op = "start" \/ job[t].seen.replicas = 0
    BY <1>2 DEF Credentialed, Verdict, To, Patching
  <2>2. /\ job[t] \in Jobs /\ job[t].pc \notin Waiting
        /\ Cold(job[t], dep) /\ job[t].pc \in ColdPcs
    BY DEF ManagerInv, TypeOK, ColdView, ColdPcs, Waiting
  <2> QED
    BY <2>1, <2>2, GoingTo DEF Cold, Pcs, Waiting, Patching, ColdPcs
<1> QED
  BY <1>1, <1>2
\* What the invariant says of a task between two calls.
LEMMA Inside ==
  ASSUME ManagerInv, NEW t \in Tasks, job[t].pc \notin Waiting
  PROVE  /\ job[t] \in Jobs /\ job[t].box \in Boxes
         /\ dep[job[t].box] \in Deployments /\ pvc[job[t].box] \in Volumes
         /\ faults \in Nat /\ stray \in [Boxes -> SUBSET Parts]
         /\ svc \in [Boxes -> BOOLEAN] /\ sec \in [Boxes -> Identity]
         /\ Cold(job[t], dep)
  BY DEF ManagerInv, TypeOK, LocalOK, ColdView, Waiting

LEMMA ReadVolumeInv ==
  ASSUME ManagerInv, NEW t \in Tasks, ReadVolume(t)
  PROVE  Section(t)
<1>1. /\ job[t].pc = "readVolume" /\ job[t].pc \notin Waiting
      /\ job[t].pc \in ColdPcs \ Patching
  BY DEF ReadVolume, At, Waiting, ColdPcs, Patching
<1>2. dep' = dep /\ pvc' = pvc /\ UNCHANGED <<now, cfg, clusterVars, faults, stray>>
  BY DEF ReadVolume, clusterVars
<1>3. SUFFICES \E i \in Jobs : Moved(t, i, {})
  BY <1>1, <1>2, Inside, Reading
<1>4. CASE pvc[Box(t)].phase = "absent"
  <2>0. PICK i \in Identity : \E j :
          /\ j = [job[t] EXCEPT !.id = i]
          /\ IF j.op = "create" THEN Goes(t, [j EXCEPT !.pc = "makeVolume"], {})
                                ELSE Identified(t, j)
    BY <1>4 DEF ReadVolume, Identity, NewIds
  <2>1. PICK j :
          /\ j = [job[t] EXCEPT !.id = i]
          /\ IF j.op = "create" THEN Goes(t, [j EXCEPT !.pc = "makeVolume"], {})
                                ELSE Identified(t, j)
    BY <2>0
  <2>2. /\ j \in Jobs /\ j.box = job[t].box /\ j.op = job[t].op
        /\ j.seen = job[t].seen /\ j.fresh = job[t].fresh
    BY <1>1, <2>1, Inside, IdFields
  <2>3. CASE j.op = "create"
    BY <1>1, <1>2, <2>1, <2>2, <2>3, GoingTo DEF Pcs, Waiting, Patching
  <2>4. CASE j.op # "create"
    BY <1>1, <1>2, <2>1, <2>2, <2>4, IdentifiedMoves
  <2> QED
    BY <2>3, <2>4
<1>5. CASE pvc[Box(t)].phase # "absent" /\ (pvc[Box(t)].inst # None \/ ~On)
  <2>0. PICK i \in Identity : \E j : j = [job[t] EXCEPT !.id = i] /\ Sized(t, j)
    BY <1>1, <1>5, Inside DEF ReadVolume, Identity, Volumes, Box
  <2>1. PICK j : j = [job[t] EXCEPT !.id = i] /\ Sized(t, j)
    BY <2>0
  <2>2. /\ j \in Jobs /\ j.box = job[t].box /\ j.op = job[t].op
        /\ j.seen = job[t].seen /\ j.fresh = job[t].fresh
    BY <1>1, <2>1, Inside, IdFields
  <2> QED
    BY <1>1, <1>2, <2>1, <2>2, SizedMoves
<1>6. CASE pvc[Box(t)].phase # "absent" /\ pvc[Box(t)].inst = None /\ On
  <2>1. PICK i \in Identity : Goes(t, [job[t] EXCEPT !.pc = "stampVolume", !.id = i], {})
    BY <1>6 DEF ReadVolume, Identity, NewIds
  <2>0. PICK j : j = [job[t] EXCEPT !.id = i]
    OBVIOUS
  <2>2. /\ j \in Jobs /\ j.box = job[t].box /\ j.op = job[t].op
        /\ j.seen = job[t].seen /\ j.fresh = job[t].fresh
    BY <1>1, <2>0, Inside, IdFields
  <2>3. PICK k : k = [j EXCEPT !.pc = "stampVolume"]
    OBVIOUS
  <2>4. /\ k \in Jobs /\ k.box = job[t].box /\ k.op = job[t].op
        /\ k.seen = job[t].seen /\ k.fresh = job[t].fresh /\ k.pc = "stampVolume"
    <3>1. "stampVolume" \in Pcs
      BY DEF Pcs
    <3> QED
      BY <2>2, <2>3, <3>1, PcFields
  <2>5. k = [job[t] EXCEPT !.pc = "stampVolume", !.id = i]
    BY <1>1, <2>0, <2>3, Inside DEF Jobs
  <2>6. Blank(k, pvc') /\ Cold(k, dep')
    BY <1>1, <1>2, <1>6, <2>4, Inside
    DEF Blank, Cold, ColdPcs, Patching, On, Box, ManagerInv, TypeOK
  <2>7. k.fresh => dep'[job[t].box] = k.seen
    BY <1>2, <2>4 DEF ManagerInv, FreshView
  <2>8. Moved(t, k, {})
    BY <2>1, <2>4, <2>5, <2>6, <2>7 DEF Moved, Waiting
  <2> QED
    BY <2>4, <2>8
<1> QED
  BY <1>4, <1>5, <1>6

LEMMA StampVolumeInv ==
  ASSUME ManagerInv, NEW t \in Tasks, StampVolume(t)
  PROVE  Section(t)
<1>1. /\ job[t].pc = "stampVolume" /\ job[t].pc \notin Waiting
      /\ job[t].pc \in ColdPcs \ Patching
  BY DEF StampVolume, At, Waiting, ColdPcs, Patching
<1>2. UNCHANGED <<now, cfg, dep, svc, sec, stray>> /\ faults' \in Nat
  BY <1>1, Inside DEF StampVolume, AnswerLost, Spend
<1>3. CASE pvc[Box(t)].phase = "absent"
  BY <1>1, <1>2, <1>3, Inside, Leaving, Reading DEF StampVolume, clusterVars
<1>4. CASE pvc[Box(t)].phase # "absent"
  <2>1. PICK v : v = [pvc[job[t].box] EXCEPT !.inst = job[t].id]
    OBVIOUS
  <2>2. v \in Volumes /\ v.phase # "absent" /\ pvc' = [pvc EXCEPT ![job[t].box] = v]
    BY <1>1, <1>4, <2>1, Inside DEF StampVolume, Box, Volumes, Jobs
  <2>3. \E i \in Jobs : Moved(t, i, {})
    BY <1>1, <1>2, <1>4, Inside, SizedMoves, Leaving DEF StampVolume, AnswerLost
  <2> QED
    BY <1>1, <1>2, <2>2, <2>3, Inside, WritingParts
<1> QED
  BY <1>3, <1>4

LEMMA ReadSecretInv ==
  ASSUME ManagerInv, NEW t \in Tasks, ReadSecret(t)
  PROVE  Section(t)
<1>1. /\ job[t].pc = "readSecret" /\ job[t].pc \notin Waiting
      /\ job[t].pc \in ColdPcs
  BY DEF ReadSecret, At, Waiting, ColdPcs
<1>2. dep' = dep /\ UNCHANGED <<now, cfg, clusterVars, faults, stray>>
  BY DEF ReadSecret, clusterVars
<1>3. SUFFICES \E i \in Jobs : Moved(t, i, {})
  BY <1>1, <1>2, Inside, Reading
<1>4. CASE Credentialed(t)
  BY <1>1, <1>2, <1>4, CredentialedMoves
<1>5. ASSUME NEW pc \in {"makeSecret", "patchSecret"}, Goes(t, To(t, pc), {})
      PROVE  \E i \in Jobs : Moved(t, i, {})
  BY <1>1, <1>2, <1>5, Inside, GoingTo DEF To, Cold, ColdPcs, Patching, Pcs, Waiting
<1> QED
  BY <1>4, <1>5 DEF ReadSecret

LEMMA WriteSecretInv ==
  ASSUME ManagerInv, NEW t \in Tasks, WriteSecret(t)
  PROVE  Section(t)
<1>1. /\ job[t].pc \in {"makeSecret", "patchSecret"} /\ job[t].pc \notin Waiting
  BY DEF WriteSecret, At, Waiting
<1>2. dep' = dep /\ UNCHANGED <<now, cfg, dep, svc, pvc, stray>> /\ faults' \in Nat
  BY <1>1, Inside DEF WriteSecret, AnswerLost, Spend
<1>3. \E i \in Jobs : Moved(t, i, {})
  BY <1>1, <1>2, CredentialedMoves, Leaving DEF WriteSecret, AnswerLost
<1>4. sec' \in [Boxes -> Identity]
  BY <1>1, Inside DEF WriteSecret, Jobs
<1>5. [phase |-> "absent", inst |-> None] \in Volumes
  BY DEF Volumes, Identity
<1> QED
  BY <1>1, <1>2, <1>3, <1>4, <1>5, Inside, WritingParts
LEMMA RetriesMoves ==
  ASSUME ManagerInv, NEW t \in Tasks, job[t].pc \notin Waiting, dep' = dep,
         Retries(t)
  PROVE  \E i \in Jobs : Moved(t, i, {})
<1>1. CASE Raises(t, {})
  BY <1>1, Leaving
<1>2. CASE ~Raises(t, {})
  <2>1. PICK k : k = [job[t] EXCEPT !.pc = "readDeployment", !.tries = @ + 1]
    OBVIOUS
  <2>2. Goes(t, k, {}) /\ job[t].tries + 1 # ScaleAttempts
    BY <1>2, <2>1 DEF Retries
  <2>3. /\ k \in Jobs
        /\ k.pc = "readDeployment" /\ k.box = job[t].box /\ k.op = job[t].op
        /\ k.seen = job[t].seen /\ k.fresh = job[t].fresh
    BY <2>1, <2>2, Inside, RetryFields
  <2>4. Cold(k, dep')
    BY <2>3 DEF Cold, ColdPcs, Patching
  <2>5. Moved(t, k, {})
    BY <2>2, <2>3, <2>4, Going DEF Waiting
  <2> QED
    BY <2>3, <2>5
<1> QED
  BY <1>1, <1>2

LEMMA SecretMovedInv ==
  ASSUME ManagerInv, NEW t \in Tasks, SecretMoved(t)
  PROVE  Section(t)
<1>1. job[t].pc \notin Waiting
  BY DEF SecretMoved, At, Waiting
<1>2. UNCHANGED <<now, cfg, clusterVars, faults, stray>> /\ dep' = dep
  BY DEF SecretMoved, clusterVars
<1>3. \E i \in Jobs : Moved(t, i, {})
  BY <1>1, <1>2, RetriesMoves, Leaving DEF SecretMoved
<1> QED
  BY <1>1, <1>2, <1>3, Inside, Reading

-----------------------------------------------------------------------------
\* create.

\* To another call that neither prepares nor patches a template.
LEMMA GoingOn ==
  ASSUME ManagerInv, NEW t \in Tasks, job[t].pc \notin Waiting, NEW W,
         NEW pc \in Pcs \ (Waiting \cup ColdPcs \cup {"patchExpired"}),
         Goes(t, To(t, pc), W),
         job[t].box \in W \/ dep'[job[t].box] = dep[job[t].box]
  PROVE  \E i \in Jobs : Moved(t, i, W)
  BY Inside, GoingTo DEF To, ColdPcs, Patching

LEMMA UndoSecretMoves ==
  ASSUME ManagerInv, NEW t \in Tasks, job[t].pc \notin Waiting, NEW W,
         UndoSecret(t, W),
         job[t].box \in W \/ dep'[job[t].box] = dep[job[t].box]
  PROVE  \E i \in Jobs : Moved(t, i, W)
  BY GoingOn, Leaving DEF UndoSecret, Pcs, Waiting, ColdPcs

LEMMA CreateReadsInv ==
  ASSUME ManagerInv, NEW t \in Tasks, CreateReads(t)
  PROVE  Section(t)
<1>1. job[t].pc \notin Waiting /\ job[t].op = "create"
  BY DEF CreateReads, At, Waiting
<1>2. UNCHANGED <<now, cfg, clusterVars, faults, stray>> /\ dep' = dep
  BY DEF CreateReads, clusterVars
<1>3. CASE Goes(t, To(t, "readVolume"), {})
  <2>1. \E i \in Jobs : Moved(t, i, {})
    BY <1>1, <1>2, <1>3, Inside, GoingTo DEF To, Pcs, Waiting, Patching
  <2> QED
    BY <1>1, <1>2, <2>1, Inside, Reading
<1>4. CASE Raises(t, {})
  BY <1>1, <1>2, <1>4, Inside, Leaving, Reading
<1> QED
  BY <1>3, <1>4 DEF CreateReads

LEMMA MakeVolumeInv ==
  ASSUME ManagerInv, NEW t \in Tasks, MakeVolume(t)
  PROVE  Section(t)
<1>1. job[t].pc \notin Waiting /\ job[t].pc \in ColdPcs \ Patching
  BY DEF MakeVolume, At, Waiting, ColdPcs, Patching
<1>2. UNCHANGED <<now, cfg, dep, svc, sec, stray>> /\ faults' \in Nat
  BY <1>1, Inside DEF MakeVolume, AnswerLost, Spend
<1>3. CASE pvc[Box(t)].phase = "absent"
  <2>1. PICK v : v = [phase |-> "bound", inst |-> job[t].id]
    OBVIOUS
  <2>2. v \in Volumes /\ v.phase # "absent" /\ pvc' = [pvc EXCEPT ![job[t].box] = v]
    BY <1>1, <1>3, <2>1, Inside DEF MakeVolume, Box, Volumes, Jobs
  <2>3. \E i \in Jobs : Moved(t, i, {})
    BY <1>1, <1>2, <1>3, Inside, IdentifiedMoves, Leaving
    DEF MakeVolume, AnswerLost
  <2> QED
    BY <1>1, <1>2, <2>2, <2>3, Inside, WritingParts
<1>4. CASE pvc[Box(t)].phase # "absent"
  BY <1>1, <1>2, <1>4, Inside, Leaving, Reading DEF MakeVolume, clusterVars
<1> QED
  BY <1>3, <1>4

LEMMA GrowVolumeInv ==
  ASSUME ManagerInv, NEW t \in Tasks, GrowVolume(t)
  PROVE  Section(t)
<1>1. job[t].pc \notin Waiting /\ job[t].pc \in ColdPcs \ Patching
  BY DEF GrowVolume, At, Waiting, ColdPcs, Patching
<1>2. UNCHANGED <<now, cfg, clusterVars, faults, stray>> /\ dep' = dep
  BY DEF GrowVolume, clusterVars
<1>3. \E i \in Jobs : Moved(t, i, {})
  BY <1>1, <1>2, Inside, IdentifiedMoves, Leaving DEF GrowVolume
<1> QED
  BY <1>1, <1>2, <1>3, Inside, Reading

LEMMA MakeDeploymentInv ==
  ASSUME ManagerInv, NEW t \in Tasks, MakeDeployment(t)
  PROVE  Section(t)
<1>1. job[t].pc \notin Waiting
  BY DEF MakeDeployment, At, Waiting
<1>2. UNCHANGED <<now, cfg, svc, sec, pvc, stray>> /\ faults' \in Nat
  BY <1>1, Inside DEF MakeDeployment, Spend
<1>3. CASE dep[Box(t)].phase = "absent"
  <2>1. Built(t) \in Deployments
    BY <1>1, Inside, ManagerAssumption
    DEF Built, Deployments, Templates, Jobs, Identity, ManagerInv, TypeOK
  <2>2. dep' = [dep EXCEPT ![job[t].box] = Built(t)]
    BY <1>3 DEF MakeDeployment, Box
  <2>3. \E i \in Jobs : Moved(t, i, {job[t].box})
    BY <1>1, <1>3, GoingOn, UndoSecretMoves
    DEF MakeDeployment, Box, Pcs, Waiting, ColdPcs
  <2> QED
    BY <1>1, <1>2, <2>1, <2>2, <2>3, Inside, Writing
<1>4. CASE dep[Box(t)].phase # "absent"
  <2>1. dep' = dep /\ UndoSecret(t, {})
    BY <1>4 DEF MakeDeployment
  <2> QED
    BY <1>1, <1>2, <2>1, Inside, UndoSecretMoves, Reading DEF clusterVars
<1> QED
  BY <1>3, <1>4

LEMMA MakeServiceInv ==
  ASSUME ManagerInv, NEW t \in Tasks, MakeService(t)
  PROVE  Section(t)
<1>1. job[t].pc \notin Waiting
  BY DEF MakeService, At, Waiting
<1>2. /\ UNCHANGED <<now, cfg, dep, sec, pvc, stray>> /\ faults' \in Nat
      /\ svc' \in [Boxes -> BOOLEAN]
  <2>1. UNCHANGED <<now, cfg, dep, sec, pvc, stray>>
    BY DEF MakeService
  <2>2. faults' \in Nat
    BY <1>1, Inside DEF MakeService, Spend
  <2>3. svc' = svc \/ svc' = [svc EXCEPT ![Box(t)] = TRUE]
    BY Zenon DEF MakeService
  <2>4. svc' \in [Boxes -> BOOLEAN]
    BY <1>1, <2>3, Inside
  <2> QED
    BY <2>1, <2>2, <2>4
<1>3. \E i \in Jobs : Moved(t, i, {})
  BY <1>1, <1>2, GoingOn DEF MakeService, Pcs, Waiting, ColdPcs
<1>4. [phase |-> "absent", inst |-> None] \in Volumes
  BY DEF Volumes, Identity
<1> QED
  BY <1>1, <1>2, <1>3, <1>4, Inside, WritingParts

LEMMA DoomedFacts ==
  ASSUME NEW b, dep[b] \in Deployments
  PROVE  /\ Doomed(b) \in Deployments
         /\ Doomed(b).replicas = dep[b].replicas
         /\ Doomed(b).auto = dep[b].auto /\ Doomed(b).tmpl = dep[b].tmpl
<1>1. ASSUME NEW d \in Deployments, NEW e, e = [d EXCEPT !.phase = "deleting"]
      PROVE  /\ e \in Deployments /\ e.replicas = d.replicas
             /\ e.auto = d.auto /\ e.tmpl = d.tmpl
  BY <1>1 DEF Deployments
<1> QED
  BY <1>1 DEF Doomed

LEMMA UndoDeploymentInv ==
  ASSUME ManagerInv, NEW t \in Tasks, UndoDeployment(t)
  PROVE  Section(t)
<1>1. job[t].pc \notin Waiting
  BY DEF UndoDeployment, At, Waiting
<1>2. Doomed(job[t].box) \in Deployments
  BY <1>1, Inside, DoomedFacts
<1>3. \E i \in Jobs : Moved(t, i, {job[t].box})
  BY <1>1, UndoSecretMoves, Leaving DEF UndoDeployment, AnswerLost, Box
<1>4. UNCHANGED <<now, cfg, svc, sec, pvc, stray>> /\ faults' \in Nat
  BY <1>1, Inside DEF UndoDeployment, AnswerLost, Spend
<1> QED
  BY <1>1, <1>2, <1>3, <1>4, Inside, Writing DEF UndoDeployment, Box

LEMMA FinishUndoInv ==
  ASSUME ManagerInv, NEW t \in Tasks, FinishUndo(t)
  PROVE  Section(t)
<1>1. job[t].pc \notin Waiting
  BY DEF FinishUndo, At, Waiting
<1>2. sec' \in [Boxes -> Identity]
  BY <1>1, Inside DEF FinishUndo, Identity
<1>3. [phase |-> "absent", inst |-> None] \in Volumes
  BY DEF Volumes, Identity
<1> QED
  BY <1>1, <1>2, <1>3, Inside, Leaving, WritingParts DEF FinishUndo

LEMMA RefusedInv ==
  ASSUME ManagerInv, NEW t \in Tasks, Refused(t)
  PROVE  Section(t)
<1>1. job[t].pc \notin Waiting
  BY DEF Refused, At, Waiting
<1>2. UNCHANGED <<now, cfg, clusterVars, faults, stray>> /\ dep' = dep
  BY DEF Refused, clusterVars
<1>3. \E i \in Jobs : Moved(t, i, {})
  BY <1>1, <1>2, GoingOn, UndoSecretMoves, Leaving DEF Refused, Pcs, Waiting, ColdPcs
<1> QED
  BY <1>1, <1>2, <1>3, Inside, Reading

LEMMA RespondInv ==
  ASSUME ManagerInv, NEW t \in Tasks, Respond(t)
  PROVE  Section(t)
<1>1. job[t].pc \notin Waiting
  BY DEF Respond, At, Waiting
<1> QED
  BY <1>1, Inside, Leaving, Reading DEF Respond

-----------------------------------------------------------------------------
\* start and stop.

\* A step that reads the Deployment into the job.
LEMMA CopyMoves ==
  ASSUME ManagerInv, NEW t \in Tasks, job[t].pc \notin Waiting, dep' = dep,
         NEW pc \in Pcs \ (Waiting \cup Patching \cup {"stampVolume"}),
         Goes(t, [job[t] EXCEPT !.pc = pc, !.seen = dep[Box(t)], !.fresh = TRUE], {}),
         pc = "patchExpired" =>
           t \in Loops /\ dep[job[t].box].expires <= agenda[t].cutoff,
         pc \in ColdPcs => job[t].op \in {"create", "start", "reconcile"}
  PROVE  \E i \in Jobs : Moved(t, i, {})
<1>1. PICK k : k = Copied(job[t], pc, dep[job[t].box])
  OBVIOUS
<1>2. /\ k \in Jobs /\ k.pc = pc /\ k.box = job[t].box /\ k.op = job[t].op
      /\ k.seen = dep[job[t].box]
  BY <1>1, Inside, CopyFields
<1>3. Cold(k, dep') /\ Blank(k, pvc')
  BY <1>2 DEF Cold, Blank
<1>4. Goes(t, k, {})
  BY <1>1 DEF Copied, Box
<1> QED
  BY <1>2, <1>3, <1>4 DEF Moved

LEMMA ScaleReadsInv ==
  ASSUME ManagerInv, NEW t \in Tasks, ScaleReads(t)
  PROVE  Section(t)
<1>1. job[t].pc \notin Waiting /\ job[t].op \in {"start", "stop"}
  BY DEF ScaleReads, At, Waiting
<1>2. UNCHANGED <<now, cfg, clusterVars, faults, stray>> /\ dep' = dep
  BY DEF ScaleReads, clusterVars
<1>3. CASE Raises(t, {})
  BY <1>1, <1>2, <1>3, Inside, Leaving, Reading
<1>4. CASE ~Raises(t, {})
  <2>1. PICK pc \in {"readVolume", "patchScale"} :
          /\ Goes(t, [job[t] EXCEPT !.pc = pc, !.seen = dep[Box(t)], !.fresh = TRUE], {})
          /\ pc = "readVolume" => job[t].op = "start"
    BY <1>4 DEF ScaleReads
  <2>2. \E i \in Jobs : Moved(t, i, {})
    BY <1>1, <1>2, <2>1, CopyMoves DEF Pcs, Waiting, Patching, ColdPcs
  <2> QED
    BY <1>1, <1>2, <2>2, Inside, Reading
<1> QED
  BY <1>3, <1>4

\* The Deployment after _prepare_insights_template.
LEMMA PreparedFacts ==
  ASSUME NEW d \in Deployments, NEW i \in Identity, NEW e, cfg \in Configs,
         \/ e = [d EXCEPT !.inst = i, !.mark = "collecting"]
         \/ e = [d EXCEPT !.inst = i, !.mark = "restart_required"]
         \/ e = [[d EXCEPT !.inst = i, !.mark = "collecting"] EXCEPT
                   !.tmpl = [inst |-> i, cfg |-> cfg]]
  PROVE  /\ e \in Deployments
         /\ e.auto = d.auto /\ e.replicas = d.replicas /\ e.phase = d.phase
<1>1. [inst |-> i, cfg |-> cfg] \in Templates
  BY DEF Templates
<1>2. CASE e = [d EXCEPT !.inst = i, !.mark = "collecting"]
  BY <1>2 DEF Deployments
<1>3. CASE e = [d EXCEPT !.inst = i, !.mark = "restart_required"]
  BY <1>3 DEF Deployments
<1>4. CASE e = [[d EXCEPT !.inst = i, !.mark = "collecting"] EXCEPT
                  !.tmpl = [inst |-> i, cfg |-> cfg]]
  BY <1>1, <1>4 DEF Deployments
<1> QED
  BY <1>2, <1>3, <1>4

LEMMA PatchPreparedInv ==
  ASSUME ManagerInv, NEW t \in Tasks, PatchPrepared(t)
  PROVE  Section(t)
<1>1. job[t].pc \notin Waiting
  BY DEF PatchPrepared, At, Waiting
<1>2. UNCHANGED <<now, cfg, svc, sec, pvc, stray>> /\ faults' \in Nat
  BY <1>1, Inside DEF PatchPrepared, AnswerLost, Spend
<1>3. CASE dep[job[t].box].phase = "absent"
  <2>1. Raises(t, {}) /\ dep' = dep
    BY <1>3 DEF PatchPrepared, Box
  <2> QED
    BY <1>1, <1>2, <2>1, Inside, Leaving, Reading DEF clusterVars
<1>4. CASE dep[job[t].box].phase # "absent"
  <2> DEFINE d == dep[job[t].box]
             prepared == [d EXCEPT !.inst = job[t].id, !.mark = "collecting"]
  <2>1. PICK e : /\ \/ e = prepared
                    \/ e = [prepared EXCEPT !.tmpl = [inst |-> job[t].id, cfg |-> cfg]]
                 /\ dep' = [dep EXCEPT ![job[t].box] = e]
    BY <1>4 DEF PatchPrepared, Box
  <2>2. e \in Deployments
    <3>1. d \in Deployments /\ job[t].id \in Identity /\ cfg \in Configs
      BY <1>1, Inside DEF Jobs, ManagerInv, TypeOK
    <3> QED
      BY <2>1, <3>1, PreparedFacts
  <2>3. \E i \in Jobs : Moved(t, i, {job[t].box})
    BY <1>1, <1>4, GoingOn, Leaving
    DEF PatchPrepared, AnswerLost, Box, Pcs, Waiting, ColdPcs
  <2> QED
    BY <1>1, <1>2, <2>1, <2>2, <2>3, Inside, Writing
<1> QED
  BY <1>3, <1>4

LEMMA RereadDeploymentInv ==
  ASSUME ManagerInv, NEW t \in Tasks, RereadDeployment(t)
  PROVE  Section(t)
<1>1. job[t].pc \notin Waiting
  BY DEF RereadDeployment, At, Waiting
<1>2. UNCHANGED <<now, cfg, clusterVars, faults, stray>> /\ dep' = dep
  BY DEF RereadDeployment, clusterVars
<1>3. \E i \in Jobs : Moved(t, i, {})
  BY <1>1, <1>2, CopyMoves, Leaving
  DEF RereadDeployment, Pcs, Waiting, Patching, ColdPcs
<1> QED
  BY <1>1, <1>2, <1>3, Inside, Reading

LEMMA ScaledFacts ==
  ASSUME ManagerInv, NEW t \in Tasks, job[t].pc \notin Waiting
  PROVE  /\ Scaled(t) \in Deployments
         /\ Scaled(t).auto => dep[job[t].box].auto
         /\ Scaled(t).tmpl = dep[job[t].box].tmpl
<1>1. PICK d \in Deployments, n \in Nat : d = dep[Box(t)] /\ n = now + Ttl
  BY ManagerAssumption, Inside DEF ManagerInv, TypeOK, Box
<1>2. CASE job[t].op = "start"
  <2>1. Scaled(t) = [d EXCEPT !.replicas = 1, !.expires = n, !.auto = FALSE]
    BY <1>1, <1>2 DEF Scaled
  <2>2. Scaled(t) \in Deployments /\ Scaled(t).tmpl = d.tmpl
    BY <2>1 DEF Deployments
  <2>3. ~Scaled(t).auto
    BY <2>1 DEF Deployments
  <2> QED
    BY <1>1, <2>2, <2>3 DEF Box
<1>3. CASE job[t].op # "start"
  <2>1. Scaled(t) = [d EXCEPT !.replicas = 0]
    BY <1>1, <1>3 DEF Scaled
  <2>2. Scaled(t) \in Deployments /\ Scaled(t).tmpl = d.tmpl
    BY <2>1 DEF Deployments
  <2>3. Scaled(t).auto = d.auto
    BY <2>1 DEF Deployments
  <2> QED
    BY <1>1, <2>2, <2>3 DEF Box
<1> QED
  BY <1>2, <1>3

LEMMA PatchScaleInv ==
  ASSUME ManagerInv, NEW t \in Tasks, PatchScale(t)
  PROVE  Section(t)
<1>1. job[t].pc \notin Waiting
  BY DEF PatchScale, At, Waiting
<1>2. UNCHANGED <<now, cfg, svc, sec, pvc, stray>> /\ faults' \in Nat
  BY <1>1, Inside DEF PatchScale, AnswerLost, Spend
<1>3. \E i \in Jobs : Moved(t, i, {job[t].box})
  BY <1>1, GoingOn, Leaving DEF PatchScale, AnswerLost, Box, Pcs, Waiting, ColdPcs
<1>4. dep' = [dep EXCEPT ![job[t].box] = Scaled(t)]
  BY DEF PatchScale, Box
<1> QED
  BY <1>1, <1>2, <1>3, <1>4, ScaledFacts, Inside, Writing

LEMMA ScaleConflictsInv ==
  ASSUME ManagerInv, NEW t \in Tasks, ScaleConflicts(t)
  PROVE  Section(t)
<1>1. job[t].pc \notin Waiting
  BY DEF ScaleConflicts, At, Waiting
<1>2. UNCHANGED <<now, cfg, clusterVars, faults, stray>> /\ dep' = dep
  BY DEF ScaleConflicts, clusterVars
<1>3. \E i \in Jobs : Moved(t, i, {})
  BY <1>1, <1>2, RetriesMoves, Leaving DEF ScaleConflicts
<1> QED
  BY <1>1, <1>2, <1>3, Inside, Reading

-----------------------------------------------------------------------------
\* delete.

\* To another step of a deletion.
LEMMA DeletingOn ==
  ASSUME ManagerInv, NEW t \in Tasks, job[t].pc \notin Waiting, NEW W,
         NEW pc \in {"deleteParts", "deleteVolume"}, NEW P \in SUBSET Parts,
         NEW k, k = [[job[t] EXCEPT !.pc = pc] EXCEPT !.parts = P],
         Goes(t, k, W),
         job[t].box \in W \/ dep'[job[t].box] = dep[job[t].box]
  PROVE  \E i \in Jobs : Moved(t, i, W)
<1>1. PICK j : j = [job[t] EXCEPT !.pc = pc] /\ k = [j EXCEPT !.parts = P]
  OBVIOUS
<1>2. /\ j \in Jobs
      /\ j.pc = pc /\ j.box = job[t].box /\ j.op = job[t].op
      /\ j.seen = job[t].seen /\ j.fresh = job[t].fresh
  <2>1. pc \in Pcs
    BY DEF Pcs
  <2> QED
    BY <1>1, <2>1, Inside, PcFields
<1>3. /\ k \in Jobs
      /\ k.pc = pc /\ k.box = job[t].box /\ k.op = job[t].op
      /\ k.seen = job[t].seen /\ k.fresh = job[t].fresh
  <2>1. j \in Jobs /\ k = [j EXCEPT !.parts = P]
    BY <1>1, <1>2
  <2>2. /\ k \in Jobs
        /\ k.pc = j.pc /\ k.box = j.box /\ k.op = j.op /\ k.seen = j.seen
        /\ k.fresh = j.fresh
    BY ONLY <2>1, P \in SUBSET Parts, PartFields
  <2> QED
    BY <1>2, <2>2
<1>4. Cold(k, dep')
  BY <1>3 DEF Cold, ColdPcs, Patching
<1>5. Moved(t, k, W)
  BY <1>3, <1>4, Going DEF Waiting
<1> QED
  BY <1>3, <1>5

LEMMA DeleteReadsInv ==
  ASSUME ManagerInv, NEW t \in Tasks, DeleteReads(t)
  PROVE  Section(t)
<1>1. job[t].pc \notin Waiting
  BY DEF DeleteReads, At, Waiting
<1>2. UNCHANGED <<now, cfg, clusterVars, faults, stray>> /\ dep' = dep
  BY DEF DeleteReads, clusterVars
<1>3. \E i \in Jobs : Moved(t, i, {})
  BY <1>1, <1>2, DeletingOn, Leaving DEF DeleteReads
<1> QED
  BY <1>1, <1>2, <1>3, Inside, Reading

LEMMA EraseFacts ==
  ASSUME ManagerInv, NEW b \in Boxes, NEW p, Erase(b, p), pvc' = pvc
  PROVE  /\ Confined(b)
         /\ dep'[b] = dep[b] \/ dep'[b] = Doomed(b)
         /\ \A a \in Boxes : a \notin Touched(b, p) => dep'[a] = dep[a]
<1>1. dep' = dep \/ dep' = [dep EXCEPT ![b] = Doomed(b)]
  BY DEF Erase
<1>2. dep \in [Boxes -> Deployments] /\ Doomed(b) \in Deployments
  BY DoomedFacts DEF ManagerInv, TypeOK
<1>3. svc' \in [Boxes -> BOOLEAN]
  <2>1. svc' = svc \/ svc' = [svc EXCEPT ![b] = FALSE]
    BY Zenon DEF Erase
  <2> QED
    BY <2>1 DEF ManagerInv, TypeOK
<1>4. sec' \in [Boxes -> Identity]
  BY DEF Erase, ManagerInv, TypeOK, Identity
<1>5. Confined(b)
  BY <1>1, <1>2, <1>3, <1>4 DEF Confined, ManagerInv, TypeOK, StampView
<1>6. \A a \in Boxes : a \notin Touched(b, p) => dep'[a] = dep[a]
  BY <1>2 DEF Erase, Touched
<1> QED
  BY <1>1, <1>2, <1>5, <1>6

LEMMA ScatterFacts ==
  ASSUME ManagerInv, NEW t \in Tasks, job[t].pc \notin Waiting, NEW p, Scatter(t, p)
  PROVE  faults' \in Nat /\ stray' \in [Boxes -> SUBSET Parts]
  BY Inside DEF Scatter, Spend, Jobs, Box

LEMMA DeletePartInv ==
  ASSUME ManagerInv, NEW t \in Tasks, NEW p \in Parts, DeletePart(t, p)
  PROVE  Section(t)
<1>1. job[t].pc = "deleteParts" /\ job[t].pc \notin Waiting /\ job[t].box \in Boxes
  BY Inside DEF DeletePart, At, Waiting
<1>2. Erase(job[t].box, p) /\ UNCHANGED <<now, cfg, pvc>>
  BY DEF DeletePart, Box
<1>3. faults' \in Nat /\ stray' \in [Boxes -> SUBSET Parts]
  BY <1>1, Inside, ScatterFacts DEF DeletePart
<1> DEFINE W == Touched(job[t].box, p)
<1>4. /\ Confined(job[t].box)
      /\ \A a \in Boxes : a \notin W => dep'[a] = dep[a]
  BY <1>1, <1>2, EraseFacts
<1>5. W \in SUBSET Boxes
  BY <1>1 DEF Touched
<1> HIDE DEF W
<1>6. \E i \in Jobs : Moved(t, i, W)
  <2>1. CASE Ends(t, W) \/ Raises(t, W)
    BY <2>1, Leaving
  <2>2. CASE Goes(t, [job[t] EXCEPT !.parts = @ \ {p}], W)
    <3>1. PICK P : P = job[t].parts \ {p} /\ P \in SUBSET Parts
      BY <1>1, Inside DEF Jobs
    <3>2. PICK k : k = [job[t] EXCEPT !.parts = P] /\ Goes(t, k, W)
      BY <2>2, <3>1
    <3>3. k = [[job[t] EXCEPT !.pc = "deleteParts"] EXCEPT !.parts = P]
      BY <1>1, <3>2, Inside DEF Jobs
    <3> QED
      BY <1>1, <1>4, <3>1, <3>2, <3>3, DeletingOn
  <2>3. CASE Goes(t, [job[t] EXCEPT !.pc = "deleteVolume", !.parts = {}], W)
    BY <1>1, <1>4, <2>3, DeletingOn
  <2> QED
    BY <2>1, <2>2, <2>3 DEF DeletePart, W, Box
<1> QED
  BY <1>1, <1>2, <1>3, <1>4, <1>5, <1>6 DEF Section

LEMMA DeletePartFailsInv ==
  ASSUME ManagerInv, NEW t \in Tasks, NEW p \in Parts, DeletePartFails(t, p)
  PROVE  Section(t)
<1>1. job[t].pc \notin Waiting
  BY DEF DeletePartFails, At, Waiting
<1> QED
  BY <1>1, ScatterFacts, Leaving, Reading DEF DeletePartFails

LEMMA DeleteVolumeInv ==
  ASSUME ManagerInv, NEW t \in Tasks, DeleteVolume(t)
  PROVE  Section(t)
<1>1. job[t].pc \notin Waiting
  BY DEF DeleteVolume, At, Waiting
<1>2. PICK v : v = [pvc[job[t].box] EXCEPT !.phase = IF @ = "bound" THEN "deleting" ELSE @]
  OBVIOUS
<1>3. v \in Volumes /\ (v.phase = "absent" => v.inst = None)
  BY <1>1, <1>2, Inside DEF Volumes, ManagerInv, StampView
<1>4. pvc' = [pvc EXCEPT ![job[t].box] = v]
  BY <1>1, <1>2, Inside DEF DeleteVolume, Box
<1> QED
  BY <1>1, <1>3, <1>4, Inside, Leaving, WritingParts DEF DeleteVolume

-----------------------------------------------------------------------------
\* The calls of the cleanup loop, and calls that fail.

LEMMA ReconcileReadsInv ==
  ASSUME ManagerInv, NEW l \in Loops, ReconcileReads(l)
  PROVE  Section(l)
<1>1. l \in Tasks /\ job[l].pc \notin Waiting /\ job[l].op = "reconcile"
  BY DEF ReconcileReads, At, Waiting, Tasks
<1>2. UNCHANGED <<now, cfg, clusterVars, faults, stray>> /\ dep' = dep
  BY DEF ReconcileReads, clusterVars
<1>3. \E i \in Jobs : Moved(l, i, {})
  BY <1>1, <1>2, CopyMoves, Leaving DEF ReconcileReads, Pcs, Waiting, Patching
<1> QED
  BY <1>1, <1>2, <1>3, Inside, Reading

LEMMA ExpireReadsInv ==
  ASSUME ManagerInv, NEW l \in Loops, ExpireReads(l)
  PROVE  Section(l)
<1>1. l \in Tasks /\ job[l].pc \notin Waiting
  BY DEF ExpireReads, At, Waiting, Tasks
<1>2. UNCHANGED <<now, cfg, clusterVars, faults, stray>> /\ dep' = dep
  BY DEF ExpireReads, clusterVars
<1>3. \E i \in Jobs : Moved(l, i, {})
  BY <1>1, <1>2, CopyMoves, Leaving
  DEF ExpireReads, StillExpired, Box, Pcs, Waiting, Patching, ColdPcs
<1> QED
  BY <1>1, <1>2, <1>3, Inside, Reading

LEMMA MarkRestartInv ==
  ASSUME ManagerInv, NEW l \in Loops, MarkRestart(l)
  PROVE  Section(l)
<1>1. l \in Tasks /\ job[l].pc \notin Waiting
  BY DEF MarkRestart, At, Waiting, Tasks
<1>2. UNCHANGED <<now, cfg, svc, sec, pvc, stray>> /\ faults' \in Nat
  BY <1>1, Inside DEF MarkRestart, AnswerLost, Spend
<1>3. CASE dep[job[l].box].phase = "absent"
  <2>1. Raises(l, {}) /\ dep' = dep
    BY <1>3 DEF MarkRestart, Box
  <2> QED
    BY <1>1, <1>2, <2>1, Inside, Leaving, Reading DEF clusterVars
<1>4. CASE dep[job[l].box].phase # "absent"
  <2>1. PICK d \in Deployments, i \in Identity : d = dep[job[l].box] /\ i = job[l].id
    BY <1>1, Inside DEF Jobs
  <2>2. PICK e : e = [d EXCEPT !.inst = i, !.mark = "restart_required"]
    OBVIOUS
  <2>3. e \in Deployments
    BY <2>2, PreparedFacts DEF ManagerInv, TypeOK
  <2>4. e = [d EXCEPT !.mark = "restart_required", !.inst = i]
    BY <2>2 DEF Deployments
  <2>5. dep' = [dep EXCEPT ![job[l].box] =
                  [d EXCEPT !.mark = "restart_required", !.inst = i]]
    BY <1>1, <1>4, <2>1, Inside DEF MarkRestart, Box, ManagerInv, TypeOK
  <2>6. Moved(l, NoJob, {job[l].box}) /\ NoJob \in Jobs
    BY <1>4, Leaving DEF MarkRestart, AnswerLost, Box
  <2> QED
    BY <1>1, <1>2, <2>3, <2>4, <2>5, <2>6, Inside, Writing
<1> QED
  BY <1>3, <1>4

LEMMA PatchExpiredInv ==
  ASSUME ManagerInv, NEW l \in Loops, PatchExpired(l)
  PROVE  Section(l)
<1>1. l \in Tasks /\ job[l].pc \notin Waiting
  BY DEF PatchExpired, At, Waiting, Tasks
<1>2. UNCHANGED <<now, cfg, svc, sec, pvc, stray>> /\ faults' \in Nat
  BY <1>1, Inside DEF PatchExpired, AnswerLost, Spend
<1>3. CASE ~job[l].fresh
  <2>1. Raises(l, {}) /\ dep' = dep
    BY <1>3 DEF PatchExpired
  <2> QED
    BY <1>1, <1>2, <2>1, Inside, Leaving, Reading DEF clusterVars
<1>4. CASE job[l].fresh
  <2>1. PICK d \in Deployments : d = dep[job[l].box]
    BY <1>1, Inside
  <2>2. PICK e : e = [d EXCEPT !.replicas = 0, !.auto = TRUE]
    OBVIOUS
  <2>3. e \in Deployments
    BY <2>2 DEF Deployments
  <2>4. dep' = [dep EXCEPT ![job[l].box] = e]
    BY <1>1, <1>4, <2>1, <2>2, Inside DEF PatchExpired, Box, ManagerInv, TypeOK
  <2>5. Moved(l, NoJob, {job[l].box}) /\ NoJob \in Jobs
    BY <1>4, Leaving DEF PatchExpired, AnswerLost, Box
  <2> QED
    BY <1>1, <1>2, <2>3, <2>4, <2>5, Inside, Writing
<1> QED
  BY <1>3, <1>4

LEMMA CallFailsInv ==
  ASSUME ManagerInv, NEW t \in Tasks, CallFails(t)
  PROVE  Section(t)
<1>1. job[t].pc \notin Waiting
  BY DEF CallFails, At, Waiting
<1>2. UNCHANGED <<now, cfg, clusterVars, stray>> /\ dep' = dep /\ faults' \in Nat
  BY <1>1, Inside DEF CallFails, clusterVars, Spend
<1>3. \E i \in Jobs : Moved(t, i, {})
  BY <1>1, <1>2, GoingOn, UndoSecretMoves, Leaving DEF CallFails, Pcs, Waiting, ColdPcs
<1> QED
  BY <1>1, <1>2, <1>3, Inside, Reading

-----------------------------------------------------------------------------
(* Steps outside the sections: a task asks for the lock or takes it, a loop   *)
(* turns its agenda, an object changes without a task, a controller restarts. *)

\* Task t asks for the lock of a box (its job is new), or takes it.
LEMMA DoorStep ==
  ASSUME ManagerInv, NEW t \in Tasks, NEW j \in Jobs, Moves(t, j, {}),
         job[t].pc \in Waiting,
         UNCHANGED <<now, faults, cfg, clusterVars, stray>>,
         holder' \in [Controllers -> [Boxes -> Tasks \cup {None}]],
         agenda' \in [Loops -> Agendas], AgendaOK',
         \A l \in Loops : /\ agenda'[l].cutoff = agenda[l].cutoff
                          /\ agenda'[l].phase = agenda[l].phase,
         j.pc \in {"lock", "readDeployment"}, j.box \in Boxes,
         j.op \in IF t \in Loops THEN {"reconcile", "expire"} ELSE Ops,
         j.op = "reconcile" => Configs # {Off},
         t \in Loops => agenda[t].phase # "sleep",
         j.fresh => job[t].fresh /\ j.box = job[t].box /\ j.seen = job[t].seen,
         j.pc = "readDeployment" => holder'[ControllerOf[t]][j.box] = t,
         \A u \in Tasks : u # t /\ job[u].pc \notin Waiting =>
           holder'[ControllerOf[u]][job[u].box] = u
  PROVE  ManagerInv'
<1> DEFINE Now(u) == After(t, j, u)
<1>1. job \in [Tasks -> Jobs]
  BY DEF ManagerInv, TypeOK
<1>2. /\ job' \in [Tasks -> Jobs]
      /\ \A u \in Tasks :
           /\ job'[u].pc = Now(u).pc /\ job'[u].op = Now(u).op
           /\ job'[u].box = Now(u).box /\ job'[u].seen = Now(u).seen
           /\ job'[u].id = Now(u).id
           /\ job'[u].fresh => Now(u).fresh /\ Now(u).box \notin {}
  BY <1>1, MovesFacts
<1>3. /\ Now(t) = j /\ \A u \in Tasks : u # t => Now(u) = job[u]
  BY DEF After
<1> HIDE DEF Now
<1> USE DEF ManagerInv
<1>4. TypeOK'
  BY <1>2 DEF TypeOK, clusterVars
<1>5. LocalOK'
  BY <1>2, <1>3 DEF LocalOK
<1>6. Owned'
  BY <1>2, <1>3 DEF Owned, Waiting
<1>7. FreshView'
  BY <1>2, <1>3 DEF FreshView, clusterVars
<1>8. ColdView'
  BY <1>2, <1>3 DEF ColdView, Cold, ColdPcs, Patching, clusterVars
<1>9. StampView'
  BY <1>2, <1>3 DEF StampView, Blank, clusterVars
<1> QED
  BY <1>4, <1>5, <1>6, <1>7, <1>8, <1>9

LEMMA RequestInv ==
  ASSUME ManagerInv, NEW t \in Requests, NEW op \in Ops, NEW b \in Boxes,
         Request(t, op, b)
  PROVE  ManagerInv'
<1>1. PICK j : j = [NoJob EXCEPT !.pc = "lock", !.op = op, !.box = b]
  OBVIOUS
<1>2. /\ j \in Jobs /\ j.pc = "lock" /\ j.op = op /\ j.box = b /\ ~j.fresh
      /\ op # "reconcile"
  BY <1>1, NoJobFacts, ManagerAssumption DEF Jobs, NoJob, Pcs
<1>3. t \in Tasks /\ t \notin Loops /\ job[t].pc \in Waiting
  BY ManagerAssumption DEF Tasks, Request, At, Waiting
<1>4. /\ Moves(t, j, {}) /\ UNCHANGED <<now, faults, cfg, clusterVars, stray>>
      /\ holder' = holder /\ agenda' = agenda
  BY <1>1 DEF Request, Goes
<1>5. /\ holder' \in [Controllers -> [Boxes -> Tasks \cup {None}]]
      /\ agenda' \in [Loops -> Agendas] /\ AgendaOK'
  BY <1>4 DEF ManagerInv, TypeOK, AgendaOK
<1>6. \A u \in Tasks : u # t /\ job[u].pc \notin Waiting =>
           holder'[ControllerOf[u]][job[u].box] = u
  BY <1>4 DEF ManagerInv, Owned
<1> QED
  BY <1>2, <1>3, <1>4, <1>5, <1>6, DoorStep

LEMMA VisitInv ==
  ASSUME ManagerInv, NEW l \in Loops, NEW b \in Boxes, Visit(l, b)
  PROVE  ManagerInv'
<1>1. PICK j : j = [NoJob EXCEPT !.pc = "lock", !.op = agenda[l].phase, !.box = b]
  OBVIOUS
<1>2. /\ agenda[l] \in Agendas /\ b \in agenda[l].todo
      /\ agenda[l].phase \in {"reconcile", "expire"}
      /\ agenda[l].phase = "reconcile" => Configs # {Off}
  BY DEF ManagerInv, TypeOK, AgendaOK, Agendas, Visit
<1>3. /\ j \in Jobs /\ j.pc = "lock" /\ j.op = agenda[l].phase /\ j.box = b
      /\ ~j.fresh
  BY <1>1, <1>2, NoJobFacts DEF Jobs, NoJob, Pcs
<1>4. l \in Tasks /\ job[l].pc \in Waiting
  BY DEF Tasks, Visit, At, Waiting
<1>5. /\ Moves(l, j, {}) /\ UNCHANGED <<now, faults, cfg, clusterVars, stray>>
      /\ holder' = holder
  BY <1>1 DEF Visit
<1>6. /\ agenda' \in [Loops -> Agendas] /\ AgendaOK'
      /\ \A k \in Loops : /\ agenda'[k].cutoff = agenda[k].cutoff
                          /\ agenda'[k].phase = agenda[k].phase
  <2>1. PICK a : a = [agenda[l] EXCEPT !.todo = @ \ {b}]
    OBVIOUS
  <2>2. /\ a \in Agendas /\ a.phase = agenda[l].phase /\ a.cutoff = agenda[l].cutoff
        /\ a.phase # "sleep"
    BY <1>2, <2>1 DEF Agendas
  <2>3. agenda' = [agenda EXCEPT ![l] = a]
    BY <2>1 DEF Visit, ManagerInv, TypeOK
  <2> QED
    BY <1>5, <2>2, <2>3 DEF ManagerInv, TypeOK, AgendaOK
<1>7. holder' \in [Controllers -> [Boxes -> Tasks \cup {None}]]
  BY <1>5 DEF ManagerInv, TypeOK
<1>8. \A u \in Tasks : u # l /\ job[u].pc \notin Waiting =>
           holder'[ControllerOf[u]][job[u].box] = u
  BY <1>5 DEF ManagerInv, Owned
<1> QED
  BY <1>2, <1>3, <1>4, <1>5, <1>6, <1>7, <1>8, DoorStep

LEMMA EnterInv ==
  ASSUME ManagerInv, NEW t \in Tasks, Enter(t)
  PROVE  ManagerInv'
<1>1. PICK j : j = To(t, "readDeployment")
  OBVIOUS
<1>2. /\ job[t] \in Jobs /\ job[t].pc = "lock" /\ job[t].pc \in Waiting
      /\ job[t].box \in Boxes
      /\ job[t].op \in IF t \in Loops THEN {"reconcile", "expire"} ELSE Ops
      /\ job[t].op = "reconcile" => Configs # {Off}
      /\ t \in Loops => agenda[t].phase # "sleep"
  BY DEF ManagerInv, TypeOK, LocalOK, Enter, At, Waiting
<1>3. /\ j \in Jobs /\ j.pc = "readDeployment" /\ j.op = job[t].op
      /\ j.box = job[t].box /\ j.fresh = job[t].fresh /\ j.seen = job[t].seen
  <2>1. "readDeployment" \in Pcs
    BY DEF Pcs
  <2> QED
    BY <1>1, <1>2, <2>1, PcFields DEF To
<1>4. /\ Moves(t, j, {}) /\ UNCHANGED <<now, faults, cfg, clusterVars, stray>>
      /\ agenda' = agenda
  BY <1>1 DEF Enter
<1>5. agenda' \in [Loops -> Agendas] /\ AgendaOK'
  BY <1>4 DEF ManagerInv, TypeOK, AgendaOK
<1>6. ControllerOf \in [Tasks -> Controllers]
  BY ManagerAssumption
<1>7. holder \in [Controllers -> [Boxes -> Tasks \cup {None}]]
  BY DEF ManagerInv, TypeOK
<1>8. /\ holder[ControllerOf[t]][job[t].box] = None
      /\ holder' = [holder EXCEPT ![ControllerOf[t]] =
                      [holder[ControllerOf[t]] EXCEPT ![job[t].box] = t]]
  BY DEF Enter, Box
<1>9. /\ holder' \in [Controllers -> [Boxes -> Tasks \cup {None}]]
      /\ holder'[ControllerOf[t]][job[t].box] = t
  BY <1>2, <1>6, <1>7, <1>8
<1>10. ASSUME NEW u \in Tasks, u # t, job[u].pc \notin Waiting
       PROVE  holder'[ControllerOf[u]][job[u].box] = u
  <2>1. /\ holder[ControllerOf[u]][job[u].box] = u /\ job[u].box \in Boxes
        /\ u # None
    BY <1>10, ManagerAssumption DEF ManagerInv, Owned, LocalOK, Waiting
  <2> QED
    BY <1>2, <1>6, <1>7, <1>8, <2>1
<1> QED
  BY <1>2, <1>3, <1>4, <1>5, <1>9, <1>10, DoorStep

\* A loop turns its agenda; its own job is idle if its cutoff changes.
LEMMA AgendaStep ==
  ASSUME ManagerInv, NEW l \in Loops, NEW a \in Agendas,
         agenda' = [agenda EXCEPT ![l] = a], job[l].pc = "idle",
         a.phase = "sleep" => a.todo = {}, a.phase = "reconcile" => Configs # {Off},
         a.cutoff <= now,
         UNCHANGED <<now, cfg, clusterVars, holder, job, stray>>, faults' \in Nat
  PROVE  ManagerInv'
<1> USE DEF ManagerInv
<1>1. TypeOK'
  BY DEF TypeOK, clusterVars
<1>2. AgendaOK'
  BY DEF AgendaOK, TypeOK
<1>3. LocalOK'
  <2> SUFFICES ASSUME NEW t \in Tasks
               PROVE  /\ job[t].pc # "idle" /\ t \in Loops => agenda'[t].phase # "sleep"
                      /\ job[t].pc = "patchExpired" =>
                           t \in Loops /\ job[t].seen.expires <= agenda'[t].cutoff
    BY DEF LocalOK
  <2>1. CASE t = l
    BY <2>1
  <2>2. CASE t # l
    BY <2>2 DEF LocalOK, TypeOK
  <2> QED
    BY <2>1, <2>2
<1>4. Owned' /\ FreshView' /\ ColdView' /\ StampView'
  BY DEF Owned, FreshView, ColdView, Cold, StampView, Blank, clusterVars
<1> QED
  BY <1>1, <1>2, <1>3, <1>4

LEMMA AgendaInv ==
  ASSUME ManagerInv, NEW l \in Loops,
         \/ Wake(l) \/ StartExpiring(l) \/ FinishCycle(l) \/ ListFails(l)
         \/ \E tenant \in Tenants : ListTenant(l, tenant)
  PROVE  ManagerInv'
<1>1. /\ agenda[l] \in Agendas /\ faults \in Nat /\ now \in Nat /\ cfg \in Configs
      /\ l \in Tasks
      /\ agenda[l].phase = "sleep" => job[l].pc = "idle"
      /\ agenda[l].phase = "reconcile" => Configs # {Off}
      /\ agenda[l].cutoff <= now
  BY DEF ManagerInv, TypeOK, LocalOK, AgendaOK, Tasks
<1>2. PICK z \in Agendas :
        z = Asleep /\ z.phase = "sleep" /\ z.todo = {} /\ z.cutoff <= now
  <2>1. /\ Asleep \in Agendas /\ Asleep.phase = "sleep" /\ Asleep.todo = {}
        /\ Asleep.cutoff <= now
    BY <1>1 DEF Asleep, Agendas
  <2> QED
    BY <2>1
<1>3. CASE Wake(l)
  <2>1. PICK a : a = [phase |-> IF On THEN "reconcile" ELSE "expire",
                      tenants |-> Tenants, todo |-> {},
                      cutoff |-> IF On THEN 0 ELSE now]
    OBVIOUS
  <2>2. /\ a \in Agendas /\ a.phase # "sleep" /\ a.cutoff <= now
        /\ a.phase = "reconcile" => Configs # {Off}
    BY <1>1, <2>1 DEF Agendas, On
  <2>3. /\ agenda' = [agenda EXCEPT ![l] = a] /\ job[l].pc = "idle"
        /\ UNCHANGED <<now, cfg, clusterVars, holder, job, stray>> /\ faults' \in Nat
    BY <1>1, <1>3, <2>1 DEF Wake
  <2> QED
    BY <1>1, <2>2, <2>3, AgendaStep
<1>4. CASE StartExpiring(l)
  <2>1. PICK a : a = [phase |-> "expire", tenants |-> Tenants, todo |-> {},
                      cutoff |-> now]
    OBVIOUS
  <2>2. /\ a \in Agendas /\ a.phase # "sleep" /\ a.phase # "reconcile"
        /\ a.cutoff <= now
    BY <1>1, <2>1 DEF Agendas
  <2>3. /\ agenda' = [agenda EXCEPT ![l] = a] /\ job[l].pc = "idle"
        /\ UNCHANGED <<now, cfg, clusterVars, holder, job, stray>> /\ faults' \in Nat
    BY <1>1, <1>4, <2>1 DEF StartExpiring, At
  <2> QED
    BY <1>1, <2>2, <2>3, AgendaStep
<1>5. CASE FinishCycle(l) \/ ListFails(l)
  <2>1. /\ agenda' = [agenda EXCEPT ![l] = z] /\ job[l].pc = "idle"
        /\ UNCHANGED <<now, cfg, clusterVars, holder, job, stray>> /\ faults' \in Nat
    BY <1>1, <1>2, <1>5 DEF FinishCycle, ListFails, At, Spend
  <2>2. z.phase # "reconcile"
    BY <1>2
  <2> QED
    BY <1>1, <1>2, <2>1, <2>2, AgendaStep
<1>6. ASSUME NEW tenant \in Tenants, ListTenant(l, tenant) PROVE ManagerInv'
  <2>1. PICK a : a = [agenda[l] EXCEPT !.tenants = @ \ {tenant},
                                       !.todo = Listed(l, tenant)]
    OBVIOUS
  <2>2. /\ a \in Agendas /\ a.phase = agenda[l].phase /\ a.cutoff = agenda[l].cutoff
    BY <1>1, <2>1 DEF Agendas, Listed
  <2>3. agenda' = [agenda EXCEPT ![l] = a]
    BY <1>6, <2>1 DEF ListTenant, ManagerInv, TypeOK
  <2>4. /\ job[l].pc = "idle" /\ agenda[l].phase # "sleep"
        /\ UNCHANGED <<now, cfg, clusterVars, holder, job, stray>> /\ faults' \in Nat
    BY <1>1, <1>6 DEF ListTenant, At
  <2> QED
    BY <1>1, <2>2, <2>3, <2>4, AgendaStep
<1> QED
  BY <1>3, <1>4, <1>5, <1>6

\* An object of b changes without a task: its deployment or volume goes, a
\* deletion takes effect late, or another writer touches it.
LEMMA OutsideStep ==
  ASSUME ManagerInv, NEW b \in Boxes, NEW W,
         Moves(None, NoJob, W) \/ (job' = job /\ dep' = dep),
         \A a \in Boxes : a \notin W => dep'[a] = dep[a],
         Confined(b),
         dep'[b].replicas = dep[b].replicas \/ dep'[b].replicas = 0,
         pvc'[b].inst = pvc[b].inst \/ pvc'[b].inst = None,
         UNCHANGED <<now, cfg, holder, agenda>>, faults' \in Nat,
         stray' \in [Boxes -> SUBSET Parts]
  PROVE  ManagerInv'
<1>1. job \in [Tasks -> Jobs]
  BY DEF ManagerInv, TypeOK
<1>2. /\ job' \in [Tasks -> Jobs]
      /\ \A u \in Tasks :
           /\ job'[u].pc = job[u].pc /\ job'[u].op = job[u].op
           /\ job'[u].box = job[u].box /\ job'[u].seen = job[u].seen
           /\ job'[u].fresh => /\ job[u].fresh
                               /\ job[u].box \notin W \/ dep' = dep
  <2>1. CASE job' = job /\ dep' = dep
    BY <1>1, <2>1
  <2>2. CASE Moves(None, NoJob, W)
    <3>1. NoJob \in Jobs
      BY NoJobFacts
    <3>2. PICK z : z = None
      OBVIOUS
    <3>3. PICK j \in Jobs : z = None /\ j = NoJob
      BY <3>1, <3>2
    <3>4. \A u \in Tasks : After(z, j, u) = job[u]
      BY <3>3, ManagerAssumption DEF After
    <3>5. Moves(z, j, W)
      BY <2>2, <3>3
    <3>6. /\ job' \in [Tasks -> Jobs]
          /\ \A u \in Tasks :
              /\ job'[u].pc = After(z, j, u).pc /\ job'[u].op = After(z, j, u).op
              /\ job'[u].box = After(z, j, u).box
              /\ job'[u].seen = After(z, j, u).seen
              /\ job'[u].fresh => After(z, j, u).fresh /\ After(z, j, u).box \notin W
      BY <1>1, <3>5, MovesFacts
    <3> QED
      BY <3>4, <3>6
  <2> QED
    BY <2>1, <2>2
<1> USE DEF ManagerInv
<1>3. TypeOK'
  BY <1>2 DEF TypeOK, Confined
<1>4. AgendaOK' /\ LocalOK' /\ Owned'
  BY <1>2 DEF AgendaOK, LocalOK, Owned
<1>5. FreshView'
  BY <1>2 DEF FreshView
<1>6. ColdView'
  <2> SUFFICES ASSUME NEW u \in Tasks PROVE Cold(job[u], dep')
    BY <1>2 DEF ColdView, Cold
  <2>1. Cold(job[u], dep) /\ (job[u].pc \in ColdPcs => job[u].box \in Boxes)
    BY DEF ColdView, LocalOK, ColdPcs
  <2>2. job[u].box \in Boxes /\ dep[job[u].box].replicas = 0
          => dep'[job[u].box].replicas = 0
    BY DEF Confined
  <2> QED
    BY <2>1, <2>2 DEF Cold
<1>7. StampView'
  <2>1. ASSUME NEW u \in Tasks PROVE Blank(job[u], pvc')
    <3>1. job[u].pc = "stampVolume" => job[u].box \in Boxes
      BY DEF LocalOK
    <3> QED
      BY <3>1 DEF StampView, Blank, Confined
  <2>2. \A a \in Boxes : pvc'[a].phase = "absent" => pvc'[a].inst = None
    BY DEF Confined, StampView
  <2> QED
    BY <1>2, <2>1, <2>2 DEF StampView, Blank
<1> QED
  BY <1>3, <1>4, <1>5, <1>6, <1>7

LEMMA OutsideInv ==
  ASSUME ManagerInv, NEW b \in Boxes,
         \/ DeploymentGone(b) \/ VolumeGone(b) \/ ForeignWrite(b)
         \/ \E p \in Parts : Straggle(b, p)
  PROVE  ManagerInv'
<1>1. /\ dep \in [Boxes -> Deployments] /\ pvc \in [Boxes -> Volumes]
      /\ svc \in [Boxes -> BOOLEAN] /\ sec \in [Boxes -> Identity]
      /\ faults \in Nat /\ stray \in [Boxes -> SUBSET Parts]
      /\ \A a \in Boxes : pvc[a].phase = "absent" => pvc[a].inst = None
  BY DEF ManagerInv, TypeOK, StampView
<1>2. CASE DeploymentGone(b)
  <2>1. NoDeployment \in Deployments /\ NoDeployment.replicas = 0
    BY DEF NoDeployment, Deployments, NoSidecar, Templates, Identity
  <2>2. /\ Moves(None, NoJob, {b}) /\ dep' = [dep EXCEPT ![b] = NoDeployment]
        /\ UNCHANGED <<now, faults, cfg, svc, sec, pvc, holder, agenda, stray>>
    BY <1>2 DEF DeploymentGone
  <2>3. /\ Confined(b) /\ dep'[b].replicas = 0
        /\ \A a \in Boxes : a \notin {b} => dep'[a] = dep[a]
    BY <1>1, <2>1, <2>2 DEF Confined
  <2>4. pvc'[b].inst = pvc[b].inst /\ faults' \in Nat
        /\ stray' \in [Boxes -> SUBSET Parts]
    BY <1>1, <2>2
  <2> QED
    BY <2>2, <2>3, <2>4, OutsideStep
<1>3. CASE VolumeGone(b)
  <2>1. NoVolume \in Volumes /\ NoVolume.inst = None
    BY DEF NoVolume, Volumes, Identity
  <2>2. /\ pvc' = [pvc EXCEPT ![b] = NoVolume]
        /\ UNCHANGED <<now, faults, cfg, dep, svc, sec, holder, job, agenda, stray>>
    BY <1>3 DEF VolumeGone
  <2>3. Confined(b) /\ pvc'[b].inst = None /\ dep'[b].replicas = dep[b].replicas
    BY <1>1, <2>1, <2>2 DEF Confined
  <2> QED
    BY <1>1, <2>2, <2>3, OutsideStep
<1>4. CASE ForeignWrite(b)
  <2>1. /\ Moves(None, NoJob, {b}) /\ faults' \in Nat
        /\ UNCHANGED <<now, cfg, dep, svc, sec, pvc, holder, agenda, stray>>
    BY <1>1, <1>4 DEF ForeignWrite, Spend, clusterVars
  <2>2. Confined(b)
    BY <1>1, <2>1 DEF Confined
  <2> QED
    BY <1>1, <2>1, <2>2, OutsideStep
<1>5. ASSUME NEW p \in Parts, Straggle(b, p) PROVE ManagerInv'
  <2>1. /\ Moves(None, NoJob, Touched(b, p)) /\ Erase(b, p)
        /\ UNCHANGED <<now, faults, cfg, pvc, holder, agenda>>
        /\ stray' \in [Boxes -> SUBSET Parts]
    BY <1>1, <1>5 DEF Straggle
  <2>2. pvc'[b].inst = pvc[b].inst /\ faults' \in Nat
    BY <1>1, <2>1
  <2>3. Confined(b)
    BY <2>1, EraseFacts
  <2>4. dep'[b].replicas = dep[b].replicas
    <3>1. dep'[b] = dep[b] \/ dep'[b] = Doomed(b)
      BY <2>1, EraseFacts
    <3> QED
      BY <1>1, <3>1, DoomedFacts
  <2>5. \A a \in Boxes : a \notin Touched(b, p) => dep'[a] = dep[a]
    BY <2>1, EraseFacts
  <2> QED
    BY <2>1, <2>2, <2>3, <2>4, <2>5, OutsideStep
<1> QED
  BY <1>2, <1>3, <1>4, <1>5

LEMMA RestartInv ==
  ASSUME ManagerInv, NEW c \in Controllers, Restart(c)
  PROVE  ManagerInv'
<1> USE DEF ManagerInv
<1>1. job' = [t \in Tasks |-> IF ControllerOf[t] = c THEN NoJob ELSE job[t]]
  BY DEF Restart
<1>2. \A t \in Tasks :
        \/ job'[t] = NoJob
        \/ job'[t] = job[t] /\ ControllerOf[t] # c
  BY <1>1
<1>3. agenda' = [l \in Loops |-> IF ControllerOf[l] = c THEN Asleep ELSE agenda[l]]
  BY DEF Restart
<1>4. /\ Asleep \in Agendas /\ Asleep.phase = "sleep" /\ Asleep.todo = {}
      /\ Asleep.cutoff = 0
  BY DEF Asleep, Agendas
<1>5. /\ UNCHANGED <<now, dep, svc, sec, pvc>> /\ cfg' \in Configs /\ faults' \in Nat
      /\ holder' = [holder EXCEPT ![c] = [b \in Boxes |-> None]]
      /\ stray' \in [Boxes -> SUBSET Parts]
  BY DEF Restart, Spend, clusterVars, TypeOK
<1>6. TypeOK'
  BY <1>1, <1>3, <1>4, <1>5, NoJobFacts DEF TypeOK
<1>7. AgendaOK'
  BY <1>3, <1>4, <1>5 DEF AgendaOK, TypeOK
<1>8. LocalOK'
  <2> SUFFICES ASSUME NEW t \in Tasks, job'[t] = job[t], ControllerOf[t] # c
               PROVE  t \in Loops => agenda'[t] = agenda[t]
    BY <1>2, NoJobFacts DEF LocalOK
  <2> QED
    BY <1>3
<1>9. Owned'
  BY <1>2, <1>5, NoJobFacts, ManagerAssumption DEF Owned, Waiting, TypeOK
<1>10. FreshView'
  BY <1>2, <1>5, NoJobFacts DEF FreshView
<1>11. ColdView'
  BY <1>2, <1>5, NoJobFacts DEF ColdView, Cold, ColdPcs, Patching
<1>12. StampView'
  BY <1>2, <1>5, NoJobFacts DEF StampView, Blank
<1> QED
  BY <1>6, <1>7, <1>8, <1>9, <1>10, <1>11, <1>12

LEMMA TickInv ==
  ASSUME ManagerInv, Tick
  PROVE  ManagerInv'
<1> USE DEF ManagerInv
<1>1. /\ now \in Nat /\ now' = now + 1
      /\ UNCHANGED <<faults, cfg, dep, svc, sec, pvc, holder, job, agenda, stray>>
  BY DEF Tick, clusterVars, TypeOK
<1>2. TypeOK'
  BY <1>1 DEF TypeOK
<1>3. AgendaOK'
  <2>1. \A l \in Loops : agenda[l].cutoff \in Nat
    BY DEF TypeOK, Agendas
  <2> QED
    BY <1>1, <2>1 DEF AgendaOK
<1>4. LocalOK' /\ Owned' /\ FreshView' /\ ColdView' /\ StampView'
  BY <1>1 DEF LocalOK, Owned, FreshView, ColdView, Cold, StampView, Blank
<1> QED
  BY <1>2, <1>3, <1>4

LEMMA StutterInv ==
  ASSUME ManagerInv, UNCHANGED vars
  PROVE  ManagerInv'
  BY DEF vars, clusterVars, ManagerInv, TypeOK, AgendaOK, LocalOK, Owned, FreshView,
         ColdView, Cold, StampView, Blank

-----------------------------------------------------------------------------
(* The invariant, and what follows from it.                                   *)

\* A step of a task that holds the lock of its box.
Inner(t) ==
  \/ TaskStep(t)
  \/ t \in Loops /\ (\/ ReconcileReads(t) \/ MarkRestart(t)
                     \/ ExpireReads(t) \/ PatchExpired(t))
  \/ CallFails(t)
  \/ \E p \in Parts : DeletePartFails(t, p)

LEMMA InnerInv ==
  ASSUME ManagerInv, NEW t \in Tasks, Inner(t)
  PROVE  Section(t)
<1>1. CASE TaskStep(t)
  BY <1>1, ReadVolumeInv, StampVolumeInv, ReadSecretInv, WriteSecretInv,
     SecretMovedInv, CreateReadsInv, MakeVolumeInv, GrowVolumeInv, MakeDeploymentInv,
     MakeServiceInv, UndoDeploymentInv, FinishUndoInv, RefusedInv, RespondInv,
     ScaleReadsInv, PatchPreparedInv, RereadDeploymentInv, PatchScaleInv,
     ScaleConflictsInv, DeleteReadsInv, DeletePartInv, DeleteVolumeInv
  DEF TaskStep
<1>2. CASE ~TaskStep(t)
  BY <1>2, ReconcileReadsInv, MarkRestartInv, ExpireReadsInv, PatchExpiredInv,
     CallFailsInv, DeletePartFailsInv
  DEF Inner
<1> QED
  BY <1>1, <1>2

\* Next, with the steps of sections told from the others.
LEMMA NextCases ==
  ASSUME Next
  PROVE  \/ \E t \in Tasks : Inner(t)
         \/ \E t \in Requests, op \in Ops, b \in Boxes : Request(t, op, b)
         \/ \E t \in Tasks : Enter(t)
         \/ \E l \in Loops, b \in Boxes : Visit(l, b)
         \/ \E l \in Loops :
              \/ Wake(l) \/ StartExpiring(l) \/ FinishCycle(l) \/ ListFails(l)
              \/ \E tenant \in Tenants : ListTenant(l, tenant)
         \/ \E b \in Boxes :
              \/ DeploymentGone(b) \/ VolumeGone(b) \/ ForeignWrite(b)
              \/ \E p \in Parts : Straggle(b, p)
         \/ \E c \in Controllers : Restart(c)
         \/ Tick
<1>1. \A l \in Loops : l \in Tasks
  BY DEF Tasks
<1> QED
  BY <1>1 DEF Next, LoopStep, Kubernetes, Disturbance, Inner

LEMMA NextManagerInv ==
  ManagerInv /\ [Next]_vars => ManagerInv'
<1> SUFFICES ASSUME ManagerInv, [Next]_vars PROVE ManagerInv'
  OBVIOUS
<1>1. CASE UNCHANGED vars
  BY <1>1, StutterInv
<1>2. CASE Next
  <2>1. ASSUME NEW t \in Tasks, Inner(t) PROVE ManagerInv'
    BY <2>1, InnerInv, SectionInv
  <2> QED
    BY <1>2, <2>1, NextCases, RequestInv, EnterInv, VisitInv, AgendaInv, OutsideInv,
       RestartInv, TickInv
<1> QED
  BY <1>1, <1>2

LEMMA ManagerInvariant == Spec => []ManagerInv
  BY InitManagerInv, NextManagerInv, PTL DEF Spec

\* The types of every variable, for any number of boxes, tasks and faults.
THEOREM TypesHold == Spec => []TypeOK
<1>1. ManagerInv => TypeOK
  BY DEF ManagerInv
<1> QED
  BY <1>1, ManagerInvariant, PTL

\* What a step may make of the Deployment of b.
Rewritten(b) ==
  \/ dep'[b] \in {dep[b], Doomed(b), NoDeployment}
  \/ \E t \in Tasks :
       /\ Box(t) = b /\ job[t].pc \notin Waiting
       /\ \/ /\ At(t, "makeDeployment") /\ dep[b].phase = "absent"
             /\ dep'[b] = Built(t)
          \/ At(t, "patchScale") /\ dep'[b] = Scaled(t)
          \/ /\ job[t].pc \in Patching
             /\ LET prepared == [dep[b] EXCEPT !.inst = job[t].id, !.mark = "collecting"]
                IN \/ At(t, "patchMark") /\ dep'[b] = prepared
                   \/ dep'[b] = [prepared EXCEPT
                                   !.tmpl = [inst |-> job[t].id, cfg |-> cfg]]
          \/ dep'[b] = [dep[b] EXCEPT !.mark = "restart_required", !.inst = job[t].id]
          \/ /\ At(t, "patchExpired") /\ job[t].fresh
             /\ dep'[b] = [dep[b] EXCEPT !.replicas = 0, !.auto = TRUE]

LEMMA InnerRewrites ==
  ASSUME ManagerInv, NEW t \in Tasks, Inner(t), NEW b \in Boxes
  PROVE  Rewritten(b)
<1>1. /\ dep \in [Boxes -> Deployments]
      /\ job[t].pc \notin Waiting /\ job[t].box \in Boxes
  <2>1. Section(t)
    BY InnerInv
  <2>2. job[t].pc \notin Waiting
    BY <2>1 DEF Section
  <2> QED
    BY <2>2, Inside DEF ManagerInv, TypeOK
<1>2. CASE dep' = dep
  BY <1>2 DEF Rewritten
<1>3. CASE MakeDeployment(t)
  BY <1>1, <1>3 DEF MakeDeployment, Rewritten, Box
<1>4. CASE UndoDeployment(t)
  BY <1>1, <1>4 DEF UndoDeployment, Rewritten, Box
<1>5. CASE PatchScale(t)
  BY <1>1, <1>5 DEF PatchScale, Rewritten, Box
<1>6. CASE PatchPrepared(t)
  <2>1. job[t].pc \in Patching
    BY <1>6 DEF PatchPrepared, At, Patching
  <2> QED
    BY <1>1, <1>6, <2>1 DEF PatchPrepared, Rewritten, Box
<1>7. ASSUME NEW p \in Parts, DeletePart(t, p) PROVE Rewritten(b)
  <2>1. dep' = dep \/ dep' = [dep EXCEPT ![job[t].box] = Doomed(job[t].box)]
    BY <1>7 DEF DeletePart, Erase, Box
  <2> QED
    BY <1>1, <2>1 DEF Rewritten
<1>8. CASE t \in Loops /\ MarkRestart(t)
  BY <1>1, <1>8 DEF MarkRestart, Rewritten, Box
<1>9. CASE t \in Loops /\ PatchExpired(t)
  BY <1>1, <1>9 DEF PatchExpired, Rewritten, Box
<1>10. CASE TaskStep(t)
  <2>1. ASSUME dep' # dep
        PROVE  \/ MakeDeployment(t) \/ UndoDeployment(t) \/ PatchScale(t)
               \/ PatchPrepared(t) \/ \E p \in Parts : DeletePart(t, p)
    BY <1>10, <2>1
    DEF TaskStep, ReadVolume, StampVolume, ReadSecret, WriteSecret, SecretMoved,
        CreateReads, MakeVolume, GrowVolume, MakeService, FinishUndo, Refused,
        Respond, ScaleReads, RereadDeployment, ScaleConflicts, DeleteReads,
        DeleteVolume, clusterVars
  <2> QED
    BY <1>2, <1>3, <1>4, <1>5, <1>6, <1>7, <2>1
<1>11. CASE ~TaskStep(t)
  BY <1>2, <1>8, <1>9, <1>11
  DEF Inner, ReconcileReads, ExpireReads, CallFails, DeletePartFails, clusterVars
<1> QED
  BY <1>10, <1>11

LEMMA NextRewrites ==
  ASSUME ManagerInv, [Next]_vars, NEW b \in Boxes
  PROVE  Rewritten(b)
<1>1. dep \in [Boxes -> Deployments]
  BY DEF ManagerInv, TypeOK
<1>2. CASE dep' = dep
  BY <1>2 DEF Rewritten
<1>3. ASSUME NEW a \in Boxes, DeploymentGone(a) PROVE Rewritten(b)
  BY <1>1, <1>3 DEF DeploymentGone, Rewritten
<1>4. ASSUME NEW a \in Boxes, NEW p \in Parts, Straggle(a, p) PROVE Rewritten(b)
  <2>1. dep' = dep \/ dep' = [dep EXCEPT ![a] = Doomed(a)]
    BY <1>4 DEF Straggle, Erase
  <2> QED
    BY <1>1, <2>1 DEF Rewritten
<1>5. CASE Next /\ dep' # dep
  <2>1. \/ \E t \in Tasks : Inner(t)
        \/ \E a \in Boxes : DeploymentGone(a) \/ \E p \in Parts : Straggle(a, p)
    BY <1>5, NextCases
    DEF Request, Goes, Enter, Visit, Wake, StartExpiring, FinishCycle, ListFails,
        ListTenant, VolumeGone, ForeignWrite, Restart, Tick, clusterVars
  <2> QED
    BY <1>3, <1>4, <2>1, InnerRewrites
<1> QED
  BY <1>2, <1>5 DEF vars, clusterVars

\* A box that the loop stops is stopped after its lifetime, as it is then.
LEMMA StoppedExpired ==
  ASSUME ManagerInv, [Next]_vars, NEW b \in Boxes, dep'[b].auto, ~dep[b].auto
  PROVE  dep[b].expires <= now
<1>1. Rewritten(b)
  BY NextRewrites
<1>2. PICK d \in Deployments : d = dep[b]
  BY DEF ManagerInv, TypeOK
<1>3. dep'[b] \notin {dep[b], Doomed(b), NoDeployment}
  BY <1>2, DoomedFacts DEF NoDeployment
<1>4. PICK t \in Tasks :
        /\ Box(t) = b /\ job[t].pc \notin Waiting
        /\ \/ dep[b].phase = "absent" /\ dep'[b] = Built(t)
           \/ At(t, "patchScale") /\ dep'[b] = Scaled(t)
           \/ /\ job[t].pc \in Patching
              /\ LET prepared == [d EXCEPT !.inst = job[t].id, !.mark = "collecting"]
                 IN \/ dep'[b] = prepared
                    \/ dep'[b] = [prepared EXCEPT
                                    !.tmpl = [inst |-> job[t].id, cfg |-> cfg]]
           \/ dep'[b] = [d EXCEPT !.mark = "restart_required", !.inst = job[t].id]
           \/ At(t, "patchExpired") /\ job[t].fresh
  BY <1>1, <1>2, <1>3 DEF Rewritten
<1>5. ~Built(t).auto /\ (Scaled(t).auto => dep[b].auto)
  BY <1>4, ScaledFacts DEF Built, Box
<1>6. /\ job[t].id \in Identity /\ cfg \in Configs
  BY <1>4, Inside DEF Jobs, ManagerInv, TypeOK
<1>7. ASSUME NEW e,
             \/ e = [d EXCEPT !.inst = job[t].id, !.mark = "collecting"]
             \/ e = [d EXCEPT !.mark = "restart_required", !.inst = job[t].id]
             \/ e = [[d EXCEPT !.inst = job[t].id, !.mark = "collecting"] EXCEPT
                       !.tmpl = [inst |-> job[t].id, cfg |-> cfg]]
      PROVE  e.auto = d.auto
  BY <1>7 DEF Deployments
<1>8. At(t, "patchExpired") /\ job[t].fresh
  BY <1>2, <1>4, <1>5, <1>7
<1>9. /\ t \in Loops /\ job[t].seen.expires <= agenda[t].cutoff
      /\ agenda[t].cutoff <= now /\ dep[b] = job[t].seen
      /\ agenda[t].cutoff \in Nat /\ now \in Nat /\ dep[b].expires \in Nat
  BY <1>2, <1>4, <1>8
  DEF At, Box, ManagerInv, LocalOK, AgendaOK, FreshView, TypeOK, Agendas, Deployments
<1> QED
  BY <1>9

\* stop_expired never stops a box that was renewed before the patch: its
\* snapshot is current by its resourceVersion and had expired by a past clock.
THEOREM NeverStoppedEarlyHolds == Spec => NeverStoppedEarly
<1>1. ManagerInv /\ [Next]_vars =>
        [\A b \in Boxes : dep'[b].auto /\ ~dep[b].auto => dep[b].expires <= now]_vars
  BY StoppedExpired
<1> QED
  BY <1>1, ManagerInvariant, PTL DEF Spec, NeverStoppedEarly

\* A template that changes under a running box is changed by a start.
LEMMA RestartedByStart ==
  ASSUME ManagerInv, [Next]_vars, NEW b \in Boxes, Running(b),
         dep'[b].phase = "live", dep'[b].tmpl # dep[b].tmpl
  PROVE  \E t \in Requests : Busy(t, b) /\ job[t].op = "start"
<1>1. PICK d \in Deployments : d = dep[b] /\ d.phase = "live" /\ d.replicas = 1
  BY DEF ManagerInv, TypeOK, Running, Live
<1>2. dep'[b] \notin {dep[b], Doomed(b), NoDeployment}
  BY <1>1, DoomedFacts DEF NoDeployment
<1>3. PICK t \in Tasks :
        /\ Box(t) = b /\ job[t].pc \notin Waiting
        /\ \/ At(t, "patchScale") /\ dep'[b] = Scaled(t)
           \/ job[t].pc \in Patching
           \/ dep'[b] = [d EXCEPT !.mark = "restart_required", !.inst = job[t].id]
           \/ dep'[b] = [d EXCEPT !.replicas = 0, !.auto = TRUE]
  BY <1>1, <1>2, NextRewrites DEF Rewritten
<1>4. Scaled(t).tmpl = dep[b].tmpl
  BY <1>3, ScaledFacts DEF Box
<1>5. ASSUME NEW e,
             \/ e = [d EXCEPT !.mark = "restart_required", !.inst = job[t].id]
             \/ e = [d EXCEPT !.replicas = 0, !.auto = TRUE]
      PROVE  e.tmpl = d.tmpl
  BY <1>5 DEF Deployments
<1>6. job[t].pc \in Patching
  BY <1>1, <1>3, <1>4, <1>5
<1>7. /\ Cold(job[t], dep) /\ job[t].box = b
      /\ job[t].op \in IF t \in Loops THEN {"reconcile", "expire"} ELSE Ops
  BY <1>3, Inside DEF Box, ManagerInv, LocalOK, Waiting
<1>8. job[t].op # "reconcile"
  BY <1>1, <1>6, <1>7 DEF Cold, ColdPcs, Patching
<1>9. job[t].op = "start" /\ t \notin Loops
  BY <1>6, <1>7, <1>8 DEF Cold, ColdPcs, Patching
<1>10. t \in Requests
  BY <1>9 DEF Tasks
<1> QED
  BY <1>3, <1>7, <1>9, <1>10 DEF Busy, Waiting

\* The cleanup loop never replaces the pod template of a running box, although
\* its patch carries no resourceVersion: it holds the lock since it read the
\* box stopped, and with Insights on there is one controller.
THEOREM ActiveNeverRestartedHolds == Spec => ActiveNeverRestarted
<1>1. ManagerInv /\ [Next]_vars =>
        [\A b \in Boxes :
           Running(b) /\ dep'[b].phase = "live" /\ dep'[b].tmpl # dep[b].tmpl
             => \E t \in Requests : Busy(t, b) /\ job[t].op = "start"]_vars
  BY RestartedByStart
<1> QED
  BY <1>1, ManagerInvariant, PTL DEF Spec, ActiveNeverRestarted

-----------------------------------------------------------------------------

\* A step keeps the identity recorded on a PVC, or removes the PVC.
LEMMA InnerKeepsIdentity ==
  ASSUME ManagerInv, NEW t \in Tasks, Inner(t), NEW b \in Boxes,
         pvc[b].inst # None
  PROVE  pvc'[b].inst = pvc[b].inst
<1>1. /\ pvc \in [Boxes -> Volumes] /\ pvc[b] \in Volumes
      /\ pvc[b].phase # "absent" /\ Blank(job[t], pvc)
  BY DEF ManagerInv, TypeOK, StampView
<1>2. CASE pvc' = pvc
  BY <1>2
<1>3. CASE StampVolume(t)
  <2>1. pvc[Box(t)].inst = None /\ Box(t) # b
    BY <1>1, <1>3 DEF StampVolume, At, Blank, Box
  <2> QED
    BY <1>1, <1>3, <2>1 DEF StampVolume
<1>4. CASE MakeVolume(t)
  BY <1>1, <1>4 DEF MakeVolume
<1>5. CASE DeleteVolume(t)
  <2>1. PICK v : /\ v = [pvc[Box(t)] EXCEPT
                           !.phase = IF @ = "bound" THEN "deleting" ELSE @]
                 /\ pvc' = [pvc EXCEPT ![Box(t)] = v]
    BY <1>1, <1>5 DEF DeleteVolume
  <2>2. Box(t) = b => v.inst = pvc[b].inst
    BY <1>1, <2>1 DEF Volumes
  <2> QED
    BY <1>1, <2>1, <2>2
<1>6. CASE TaskStep(t) /\ pvc' # pvc
  BY <1>3, <1>4, <1>5, <1>6
  DEF TaskStep, ReadVolume, ReadSecret, WriteSecret, SecretMoved, CreateReads,
      GrowVolume, MakeDeployment, MakeService, UndoDeployment, FinishUndo, Refused,
      Respond, ScaleReads, PatchPrepared, RereadDeployment, PatchScale,
      ScaleConflicts, DeleteReads, DeletePart, clusterVars
<1>7. CASE ~TaskStep(t)
  BY <1>2, <1>7
  DEF Inner, ReconcileReads, MarkRestart, ExpireReads, PatchExpired, CallFails,
      DeletePartFails, clusterVars
<1> QED
  BY <1>2, <1>6, <1>7

LEMMA NextKeepsIdentity ==
  ASSUME ManagerInv, [Next]_vars, NEW b \in Boxes, pvc[b].inst # None,
         pvc'[b].phase # "absent"
  PROVE  pvc'[b].inst = pvc[b].inst
<1>1. CASE pvc' = pvc
  BY <1>1
<1>2. ASSUME NEW a \in Boxes, VolumeGone(a) PROVE pvc'[b].inst = pvc[b].inst
  BY <1>2 DEF VolumeGone, NoVolume, ManagerInv, TypeOK
<1>3. CASE Next /\ pvc' # pvc
  <2>1. (\E t \in Tasks : Inner(t)) \/ (\E a \in Boxes : VolumeGone(a))
    BY <1>3, NextCases
    DEF Request, Goes, Enter, Visit, Wake, StartExpiring, FinishCycle, ListFails,
        ListTenant, DeploymentGone, ForeignWrite, Straggle, Restart, Tick, clusterVars
  <2> QED
    BY <1>2, <2>1, InnerKeepsIdentity
<1> QED
  BY <1>1, <1>3 DEF vars, clusterVars

\* The identity on a home PVC, once recorded, lasts as long as the PVC: the
\* task that records one holds the lock since it found none.
THEOREM IdentityStableHolds == Spec => IdentityStable
<1>1. ManagerInv /\ [Next]_vars =>
        [\A b \in Boxes : pvc[b].inst # None /\ pvc'[b].phase # "absent"
                            => pvc'[b].inst = pvc[b].inst]_vars
  BY NextKeepsIdentity
<1> QED
  BY <1>1, ManagerInvariant, PTL DEF Spec, IdentityStable
=============================================================================
