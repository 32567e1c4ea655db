----------------------------- MODULE ReadyProofs -----------------------------
(* Proofs about Reconciler for every set of services and specs, any lagging *)
(* kinds and any bounds: Ready means that the generation was carried out,  *)
(* and that it runs, with the exceptions that astray and unsure record.    *)
EXTENDS ReconcilerProofs

-----------------------------------------------------------------------------
(* The KubeNova and its copies grow older in step.                         *)

\* x is kn with a status of its own generation.
Restatus(x, kn) ==
  /\ x \in KubeNova /\ kn \in KubeNova
  /\ x.uid = kn.uid /\ x.gen = kn.gen /\ x.spec = kn.spec /\ x.deleting = kn.deleting
  /\ x.status.og = kn.gen

LEMMA StatusRestatus ==
  ASSUME NEW kn \in KubeNova, NEW phase \in Phases, NEW ok \in BOOLEAN
  PROVE  /\ Restatus(setStatusPhase(kn, phase), kn) /\ setStatusPhase(kn, phase).status.phase = phase
         /\ Restatus(Verdict(kn, ok), kn) /\ Restatus(Validate(kn), kn)
<1>1. /\ setStatusPhase(kn, phase) \in KubeNova /\ Verdict(kn, ok) \in KubeNova
      /\ Validate(kn) \in KubeNova
  BY StatusType
<1>2. /\ Restatus(setStatusPhase(kn, phase), kn) /\ setStatusPhase(kn, phase).status.phase = phase
  BY <1>1 DEF setStatusPhase, Restatus, KubeNova, Status
<1>3. Restatus(Verdict(kn, ok), kn) /\ Restatus(Validate(kn), kn)
  BY <1>1 DEF Verdict, Validate, SetCondition, setStatusPhase, Restatus, KubeNova, Status
<1> QED BY <1>2, <1>3

LEMMA RestatusTwice ==
  ASSUME NEW kn, NEW x, NEW y, Restatus(x, kn), Restatus(y, x) PROVE Restatus(y, kn)
BY DEF Restatus

\* A pass's copy is dropped, kept, or an older copy with a new status.
Carried ==
  \/ kubenova' = None /\ pc' = "idle"
  \/ /\ kubenova' = kubenova
     /\ \/ pc' = pc
        \/ pc \in {"deleting", "binding"} /\ pc' \in {"binding", "finalizer"}
        \/ pc \in {"namespace", "ensure"} /\ pc' \in {"ensure", "check"}
  \/ /\ Restatus(kubenova', Seen)
     /\ \/ pc' = "namespace" /\ ~Seen.deleting
        \/ pc' = "failing" /\ kubenova'.status.phase # "Ready"
        \/ pc' = "deleting" /\ kubenova'.status.phase # "Ready" /\ Seen.deleting
  \/ /\ Restatus(kubenova', kubenova) /\ pc # "idle"
     /\ \/ pc' = "failing" /\ kubenova'.status.phase # "Ready"
        \/ pc \in {"namespace", "ensure"} /\ pc' \in {"ensure", "check"}
        \/ pc = "check" /\ pc' = "reporting"

LEMMA CopyStep == ASSUME TypeOK, [Next]_vars PROVE Carried
<1>1. CASE Kept
  BY <1>1 DEF Kept, Carried, TypeOK, PassType
<1>2. CASE Seen \in KubeNova /\ kubenova' = Validate(Seen) /\ pc' = "namespace" /\ ~Seen.deleting
  BY <1>2, StatusRestatus DEF Carried, Phases
<1>3. CASE Seen \in KubeNova /\ kubenova' = setStatusPhase(Validate(Seen), "Failed") /\ pc' = "failing"
  <2>1. Restatus(Validate(Seen), Seen) /\ Validate(Seen) \in KubeNova
    BY <1>3, StatusRestatus DEF Restatus, Phases
  <2>2. /\ Restatus(kubenova', Validate(Seen)) /\ kubenova'.status.phase = "Failed"
    BY <1>3, <2>1, StatusRestatus DEF Phases
  <2> QED BY <1>3, <2>1, <2>2, RestatusTwice DEF Carried
<1>4. CASE Seen \in KubeNova /\ kubenova' = setStatusPhase(Seen, "Deleting") /\ pc' = "deleting" /\ Seen.deleting
  BY <1>4, StatusRestatus DEF Carried, Phases
<1>5. CASE /\ pc \in {"namespace", "ensure"} /\ kubenova \in KubeNova
           /\ \/ kubenova' = setStatusPhase(kubenova, "Failed") /\ pc' = "failing"
              \/ pc' \in {"ensure", "check"} /\ kubenova' \in {kubenova, setStatusPhase(kubenova, "Creating")}
  BY <1>5, StatusRestatus DEF Carried, Phases
<1>6. CASE /\ pc = "check" /\ kubenova \in KubeNova /\ pc' = "reporting"
           /\ \E ok \in BOOLEAN : kubenova' = Verdict(kubenova, ok)
  BY <1>6, StatusRestatus DEF Carried, Phases
<1> QED BY <1>1, <1>2, <1>3, <1>4, <1>5, <1>6, PassStep DEF Passed

\* Older, of any KubeNova c and count u of uids.
Behind(kn, c, u) ==
  kn # None =>
    /\ kn.uid <= u
    /\ kn.status.phase = "Ready" => kn.status.og <= kn.gen
    /\ c # None /\ kn.uid = c.uid =>
         /\ kn.gen <= c.gen
         /\ kn.gen = c.gen => kn.spec = c.spec /\ kn.deleting = c.deleting
         /\ kn.deleting => c.deleting

\* d may come after c.
Follows(c, u, d, v) ==
  /\ u <= v
  /\ d # None =>
       \/ c = None /\ d.uid > u
       \/ /\ c # None /\ d.uid = c.uid /\ c.gen <= d.gen
          /\ d.gen = c.gen => d.spec = c.spec /\ d.deleting = c.deleting
          /\ c.deleting => d.deleting

LEMMA BehindStays ==
  ASSUME NEW c \in KubeNova \cup {None}, NEW d \in KubeNova \cup {None}, NEW u \in Nat, NEW v \in Nat,
         NEW kn \in KubeNova \cup {None}, Behind(kn, c, u), Follows(c, u, d, v)
  PROVE  Behind(kn, d, v)
BY DEF Behind, Follows, KubeNova

LEMMA BehindRestatus ==
  ASSUME NEW c, NEW u, NEW kn, NEW x, kn # None, Behind(kn, c, u), Restatus(x, kn)
  PROVE  Behind(x, c, u)
BY DEF Behind, Restatus, KubeNova

\* The KubeNova the step leaves comes after the one it found, and is said to be
\* Ready of its own generation at most.
LEMMA CRFollows ==
  ASSUME TypeOK, TypeOK', BindingInv, CopiesInv, [Next]_vars
  PROVE  /\ Follows(cr, uids, cr', uids')
         /\ cr' # None => cr'.uid <= uids' /\ (cr'.status.phase = "Ready" => cr'.status.og <= cr'.gen)
<1>0. /\ cr \in KubeNova \cup {None} /\ cr' \in KubeNova \cup {None} /\ uids \in Nat
      /\ kubenova \in KubeNova \cup {None} /\ None \notin KubeNova
      /\ uids' \in Nat /\ uids <= uids'
  BY UidStep, ConstantsAssumption DEF TypeOK, CRType, PassType, BudgetType
<1>1. CASE cr' = cr
  BY <1>0, <1>1 DEF Follows, CopiesInv, Older, KubeNova
<1>2. CASE WriteCR(None)
  BY <1>0, <1>2 DEF WriteCR, Follows
<1>3. CASE cr \in KubeNova /\ cr # None /\ WriteCR(Finalized(cr))
  <2>1. cr' = Finalized(cr)
    BY <1>3 DEF WriteCR
  <2>2. /\ cr'.uid = cr.uid /\ cr'.status = cr.status /\ cr'.deleting = cr.deleting
        /\ cr'.spec = Resent(cr.spec)
        /\ cr'.gen = IF Resent(cr.spec) = cr.spec THEN cr.gen ELSE cr.gen + 1
    BY <1>3, <2>1 DEF Finalized, KubeNova
  <2> QED BY <1>0, <1>3, <2>2 DEF Follows, CopiesInv, Older, KubeNova, Status
<1>4. CASE /\ cr \in KubeNova /\ cr # None /\ pc \in {"failing", "reporting", "deleting"}
           /\ kubenova \in KubeNova /\ WriteCR(StatusCopiedTo(cr, kubenova))
  <2>1. cr' = StatusCopiedTo(cr, kubenova)
    BY <1>4 DEF WriteCR
  <2>2. /\ cr'.uid = cr.uid /\ cr'.deleting = cr.deleting /\ cr'.spec = cr.spec
        /\ cr'.gen = cr.gen /\ cr'.status = kubenova.status
    BY <1>4, <2>1 DEF StatusCopiedTo, KubeNova
  <2>3. kubenova.status.phase = "Ready" => kubenova.status.og <= cr.gen
    <3>1. kubenova.status.phase = "Ready" => pc = "reporting" /\ kubenova.uid = cr.uid
      BY <1>4 DEF CopiesInv, Fits, BindingInv
    <3> QED BY <1>0, <1>4, <3>1 DEF CopiesInv, Older, KubeNova, Status
  <2> QED BY <1>0, <1>4, <2>2, <2>3 DEF Follows, CopiesInv, Older, KubeNova, Status
<1>5. ASSUME cr \in KubeNova, cr # None, NEW spec \in Specs,
             WriteCR([cr EXCEPT !.spec = spec, !.gen = @ + 1])
      PROVE  /\ Follows(cr, uids, cr', uids')
             /\ cr'.uid <= uids' /\ (cr'.status.phase = "Ready" => cr'.status.og <= cr'.gen)
  <2>1. cr' = [cr EXCEPT !.spec = spec, !.gen = @ + 1]
    BY <1>5 DEF WriteCR
  <2>2. /\ cr'.uid = cr.uid /\ cr'.status = cr.status /\ cr'.deleting = cr.deleting /\ cr'.gen = cr.gen + 1
    BY <1>5, <2>1 DEF KubeNova
  <2> QED BY <1>0, <1>5, <2>2 DEF Follows, CopiesInv, Older, KubeNova, Status
<1>6. CASE /\ cr \in KubeNova /\ cr # None /\ WriteCR([cr EXCEPT !.deleting = TRUE, !.gen = @ + 1])
  <2>1. cr' = [cr EXCEPT !.deleting = TRUE, !.gen = @ + 1]
    BY <1>6 DEF WriteCR
  <2>2. /\ cr'.uid = cr.uid /\ cr'.status = cr.status /\ cr'.deleting = TRUE /\ cr'.gen = cr.gen + 1
    BY <1>6, <2>1 DEF KubeNova
  <2> QED BY <1>0, <1>6, <2>2 DEF Follows, CopiesInv, Older, KubeNova, Status
<1>7. ASSUME cr = None, uids' = uids + 1, NEW spec \in Specs,
             WriteCR([uid |-> uids + 1, gen |-> 1, spec |-> spec, finalizer |-> FALSE,
                      deleting |-> FALSE, status |-> InitialStatus])
      PROVE  /\ Follows(cr, uids, cr', uids')
             /\ cr'.uid <= uids' /\ (cr'.status.phase = "Ready" => cr'.status.og <= cr'.gen)
  <2>1. cr'.uid = uids + 1 /\ cr'.status.phase = "none"
    BY <1>7 DEF WriteCR, InitialStatus
  <2> QED BY <1>0, <1>7, <2>1 DEF Follows
<1>8. Written \/ cr' = cr
  BY CRStep DEF BindingInv
<1> QED BY <1>1, <1>2, <1>3, <1>4, <1>5, <1>6, <1>7, <1>8 DEF Written

LEMMA SeenMoves ==
  ASSUME TypeOK, BindingInv, [Next]_vars PROVE Seen' \in {Seen, cr, cr'}
<1>1. ASSUME NEW x, WriteCR(x) PROVE Seen' \in {Seen, cr'}
  BY <1>1 DEF WriteCR, Seen
<1>2. Written => Seen' \in {Seen, cr'}
  BY <1>1 DEF Written
<1> QED BY <1>2, CRStep DEF BindingInv

LEMMA CopiesStep == ASSUME TypeOK, TypeOK', BindingInv, CopiesInv, [Next]_vars PROVE CopiesInv'
<1>0. /\ cr \in KubeNova \cup {None} /\ cr' \in KubeNova \cup {None}
      /\ Seen \in KubeNova \cup {None} /\ kubenova \in KubeNova \cup {None}
      /\ uids \in Nat /\ uids' \in Nat /\ None \notin KubeNova
      /\ Follows(cr, uids, cr', uids')
  BY SeenType, CRFollows, ConstantsAssumption DEF TypeOK, CRType, PassType, BudgetType
<1>1. Behind(cr, cr', uids') /\ Behind(Seen, cr', uids') /\ Behind(kubenova, cr', uids')
  <2>1. Behind(cr, cr, uids) /\ Behind(Seen, cr, uids) /\ Behind(kubenova, cr, uids)
    BY DEF CopiesInv, Older, Behind
  <2> QED BY <1>0, <2>1, BehindStays
<1>2. Behind(cr', cr', uids')
  BY <1>0, CRFollows DEF Behind, KubeNova
<1>3. Behind(Seen', cr', uids')
  BY <1>1, <1>2, SeenMoves
<1>4. Behind(kubenova', cr', uids')
  <2>1. CASE kubenova' = None
    BY <2>1 DEF Behind
  <2>2. CASE Restatus(kubenova', Seen)
    BY <1>0, <1>1, <2>2, BehindRestatus DEF Restatus
  <2>3. CASE Restatus(kubenova', kubenova)
    BY <1>0, <1>1, <2>3, BehindRestatus DEF Restatus
  <2> QED BY <1>1, <2>1, <2>2, <2>3, CopyStep DEF Carried
<1>5. Fits(pc', kubenova')
  <2>1. CASE kubenova' = None /\ pc' = "idle"
    BY <2>1 DEF Fits
  <2>2. CASE kubenova' = kubenova
    BY <2>2, CopyStep DEF CopiesInv, Fits, Carried, Restatus, TypeOK, PassType
  <2> QED BY <2>1, CopyStep DEF CopiesInv, Fits, Carried, Restatus
<1> QED BY <1>2, <1>3, <1>4, <1>5 DEF CopiesInv, Older, Behind

-----------------------------------------------------------------------------
(* What was carried out stays so.                                          *)

\* Object x in the place of o is as the spec asks, or o is made an exception of.
Asked(o, x, spec) == x # None /\ Compared(o, x.content) = Compared(o, Render(o, spec))

Good(o, x, gone, spec) == o \in gone \/ Asked(o, x, spec)

\* No object stops being good for a spec.
Keeps(spec) ==
  \A o \in Objects : Good(o, store[o], astray, spec) => Good(o, store'[o], astray', spec)

\* Of the objects only o changes, and then to what the pass's spec asks for.
Wrote(o) ==
  /\ \A p \in Objects \ {o} : store'[p] = store[p] /\ (p \in astray' <=> p \in astray)
  /\ UNCHANGED <<store, astray>> \/ Good(o, store'[o], astray', kubenova.spec)

LEMMA WroteKeeps == ASSUME NEW o \in Objects, Wrote(o) PROVE Keeps(kubenova.spec)
BY DEF Wrote, Keeps, Good, Asked

LEMMA SameKeeps == ASSUME UNCHANGED <<store, astray>>, NEW spec PROVE Keeps(spec)
BY DEF Keeps, Good, Asked

LEMMA DeploymentObjects ==
  /\ Deployments \subseteq Objects
  /\ \A d \in Deployments : d # ClusterRoleBinding /\ Kind(d) = "Deployment"
BY DEF Deployments, Objects, ClusterRoleBinding, Kind

LEMMA PutEffect ==
  ASSUME TypeOK, NEW o \in Objects, NEW x \in Stored, x.content = Render(o, kubenova.spec),
         Put(o, x), Mended(o)
  PROVE  Wrote(o) /\ Good(o, store'[o], astray', kubenova.spec)
<1>1. store'[o] = x /\ \A p \in Objects \ {o} : store'[p] = store[p]
  BY DEF Put, TypeOK, ObjType
<1>2. \A p \in Objects \ {o} : p \in astray' <=> p \in astray
  BY DEF Mended
<1> QED BY <1>1, <1>2, ConstantsAssumption DEF Wrote, Good, Asked

LEMMA PutOrFailEffect ==
  ASSUME TypeOK, NEW o \in Objects, NEW x \in Stored, x.content = Render(o, kubenova.spec),
         PutOrFail(o, x, Done(o), Fail(kubenova))
  PROVE  Wrote(o) /\ (Fail(kubenova) \/ (Done(o) /\ Good(o, store'[o], astray', kubenova.spec)))
<1>1. CASE PutAndQueue(o, x) /\ Mended(o) /\ Done(o) /\ UNCHANGED budgets
  BY <1>1, PutEffect DEF PutAndQueue
<1>2. CASE PutAndQueue(o, x) /\ Mended(o) /\ Fail(kubenova) /\ Fault
  BY <1>2, PutEffect DEF PutAndQueue
<1>3. CASE UNCHANGED <<objVars, queued>> /\ Fail(kubenova) /\ Fault
  BY <1>3 DEF Wrote, objVars, objects, history
<1> QED BY <1>1, <1>2, <1>3 DEF PutOrFail

\* An object that is left alone is good, or its copy was outdated.
LEMMA TrustedEffect ==
  ASSUME TypeOK, Synced, NEW o \in Objects, View(o) # None, ~Differs(o, View(o), kubenova.spec),
         Trusted(o, Holds(o, kubenova.spec)), UNCHANGED store
  PROVE  Wrote(o) /\ Good(o, store'[o], astray', kubenova.spec)
<1>1. \A p \in Objects \ {o} : p \in astray' <=> p \in astray
  BY DEF Trusted, Mended
<1>2. o \in astray' \/ Asked(o, store[o], kubenova.spec)
  <2>1. CASE Outdated(o)
    BY <2>1 DEF Trusted, Holds, Asked
  <2>2. CASE ~Outdated(o)
    BY <2>2, ViewOfSynced DEF Differs, Asked
  <2> QED BY <2>1, <2>2
<1> QED BY <1>1, <1>2 DEF Wrote, Good

\* One step of the stages that create and update objects.
Stage(o) == Ensure(o) \/ (UpdateDeployment /\ target = o)

LEMMA StageEffect ==
  ASSUME TypeOK, Synced, NEW o \in Objects, Stage(o)
  PROVE  /\ pc = "ensure" /\ kubenova \in KubeNova /\ UNCHANGED crVars
         /\ Wrote(o)
         /\ \/ Fail(kubenova)
            \/ Done(o) /\ Good(o, store'[o], astray', kubenova.spec)
            \/ UNCHANGED <<store, astray, pc, todo, kubenova>>
<1>1. pc = "ensure" /\ kubenova \in KubeNova /\ UNCHANGED crVars
  BY DEF Stage, Ensure, UpdateDeployment, NextUp, TypeOK, PassType
<1>2. UNCHANGED objVars => Wrote(o) /\ UNCHANGED <<store, astray>>
  BY DEF Wrote, objVars, objects, history
<1>3. CASE Reject
  BY <1>1, <1>2, <1>3 DEF Reject
<1>4. CASE ReadFault /\ Fail(kubenova) /\ UNCHANGED <<objVars, queued>>
  BY <1>1, <1>2, <1>4
<1>5. CASE Create(o)
  <2>1. Fresh(o, kubenova) \in Stored /\ Fresh(o, kubenova).content = Render(o, kubenova.spec)
    BY <1>1, FreshType DEF Fresh
  <2> QED BY <1>1, <1>3, <1>5, <2>1, PutOrFailEffect DEF Create
<1>6. CASE View(o) # None /\ Update(o)
  <2>1. View(o) \in Stored /\ View(o).ready \in BOOLEAN
    BY <1>6, ViewType
  <2>2. ASSUME NEW ready \in Readiness(o, View(o), kubenova.spec)
        PROVE  LET x == [View(o) EXCEPT !.content = Render(o, kubenova.spec), !.ready = ready]
               IN  x \in Stored /\ x.content = Render(o, kubenova.spec)
    BY <1>1, <2>1, <2>2, FreshType DEF Readiness, Stored
  <2>3. ASSUME NEW ready \in Readiness(o, View(o), kubenova.spec),
               PutOrFail(o, [View(o) EXCEPT !.content = Render(o, kubenova.spec), !.ready = ready],
                         Done(o), Fail(kubenova))
        PROVE  Wrote(o) /\ (Fail(kubenova) \/ (Done(o) /\ Good(o, store'[o], astray', kubenova.spec)))
    BY <2>2, <2>3, PutOrFailEffect
  <2> QED BY <1>1, <1>3, <1>6, <2>3 DEF Update
<1>7. CASE UNCHANGED <<objVars, budgets, pc, todo, kubenova>>
  BY <1>1, <1>2, <1>7
<1>8. CASE /\ View(o) # None /\ ~Differs(o, View(o), kubenova.spec)
           /\ Done(o) /\ Trusted(o, Holds(o, kubenova.spec)) /\ UNCHANGED objects
  BY <1>1, <1>8, TrustedEffect DEF objects
<1>9. CASE Ensure(o)
  BY <1>4, <1>5, <1>6, <1>7, <1>8, <1>9 DEF Ensure
<1>10. CASE UpdateDeployment /\ target = o
  BY <1>3, <1>4, <1>6, <1>10 DEF UpdateDeployment
<1> QED BY <1>9, <1>10 DEF Stage

\* Who changes the objects, or what is remembered of them.
LEMMA StoreStep ==
  ASSUME TypeOK, [Next]_vars
  PROVE  \/ UNCHANGED <<store, history>>
         \/ \E o \in Objects : Stage(o)
         \/ UNCHANGED <<store, astray>> /\ \E d \in Deployments : ReadComponent(d)
         \/ Cluster /\ UNCHANGED <<crVars, passVars>>
         \/ DeleteBinding
<1>1. CASE UpdateDeployment
  BY <1>1 DEF UpdateDeployment, Stage, TypeOK, PassType
<1>2. CASE ReconcileRBAC \/ ReconcileSecret \/ ReconcileConfigMaps \/ ReconcileServices \/ ReconcileWeb
  BY <1>2 DEF ReconcileRBAC, ReconcileSecret, ReconcileConfigMaps, ReconcileServices,
     ReconcileWeb, Stage, Objects, Workloads, NginxConfigMap
<1>3. CASE \E d \in Deployments : ReadComponent(d)
  BY <1>3 DEF ReadComponent, Judged, objects
<1>4. CASE Cluster
  BY <1>4 DEF Cluster, PodsProgress, PodsFail, Drift, ClusterWrite, GarbageCollect
<1>5. CASE \/ ReconcileGone \/ AddFinalizer \/ ReconcileSkip \/ ReconcileValidation
           \/ ReconcileNamespace \/ UpdateStatus \/ BeginDelete \/ RemoveFinalizer
  BY <1>5 DEF ReconcileGone, AddFinalizer, ReconcileSkip, ReconcileValidation,
     ReconcileNamespace, UpdateStatus, BeginDelete, RemoveFinalizer, objVars, objects
<1>6. CASE TimerFires \/ Crash \/ Informers \/ Users \/ UNCHANGED vars
  BY <1>6 DEF TimerFires, Crash, Informers, SyncCR, SyncKind, Users, CreateCR, EditSpec, DeleteCR,
     UserWrite, vars, objVars, objects
<1> QED BY <1>1, <1>2, <1>3, <1>4, <1>5, <1>6 DEF Next, Worker

\* Who moves a pass on.
LEMMA Elsewhere ==
  ASSUME TypeOK, [Next]_vars
  PROVE  \/ \E o \in Objects : Stage(o)
         \/ ReconcileNamespace
         \/ \E d \in Deployments : ReadComponent(d)
         \/ UNCHANGED <<pc, todo, kubenova, allReady>>
         \/ pc' \in {"idle", "namespace", "failing", "deleting", "binding", "finalizer"}
<1>1. CASE UpdateDeployment
  BY <1>1 DEF UpdateDeployment, Stage, TypeOK, PassType
<1>2. CASE ReconcileRBAC \/ ReconcileSecret \/ ReconcileConfigMaps \/ ReconcileServices \/ ReconcileWeb
  BY <1>2 DEF ReconcileRBAC, ReconcileSecret, ReconcileConfigMaps, ReconcileServices,
     ReconcileWeb, Stage, Objects, Workloads, NginxConfigMap
<1>3. CASE \/ ReconcileGone \/ AddFinalizer \/ ReconcileSkip \/ ReconcileValidation
           \/ BeginDelete \/ DeleteBinding \/ RemoveFinalizer \/ Crash
  BY <1>3 DEF ReconcileGone, AddFinalizer, ReconcileSkip, ReconcileValidation,
     BeginDelete, DeleteBinding, RemoveFinalizer, Crash, Idle, Fail, StoreStatusOf
<1>4. CASE UpdateStatus
  BY <1>4 DEF UpdateStatus, StatusReturned, Idle
<1>5. CASE TimerFires \/ Informers \/ Users \/ UNCHANGED vars
  BY <1>5 DEF TimerFires, Informers, SyncCR, SyncKind, Users, CreateCR, EditSpec, DeleteCR,
     UserWrite, vars, passVars
<1>6. CASE Cluster
  BY <1>6 DEF Cluster, PodsProgress, PodsFail, Drift, ClusterWrite, GarbageCollect, passVars
<1> QED BY <1>1, <1>2, <1>3, <1>4, <1>5, <1>6 DEF Next, Worker

\* Pods coming and going leave the content alone, and what others delete while
\* the KubeNova exists is remembered.
LEMMA ClusterKeeps == ASSUME TypeOK, cr # None, Cluster, NEW spec PROVE Keeps(spec)
<1>1. ASSUME NEW d \in Deployments, NEW b \in BOOLEAN, store[d] # None,
             ClusterWrite(d, [store[d] EXCEPT !.ready = b]), UNCHANGED astray
      PROVE  Keeps(spec)
  <2> DEFINE x == [store[d] EXCEPT !.ready = b]
  <2>1. d \in Objects /\ store[d] \in Stored
    BY <1>1, DeploymentObjects DEF TypeOK, ObjType
  <2>2. x \in Stored /\ x.content = store[d].content
    BY <2>1 DEF Stored
  <2>3. store' = [store EXCEPT ![d] = x]
    BY <1>1 DEF ClusterWrite, PutAndQueue, Put
  <2> HIDE DEF x
  <2> QED BY <1>1, <2>1, <2>2, <2>3, ConstantsAssumption DEF Keeps, Good, Asked, TypeOK, ObjType
<1>2. ASSUME NEW d \in Deployments, PodsProgress(d) \/ PodsFail(d) PROVE Keeps(spec)
  BY <1>1, <1>2 DEF PodsProgress, PodsFail
<1>3. ASSUME NEW o \in Objects, Drift(o) PROVE Keeps(spec)
  BY <1>3 DEF Drift, ClusterWrite, PutAndQueue, Put, Taken, Keeps, Good, Asked, TypeOK, ObjType
<1>4. ASSUME NEW k \in Kinds, GarbageCollect(k) PROVE Keeps(spec)
  BY <1>4 DEF GarbageCollect, Taken, Keeps, Good, Asked, TypeOK, ObjType
<1> QED BY <1>2, <1>3, <1>4 DEF Cluster

\* A pass that knows of a KubeNova that is Ready has its spec.
LEMMA ReadySpec ==
  ASSUME TypeOK, CopiesInv, ReadyIsDone, ReadyNow, pc # "idle"
  PROVE  kubenova # None /\ cr # None /\ kubenova.spec = cr.spec /\ ~kubenova.deleting
BY DEF TypeOK, PassType, CopiesInv, Older, ReadyIsDone, ReadyNow, Live

LEMMA KeepsStep ==
  ASSUME TypeOK, Synced, BindingInv, CopiesInv, ReadyIsDone, [Next]_vars
  PROVE  /\ ReadyNow => Keeps(cr.spec)
         /\ pc \in {"ensure", "check", "reporting"} /\ pc' \in {"ensure", "check", "reporting"}
              => Keeps(kubenova.spec)
<1>1. CASE UNCHANGED <<store, astray>>
  BY <1>1, SameKeeps
<1>2. ASSUME NEW o \in Objects, Stage(o)
      PROVE  Keeps(kubenova.spec) /\ (ReadyNow => Keeps(cr.spec))
  BY <1>2, StageEffect, WroteKeeps, ReadySpec
<1>3. CASE Cluster
  <2>1. ReadyNow \/ pc \in {"ensure", "check", "reporting"} => cr # None
    BY DEF ReadyNow, Live, BindingInv
  <2> QED BY <1>3, <2>1, ClusterKeeps
<1>4. CASE DeleteBinding
  <2>1. pc = "binding" /\ pc' \in {"finalizer", "idle"} /\ kubenova.deleting
    BY <1>4 DEF DeleteBinding, Idle, CopiesInv, Fits
  <2> QED BY <2>1, ReadySpec
<1> QED BY <1>1, <1>2, <1>3, <1>4, StoreStep DEF history

-----------------------------------------------------------------------------
(* How a KubeNova becomes Ready.                                           *)

\* A step that leaves a KubeNova Ready found it so, or stored the verdict of a
\* pass over its latest generation.
LEMMA BecomesReady ==
  ASSUME TypeOK, BindingInv, CopiesInv, [Next]_vars, ReadyNow'
  PROVE  /\ cr \in KubeNova /\ cr # None /\ cr' # None
         /\ cr'.uid = cr.uid /\ cr'.gen = cr.gen /\ cr'.spec = cr.spec
         /\ cr.finalizer => cr'.finalizer
         /\ \/ ReadyNow
            \/ /\ pc = "reporting" /\ kubenova.status.phase = "Ready" /\ kubenova \in KubeNova
               /\ cr.finalizer /\ Seen = cr /\ ~UNCHANGED crVars
               /\ kubenova.uid = cr.uid /\ kubenova.gen = cr.gen /\ kubenova.spec = cr.spec
<1>1. CASE cr' = cr
  BY <1>1 DEF ReadyNow, Live, TypeOK, CRType
<1>2. CASE cr \in KubeNova /\ cr # None /\ WriteCR(Finalized(cr))
  <2>1. /\ cr'.uid = cr.uid /\ cr'.status = cr.status /\ cr'.deleting = cr.deleting
        /\ cr'.spec = Resent(cr.spec) /\ cr'.finalizer
        /\ cr'.gen = IF Resent(cr.spec) = cr.spec THEN cr.gen ELSE cr.gen + 1
    BY <1>2 DEF WriteCR, Finalized, KubeNova
  <2>2. cr.gen \in Nat /\ cr.status.og \in Nat /\ (cr.status.phase = "Ready" => cr.status.og <= cr.gen)
    BY <1>2 DEF CopiesInv, Older, KubeNova, Status
  <2> QED BY <1>2, <2>1, <2>2 DEF ReadyNow, Live
<1>3. CASE /\ cr \in KubeNova /\ cr # None /\ pc \in {"failing", "reporting", "deleting"}
           /\ kubenova \in KubeNova /\ Seen = cr /\ WriteCR(StatusCopiedTo(cr, kubenova))
  <2>1. /\ cr'.uid = cr.uid /\ cr'.gen = cr.gen /\ cr'.spec = cr.spec
        /\ cr'.status = kubenova.status /\ cr'.finalizer = cr.finalizer
    BY <1>3 DEF WriteCR, StatusCopiedTo, KubeNova
  <2>2. kubenova.status.phase = "Ready" /\ kubenova.status.og = cr.gen /\ pc = "reporting"
    BY <1>3, <2>1 DEF ReadyNow, CopiesInv, Fits
  <2>3. kubenova # None
    BY <1>3, ConstantsAssumption
  <2>4. cr.finalizer /\ kubenova.uid = cr.uid
    BY <2>2 DEF BindingInv
  <2>5. kubenova.gen = cr.gen /\ kubenova.spec = cr.spec
    <3>1. kubenova.status.og <= kubenova.gen /\ kubenova.gen <= cr.gen
      BY <1>3, <2>2, <2>3, <2>4 DEF CopiesInv, Older
    <3>2. kubenova.gen = cr.gen
      BY <1>3, <2>2, <3>1 DEF KubeNova
    <3> QED BY <1>3, <2>3, <2>4, <3>2 DEF CopiesInv, Older
  <2>6. UNCHANGED crVars => ReadyNow
    BY DEF crVars, ReadyNow, Live
  <2> QED BY <1>3, <2>1, <2>2, <2>4, <2>5, <2>6 DEF ReadyNow, Live
<1>4. ASSUME cr \in KubeNova, NEW spec \in Specs, WriteCR([cr EXCEPT !.spec = spec, !.gen = @ + 1])
      PROVE  cr = None
  <2>1. cr'.gen = cr.gen + 1 /\ cr'.status = cr.status
    BY <1>4 DEF WriteCR, KubeNova
  <2>2. cr # None /\ cr.status.phase = "Ready" => cr.status.og <= cr.gen
    BY DEF CopiesInv, Older
  <2> QED BY <1>4, <2>1, <2>2 DEF ReadyNow, KubeNova, Status
<1>5. CASE cr \in KubeNova /\ WriteCR([cr EXCEPT !.deleting = TRUE, !.gen = @ + 1])
  BY <1>5 DEF WriteCR, ReadyNow, Live, KubeNova
<1>6. CASE WriteCR(None)
  BY <1>6 DEF WriteCR, ReadyNow, Live
<1>7. ASSUME NEW spec \in Specs,
             WriteCR([uid |-> uids + 1, gen |-> 1, spec |-> spec, finalizer |-> FALSE,
                      deleting |-> FALSE, status |-> InitialStatus])
      PROVE  FALSE
  <2>1. cr'.status.phase = "none"
    BY <1>7 DEF WriteCR, InitialStatus
  <2> QED BY <2>1 DEF ReadyNow
<1>8. Written \/ cr' = cr
  BY CRStep DEF BindingInv
<1> QED BY <1>1, <1>2, <1>3, <1>4, <1>5, <1>6, <1>7, <1>8 DEF Written

LEMMA AppliedStays ==
  ASSUME NEW spec \in Specs, Keeps(spec),
         \A o \in Plan(spec) \ astray : Asked(o, store[o], spec)
  PROVE  \A o \in Plan(spec) \ astray' : Asked(o, store'[o], spec)
BY PlanType DEF Keeps, Good

\* Ready objects stay so, and passes over them know their generation.
LEMMA ReadyStays ==
  ASSUME TypeOK, TypeOK', Synced, BindingInv, CopiesInv, AppliedInv, [Next]_vars
  PROVE  ReadyIsDone'
<1>1. SUFFICES ASSUME ReadyNow'
      PROVE  /\ Applied(cr.spec)' /\ (cr.finalizer)'
             /\ (Seen # None)' /\ (Seen.uid = cr.uid)' /\ (Seen.gen = cr.gen)'
             /\ (pc # "idle" => kubenova.uid = cr.uid /\ kubenova.gen = cr.gen)'
  BY DEF ReadyIsDone
<1> DEFINE told == /\ pc = "reporting" /\ kubenova.status.phase = "Ready" /\ kubenova \in KubeNova
                   /\ cr.finalizer /\ Seen = cr /\ ~UNCHANGED crVars
                   /\ kubenova.uid = cr.uid /\ kubenova.gen = cr.gen /\ kubenova.spec = cr.spec
<1>2. /\ cr \in KubeNova /\ cr # None /\ cr' # None
      /\ cr'.uid = cr.uid /\ cr'.gen = cr.gen /\ cr'.spec = cr.spec
      /\ cr.finalizer => cr'.finalizer
      /\ ReadyNow \/ told
  BY <1>1, BecomesReady
<1>3. cr.spec \in Specs
  BY <1>2 DEF KubeNova
<1>4. Keeps(cr.spec) /\ \A o \in Plan(cr.spec) \ astray : Asked(o, store[o], cr.spec)
  <2>1. CASE ReadyNow
    BY <2>1, KeepsStep DEF AppliedInv, ReadyIsDone, Applied, Holds, Asked
  <2>2. CASE told
    <3>1. UNCHANGED <<store, astray>>
      <4>1. ASSUME NEW o \in Objects, Stage(o) PROVE FALSE
        BY <2>2, <4>1, StageEffect
      <4>2. ~DeleteBinding
        BY <2>2 DEF DeleteBinding
      <4> QED BY <2>2, <4>1, <4>2, StoreStep DEF history
    <3>2. Keeps(cr.spec)
      BY <3>1, SameKeeps
    <3> QED BY <2>2, <3>2 DEF AppliedInv, PassDid, Applied, Holds, Asked
  <2> QED BY <1>2, <2>1, <2>2
<1>5. Applied(cr.spec)'
  <2>1. \A o \in Plan(cr.spec) \ astray' : Asked(o, store'[o], cr.spec)
    BY <1>3, <1>4, AppliedStays
  <2> QED BY <1>2, <2>1 DEF Applied, Holds, Asked
<1>6. /\ cr.finalizer /\ Seen # None /\ Seen.uid = cr.uid /\ Seen.gen = cr.gen
      /\ pc # "idle" => kubenova.uid = cr.uid /\ kubenova.gen = cr.gen
  BY <1>2 DEF AppliedInv, ReadyIsDone
<1>7. Seen' # None /\ Seen'.uid = cr'.uid /\ Seen'.gen = cr'.gen
  BY <1>2, <1>6, SeenMoves
<1>8. pc' # "idle" => kubenova'.uid = cr'.uid /\ kubenova'.gen = cr'.gen
  BY <1>2, <1>6, CopyStep DEF Carried, Restatus
<1> QED BY <1>2, <1>5, <1>6, <1>7, <1>8

\* A pass leaves what it has ensured behind.
LEMMA DidStep ==
  ASSUME TypeOK, TypeOK', Synced, BindingInv, CopiesInv, AppliedInv, [Next]_vars
  PROVE  PassDid'
<1> DEFINE did(s, a, t, kn) == \A o \in Plan(kn.spec) \ (t \cup a) : Asked(o, s[o], kn.spec)
<1>0. /\ pc = "ensure" => did(store, astray, todo, kubenova)
      /\ pc = "check" => did(store, astray, {}, kubenova)
      /\ pc = "reporting" /\ kubenova.status.phase = "Ready" => did(store, astray, {}, kubenova)
  BY DEF AppliedInv, PassDid, Applied, Holds, Asked
<1>1. SUFFICES /\ pc' = "ensure" => did(store', astray', todo', kubenova')
               /\ pc' = "check" => did(store', astray', {}, kubenova')
               /\ pc' = "reporting" /\ kubenova'.status.phase = "Ready" => did(store', astray', {}, kubenova')
  BY DEF PassDid, Applied, Holds, Asked
<1>2. ASSUME kubenova \in KubeNova, Keeps(kubenova.spec), kubenova'.spec = kubenova.spec,
             NEW t, NEW u, did(store, astray, t, kubenova),
             \A o \in Objects : o \in t => o \in u \/ Good(o, store'[o], astray', kubenova.spec)
      PROVE  did(store', astray', u, kubenova')
  <2>1. Plan(kubenova.spec) \subseteq Objects
    BY <1>2, PlanType DEF KubeNova
  <2> QED BY <1>2, <2>1 DEF Keeps, Good
<1>3. pc # "idle" => kubenova \in KubeNova
  BY ConstantsAssumption DEF TypeOK, PassType
<1>4. pc \in {"ensure", "check", "reporting"} /\ pc' \in {"ensure", "check", "reporting"}
        => Keeps(kubenova.spec)
  BY KeepsStep DEF AppliedInv
<1>5. ASSUME NEW o \in Objects, Stage(o)
      PROVE  /\ pc' = "ensure" => did(store', astray', todo', kubenova')
             /\ pc' = "check" => did(store', astray', {}, kubenova')
             /\ pc' # "reporting"
  <2>1. /\ pc = "ensure" /\ kubenova \in KubeNova
        /\ \/ Fail(kubenova)
           \/ Done(o) /\ Good(o, store'[o], astray', kubenova.spec)
           \/ UNCHANGED <<store, astray, pc, todo, kubenova>>
    BY <1>5, StageEffect
  <2>2. CASE Fail(kubenova)
    BY <2>2 DEF Fail, StoreStatusOf
  <2>3. CASE Done(o) /\ Good(o, store'[o], astray', kubenova.spec)
    <3>1. kubenova'.spec = kubenova.spec
      BY <2>1, <2>3, StatusRestatus DEF Done, Restatus, Phases
    <3>2. \/ pc' = "check" /\ todo \ {o} = {}
          \/ pc' = "ensure" /\ todo' = todo \ {o}
      BY <2>3 DEF Done
    <3>3. did(store, astray, todo, kubenova) /\ Keeps(kubenova.spec)
      BY <1>0, <1>4, <2>1, <3>2
    <3>4. did(store', astray', todo \ {o}, kubenova')
      <4>1. \A p \in Objects : p \in todo =>
              p \in todo \ {o} \/ Good(p, store'[p], astray', kubenova.spec)
        BY <2>3
      <4> HIDE DEF did
      <4> QED BY <1>2, <2>1, <3>1, <3>3, <4>1
    <3> QED BY <3>2, <3>4
  <2>4. CASE UNCHANGED <<store, astray, pc, todo, kubenova>>
    BY <1>0, <2>1, <2>4
  <2> QED BY <2>1, <2>2, <2>3, <2>4
<1>6. CASE ReconcileNamespace
  <2>1. pc' = "failing" \/ (pc' = "ensure" /\ kubenova' = kubenova /\ todo' = Plan(kubenova.spec))
    BY <1>6 DEF ReconcileNamespace, Fail, StoreStatusOf
  <2> QED BY <2>1
<1>7. CASE \E d \in Deployments : ReadComponent(d)
  <2>1. /\ pc = "check" /\ pc' \in {"check", "reporting"}
    BY <1>7 DEF ReadComponent, StoreStatusOf
  <2>2. kubenova'.spec = kubenova.spec
    BY <2>1, CopyStep DEF Carried, Restatus
  <2>3. did(store, astray, {}, kubenova) /\ kubenova \in KubeNova /\ Keeps(kubenova.spec)
    BY <1>0, <1>3, <1>4, <2>1
  <2>4. did(store', astray', {}, kubenova')
    <3> HIDE DEF did
    <3> QED BY <1>2, <2>2, <2>3
  <2> QED BY <2>1, <2>4
<1>8. CASE UNCHANGED <<pc, todo, kubenova>>
  <2>1. ASSUME NEW t, did(store, astray, t, kubenova), pc \in {"ensure", "check", "reporting"}
        PROVE  did(store', astray', t, kubenova')
    <3>1. kubenova \in KubeNova /\ Keeps(kubenova.spec) /\ kubenova'.spec = kubenova.spec
      BY <1>3, <1>4, <1>8, <2>1
    <3> HIDE DEF did
    <3> QED BY <1>2, <2>1, <3>1
  <2> HIDE DEF did
  <2> QED BY <1>0, <1>8, <2>1
<1>9. CASE pc' \in {"idle", "namespace", "failing", "deleting", "binding", "finalizer"}
  BY <1>9
<1> HIDE DEF did
<1> QED BY <1>5, <1>6, <1>7, <1>8, <1>9, Elsewhere

LEMMA ReadyInit == ASSUME Init PROVE CopiesInv /\ AppliedInv
<1>1. cr = None /\ Seen = None /\ kubenova = None /\ pc = "idle"
  BY DEF Init, Seen
<1> QED BY <1>1 DEF CopiesInv, AppliedInv, Older, Fits, ReadyIsDone, PassDid, ReadyNow, Live

\* Ready means that this very generation was carried out, whatever edits,
\* failures, restarts and late events come between, in any incarnation: every
\* object of its spec exists and holds what the spec asks for, but for those a
\* third party took and those an outdated copy showed so (Reconcile,
\* checkComponentStatus, updateStatusWithRetry).
THEOREM ReadyIsCarriedOut == Spec => []ReadyMeansApplied
<1>1. Init => CopiesInv /\ AppliedInv
  BY ReadyInit
<1>2. TypeOK /\ TypeOK' /\ Synced /\ BindingInv /\ CopiesInv /\ AppliedInv /\ [Next]_vars
        => (CopiesInv /\ AppliedInv)'
  BY CopiesStep, ReadyStays, DidStep DEF AppliedInv
<1>3. AppliedInv => ReadyMeansApplied
  BY DEF AppliedInv, ReadyIsDone, ReadyMeansApplied
<1> QED BY <1>1, <1>2, <1>3, TypeCorrect, CopiesFollow, BindingInvariant, PTL DEF Spec

-----------------------------------------------------------------------------
(* Nothing that runs stops running unnoticed while its KubeNova exists.    *)

\* Deployment d, as x, runs or is made an exception of.
Sure(d, x, out) == d \in out \/ (x # None /\ x.ready)

StaysSure(d) == Sure(d, store[d], astray \cup unsure) => Sure(d, store'[d], astray' \cup unsure')

Named(spec) == {"Deployment"} \X (spec.enabled \cup {Web})

LEMMA NamedType ==
  ASSUME NEW spec \in Specs PROVE Named(spec) \subseteq Deployments /\ Named(spec) \subseteq Plan(spec)
<1>1. spec.enabled \subseteq Services
  BY ConstantsAssumption DEF KubeNovaSpec
<1>2. Named(spec) \subseteq Deployments
  BY <1>1 DEF Named, Deployments, Workloads
<1>3. Named(spec) \subseteq Plan(spec)
  BY DEF Named, Plan
<1> QED BY <1>2, <1>3

\* An exception that is mended is still one for what runs.
LEMMA MendedSure ==
  ASSUME NEW o, Mended(o) \/ Trusted(o, FALSE) \/ UNCHANGED history, NEW d \in Deployments
  PROVE  d \in astray \cup unsure => d \in astray' \cup unsure'
BY DEF Mended, Trusted, history

LEMMA PutSure ==
  ASSUME TypeOK, NEW o \in Objects, NEW x \in Stored, NEW d \in Deployments,
         PutOrFail(o, x, Done(o), Fail(kubenova)),
         o = d /\ d \notin astray \cup unsure /\ store[d] # None /\ store[d].ready => x.ready
  PROVE  StaysSure(d)
<1>1. d \in Objects
  BY DeploymentObjects
<1>2. CASE UNCHANGED objVars
  BY <1>2 DEF StaysSure, Sure, objVars, objects, history
<1>3. CASE Put(o, x) /\ Mended(o)
  <2>1. store' = [store EXCEPT ![o] = x]
    BY <1>3 DEF Put
  <2>2. d \in astray \cup unsure => d \in astray' \cup unsure'
    BY <1>3, MendedSure
  <2> QED BY <1>1, <2>1, <2>2, ConstantsAssumption DEF StaysSure, Sure, TypeOK, ObjType
<1> QED BY <1>2, <1>3 DEF PutOrFail, PutAndQueue

\* A stage of a pass over a KubeNova that is Ready finds what it asks for, and
\* so leaves the replicas alone.
LEMMA StageSure ==
  ASSUME TypeOK, Synced, NEW o \in Objects, Stage(o), NEW d \in Deployments,
         Good(d, store[d], astray, kubenova.spec)
  PROVE  StaysSure(d)
<1>0. d \in Objects /\ kubenova \in KubeNova
  BY DeploymentObjects, StageEffect
<1>1. CASE UNCHANGED objVars
  BY <1>1 DEF StaysSure, Sure, objVars, objects, history
<1>2. CASE Create(o)
  <2>1. Fresh(o, kubenova) \in Stored
    BY <1>0, FreshType
  <2>2. CASE store[o] = None /\ PutOrFail(o, Fresh(o, kubenova), Done(o), Fail(kubenova))
    BY <2>1, <2>2, PutSure
  <2> QED BY <1>1, <1>2, <2>2 DEF Create, Reject
<1>3. CASE View(o) # None /\ Update(o)
  <2>1. CASE Reject
    BY <1>1, <2>1 DEF Reject
  <2>2. ASSUME ~Outdated(o), NEW ready \in Readiness(o, View(o), kubenova.spec),
               PutOrFail(o, [View(o) EXCEPT !.content = Render(o, kubenova.spec), !.ready = ready],
                         Done(o), Fail(kubenova))
        PROVE  StaysSure(d)
    <3> DEFINE x == [View(o) EXCEPT !.content = Render(o, kubenova.spec), !.ready = ready]
    <3>1. View(o) = store[o] /\ View(o) \in Stored /\ View(o).ready \in BOOLEAN
      BY <1>3, <2>2, ViewType, ViewOfSynced
    <3>2. x \in Stored /\ x.ready = ready
      BY <1>0, <2>2, <3>1, FreshType DEF Readiness, Stored
    <3>3. ASSUME o = d, d \notin astray, store[d].ready PROVE ready
      BY <2>2, <3>1, <3>3 DEF Readiness, Good, Asked
    <3>4. PutOrFail(o, x, Done(o), Fail(kubenova))
      BY <2>2
    <3> HIDE DEF x
    <3> QED BY <3>2, <3>3, <3>4, PutSure
  <2> QED BY <1>3, <2>1, <2>2 DEF Update
<1>4. CASE UNCHANGED store /\ Trusted(o, Holds(o, kubenova.spec))
  <2>1. d \in astray \cup unsure => d \in astray' \cup unsure'
    BY <1>4 DEF Trusted, Mended
  <2> QED BY <1>4, <2>1 DEF StaysSure, Sure
<1>5. CASE Ensure(o)
  BY <1>1, <1>2, <1>3, <1>4, <1>5 DEF Ensure, objects
<1>6. CASE UpdateDeployment /\ target = o
  BY <1>1, <1>3, <1>6 DEF UpdateDeployment, Reject
<1> QED BY <1>5, <1>6 DEF Stage

\* Pods that are lost, and objects that are taken, are remembered.
LEMMA ClusterSure == ASSUME TypeOK, cr # None, Cluster, NEW d \in Deployments PROVE StaysSure(d)
<1>0. d \in Objects
  BY DeploymentObjects
<1>1. ASSUME NEW e \in Deployments, PodsProgress(e) PROVE StaysSure(d)
  <2> DEFINE x == [store[e] EXCEPT !.ready = TRUE]
  <2>1. e \in Objects /\ store[e] \in Stored
    BY <1>1, DeploymentObjects DEF PodsProgress, TypeOK, ObjType
  <2>2. x \in Stored /\ x.ready
    BY <2>1 DEF Stored
  <2>3. store' = [store EXCEPT ![e] = x] /\ unsure' = unsure \ {e} /\ UNCHANGED astray
    BY <1>1 DEF PodsProgress, ClusterWrite, PutAndQueue, Put
  <2> HIDE DEF x
  <2> QED BY <1>0, <2>1, <2>2, <2>3, ConstantsAssumption DEF StaysSure, Sure, TypeOK, ObjType
<1>2. ASSUME NEW e \in Deployments, PodsFail(e) PROVE StaysSure(d)
  <2>1. /\ store' = [store EXCEPT ![e] = [store[e] EXCEPT !.ready = FALSE]]
        /\ unsure' = unsure \cup {e} /\ UNCHANGED astray
    BY <1>2 DEF PodsFail, ClusterWrite, PutAndQueue, Put
  <2> QED BY <1>0, <2>1 DEF StaysSure, Sure, TypeOK, ObjType
<1>3. ASSUME NEW o \in Objects, Drift(o) PROVE StaysSure(d)
  BY <1>0, <1>3 DEF Drift, ClusterWrite, PutAndQueue, Put, Taken, StaysSure, Sure, TypeOK, ObjType
<1>4. ASSUME NEW k \in Kinds, GarbageCollect(k) PROVE StaysSure(d)
  BY <1>0, <1>4 DEF GarbageCollect, Taken, StaysSure, Sure, TypeOK, ObjType
<1> QED BY <1>1, <1>2, <1>3, <1>4 DEF Cluster

LEMMA ReadSure ==
  ASSUME NEW e \in Deployments, ReadComponent(e), NEW d \in Deployments PROVE StaysSure(d)
<1>1. UNCHANGED <<store, astray>> /\ (Judged(e, TRUE) \/ Judged(e, Outdated(e)))
  BY DEF ReadComponent, Judged, objects
<1> QED BY <1>1 DEF Judged, Up, StaysSure, Sure

\* What a spec names stays sure, where the pass under way has that spec.
LEMMA SureStep ==
  ASSUME TypeOK, Synced, cr # None, [Next]_vars, pc # "binding", NEW d \in Deployments,
         pc = "ensure" => Good(d, store[d], astray, kubenova.spec)
  PROVE  StaysSure(d)
<1>1. CASE UNCHANGED <<store, history>>
  BY <1>1 DEF StaysSure, Sure, history
<1>2. ASSUME NEW o \in Objects, Stage(o) PROVE StaysSure(d)
  BY <1>2, StageEffect, StageSure
<1>3. CASE \E e \in Deployments : ReadComponent(e)
  BY <1>3, ReadSure
<1>4. CASE Cluster
  BY <1>4, ClusterSure
<1>5. ~DeleteBinding
  BY DEF DeleteBinding
<1> QED BY <1>1, <1>2, <1>3, <1>4, <1>5, StoreStep

-----------------------------------------------------------------------------
(* What a check has seen.                                                  *)

\* The last Deployment is read: all that the spec names are there and run.
LEMMA ReadSaw ==
  ASSUME TypeOK, Synced, CopiesInv, PassDid, PassSaw, NEW d \in Deployments, ReadComponent(d)
  PROVE  PassSaw'
<1>0. d \in Objects
  BY DeploymentObjects
<1>1. /\ pc = "check" /\ UNCHANGED <<store, astray>> /\ kubenova \in KubeNova /\ todo \subseteq Objects
      /\ allReady \in BOOLEAN /\ kubenova.spec \in Specs
  BY ConstantsAssumption DEF ReadComponent, Judged, TypeOK, PassType, objects, KubeNova
<1>2. PICK ok \in BOOLEAN :
        /\ \/ ok = (IF View(d) = None THEN allReady ELSE AndReady(d)) /\ Judged(d, Outdated(d))
           \/ ok = allReady /\ Judged(d, TRUE)
        /\ IF todo = {d}
             THEN StoreStatusOf(Verdict(kubenova, ok), "reporting")
             ELSE /\ todo' = todo \ {d} /\ allReady' = ok
                  /\ UNCHANGED <<pc, target, kubenova, tries>>
  BY DEF ReadComponent
<1>3. ok => allReady
  BY <1>2 DEF AndReady
<1>4. ASSUME ok, store[d] # None, d \notin unsure' PROVE store[d].ready
  <2>1. CASE Judged(d, TRUE)
    BY <1>4, <2>1 DEF Judged, Up
  <2>2. CASE /\ ok = (IF View(d) = None THEN allReady ELSE AndReady(d))
             /\ Judged(d, Outdated(d)) /\ ~Outdated(d)
    BY <1>0, <1>4, <2>2, ViewOfSynced DEF AndReady
  <2>3. CASE Judged(d, Outdated(d)) /\ Outdated(d)
    BY <1>4, <2>3 DEF Judged, Up
  <2> QED BY <1>2, <2>1, <2>2, <2>3
<1>5. \A e \in Deployments \ {d} : e \notin unsure' => e \notin unsure
  BY <1>2 DEF Judged
<1>6. ASSUME ok PROVE \A e \in Deployments \ ((todo \ {d}) \cup unsure') : store[e] # None => store[e].ready
  BY <1>1, <1>3, <1>4, <1>5, <1>6 DEF PassSaw, Up
<1>7. CASE todo = {d}
  <2>1. /\ pc' = "reporting" /\ kubenova'.spec = kubenova.spec
        /\ kubenova'.status.phase = "Ready" => ok
    <3>1. Verdict(kubenova, ok).spec = kubenova.spec
      BY <1>1, StatusRestatus DEF Restatus, Phases
    <3>2. Verdict(kubenova, ok).status.phase = IF ok THEN "Ready" ELSE "Creating"
      BY <1>1 DEF Verdict, SetCondition, setStatusPhase, KubeNova, Status
    <3> QED BY <1>2, <1>7, <3>1, <3>2 DEF StoreStatusOf
  <2>2. ASSUME ok, NEW e \in Named(kubenova.spec), e \notin astray, e \notin unsure'
        PROVE  store[e] # None /\ store[e].ready
    <3>1. e \in Deployments /\ e \in Plan(kubenova.spec)
      BY <1>1, <2>2, NamedType
    <3>2. store[e] # None
      BY <1>1, <2>2, <3>1 DEF PassDid, Applied, Holds
    <3> QED BY <1>6, <1>7, <2>2, <3>1, <3>2
  <2> QED BY <1>1, <2>1, <2>2 DEF PassSaw, Running, Up, Named
<1>8. CASE todo # {d}
  BY <1>1, <1>2, <1>6, <1>8 DEF PassSaw, Up
<1> QED BY <1>7, <1>8

LEMMA ClusterSaw ==
  ASSUME TypeOK, Cluster, NEW d \in Deployments, store'[d] # None, d \notin unsure',
         store[d] # None /\ d \notin unsure => store[d].ready
  PROVE  store'[d].ready
<1>0. d \in Objects
  BY DeploymentObjects
<1>1. ASSUME NEW e \in Deployments, PodsProgress(e) PROVE store'[d].ready
  <2> DEFINE x == [store[e] EXCEPT !.ready = TRUE]
  <2>1. e \in Objects /\ store[e] \in Stored
    BY <1>1, DeploymentObjects DEF PodsProgress, TypeOK, ObjType
  <2>2. x.ready
    BY <2>1 DEF Stored
  <2>3. store' = [store EXCEPT ![e] = x] /\ unsure' = unsure \ {e}
    BY <1>1 DEF PodsProgress, ClusterWrite, PutAndQueue, Put
  <2> HIDE DEF x
  <2> QED BY <1>0, <2>1, <2>2, <2>3 DEF TypeOK, ObjType
<1>2. ASSUME NEW e \in Deployments, PodsFail(e) PROVE store'[d].ready
  <2>1. /\ store' = [store EXCEPT ![e] = [store[e] EXCEPT !.ready = FALSE]]
        /\ unsure' = unsure \cup {e}
    BY <1>2 DEF PodsFail, ClusterWrite, PutAndQueue, Put
  <2> QED BY <1>0, <2>1 DEF TypeOK, ObjType
<1>3. ASSUME NEW o \in Objects, Drift(o) PROVE store'[d].ready
  BY <1>0, <1>3 DEF Drift, ClusterWrite, PutAndQueue, Put, Taken, TypeOK, ObjType
<1>4. ASSUME NEW k \in Kinds, GarbageCollect(k) PROVE store'[d].ready
  BY <1>0, <1>4 DEF GarbageCollect, Taken, TypeOK, ObjType
<1> QED BY <1>1, <1>2, <1>3, <1>4 DEF Cluster

\* A step that leaves the pass where it is.
LEMMA SawKept ==
  ASSUME TypeOK, Synced, BindingInv, PassSaw, [Next]_vars, UNCHANGED <<pc, todo, kubenova, allReady>>,
         \A o \in Objects : ~Stage(o)
  PROVE  PassSaw'
<1>0. pc \in {"check", "reporting"} => UNCHANGED <<store, history>> \/ (Cluster /\ cr # None)
  <2>1. ASSUME NEW d \in Deployments, ReadComponent(d) PROVE FALSE
    BY <2>1 DEF ReadComponent, StoreStatusOf
  <2>2. pc \in {"check", "reporting"} => cr # None /\ ~DeleteBinding
    BY DEF DeleteBinding, BindingInv
  <2> QED BY <2>1, <2>2, StoreStep
<1>1. ASSUME pc = "check", allReady, NEW d \in Deployments \ (todo \cup unsure'), store'[d] # None
      PROVE  store'[d].ready
  <2>1. store[d] # None /\ d \notin unsure => store[d].ready
    BY <1>1 DEF PassSaw, Up
  <2> QED BY <1>0, <1>1, <2>1, ClusterSaw DEF history
<1>2. ASSUME pc = "reporting", kubenova.status.phase = "Ready",
             NEW d \in Named(kubenova.spec), d \notin astray' \cup unsure'
      PROVE  store'[d] # None /\ store'[d].ready
  <2>1. d \in Deployments
    <3>1. kubenova.spec \in Specs
      BY <1>2 DEF TypeOK, PassType, KubeNova
    <3> QED BY <1>2, <3>1, NamedType
  <2>2. StaysSure(d)
    BY <1>0, <1>2, <2>1, ClusterSure DEF StaysSure, Sure, history
  <2>3. Sure(d, store[d], astray \cup unsure)
    BY <1>2 DEF PassSaw, Running, Up, Named, Sure
  <2> QED BY <1>2, <2>2, <2>3 DEF StaysSure, Sure
<1> QED BY <1>1, <1>2 DEF PassSaw, Running, Up, Named

LEMMA SawStep ==
  ASSUME TypeOK, Synced, BindingInv, CopiesInv, PassDid, PassSaw, [Next]_vars PROVE PassSaw'
<1>1. ASSUME NEW o \in Objects, Stage(o) PROVE PassSaw'
  <2>1. pc = "ensure" /\ (Fail(kubenova) \/ Done(o) \/ UNCHANGED pc)
    BY <1>1, StageEffect
  <2>2. pc' \in {"failing", "ensure"} \/ (pc' = "check" /\ todo' = Deployments)
    BY <2>1 DEF Fail, StoreStatusOf, Done
  <2> QED BY <2>2 DEF PassSaw
<1>2. CASE ReconcileNamespace
  BY <1>2 DEF ReconcileNamespace, Fail, StoreStatusOf, PassSaw
<1>3. CASE \E d \in Deployments : ReadComponent(d)
  BY <1>3, ReadSaw
<1>4. CASE UNCHANGED <<pc, todo, kubenova, allReady>>
  BY <1>1, <1>3, <1>4, SawKept
<1>5. CASE pc' \in {"idle", "namespace", "failing", "deleting", "binding", "finalizer"}
  BY <1>5 DEF PassSaw
<1> QED BY <1>1, <1>2, <1>3, <1>4, <1>5, Elsewhere

LEMMA RunningStep ==
  ASSUME TypeOK, Synced, BindingInv, CopiesInv, AppliedInv, RunningInv, [Next]_vars
  PROVE  RunningInv'
<1>1. ReadyMeansRunning'
  <2>1. SUFFICES ASSUME ReadyNow', NEW d \in Named(cr'.spec), d \notin astray' \cup unsure'
        PROVE  store'[d] # None /\ store'[d].ready
    BY DEF ReadyMeansRunning, Running, Up, Named
  <2>2. /\ cr \in KubeNova /\ cr # None /\ cr'.spec = cr.spec
        /\ \/ ReadyNow
           \/ /\ pc = "reporting" /\ kubenova.status.phase = "Ready"
              /\ kubenova.spec = cr.spec
    BY <2>1, BecomesReady
  <2>3. cr.spec \in Specs /\ d \in Named(cr.spec)
    BY <2>1, <2>2 DEF KubeNova
  <2>4. d \in Deployments /\ d \in Plan(cr.spec) /\ d \in Objects
    BY <2>3, NamedType, DeploymentObjects
  <2>5. Sure(d, store[d], astray \cup unsure)
    BY <2>2, <2>3 DEF RunningInv, ReadyMeansRunning, PassSaw, Running, Up, Named, Sure
  <2>6. pc # "binding" /\ (pc = "ensure" => Good(d, store[d], astray, kubenova.spec))
    <3>1. CASE ReadyNow
      <4>1. pc # "idle" => kubenova.spec = cr.spec /\ ~kubenova.deleting
        BY <3>1, ReadySpec DEF AppliedInv
      <4>2. Good(d, store[d], astray, cr.spec)
        BY <2>4, <3>1 DEF AppliedInv, ReadyIsDone, Applied, Holds, Good, Asked
      <4> QED BY <4>1, <4>2 DEF CopiesInv, Fits
    <3> QED BY <2>2, <3>1
  <2>7. StaysSure(d)
    BY <2>2, <2>4, <2>6, SureStep
  <2> QED BY <2>1, <2>5, <2>7 DEF StaysSure, Sure
<1>2. PassSaw'
  BY SawStep DEF AppliedInv, RunningInv
<1> QED BY <1>1, <1>2 DEF RunningInv

\* Ready means that every Deployment of the spec has as many ready pods as it
\* asks for, though it is judged Deployment by Deployment, long before the status
\* is stored, and passes over a Ready KubeNova are skipped; but for those a third
\* party took, whose pods were lost later, or of which the check had an outdated
\* copy or none (checkComponentStatus, updateStatusWithRetry, Reconcile).
THEOREM ReadyRuns == Spec => []ReadyMeansRunning
<1>1. Init => CopiesInv /\ AppliedInv
  BY ReadyInit
<1>2. TypeOK /\ TypeOK' /\ Synced /\ BindingInv /\ CopiesInv /\ AppliedInv /\ [Next]_vars
        => (CopiesInv /\ AppliedInv)'
  BY CopiesStep, ReadyStays, DidStep DEF AppliedInv
<1>3. Init => RunningInv
  BY DEF Init, RunningInv, ReadyMeansRunning, ReadyNow, Live, PassSaw
<1>4. TypeOK /\ Synced /\ BindingInv /\ CopiesInv /\ AppliedInv /\ RunningInv /\ [Next]_vars
        => RunningInv'
  BY RunningStep
<1>5. RunningInv => ReadyMeansRunning
  BY DEF RunningInv
<1> QED BY <1>1, <1>2, <1>3, <1>4, <1>5, TypeCorrect, CopiesFollow, BindingInvariant, PTL DEF Spec
=============================================================================
