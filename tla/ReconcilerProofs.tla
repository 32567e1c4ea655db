-------------------------- MODULE ReconcilerProofs --------------------------
(* Proofs about Reconciler for every set of services and specs, any lagging *)
(* kinds and any bounds: its types, that the cluster-admin binding never   *)
(* outlives its KubeNova, that no wakeup is lost, and that phase,          *)
(* conditions and observed generation of the status are right.             *)
EXTENDS Reconciler, TLAPS

-----------------------------------------------------------------------------
(* The operators stay within their types.                                  *)

\* The objects of a spec are objects.
LEMMA PlanType == ASSUME NEW spec \in Specs PROVE Plan(spec) \subseteq Objects
BY ConstantsAssumption DEF Plan, Objects, KubeNovaSpec, Workloads, ServiceAccount,
   ClusterRoleBinding, Secret, Ingress, NginxConfigMap

\* What the status helpers return is a KubeNova.
LEMMA StatusType ==
  ASSUME NEW kn \in KubeNova, NEW phase \in Phases, NEW ok \in BOOLEAN, NEW latest \in KubeNova
  PROVE  /\ setStatusPhase(kn, phase) \in KubeNova
         /\ Verdict(kn, ok) \in KubeNova
         /\ Validate(kn) \in KubeNova
         /\ StatusCopiedTo(latest, kn) \in KubeNova
BY DEF setStatusPhase, Verdict, Validate, SetCondition, StatusCopiedTo, KubeNova,
   Status, Phases, Conditions

\* What the reconciler creates is a stored object.
LEMMA FreshType ==
  ASSUME NEW o \in Objects, NEW kn \in KubeNova
  PROVE  /\ Fresh(o, kn) \in Stored
         /\ \A x \in Stored, b \in BOOLEAN :
              [x EXCEPT !.content = Render(o, kn.spec), !.ready = b] \in Stored
<1>1. kn.spec \in Specs /\ kn.uid \in Nat
  BY DEF KubeNova
<1>2. Render(o, kn.spec) \in Contents
  BY <1>1 DEF Contents
<1> QED BY <1>1, <1>2 DEF Fresh, Stored

-----------------------------------------------------------------------------
(* The pieces the actions share keep the types.                            *)

LEMMA SeenType == ASSUME TypeOK PROVE Seen \in KubeNova \cup {None} /\ SeenStale \in BOOLEAN
BY DEF TypeOK, CRType, Seen, SeenStale

\* Sending a KubeNova with the finalizer keeps it a KubeNova, and sets nothing
\* else the invariants look at.
LEMMA FinalizedType ==
  ASSUME NEW kn \in KubeNova
  PROVE  Finalized(kn) \in KubeNova /\ Finalized(kn).finalizer
           /\ Finalized(kn).deleting = kn.deleting
<1>1. Resent(kn.spec) \in Specs
  BY ConstantsAssumption DEF KubeNova
<1>2. (IF Resent(kn.spec) = kn.spec THEN kn.gen ELSE kn.gen + 1) \in Nat
  BY DEF KubeNova
<1> QED BY <1>1, <1>2 DEF Finalized, KubeNova

LEMMA ViewType ==
  ASSUME TypeOK, NEW o \in Objects
  PROVE  View(o) \in Stored \cup {None} /\ (View(o) # None => View(o).ready \in BOOLEAN)
BY DEF TypeOK, ObjType, View, Stored

LEMMA WriteCRType ==
  ASSUME TypeOK, NEW x \in KubeNova \cup {None}, WriteCR(x)
  PROVE  CRType'
BY DEF TypeOK, CRType, WriteCR

\* What the history remembers are objects and Deployments.
LEMMA HistoryType ==
  ASSUME TypeOK, NEW o \in Objects, NEW fine,
         Mended(o) \/ Trusted(o, fine) \/ Taken({o}) \/ UNCHANGED history
  PROVE  astray' \in SUBSET Objects /\ unsure' \in SUBSET Deployments
BY DEF TypeOK, ObjType, Mended, Trusted, Taken, history

LEMMA PutType ==
  ASSUME TypeOK, NEW o \in Objects, NEW x \in Stored \cup {None}, Put(o, x),
         astray' \in SUBSET Objects, unsure' \in SUBSET Deployments
  PROVE  ObjType'
BY DEF TypeOK, ObjType, Put

LEMMA BudgetStep == ASSUME TypeOK, Fault \/ UNCHANGED budgets PROVE BudgetType'
BY DEF TypeOK, BudgetType, Fault, budgets

LEMMA IdleType == ASSUME Idle PROVE PassType'
<1>1. pc' \in PC /\ current' \in BOOLEAN /\ allReady' \in BOOLEAN
  BY Zenon DEF Idle, PC
<1>3. tries' \in 1..3
  BY DEF Idle
<1>2. todo' \in SUBSET Objects
  BY DEF Idle
<1> QED BY <1>1, <1>2, <1>3 DEF Idle, PassType

LEMMA StoreStatusType ==
  ASSUME NEW kn \in KubeNova, NEW stage \in PC, current' \in BOOLEAN, StoreStatusOf(kn, stage)
  PROVE  PassType'
BY ConstantsAssumption DEF StoreStatusOf, PassType

LEMMA FailType ==
  ASSUME NEW kn \in KubeNova, current' \in BOOLEAN, Fail(kn)
  PROVE  PassType'
<1>1. setStatusPhase(kn, "Failed") \in KubeNova
  BY StatusType DEF Phases
<1> QED BY <1>1, StoreStatusType DEF Fail, PC

LEMMA DoneType ==
  ASSUME TypeOK, NEW o \in Objects, kubenova \in KubeNova, UNCHANGED current, Done(o)
  PROVE  PassType'
<1>1. setStatusPhase(kubenova, "Creating") \in KubeNova
  BY StatusType DEF Phases
<1>2. kubenova' \in KubeNova
  BY <1>1 DEF Done
<1>3. pc' \in PC /\ todo' \in SUBSET Objects
  BY DEF Done, TypeOK, PassType, PC, Objects, Deployments, Workloads
<1> QED BY <1>2, <1>3, ConstantsAssumption DEF Done, TypeOK, PassType

\* A write of an object, served or not.
LEMMA PutOrFailType ==
  ASSUME TypeOK, NEW o \in Objects, NEW x \in Stored, kubenova \in KubeNova,
         UNCHANGED current,
         PutOrFail(o, x, Done(o), Fail(kubenova))
  PROVE  ObjType' /\ PassType' /\ BudgetType' /\ queued' \in BOOLEAN
<1>1. CASE PutAndQueue(o, x) /\ Mended(o) /\ Done(o) /\ UNCHANGED budgets
  BY <1>1, HistoryType, PutType, DoneType, BudgetStep DEF PutAndQueue, TypeOK, QueueType, Event
<1>2. CASE PutAndQueue(o, x) /\ Mended(o) /\ Fail(kubenova) /\ Fault
  BY <1>2, HistoryType, PutType, FailType, BudgetStep DEF PutAndQueue, TypeOK, QueueType, PassType, Event
<1>3. CASE UNCHANGED <<objVars, queued>> /\ Fail(kubenova) /\ Fault
  BY <1>3, FailType, BudgetStep DEF TypeOK, QueueType, ObjType, PassType, objVars, objects, history
<1> QED BY <1>1, <1>2, <1>3 DEF PutOrFail

LEMMA RejectType ==
  ASSUME TypeOK, kubenova \in KubeNova, UNCHANGED current, Reject
  PROVE  ObjType' /\ PassType' /\ BudgetType' /\ queued' \in BOOLEAN
BY FailType, BudgetStep DEF Reject, TypeOK, QueueType, ObjType, PassType, objVars, objects, history

LEMMA CreateType ==
  ASSUME TypeOK, NEW o \in Objects, kubenova \in KubeNova, UNCHANGED current, Create(o)
  PROVE  ObjType' /\ PassType' /\ BudgetType' /\ queued' \in BOOLEAN
BY FreshType, RejectType, PutOrFailType DEF Create

LEMMA UpdateType ==
  ASSUME TypeOK, NEW o \in Objects, kubenova \in KubeNova, UNCHANGED current,
         View(o) # None, Update(o)
  PROVE  ObjType' /\ PassType' /\ BudgetType' /\ queued' \in BOOLEAN
<1>1. View(o) \in Stored
  BY ViewType
<1>2. View(o).ready \in BOOLEAN
  BY <1>1 DEF Stored
<1>3. ASSUME NEW ready \in Readiness(o, View(o), kubenova.spec)
      PROVE  [View(o) EXCEPT !.content = Render(o, kubenova.spec), !.ready = ready] \in Stored
  BY <1>1, <1>2, <1>3, FreshType DEF Readiness
<1> QED BY <1>3, RejectType, PutOrFailType DEF Update

\* Whatever a stage does with its next object.
LEMMA EnsureType ==
  ASSUME TypeOK, NEW o \in Objects, Ensure(o)
  PROVE  TypeOK'
<1>1. kubenova \in KubeNova /\ UNCHANGED current
  BY DEF Ensure, NextUp, TypeOK, PassType
<1>2. CASE View(o) = None /\ Create(o)
  BY <1>1, <1>2, CreateType DEF Ensure, TypeOK, CRType, QueueType, crVars
<1>3. CASE View(o) # None /\ Update(o)
  BY <1>1, <1>3, UpdateType DEF Ensure, TypeOK, CRType, QueueType, crVars
<1>4. CASE target' = o /\ UNCHANGED <<objVars, queued, budgets, pc, todo, kubenova, allReady, tries>>
  BY <1>4, BudgetStep DEF Ensure, TypeOK, CRType, ObjType, QueueType, PassType, crVars, objVars, objects, history
<1>5. CASE /\ Done(o) /\ Trusted(o, Holds(o, kubenova.spec))
           /\ UNCHANGED <<objects, queued, budgets>>
  BY <1>1, <1>5, HistoryType, DoneType, BudgetStep
     DEF Ensure, TypeOK, CRType, ObjType, QueueType, crVars, objects
<1>6. CASE ReadFault /\ Fail(kubenova) /\ UNCHANGED <<objVars, queued>>
  BY <1>1, <1>6, FailType, BudgetStep
     DEF Ensure, ReadFault, TypeOK, CRType, ObjType, QueueType, PassType, crVars, objVars, objects, history
<1> QED BY <1>2, <1>3, <1>4, <1>5, <1>6 DEF Ensure

-----------------------------------------------------------------------------
(* Every action keeps the types.                                           *)

LEMMA BeginType ==
  ASSUME TypeOK,
         ReconcileGone \/ AddFinalizer \/ ReconcileSkip \/ ReconcileValidation \/ BeginDelete
  PROVE  TypeOK'
<1>1. CASE ReconcileGone \/ ReconcileSkip
  <2>1. PassType'
    BY <1>1, IdleType DEF ReconcileGone, ReconcileSkip
  <2> QED
    BY <1>1, <2>1, BudgetStep DEF ReconcileGone, ReconcileSkip, TypeOK, CRType, ObjType,
       QueueType, crVars, objVars, objects, history
<1>2. CASE AddFinalizer
  <2>1. PassType'
    BY <1>2, IdleType DEF AddFinalizer
  <2>2. Seen \in KubeNova /\ Finalized(Seen) \in KubeNova
    BY <1>2, SeenType, FinalizedType DEF AddFinalizer
  <2>3. CRType'
    BY <1>2, <2>2, WriteCRType DEF AddFinalizer, TypeOK, CRType, crVars
  <2>4. BudgetType'
    BY <1>2, BudgetStep DEF AddFinalizer
  <2> QED
    BY <1>2, <2>1, <2>3, <2>4 DEF AddFinalizer, TypeOK, ObjType, QueueType, objVars, objects, history
<1>3. CASE ReconcileValidation
  <2>1. Seen \in KubeNova /\ Validate(Seen) \in KubeNova /\ current' \in BOOLEAN
    BY <1>3, SeenType, StatusType, SeenType DEF ReconcileValidation, Phases
  <2>2. PassType'
    <3>1. CASE Validate(Seen).spec.valid
      BY <1>3, <2>1, <3>1, ConstantsAssumption DEF ReconcileValidation, TypeOK, PassType, PC
    <3>2. CASE ~Validate(Seen).spec.valid
      BY <1>3, <2>1, <3>2, FailType DEF ReconcileValidation
    <3> QED BY <3>1, <3>2
  <2> QED
    BY <1>3, <2>2, BudgetStep
       DEF ReconcileValidation, TypeOK, CRType, ObjType, QueueType, crVars, objVars, objects, history
<1>4. CASE BeginDelete
  <2>1. setStatusPhase(Seen, "Deleting") \in KubeNova /\ current' \in BOOLEAN
    BY <1>4, SeenType, StatusType DEF BeginDelete, Phases
  <2>2. PassType'
    BY <1>4, <2>1, StoreStatusType DEF BeginDelete, PC
  <2> QED
    BY <1>4, <2>2, BudgetStep
       DEF BeginDelete, TypeOK, CRType, ObjType, QueueType, crVars, objVars, objects, history
<1> QED BY <1>1, <1>2, <1>3, <1>4

LEMMA NamespaceType == ASSUME TypeOK, ReconcileNamespace PROVE TypeOK'
<1>1. kubenova \in KubeNova /\ current' \in BOOLEAN
  BY DEF ReconcileNamespace, TypeOK, PassType
<1>2. CASE ReadFault /\ Fail(kubenova)
  BY <1>1, <1>2, FailType, BudgetStep
     DEF ReconcileNamespace, ReadFault, TypeOK, CRType, ObjType, QueueType, crVars, objVars, objects, history, queueVars
<1>3. CASE ~(ReadFault /\ Fail(kubenova))
  <2>1. Plan(kubenova.spec) \in SUBSET Objects
    BY <1>1, PlanType DEF KubeNova
  <2> QED
    BY <1>1, <1>3, <2>1, BudgetStep
       DEF ReconcileNamespace, TypeOK, CRType, ObjType, QueueType, PassType, PC, crVars, objVars, objects, history, queueVars
<1> QED BY <1>2, <1>3

LEMMA StagesType ==
  ASSUME TypeOK,
         ReconcileRBAC \/ ReconcileSecret \/ ReconcileConfigMaps \/ ReconcileServices \/ ReconcileWeb
  PROVE  TypeOK'
<1>1. PICK o \in Objects : Ensure(o)
  BY DEF ReconcileRBAC, ReconcileSecret, ReconcileConfigMaps, ReconcileServices, ReconcileWeb,
     Objects, Workloads, NginxConfigMap
<1> QED BY <1>1, EnsureType

LEMMA UpdateDeploymentType == ASSUME TypeOK, UpdateDeployment PROVE TypeOK'
<1>1. kubenova \in KubeNova /\ UNCHANGED current /\ target \in Objects
  BY DEF UpdateDeployment, TypeOK, PassType
<1>2. CASE Reject
  BY <1>1, <1>2, RejectType DEF UpdateDeployment, TypeOK, CRType, QueueType, crVars
<1>3. CASE View(target) # None /\ Update(target)
  BY <1>1, <1>3, UpdateType DEF UpdateDeployment, TypeOK, CRType, QueueType, crVars
<1>4. CASE ReadFault /\ Fail(kubenova) /\ UNCHANGED <<objVars, queued>>
  BY <1>1, <1>4, FailType, BudgetStep
     DEF UpdateDeployment, ReadFault, TypeOK, CRType, ObjType, QueueType, PassType, crVars, objVars, objects, history
<1> QED BY <1>2, <1>3, <1>4 DEF UpdateDeployment

LEMMA ReadComponentType ==
  ASSUME TypeOK, NEW d \in Deployments, ReadComponent(d) PROVE TypeOK'
<1>1. kubenova \in KubeNova /\ current' \in BOOLEAN
  BY DEF ReadComponent, TypeOK, PassType
<1>2. BudgetType'
  BY BudgetStep DEF ReadComponent, ReadFault
<1>3. PICK ok \in BOOLEAN :
        IF todo = {d}
          THEN StoreStatusOf(Verdict(kubenova, ok), "reporting")
          ELSE /\ todo' = todo \ {d} /\ allReady' = ok
               /\ UNCHANGED <<pc, target, kubenova, tries>>
  BY DEF ReadComponent
<1>4. PassType'
  <2>1. CASE todo = {d}
    BY <1>1, <1>3, <2>1, StatusType, StoreStatusType DEF PC, Phases
  <2>2. CASE todo # {d}
    BY <1>1, <1>3, <2>2 DEF TypeOK, PassType
  <2> QED BY <2>1, <2>2
<1> QED
  <2>1. Judged(d, Outdated(d)) \/ Judged(d, TRUE)
    BY DEF ReadComponent
  <2>2. ObjType'
    BY <2>1 DEF ReadComponent, Judged, TypeOK, ObjType, objects
  <2> QED BY <1>2, <1>4, <2>2 DEF ReadComponent, TypeOK, CRType, QueueType, crVars, queueVars

LEMMA StatusReturnedType ==
  ASSUME TypeOK, NEW latest \in BOOLEAN, NEW event \in BOOLEAN, StatusReturned(latest, event)
  PROVE  PassType' /\ QueueType'
<1>1. PassType'
  <2>1. CASE pc = "deleting"
    BY <2>1 DEF StatusReturned, TypeOK, PassType, PC
  <2>2. CASE pc # "deleting"
    BY <2>2, IdleType DEF StatusReturned
  <2> QED BY <2>1, <2>2
<1>2. QueueType'
  BY DEF StatusReturned, TypeOK, QueueType, ReturnsError
<1> QED BY <1>1, <1>2

LEMMA UpdateStatusType == ASSUME TypeOK, UpdateStatus PROVE TypeOK'
<1>1. kubenova \in KubeNova /\ current \in BOOLEAN
  BY DEF UpdateStatus, TypeOK, PassType
<1>2. BudgetType' /\ ObjType'
  BY BudgetStep DEF UpdateStatus, TypeOK, ObjType, objVars, objects, history
<1>3. CRType'
  <2>1. CASE UNCHANGED crVars
    BY <2>1 DEF TypeOK, CRType, crVars
  <2>2. CASE Seen # None /\ WriteCR(StatusCopiedTo(Seen, kubenova))
    <3>1. StatusCopiedTo(Seen, kubenova) \in KubeNova
      BY <1>1, <2>2, SeenType, StatusType DEF Phases
    <3> QED BY <2>2, <3>1, WriteCRType
  <2> QED BY <2>1, <2>2 DEF UpdateStatus
<1>4. CASE \E latest, event \in BOOLEAN : StatusReturned(latest, event)
  BY <1>2, <1>3, <1>4, StatusReturnedType DEF TypeOK
<1>5. CASE CanRetry /\ tries' = tries + 1
           /\ UNCHANGED <<queueVars, pc, todo, target, kubenova, current, allReady>>
  BY <1>2, <1>3, <1>5 DEF TypeOK, PassType, QueueType, queueVars, CanRetry
<1>6. CREvent \in BOOLEAN /\ Refreshed \in BOOLEAN
  BY DEF CREvent, Refreshed
<1> QED BY <1>1, <1>4, <1>5, <1>6 DEF UpdateStatus

LEMMA DeleteType == ASSUME TypeOK, DeleteBinding \/ RemoveFinalizer PROVE TypeOK'
<1>1. CASE DeleteBinding
  <2>1. ClusterRoleBinding \in Objects
    BY DEF Objects
  <2>2. ObjType' /\ BudgetType'
    <3>1. BudgetType'
      BY <1>1, BudgetStep DEF DeleteBinding, ReadFault
    <3>2. astray' \in SUBSET Objects /\ unsure' \in SUBSET Deployments
      BY <1>1, <2>1, HistoryType DEF DeleteBinding, objVars
    <3>3. Put(ClusterRoleBinding, None) \/ UNCHANGED objects
      BY <1>1 DEF DeleteBinding, objVars
    <3> QED BY <2>1, <3>1, <3>2, <3>3, PutType DEF TypeOK, ObjType, objects
  <2>3. PassType' /\ queued' \in BOOLEAN
    <3>1. CASE Idle /\ queued' = TRUE
      BY <3>1, IdleType
    <3>2. CASE /\ pc' = "finalizer"
               /\ UNCHANGED <<queued, todo, target, kubenova, current, allReady, tries>>
      BY <1>1, <3>2 DEF DeleteBinding, TypeOK, PassType, PC, QueueType
    <3> QED BY <1>1, <3>1, <3>2 DEF DeleteBinding
  <2> QED BY <1>1, <2>2, <2>3 DEF DeleteBinding, TypeOK, CRType, QueueType, crVars
<1>2. CASE RemoveFinalizer
  <2>1. CRType'
    BY <1>2, WriteCRType DEF RemoveFinalizer, TypeOK, CRType, crVars
  <2>2. PassType' /\ BudgetType'
    BY <1>2, IdleType, BudgetStep DEF RemoveFinalizer
  <2>3. queued' \in BOOLEAN
    BY <1>2 DEF RemoveFinalizer, TypeOK, QueueType, CREvent
  <2> QED
    BY <1>2, <2>1, <2>2, <2>3 DEF RemoveFinalizer, TypeOK, ObjType, QueueType, objVars, objects, history
<1> QED BY <1>1, <1>2

LEMMA UserWriteType ==
  ASSUME TypeOK, NEW x \in KubeNova \cup {None}, UserWrite(x) PROVE TypeOK'
<1>1. CRType'
  BY WriteCRType DEF UserWrite
<1> QED
  BY <1>1, BudgetStep DEF UserWrite, TypeOK, ObjType, QueueType, PassType, CREvent, objVars, objects, history

\* An edit or a deletion of a KubeNova leaves a KubeNova.
LEMMA EditType ==
  ASSUME NEW kn \in KubeNova, NEW spec \in Specs
  PROVE  /\ [kn EXCEPT !.spec = spec, !.gen = @ + 1] \in KubeNova
         /\ [kn EXCEPT !.deleting = TRUE, !.gen = @ + 1] \in KubeNova
<1>1. kn.gen + 1 \in Nat
  BY DEF KubeNova
<1> DEFINE g == kn.gen + 1
<1> HIDE DEF g
<1>2. /\ [kn EXCEPT !.spec = spec, !.gen = g] \in KubeNova
      /\ [kn EXCEPT !.deleting = TRUE, !.gen = g] \in KubeNova
  BY <1>1 DEF KubeNova, g
<1> QED BY ONLY <1>2 DEF g

LEMMA UsersType == ASSUME TypeOK, Users PROVE TypeOK'
<1>1. CASE CreateCR
  <2>1. PICK spec \in Specs :
          WriteCR([uid |-> uids + 1, gen |-> 1, spec |-> spec, finalizer |-> FALSE,
                   deleting |-> FALSE, status |-> InitialStatus])
    BY <1>1 DEF CreateCR
  <2>2. [uid |-> uids + 1, gen |-> 1, spec |-> spec, finalizer |-> FALSE,
         deleting |-> FALSE, status |-> InitialStatus] \in KubeNova
    BY DEF KubeNova, InitialStatus, Status, Phases, Conditions, TypeOK, BudgetType
  <2>3. CRType'
    BY <2>1, <2>2, WriteCRType
  <2>4. BudgetType'
    BY <1>1 DEF CreateCR, TypeOK, BudgetType
  <2> QED
    BY <1>1, <2>3, <2>4
       DEF CreateCR, TypeOK, ObjType, QueueType, PassType, CREvent, objVars, objects, history, passVars
<1>2. CASE EditSpec
  <2>1. PICK spec \in Specs : UserWrite([cr EXCEPT !.spec = spec, !.gen = @ + 1])
    BY <1>2 DEF EditSpec
  <2> DEFINE x == [cr EXCEPT !.spec = spec, !.gen = @ + 1]
  <2>2. x \in KubeNova
    BY <1>2, EditType DEF EditSpec, TypeOK, CRType
  <2>3. UserWrite(x)
    BY ONLY <2>1
  <2> HIDE DEF x
  <2> QED BY <2>2, <2>3, UserWriteType
<1>3. CASE DeleteCR
  <2> DEFINE x == IF cr.finalizer THEN [cr EXCEPT !.deleting = TRUE, !.gen = @ + 1] ELSE None
  <2>1. x \in KubeNova \cup {None}
    <3>1. cr \in KubeNova
      BY <1>3 DEF DeleteCR, TypeOK, CRType
    <3> QED BY <3>1, EditType DEF KubeNova
  <2>2. UserWrite(x)
    BY ONLY <1>3 DEF DeleteCR
  <2> HIDE DEF x
  <2> QED BY <2>1, <2>2, UserWriteType
<1> QED BY <1>1, <1>2, <1>3 DEF Users

LEMMA ClusterWriteType ==
  ASSUME TypeOK, NEW o \in Objects, NEW x \in Stored \cup {None}, ClusterWrite(o, x), BudgetType',
         astray' \in SUBSET Objects, unsure' \in SUBSET Deployments
  PROVE  TypeOK'
<1>1. ObjType' /\ queued' \in BOOLEAN
  BY PutType DEF ClusterWrite, PutAndQueue, Event, TypeOK, QueueType
<1> QED
  BY <1>1 DEF ClusterWrite, TypeOK, CRType, QueueType, PassType, crVars, passVars

LEMMA ClusterType == ASSUME TypeOK, Cluster PROVE TypeOK'
<1>1. ASSUME NEW d \in Deployments, PodsProgress(d) \/ PodsFail(d) PROVE TypeOK'
  <2>1. d \in Objects
    BY DEF Deployments, Objects
  <2>2. store[d] \in Stored
    BY <1>1, <2>1 DEF PodsProgress, PodsFail, TypeOK, ObjType
  <2>3. \A b \in BOOLEAN : [store[d] EXCEPT !.ready = b] \in Stored
    BY <2>2 DEF Stored
  <2>4. BudgetType'
    BY <1>1 DEF PodsProgress, PodsFail, TypeOK, BudgetType, budgets
  <2>5. astray' \in SUBSET Objects /\ unsure' \in SUBSET Deployments
    BY <1>1 DEF PodsProgress, PodsFail, TypeOK, ObjType
  <2> QED BY <1>1, <2>1, <2>3, <2>4, <2>5, ClusterWriteType DEF PodsProgress, PodsFail
<1>2. ASSUME NEW o \in Objects, Drift(o) PROVE TypeOK'
  <2>1. BudgetType'
    BY <1>2 DEF Drift, TypeOK, BudgetType
  <2> QED BY <1>2, <2>1, HistoryType, ClusterWriteType DEF Drift
<1>3. ASSUME NEW k \in Kinds, GarbageCollect(k) PROVE TypeOK'
  <2>1. ObjType'
    BY <1>3 DEF GarbageCollect, Orphans, Taken, TypeOK, ObjType
  <2> QED
    BY <1>3, <2>1, BudgetStep
       DEF GarbageCollect, TypeOK, CRType, QueueType, PassType, crVars, passVars
<1> QED BY <1>1, <1>2, <1>3 DEF Cluster

LEMMA InformersType == ASSUME TypeOK, Informers \/ TimerFires \/ Crash PROVE TypeOK'
<1>1. CASE SyncCR
  BY <1>1, BudgetStep
     DEF SyncCR, TypeOK, CRType, ObjType, QueueType, PassType, objVars, objects, history, passVars
<1>2. ASSUME NEW k \in Kinds, SyncKind(k) PROVE TypeOK'
  <2>1. ObjType'
    BY <1>2 DEF SyncKind, TypeOK, ObjType, history
  <2> QED
    BY <1>2, <2>1, BudgetStep
       DEF SyncKind, TypeOK, CRType, QueueType, PassType, crVars, passVars
<1>3. CASE TimerFires
  BY <1>3, BudgetStep
     DEF TimerFires, TypeOK, CRType, ObjType, QueueType, PassType, crVars, objVars, objects, history, passVars
<1>4. CASE Crash
  <2>1. PassType' /\ BudgetType'
    BY <1>4, IdleType, BudgetStep DEF Crash
  <2>2. ObjType'
    BY <1>4 DEF Crash, TypeOK, ObjType, history
  <2> QED BY <1>4, <2>1, <2>2 DEF Crash, TypeOK, CRType, QueueType
<1> QED BY <1>1, <1>2, <1>3, <1>4 DEF Informers

LEMMA TypeStep == ASSUME TypeOK, [Next]_vars PROVE TypeOK'
<1>1. CASE Worker
  BY <1>1, BeginType, NamespaceType, StagesType, UpdateDeploymentType, ReadComponentType,
     UpdateStatusType, DeleteType DEF Worker
<1>2. CASE UNCHANGED vars
  BY <1>2 DEF vars, crVars, objVars, objects, history, queueVars, passVars, budgets,
     TypeOK, CRType, ObjType, QueueType, PassType, BudgetType
<1> QED BY <1>1, <1>2, InformersType, ClusterType, UsersType DEF Next

\* Whatever the services, specs, lagging kinds and bounds, every variable keeps
\* its type: no handler stores a half-made status or leaves the pass without
\* its KubeNova, and updateStatusWithRetry makes no fourth attempt.
THEOREM TypeCorrect == Spec => []TypeOK
<1>1. Init => TypeOK
  <2> SUFFICES ASSUME Init PROVE TypeOK
    OBVIOUS
  <2>1. pc \in PC /\ current \in BOOLEAN /\ allReady \in BOOLEAN
    BY Zenon DEF Init, PC
  <2>2. tries \in 1..3 /\ todo \in SUBSET Objects
    BY DEF Init
  <2>3. PassType
    BY <2>1, <2>2 DEF Init, PassType
  <2>4. CRType /\ QueueType
    BY Zenon DEF Init, CRType, QueueType
  <2>5. ObjType /\ BudgetType
    BY DEF Init, ObjType, BudgetType
  <2> QED BY <2>3, <2>4, <2>5 DEF TypeOK
<1>2. TypeOK /\ [Next]_vars => TypeOK'
  BY TypeStep
<1> QED BY <1>1, <1>2, PTL DEF Spec

-----------------------------------------------------------------------------
(* Stages of a pass.                                                       *)

\* A stage that creates or updates objects is followed by one that does, by the
\* check, or by the report of its failure; the KubeNova stays as it is.
LEMMA StageGoesOn ==
  ASSUME NEW o, Ensure(o) \/ (UpdateDeployment /\ target = o)
  PROVE  /\ pc = "ensure" /\ UNCHANGED crVars
         /\ \/ pc' \in {"ensure", "check"} /\ kubenova' \in {kubenova, setStatusPhase(kubenova, "Creating")}
            \/ Fail(kubenova)
<1>1. pc = "ensure" /\ UNCHANGED crVars
  BY DEF Ensure, UpdateDeployment, NextUp
<1>2. Done(o) => /\ pc' \in {"ensure", "check"}
                 /\ kubenova' \in {kubenova, setStatusPhase(kubenova, "Creating")}
  BY DEF Done
<1>3. ASSUME NEW x, PutOrFail(o, x, Done(o), Fail(kubenova)) PROVE Done(o) \/ Fail(kubenova)
  BY <1>3 DEF PutOrFail
<1>4. Create(o) \/ Update(o) \/ Reject => Done(o) \/ Fail(kubenova)
  BY <1>3 DEF Create, Update, Reject
<1>5. Done(o) \/ Fail(kubenova) \/ UNCHANGED <<pc, kubenova>>
  BY <1>4 DEF Ensure, UpdateDeployment
<1> QED BY <1>1, <1>2, <1>5

LEMMA StagesGoOn ==
  ASSUME \/ UpdateDeployment
         \/ ReconcileRBAC \/ ReconcileSecret \/ ReconcileConfigMaps
         \/ ReconcileServices \/ ReconcileWeb
  PROVE  /\ pc = "ensure" /\ UNCHANGED crVars
         /\ \/ pc' \in {"ensure", "check"} /\ kubenova' \in {kubenova, setStatusPhase(kubenova, "Creating")}
            \/ Fail(kubenova)
<1>1. \E o : Ensure(o) \/ (UpdateDeployment /\ target = o)
  BY DEF ReconcileRBAC, ReconcileSecret, ReconcileConfigMaps, ReconcileServices, ReconcileWeb
<1> QED BY <1>1, StageGoesOn

-----------------------------------------------------------------------------
(* Wakeups.                                                                *)

WakeInv == NoLostWakeup /\ (~SeenStale => Seen = cr)

\* The informer catches up, so what a current copy shows is what there is.
LEMMA SeenStep == ASSUME ~SeenStale => Seen = cr, [Next]_vars PROVE (~SeenStale => Seen = cr)'
<1>1. CASE UNCHANGED crVars
  BY <1>1 DEF crVars, Seen, SeenStale
<1>2. ASSUME NEW x, WriteCR(x) PROVE (~SeenStale => Seen = cr)'
  BY <1>2 DEF WriteCR, Seen, SeenStale
<1>3. CASE Users
  BY <1>2, <1>3 DEF Users, CreateCR, EditSpec, DeleteCR, UserWrite
<1>4. CASE AddFinalizer \/ UpdateStatus \/ RemoveFinalizer
  BY <1>1, <1>2, <1>4 DEF AddFinalizer, UpdateStatus, RemoveFinalizer
<1>5. CASE SyncCR \/ Crash
  BY <1>5 DEF SyncCR, Crash, Seen, SeenStale
<1>6. CASE \/ ReconcileGone \/ ReconcileSkip \/ ReconcileValidation \/ BeginDelete
           \/ ReconcileNamespace \/ DeleteBinding \/ \E d \in Deployments : ReadComponent(d)
           \/ TimerFires \/ \E k \in Kinds : SyncKind(k)
  BY <1>1, <1>6 DEF ReconcileGone, ReconcileSkip, ReconcileValidation, BeginDelete,
     ReconcileNamespace, DeleteBinding, ReadComponent, TimerFires, SyncKind
<1>7. CASE Cluster \/ UNCHANGED vars
  BY <1>1, <1>7 DEF Cluster, PodsProgress, PodsFail, Drift, GarbageCollect, ClusterWrite, vars
<1> QED BY <1>1, <1>3, <1>4, <1>5, <1>6, <1>7, StagesGoOn DEF Next, Worker, Informers

LEMMA WakeStep == ASSUME WakeInv, [Next]_vars PROVE NoLostWakeup'
<1>1. ASSUME queued' \/ timer' \/ pc' # "idle" PROVE NoLostWakeup'
  BY <1>1 DEF NoLostWakeup
<1>2. CASE UNCHANGED crVars /\ UNCHANGED <<timer, pc>> /\ (queued => queued')
  BY <1>2 DEF WakeInv, NoLostWakeup, crVars
<1>3. ASSUME NEW x, WriteCR(x), queued' = (queued \/ CREvent) \/ queued' = TRUE PROVE NoLostWakeup'
  BY <1>3 DEF WriteCR, CREvent, NoLostWakeup
<1>4. CASE ReconcileGone
  BY <1>4 DEF ReconcileGone, WakeInv, NoLostWakeup, Seen, SeenStale, crVars
<1>5. CASE ReconcileSkip \/ AddFinalizer
  BY <1>1, <1>5 DEF ReconcileSkip, AddFinalizer
<1>6. CASE \/ ReconcileValidation \/ BeginDelete \/ ReconcileNamespace
           \/ \E d \in Deployments : ReadComponent(d)
  <2>1. pc' # "idle"
    BY <1>6 DEF ReconcileValidation, BeginDelete, ReconcileNamespace, ReadComponent, Fail, StoreStatusOf
  <2> QED BY <1>1, <2>1
<1>7. CASE \/ UpdateDeployment
           \/ ReconcileRBAC \/ ReconcileSecret \/ ReconcileConfigMaps
           \/ ReconcileServices \/ ReconcileWeb
  <2>1. pc' # "idle"
    BY <1>7, StagesGoOn DEF Fail, StoreStatusOf
  <2> QED BY <1>1, <2>1
<1>8. CASE UpdateStatus
  <2>1. ASSUME NEW latest, NEW event, StatusReturned(latest, event), pc \in {"failing", "reporting", "deleting"}
        PROVE  queued' \/ timer' \/ pc' # "idle"
    BY <2>1 DEF StatusReturned, ReturnsError
  <2>2. queued' \/ timer' \/ pc' # "idle"
    BY <1>8, <2>1 DEF UpdateStatus
  <2> QED BY <1>1, <2>2
<1>9. CASE DeleteBinding
  BY <1>1, <1>9 DEF DeleteBinding
<1>10. CASE RemoveFinalizer
  BY <1>1, <1>10 DEF RemoveFinalizer, WriteCR, NoLostWakeup
<1>11. CASE Users
  BY <1>3, <1>11 DEF Users, CreateCR, EditSpec, DeleteCR, UserWrite
<1>12. CASE Cluster
  BY <1>2, <1>12 DEF Cluster, PodsProgress, PodsFail, Drift, GarbageCollect, ClusterWrite,
     PutAndQueue, passVars
<1>13. CASE Informers
  BY <1>1, <1>2, <1>13 DEF Informers, SyncCR, SyncKind, passVars
<1>14. CASE TimerFires
  BY <1>1, <1>14 DEF TimerFires
<1>15. CASE Crash
  BY <1>15 DEF Crash, NoLostWakeup
<1>16. CASE UNCHANGED vars
  BY <1>2, <1>16 DEF vars, queueVars, passVars
<1> QED BY <1>4, <1>5, <1>6, <1>7, <1>8, <1>9, <1>10, <1>11, <1>12, <1>13, <1>14, <1>15, <1>16
        DEF Next, Worker

\* While a KubeNova exists, the queue, a timer, a pass under way or an
\* undelivered event will bring it back to the worker, whatever fails and
\* however late the informers are (Reconcile's return values,
\* updateStatusWithRetry, SetupWithManager).
THEOREM NothingIsForgotten == Spec => []NoLostWakeup
<1>1. Init => WakeInv
  BY DEF Init, WakeInv, NoLostWakeup, Seen, SeenStale
<1>2. WakeInv /\ [Next]_vars => WakeInv'
  BY SeenStep, WakeStep DEF WakeInv
<1>3. WakeInv => NoLostWakeup
  BY DEF WakeInv
<1> QED BY <1>1, <1>2, <1>3, PTL DEF Spec

-----------------------------------------------------------------------------
(* What changes the KubeNova and the pass's copy of it.                    *)

\* Every step leaves the KubeNova, writes one of these, or takes it away.
Written ==
  \/ /\ cr \in KubeNova /\ cr # None
     /\ \/ Seen = cr /\ pc = "idle" /\ pc' = "idle" /\ WriteCR(Finalized(cr))
        \/ /\ pc \in {"failing", "reporting", "deleting"} /\ kubenova \in KubeNova
           /\ Seen = cr /\ WriteCR(StatusCopiedTo(cr, kubenova))
        \/ /\ UNCHANGED <<pc, kubenova>>
           /\ \E spec \in Specs : WriteCR([cr EXCEPT !.spec = spec, !.gen = @ + 1])
        \/ /\ UNCHANGED <<pc, kubenova>>
           /\ WriteCR([cr EXCEPT !.deleting = TRUE, !.gen = @ + 1])
  \/ WriteCR(None)
  \/ /\ cr = None /\ uids < MaxUid /\ uids' = uids + 1 /\ UNCHANGED <<pc, kubenova>>
     /\ \E spec \in Specs :
          WriteCR([uid |-> uids + 1, gen |-> 1, spec |-> spec, finalizer |-> FALSE,
                   deleting |-> FALSE, status |-> InitialStatus])

LEMMA CRStep ==
  ASSUME TypeOK, ~SeenStale => Seen = cr, [Next]_vars
  PROVE  Written \/ (cr' = cr /\ Seen' \in {Seen, cr})
<1>1. CASE UNCHANGED crVars
  BY <1>1 DEF crVars, Seen
<1>2. CASE AddFinalizer
  <2>1. CASE ~SeenStale /\ WriteCR(Finalized(Seen))
    BY <1>2, <2>1 DEF AddFinalizer, Take, Idle, Written, TypeOK, CRType
  <2> QED BY <1>1, <1>2, <2>1 DEF AddFinalizer
<1>3. CASE UpdateStatus
  <2>1. CASE Seen # None /\ ~SeenStale /\ WriteCR(StatusCopiedTo(Seen, kubenova))
    <3>1. kubenova \in KubeNova
      BY <1>3 DEF UpdateStatus, TypeOK, PassType
    <3> QED BY <1>3, <2>1, <3>1 DEF UpdateStatus, Written, TypeOK, CRType
  <2> QED BY <1>1, <1>3, <2>1 DEF UpdateStatus
<1>4. CASE RemoveFinalizer
  BY <1>1, <1>4 DEF RemoveFinalizer, Written
<1>5. CASE CreateCR
  BY <1>5 DEF CreateCR, passVars, Written
<1>6. CASE EditSpec
  BY <1>6 DEF EditSpec, UserWrite, Written, TypeOK, CRType
<1>7. CASE DeleteCR
  BY <1>7 DEF DeleteCR, UserWrite, Written, TypeOK, CRType
<1>8. CASE SyncCR \/ Crash
  BY <1>8 DEF SyncCR, Crash, Seen
<1>9. CASE \/ ReconcileGone \/ ReconcileSkip \/ ReconcileValidation \/ BeginDelete
           \/ ReconcileNamespace \/ DeleteBinding \/ \E d \in Deployments : ReadComponent(d)
           \/ TimerFires \/ \E k \in Kinds : SyncKind(k)
  BY <1>1, <1>9 DEF ReconcileGone, ReconcileSkip, ReconcileValidation, BeginDelete,
     ReconcileNamespace, DeleteBinding, ReadComponent, TimerFires, SyncKind
<1>10. CASE Cluster \/ UNCHANGED vars
  BY <1>1, <1>10 DEF Cluster, PodsProgress, PodsFail, Drift, GarbageCollect, ClusterWrite, vars
<1> QED BY <1>1, <1>2, <1>3, <1>4, <1>5, <1>6, <1>7, <1>8, <1>9, <1>10, StagesGoOn
        DEF Next, Worker, Informers, Users

LEMMA PhaseEffect ==
  ASSUME NEW kn \in KubeNova, NEW phase \in Phases
  PROVE  /\ setStatusPhase(kn, phase).status.phase = phase
         /\ setStatusPhase(kn, phase).status.validated = kn.status.validated
         /\ setStatusPhase(kn, phase).status.og = kn.gen
         /\ setStatusPhase(kn, phase).gen = kn.gen /\ setStatusPhase(kn, phase).uid = kn.uid
         /\ setStatusPhase(kn, phase).spec = kn.spec
BY DEF setStatusPhase, KubeNova, Status

LEMMA ValidateEffect ==
  ASSUME NEW kn \in KubeNova
  PROVE  /\ kn.spec.valid => Validate(kn).status.validated = "True"
         /\ Validate(kn) \in KubeNova /\ Validate(kn).spec = kn.spec
         /\ Validate(kn).status.og = kn.gen /\ Validate(kn).gen = kn.gen /\ Validate(kn).uid = kn.uid
<1>1. Validate(kn) \in KubeNova
  BY StatusType DEF Phases
<1>2. setStatusPhase(kn, "Validating") \in KubeNova
  BY StatusType DEF Phases
<1> QED BY <1>1, <1>2, PhaseEffect DEF Validate, SetCondition, KubeNova, Status, Phases

LEMMA VerdictEffect ==
  ASSUME NEW kn \in KubeNova, NEW ok \in BOOLEAN
  PROVE  /\ Verdict(kn, ok).status.validated = kn.status.validated
         /\ Verdict(kn, ok).status.phase = "Ready" => Verdict(kn, ok).status.ready = "True"
         /\ Verdict(kn, ok).status.og = kn.gen /\ Verdict(kn, ok).gen = kn.gen
         /\ Verdict(kn, ok).uid = kn.uid
<1>1. setStatusPhase(kn, IF ok THEN "Ready" ELSE "Creating") \in KubeNova
  BY StatusType DEF Phases
<1>2. /\ setStatusPhase(kn, IF ok THEN "Ready" ELSE "Creating").status.phase = IF ok THEN "Ready" ELSE "Creating"
      /\ setStatusPhase(kn, IF ok THEN "Ready" ELSE "Creating").status.validated = kn.status.validated
      /\ setStatusPhase(kn, IF ok THEN "Ready" ELSE "Creating").status.og = kn.gen
      /\ setStatusPhase(kn, IF ok THEN "Ready" ELSE "Creating").gen = kn.gen
      /\ setStatusPhase(kn, IF ok THEN "Ready" ELSE "Creating").uid = kn.uid
  BY PhaseEffect DEF Phases
<1> QED BY <1>1, <1>2 DEF Verdict, SetCondition, KubeNova, Status

\* A step that makes the pass's copy what it was not.
Passed ==
  \/ /\ Seen \in KubeNova /\ kubenova' = Validate(Seen) /\ pc' = "namespace"
     /\ Seen.spec.valid /\ ~Seen.deleting
  \/ Seen \in KubeNova /\ kubenova' = setStatusPhase(Validate(Seen), "Failed") /\ pc' = "failing"
  \/ Seen \in KubeNova /\ kubenova' = setStatusPhase(Seen, "Deleting") /\ pc' = "deleting" /\ Seen.deleting
  \/ /\ pc \in {"namespace", "ensure"} /\ kubenova \in KubeNova
     /\ \/ kubenova' = setStatusPhase(kubenova, "Failed") /\ pc' = "failing"
        \/ pc' \in {"ensure", "check"} /\ kubenova' \in {kubenova, setStatusPhase(kubenova, "Creating")}
  \/ /\ pc = "check" /\ kubenova \in KubeNova /\ pc' = "reporting"
     /\ \E ok \in BOOLEAN : kubenova' = Verdict(kubenova, ok)

\* A step that leaves it, or drops it.
Kept ==
  \/ kubenova' = kubenova /\ (pc' = pc \/ (pc \in {"deleting", "binding"} /\ pc' \in {"binding", "finalizer"}))
  \/ kubenova' = None /\ pc' = "idle"

LEMMA PassStep == ASSUME TypeOK, [Next]_vars PROVE Passed \/ Kept
<1>1. pc # "idle" => kubenova \in KubeNova
  BY DEF TypeOK, PassType
<1>2. Seen \in KubeNova \cup {None}
  BY SeenType
<1>3. CASE ReconcileGone \/ ReconcileSkip \/ AddFinalizer \/ RemoveFinalizer \/ Crash
  BY <1>3 DEF ReconcileGone, ReconcileSkip, AddFinalizer, RemoveFinalizer, Crash, Idle, Kept
<1>4. CASE ReconcileValidation
  <2>1. Seen \in KubeNova /\ Validate(Seen).spec = Seen.spec
    BY <1>2, <1>4, ValidateEffect DEF ReconcileValidation
  <2> QED BY <1>4, <2>1 DEF ReconcileValidation, Fail, StoreStatusOf, Passed
<1>5. CASE BeginDelete
  BY <1>2, <1>5 DEF BeginDelete, StoreStatusOf, Passed
<1>6. CASE ReconcileNamespace
  BY <1>1, <1>6 DEF ReconcileNamespace, Fail, StoreStatusOf, Passed
<1>7. CASE \/ UpdateDeployment
           \/ ReconcileRBAC \/ ReconcileSecret \/ ReconcileConfigMaps
           \/ ReconcileServices \/ ReconcileWeb
  BY <1>1, <1>7, StagesGoOn DEF Fail, StoreStatusOf, Passed
<1>8. ASSUME NEW d \in Deployments, ReadComponent(d) PROVE Passed \/ Kept
  BY <1>1, <1>8 DEF ReadComponent, StoreStatusOf, Passed, Kept
<1>9. CASE UpdateStatus
  BY <1>9 DEF UpdateStatus, StatusReturned, Idle, Kept
<1>10. CASE DeleteBinding
  BY <1>10 DEF DeleteBinding, Idle, Kept
<1>11. CASE Users
  BY <1>11 DEF Users, CreateCR, EditSpec, DeleteCR, UserWrite, passVars, Kept
<1>12. CASE Cluster
  BY <1>12 DEF Cluster, PodsProgress, PodsFail, Drift, GarbageCollect, ClusterWrite, passVars, Kept
<1>13. CASE Informers \/ TimerFires \/ UNCHANGED vars
  BY <1>13 DEF Informers, SyncCR, SyncKind, TimerFires, vars, passVars, Kept
<1> QED BY <1>3, <1>4, <1>5, <1>6, <1>7, <1>8, <1>9, <1>10, <1>11, <1>12, <1>13 DEF Next, Worker

-----------------------------------------------------------------------------
(* Informer copies.                                                        *)

\* Every step leaves the objects and their copies, writes or deletes one object,
\* or is the cluster's or an informer's.
LEMMA ObjectsStep ==
  ASSUME TypeOK, [Next]_vars
  PROVE  \/ UNCHANGED objects
         \/ \E o \in Objects, x \in Stored \cup {None} : Put(o, x)
         \/ \E k \in Kinds : GarbageCollect(k) \/ SyncKind(k)
         \/ Crash
<1> DEFINE G == \/ UNCHANGED objects
                \/ \E o \in Objects, x \in Stored \cup {None} : Put(o, x)
<1>1. UNCHANGED objVars => G
  BY DEF objVars
<1>2. ASSUME NEW o \in Objects, NEW x \in Stored, PutOrFail(o, x, Done(o), Fail(kubenova)) PROVE G
  BY <1>2 DEF PutOrFail, PutAndQueue, objVars
<1>3. Reject => UNCHANGED objects
  BY DEF Reject, objVars
<1>4. ASSUME NEW o \in Objects, kubenova \in KubeNova, Create(o) PROVE G
  BY <1>2, <1>3, <1>4, FreshType DEF Create
<1>5. ASSUME NEW o \in Objects, kubenova \in KubeNova, View(o) # None, Update(o) PROVE G
  <2>1. View(o) \in Stored /\ View(o).ready \in BOOLEAN
    BY <1>5, ViewType
  <2>2. ASSUME NEW ready \in Readiness(o, View(o), kubenova.spec)
        PROVE  [View(o) EXCEPT !.content = Render(o, kubenova.spec), !.ready = ready] \in Stored
    BY <1>5, <2>1, <2>2, FreshType DEF Readiness
  <2> QED BY <1>2, <1>3, <1>5, <2>2 DEF Update
<1>6. pc = "ensure" => kubenova \in KubeNova
  BY DEF TypeOK, PassType
<1>7. ASSUME NEW o \in Objects, Ensure(o) PROVE G
  <2>1. kubenova \in KubeNova
    BY <1>6, <1>7 DEF Ensure, NextUp
  <2>2. \/ Create(o)
        \/ View(o) # None /\ Update(o)
        \/ UNCHANGED objVars \/ UNCHANGED objects
    BY <1>7 DEF Ensure
  <2> QED BY <1>1, <1>4, <1>5, <2>1, <2>2
<1>8. CASE \/ ReconcileRBAC \/ ReconcileSecret \/ ReconcileConfigMaps
           \/ ReconcileServices \/ ReconcileWeb
  <2>1. PICK o \in Objects : Ensure(o)
    BY <1>8 DEF ReconcileRBAC, ReconcileSecret, ReconcileConfigMaps, ReconcileServices,
       ReconcileWeb, Objects, Workloads, NginxConfigMap
  <2> QED BY <1>7, <2>1
<1>9. CASE UpdateDeployment
  <2>1. target \in Objects
    BY <1>9 DEF UpdateDeployment, TypeOK, PassType
  <2> QED BY <1>1, <1>3, <1>5, <1>6, <1>9, <2>1 DEF UpdateDeployment
<1>10. CASE DeleteBinding
  BY <1>10 DEF DeleteBinding, objVars, Objects
<1>11. CASE \/ ReconcileGone \/ AddFinalizer \/ ReconcileSkip \/ ReconcileValidation
            \/ ReconcileNamespace \/ \E d \in Deployments : ReadComponent(d)
            \/ UpdateStatus \/ BeginDelete \/ RemoveFinalizer
  BY <1>11 DEF ReconcileGone, AddFinalizer, ReconcileSkip, ReconcileValidation,
     ReconcileNamespace, ReadComponent, UpdateStatus, BeginDelete, RemoveFinalizer, objVars
<1>12. CASE Users \/ TimerFires \/ SyncCR \/ UNCHANGED vars
  BY <1>12 DEF Users, CreateCR, EditSpec, DeleteCR, UserWrite, TimerFires, SyncCR, vars, objVars
<1>13. ASSUME NEW d \in Deployments, PodsProgress(d) \/ PodsFail(d) PROVE G
  <2>1. d \in Objects /\ store[d] \in Stored
    BY <1>13 DEF PodsProgress, PodsFail, Deployments, Objects, TypeOK, ObjType
  <2>2. \A b \in BOOLEAN : [store[d] EXCEPT !.ready = b] \in Stored
    BY <2>1 DEF Stored
  <2> QED BY <1>13, <2>1, <2>2 DEF PodsProgress, PodsFail, ClusterWrite, PutAndQueue
<1>14. ASSUME NEW o \in Objects, Drift(o) PROVE G
  BY <1>14 DEF Drift, ClusterWrite, PutAndQueue
<1> QED
  BY <1>8, <1>9, <1>10, <1>11, <1>12, <1>13, <1>14 DEF Next, Worker, Informers, Cluster

LEMMA SyncedStep == ASSUME TypeOK, Synced, [Next]_vars PROVE Synced'
<1>1. CASE UNCHANGED objects
  BY <1>1 DEF objects, Synced
<1>2. ASSUME NEW o \in Objects, NEW x, Put(o, x) PROVE Synced'
  BY <1>2 DEF Put, Synced, TypeOK, ObjType
<1>3. ASSUME NEW k \in Kinds, GarbageCollect(k) PROVE Synced'
  BY <1>3 DEF GarbageCollect, Orphans, Synced, TypeOK, ObjType
<1>4. ASSUME NEW k \in Kinds, SyncKind(k) PROVE Synced'
  BY <1>4 DEF SyncKind, Synced, TypeOK, ObjType
<1>5. CASE Crash
  BY <1>5 DEF Crash, Synced, TypeOK, ObjType
<1> QED BY <1>1, <1>2, <1>3, <1>4, <1>5, ObjectsStep

\* A copy that is not out of date is the object as it is.
LEMMA CopiesFollow == Spec => []Synced
<1>1. Init => Synced
  BY DEF Init, Synced
<1> QED BY <1>1, SyncedStep, TypeCorrect, PTL DEF Spec

LEMMA ViewOfSynced ==
  ASSUME Synced, NEW o \in Objects, ~Outdated(o) PROVE View(o) = store[o]
BY DEF Synced, Outdated, View

-----------------------------------------------------------------------------
(* The cluster-admin binding.                                              *)

\* A step that leaves the KubeNova alone, adds no binding and enters no stage
\* the invariant speaks of.
LEMMA KeepsInv ==
  ASSUME BindingInv, UNCHANGED crVars,
         store'[ClusterRoleBinding] # None /\ ClusterRoleBinding \notin astray'
           => store[ClusterRoleBinding] # None /\ ClusterRoleBinding \notin astray,
         pc' = pc \/ pc' \in {"idle", "failing"} \/ (pc = "check" /\ pc' = "reporting"),
         pc' \in {"namespace", "ensure", "check", "reporting"} => kubenova'.uid = kubenova.uid
  PROVE  BindingInv'
BY DEF BindingInv, BindingHandled, BindingGuarded, Released, Seen, SeenStale, crVars

\* A step of a pass over a KubeNova that holds the finalizer may add the
\* binding.
LEMMA PassKeepsInv ==
  ASSUME BindingInv, UNCHANGED crVars, cr # None, cr.finalizer,
         pc' \in {"namespace", "ensure", "check", "failing"},
         pc' # "failing" => kubenova'.uid = cr.uid
  PROVE  BindingInv'
BY DEF BindingInv, BindingHandled, BindingGuarded, Released, Seen, SeenStale, crVars

\* A write of the KubeNova that keeps its flags, or sets the deletion mark.
LEMMA WriteKeepsInv ==
  ASSUME BindingInv, cr # None, NEW x, x # None, WriteCR(x), UNCHANGED <<store, astray>>,
         x.uid = cr.uid, x.finalizer = cr.finalizer, x.deleting = cr.deleting \/ x.deleting = TRUE,
         \/ pc' = pc /\ kubenova' = kubenova
         \/ pc' = "idle"
         \/ pc = "deleting" /\ pc' = "binding"
  PROVE  BindingInv'
BY DEF BindingInv, BindingHandled, BindingGuarded, Released, Seen, SeenStale, WriteCR

LEMMA BeginInv ==
  ASSUME BindingInv, TypeOK,
         ReconcileGone \/ AddFinalizer \/ ReconcileSkip \/ ReconcileValidation \/ BeginDelete
  PROVE  BindingInv'
<1>1. CASE ReconcileGone \/ ReconcileSkip
  BY <1>1, KeepsInv DEF ReconcileGone, ReconcileSkip, Idle, objVars, objects, history
<1>2. CASE AddFinalizer
  <2>1. CASE UNCHANGED crVars
    BY <1>2, <2>1, KeepsInv DEF AddFinalizer, Idle, objVars, objects, history
  <2>2. CASE ~SeenStale /\ WriteCR(Finalized(Seen))
    <3>1. Seen = cr /\ cr \in KubeNova /\ ~cr.deleting /\ ~cr.finalizer
      BY <1>2, <2>2 DEF AddFinalizer, NeedsFinalizer, BindingInv, TypeOK, CRType
    <3> DEFINE x == Finalized(cr)
    <3>2. x \in KubeNova /\ x.finalizer /\ ~x.deleting
      BY <3>1, FinalizedType DEF KubeNova
    <3>3. WriteCR(x) /\ x # None /\ pc' = "idle" /\ UNCHANGED <<store, astray>>
      BY <1>2, <2>2, <3>1, <3>2, ConstantsAssumption DEF AddFinalizer, Idle, objVars, objects, history
    <3> HIDE DEF x
    <3> QED
      BY <3>1, <3>2, <3>3
         DEF BindingInv, BindingHandled, BindingGuarded, Released, Seen, SeenStale, WriteCR
  <2> QED BY <1>2, <2>1, <2>2 DEF AddFinalizer
<1>3. CASE ReconcileValidation
  <2>1. cr # None /\ cr.finalizer /\ cr.uid = Seen.uid
    BY <1>3 DEF ReconcileValidation, BindingInv, Released, NeedsFinalizer
  <2>2. Seen \in KubeNova
    BY <1>3, SeenType DEF ReconcileValidation
  <2>3. pc' = "failing" \/ (pc' = "namespace" /\ kubenova' = Validate(Seen))
    <3>1. \/ kubenova' = Validate(Seen) /\ pc' = "namespace"
          \/ Fail(Validate(Seen))
      BY <1>3 DEF ReconcileValidation
    <3> QED BY <3>1 DEF Fail, StoreStatusOf
  <2> QED BY <1>3, <2>1, <2>2, <2>3, ValidateEffect, PassKeepsInv DEF ReconcileValidation
<1>4. CASE BeginDelete
  <2>1. Released(cr) /\ Released(Seen) /\ pc' = "deleting"
    BY <1>4 DEF BeginDelete, StoreStatusOf, BindingInv, Released
  <2> QED
    BY <1>4, <2>1 DEF BeginDelete, BindingInv, BindingHandled, BindingGuarded, Released,
       Seen, SeenStale, crVars, objVars, objects, history
<1> QED BY <1>1, <1>2, <1>3, <1>4

LEMMA PassInv ==
  ASSUME BindingInv, TypeOK,
         \/ ReconcileNamespace \/ UpdateDeployment
         \/ ReconcileRBAC \/ ReconcileSecret \/ ReconcileConfigMaps
         \/ ReconcileServices \/ ReconcileWeb
  PROVE  BindingInv'
<1>1. CASE ReconcileNamespace
  BY <1>1, PassKeepsInv DEF ReconcileNamespace, Fail, StoreStatusOf, BindingInv
<1>2. CASE ~ReconcileNamespace
  <2>1. kubenova \in KubeNova
    BY <1>2, StagesGoOn DEF TypeOK, PassType
  <2>2. setStatusPhase(kubenova, "Creating").uid = kubenova.uid
    BY <2>1, PhaseEffect DEF Phases
  <2>3. /\ pc = "ensure" /\ UNCHANGED crVars
        /\ \/ pc' \in {"ensure", "check"} /\ kubenova'.uid = kubenova.uid
           \/ pc' = "failing"
    BY <1>2, <2>2, StagesGoOn DEF Fail, StoreStatusOf
  <2> QED BY <2>3, PassKeepsInv DEF BindingInv
<1> QED BY <1>1, <1>2

LEMMA StatusInv ==
  ASSUME BindingInv, TypeOK, UpdateStatus \/ \E d \in Deployments : ReadComponent(d)
  PROVE  BindingInv'
<1>1. ASSUME NEW d \in Deployments, ReadComponent(d) PROVE BindingInv'
  <2>1. kubenova \in KubeNova /\ UNCHANGED <<crVars, store, astray>> /\ pc = "check"
    BY <1>1 DEF ReadComponent, Judged, TypeOK, PassType, objects
  <2>2. \A ok \in BOOLEAN : Verdict(kubenova, ok).uid = kubenova.uid
    BY <2>1, VerdictEffect
  <2>3. pc' \in {"check", "reporting"} /\ kubenova'.uid = kubenova.uid
    BY <1>1, <2>1, <2>2 DEF ReadComponent, StoreStatusOf
  <2> QED BY <2>1, <2>3, KeepsInv
<1>2. CASE UpdateStatus
  <2>1. UNCHANGED <<store, astray>>
    BY <1>2 DEF UpdateStatus, objVars, objects, history
  <2>2. \/ pc' = pc /\ kubenova' = kubenova
        \/ pc' = "idle"
        \/ pc = "deleting" /\ pc' = "binding"
    BY <1>2 DEF UpdateStatus, StatusReturned, Idle
  <2>3. CASE UNCHANGED crVars
    <3>1. CASE (pc' = pc /\ kubenova' = kubenova) \/ pc' = "idle"
      BY <2>1, <2>3, <3>1, KeepsInv
    <3>2. CASE pc = "deleting" /\ pc' = "binding"
      BY <2>1, <2>3, <3>2
         DEF BindingInv, BindingHandled, BindingGuarded, Released, Seen, SeenStale, crVars
    <3> QED BY <2>2, <3>1, <3>2
  <2>4. CASE Seen # None /\ ~SeenStale /\ WriteCR(StatusCopiedTo(Seen, kubenova))
    <3>1. Seen = cr /\ cr # None /\ cr \in KubeNova /\ kubenova \in KubeNova
      BY <1>2, <2>4 DEF UpdateStatus, BindingInv, TypeOK, CRType, PassType
    <3> DEFINE x == StatusCopiedTo(cr, kubenova)
    <3>2. x \in KubeNova /\ x.uid = cr.uid /\ x.finalizer = cr.finalizer /\ x.deleting = cr.deleting
      BY <3>1 DEF StatusCopiedTo, KubeNova
    <3>3. x # None /\ WriteCR(x)
      BY <2>4, <3>1, <3>2, ConstantsAssumption
    <3> HIDE DEF x
    <3> QED BY <2>1, <2>2, <3>1, <3>2, <3>3, WriteKeepsInv
  <2> QED BY <1>2, <2>3, <2>4 DEF UpdateStatus
<1> QED BY <1>1, <1>2

LEMMA DeleteInv ==
  ASSUME BindingInv, TypeOK, Synced, DeleteBinding \/ RemoveFinalizer
  PROVE  BindingInv'
<1>0. ClusterRoleBinding \in Objects
  BY DEF Objects
<1>1. CASE DeleteBinding
  <2>1. CASE Put(ClusterRoleBinding, None)
    <3>1. store'[ClusterRoleBinding] = None
      BY <1>0, <2>1 DEF Put, TypeOK, ObjType
    <3> QED
      BY <1>1, <3>1 DEF DeleteBinding, Idle, BindingInv, BindingHandled, BindingGuarded,
         Released, Seen, SeenStale, crVars
  <2>2. CASE UNCHANGED objVars /\ Idle
    BY <1>1, <2>2, KeepsInv DEF DeleteBinding, Idle, objVars, objects, history
  <2>3. ASSUME UNCHANGED store, UNCHANGED astray \/ ClusterRoleBinding \in astray',
               store[ClusterRoleBinding] = None \/ ClusterRoleBinding \in astray', pc' = "finalizer"
        PROVE  BindingInv'
    BY <1>1, <2>3 DEF DeleteBinding, BindingInv, BindingHandled, BindingGuarded, Released,
       Seen, SeenStale, crVars
  <2>4. CASE /\ View(ClusterRoleBinding) = None
             /\ Trusted(ClusterRoleBinding, store[ClusterRoleBinding] = None)
             /\ UNCHANGED objects /\ pc' = "finalizer"
    <3>1. CASE store[ClusterRoleBinding] = None
      BY <1>1, <2>4, <3>1 DEF DeleteBinding, objects, BindingInv, BindingHandled, BindingGuarded,
         Released, Seen, SeenStale, crVars
    <3>2. CASE store[ClusterRoleBinding] # None
      <4>1. Outdated(ClusterRoleBinding)
        BY <1>0, <2>4, <3>2, ViewOfSynced
      <4> QED BY <2>3, <2>4, <3>2, <4>1 DEF Trusted, objects
    <3> QED BY <3>1, <3>2
  <2>5. CASE Taken({ClusterRoleBinding}) /\ UNCHANGED objects /\ pc' = "finalizer"
    <3>1. cr = None => store[ClusterRoleBinding] = None \/ ClusterRoleBinding \in astray
      BY DEF BindingInv, BindingHandled, BindingGuarded
    <3> QED BY <2>3, <2>5, <3>1 DEF Taken, objects
  <2> QED BY <1>1, <2>1, <2>2, <2>4, <2>5 DEF DeleteBinding
<1>2. CASE RemoveFinalizer
  <2>1. CASE UNCHANGED crVars
    BY <1>2, <2>1, KeepsInv DEF RemoveFinalizer, Idle, objVars, objects, history
  <2>2. CASE WriteCR(None)
    BY <1>2, <2>2 DEF RemoveFinalizer, Idle, objVars, objects, history, BindingInv,
       BindingHandled, BindingGuarded, Released, Seen, SeenStale, WriteCR
  <2> QED BY <1>2, <2>1, <2>2 DEF RemoveFinalizer
<1> QED BY <1>1, <1>2

LEMMA UsersInv == ASSUME BindingInv, TypeOK, Users PROVE BindingInv'
<1>1. CASE CreateCR
  <2> DEFINE new(spec) == [uid |-> uids + 1, gen |-> 1, spec |-> spec, finalizer |-> FALSE,
                           deleting |-> FALSE, status |-> InitialStatus]
  <2>1. PICK spec \in Specs : WriteCR(new(spec))
    BY <1>1 DEF CreateCR
  <2>2. ~new(spec).finalizer
    OBVIOUS
  <2> HIDE DEF new
  <2>3. cr = None /\ UNCHANGED <<store, astray, pc>>
    BY <1>1 DEF CreateCR, objVars, objects, history, passVars
  <2> QED
    BY <2>1, <2>2, <2>3
       DEF BindingInv, BindingHandled, BindingGuarded, Released, Seen, SeenStale, WriteCR
<1>2. CASE EditSpec
  <2>1. PICK spec \in Specs : UserWrite([cr EXCEPT !.spec = spec, !.gen = @ + 1])
    BY <1>2 DEF EditSpec
  <2> DEFINE x == [cr EXCEPT !.spec = spec, !.gen = @ + 1]
  <2>2. cr \in KubeNova /\ cr # None
    BY <1>2 DEF EditSpec, TypeOK, CRType
  <2>3. x.uid = cr.uid /\ x.finalizer = cr.finalizer /\ x.deleting = cr.deleting
    BY <2>2 DEF KubeNova
  <2>4. x # None
    BY <2>2, EditType, ConstantsAssumption
  <2>5. WriteCR(x) /\ UNCHANGED <<store, astray, pc, kubenova>>
    BY <2>1 DEF UserWrite, objVars, objects, history
  <2> HIDE DEF x
  <2> QED BY <2>2, <2>3, <2>4, <2>5, WriteKeepsInv
<1>3. CASE DeleteCR
  <2> DEFINE x == [cr EXCEPT !.deleting = TRUE, !.gen = @ + 1]
  <2>1. cr \in KubeNova /\ cr # None
    BY <1>3 DEF DeleteCR, TypeOK, CRType
  <2>2. x.uid = cr.uid /\ x.finalizer = cr.finalizer /\ x.deleting = TRUE
    BY <2>1 DEF KubeNova
  <2>3. x # None
    <3>1. cr.spec \in Specs
      BY <2>1 DEF KubeNova
    <3>2. x \in KubeNova
      BY ONLY <2>1, <3>1, EditType
    <3> QED BY ONLY <3>2, ConstantsAssumption
  <2>4. WriteCR(IF cr.finalizer THEN x ELSE None) /\ UNCHANGED <<store, astray, pc, kubenova>>
    BY <1>3 DEF DeleteCR, UserWrite, objVars, objects, history
  <2> HIDE DEF x
  <2>5. CASE cr.finalizer
    BY <2>1, <2>2, <2>3, <2>4, <2>5, WriteKeepsInv
  <2>6. CASE ~cr.finalizer
    BY <2>1, <2>4, <2>6
       DEF BindingInv, BindingHandled, BindingGuarded, Released, Seen, SeenStale, WriteCR
  <2> QED BY <2>5, <2>6
<1> QED BY <1>1, <1>2, <1>3 DEF Users

LEMMA EnvironmentInv ==
  ASSUME BindingInv, TypeOK, Cluster \/ Informers \/ TimerFires \/ Crash
  PROVE  BindingInv'
<1>0. ClusterRoleBinding \in Objects
  BY DEF Objects
<1>1. ASSUME NEW d \in Deployments, PodsProgress(d) \/ PodsFail(d) PROVE BindingInv'
  <2>1. d # ClusterRoleBinding
    BY DEF Deployments, ClusterRoleBinding
  <2>2. store'[ClusterRoleBinding] = store[ClusterRoleBinding] /\ UNCHANGED astray
    BY <1>0, <1>1, <2>1
       DEF PodsProgress, PodsFail, ClusterWrite, PutAndQueue, Put, TypeOK, ObjType
  <2> QED BY <1>1, <2>2, KeepsInv DEF PodsProgress, PodsFail, ClusterWrite, passVars
<1>2. ASSUME NEW o \in Objects, Drift(o) PROVE BindingInv'
  <2>1. store'[ClusterRoleBinding] \in {None, store[ClusterRoleBinding]} /\ astray \subseteq astray'
    BY <1>0, <1>2 DEF Drift, Taken, ClusterWrite, PutAndQueue, Put, TypeOK, ObjType
  <2> QED BY <1>2, <2>1, KeepsInv DEF Drift, ClusterWrite, passVars
<1>3. ASSUME NEW k \in Kinds, GarbageCollect(k) PROVE BindingInv'
  <2>1. store'[ClusterRoleBinding] \in {None, store[ClusterRoleBinding]} /\ astray \subseteq astray'
    BY <1>0, <1>3 DEF GarbageCollect, Taken
  <2> QED BY <1>3, <2>1, KeepsInv DEF GarbageCollect, passVars
<1>4. CASE SyncCR
  BY <1>4 DEF SyncCR, objVars, objects, history, passVars, BindingInv, BindingHandled,
     BindingGuarded, Released, Seen, SeenStale
<1>5. ASSUME NEW k \in Kinds, SyncKind(k) PROVE BindingInv'
  BY <1>5, KeepsInv DEF SyncKind, history, passVars
<1>6. CASE TimerFires
  BY <1>6, KeepsInv DEF TimerFires, objVars, objects, history, passVars
<1>7. CASE Crash
  BY <1>7 DEF Crash, Idle, history, BindingInv, BindingHandled, BindingGuarded, Released,
     Seen, SeenStale
<1> QED BY <1>1, <1>2, <1>3, <1>4, <1>5, <1>6, <1>7 DEF Cluster, Informers

LEMMA BindingStep == ASSUME BindingInv, TypeOK, Synced, [Next]_vars PROVE BindingInv'
<1>1. CASE Worker
  BY <1>1, BeginInv, PassInv, StatusInv, DeleteInv DEF Worker
<1>2. CASE UNCHANGED vars
  BY <1>2, KeepsInv DEF vars, crVars, objVars, objects, history, passVars
<1> QED BY <1>1, <1>2, EnvironmentInv, UsersInv DEF Next

\* At every step the binding, the finalizer and the copy a pass works on are
\* where they must be for that: before reconcileRBAC creates the binding the
\* finalizer is stored, and past reconcileDelete's call the binding has gone or
\* is known to have been overlooked.
THEOREM BindingInvariant == Spec => []BindingInv
<1>1. Init => BindingInv
  BY DEF Init, BindingInv, BindingHandled, BindingGuarded, Released, Seen, SeenStale,
     ClusterRoleBinding, Objects
<1>2. BindingInv /\ TypeOK /\ Synced /\ [Next]_vars => BindingInv'
  BY BindingStep
<1> QED BY <1>1, <1>2, TypeCorrect, CopiesFollow, PTL DEF Spec

\* A cluster-admin binding exists only while a KubeNova with the finalizer
\* does, whatever writes fail, however old the copies of any kind are, across
\* restarts and re-creation under the same name, unless it is one that a delete
\* pass could not see because its copy was out of date or its Get failed
\* (reconcileDelete ignores Get's errors).
THEOREM BindingNeverOutlives == Spec => []BindingHandled
<1>1. BindingInv => BindingHandled
  BY DEF BindingInv
<1> QED BY <1>1, BindingInvariant, PTL

-----------------------------------------------------------------------------
(* Phase and conditions.                                                   *)

Coherent(kn) ==
  kn # None =>
    /\ kn.status.phase = "Ready" => kn.status.ready = "True" /\ kn.status.validated = "True"
    /\ kn.status.validated = "False" => kn.status.phase \in {"Failed", "Deleting"}

\* A stored status is coherent, and so is one about to be stored; between the
\* validation and the report the spec is known to be valid.
CoherentInv ==
  /\ ~SeenStale => Seen = cr
  /\ Coherent(cr) /\ Coherent(Seen)
  /\ pc \in {"namespace", "ensure", "check"} => kubenova.status.validated = "True"
  /\ pc \in {"failing", "reporting", "deleting"} => Coherent(kubenova)

\* The status of what a step writes.
LEMMA WrittenStatus ==
  ASSUME Written
  PROVE  \/ cr' = None
         \/ cr # None /\ cr'.status = cr.status
         \/ cr'.status = kubenova.status /\ pc \in {"failing", "reporting", "deleting"}
         \/ cr'.status = InitialStatus
<1>1. \A x \in KubeNova : Finalized(x).status = x.status
  BY DEF Finalized, KubeNova
<1>2. \A x \in KubeNova : StatusCopiedTo(x, kubenova).status = kubenova.status
  BY DEF StatusCopiedTo, KubeNova
<1>3. \A x \in KubeNova, spec \in Specs :
        /\ [x EXCEPT !.spec = spec, !.gen = @ + 1].status = x.status
        /\ [x EXCEPT !.deleting = TRUE, !.gen = @ + 1].status = x.status
  BY DEF KubeNova
<1>4. ASSUME NEW x, WriteCR(x) PROVE cr' = x
  BY <1>4 DEF WriteCR
<1>5. ASSUME cr \in KubeNova, cr # None, WriteCR(Finalized(cr)) PROVE cr'.status = cr.status
  BY <1>1, <1>4, <1>5
<1>6. ASSUME cr \in KubeNova, WriteCR(StatusCopiedTo(cr, kubenova)) PROVE cr'.status = kubenova.status
  BY <1>2, <1>4, <1>6
<1>7. ASSUME cr \in KubeNova, NEW spec \in Specs, WriteCR([cr EXCEPT !.spec = spec, !.gen = @ + 1])
      PROVE  cr'.status = cr.status
  BY <1>3, <1>7 DEF WriteCR
<1>8. ASSUME cr \in KubeNova, WriteCR([cr EXCEPT !.deleting = TRUE, !.gen = @ + 1])
      PROVE  cr'.status = cr.status
  BY <1>8 DEF WriteCR, KubeNova
<1>9. ASSUME NEW spec \in Specs,
             WriteCR([uid |-> uids + 1, gen |-> 1, spec |-> spec, finalizer |-> FALSE,
                      deleting |-> FALSE, status |-> InitialStatus])
      PROVE  cr'.status = InitialStatus
  BY <1>9 DEF WriteCR
<1>10. WriteCR(None) => cr' = None
  BY <1>4
<1> QED BY <1>5, <1>6, <1>7, <1>8, <1>9, <1>10 DEF Written

LEMMA CoherentStep == ASSUME TypeOK, CoherentInv, [Next]_vars PROVE CoherentInv'
<1>1. (~SeenStale => Seen = cr)'
  BY SeenStep DEF CoherentInv
<1>2. Coherent(cr') /\ Coherent(Seen')
  <2>1. CASE Written
    <3>1. Seen' \in {Seen, cr'}
      <4>1. ASSUME NEW x, WriteCR(x) PROVE Seen' \in {Seen, cr'}
        BY <4>1 DEF WriteCR, Seen
      <4> QED BY <2>1, <4>1 DEF Written
    <3>2. Coherent(cr')
      <4>1. pc \in {"failing", "reporting", "deleting"} => kubenova # None
        BY DEF TypeOK, PassType
      <4> QED BY <2>1, <4>1, WrittenStatus DEF Coherent, CoherentInv, InitialStatus
    <3> QED BY <3>1, <3>2 DEF CoherentInv
  <2>2. CASE cr' = cr /\ Seen' \in {Seen, cr}
    BY <2>2 DEF CoherentInv
  <2> QED BY <2>1, <2>2, CRStep DEF CoherentInv
<1>3. /\ pc' \in {"namespace", "ensure", "check"} => kubenova'.status.validated = "True"
      /\ pc' \in {"failing", "reporting", "deleting"} => Coherent(kubenova')
  <2>1. CASE Kept
    BY <2>1 DEF Kept, CoherentInv
  <2>2. CASE Seen \in KubeNova /\ kubenova' = Validate(Seen) /\ pc' = "namespace" /\ Seen.spec.valid
    BY <2>2, ValidateEffect
  <2>3. ASSUME NEW kn \in KubeNova, NEW phase \in {"Failed", "Deleting"},
               kubenova' = setStatusPhase(kn, phase), pc' \in {"failing", "deleting"}
        PROVE  Coherent(kubenova')
    BY <2>3, PhaseEffect DEF Coherent, Phases
  <2>4. CASE /\ pc \in {"namespace", "ensure"} /\ kubenova \in KubeNova /\ pc' \in {"ensure", "check"}
             /\ kubenova' \in {kubenova, setStatusPhase(kubenova, "Creating")}
    BY <2>4, PhaseEffect DEF CoherentInv, Phases
  <2>5. ASSUME NEW ok \in BOOLEAN, pc = "check", kubenova \in KubeNova, kubenova' = Verdict(kubenova, ok)
        PROVE  Coherent(kubenova')
    BY <2>5, VerdictEffect DEF Coherent, CoherentInv
  <2> QED BY <2>1, <2>2, <2>3, <2>4, <2>5, PassStep, ValidateEffect DEF Passed
<1>4. Coherent(cr)' /\ Coherent(Seen)'
  BY <1>2 DEF Coherent
<1>5. (pc \in {"failing", "reporting", "deleting"} => Coherent(kubenova))'
  BY <1>3 DEF Coherent
<1> QED BY <1>1, <1>3, <1>4, <1>5 DEF CoherentInv

\* Ready is only ever stored with both conditions true, and a failed validation
\* only with phase Failed or Deleting, though phase and conditions are set in
\* different stages and any stage may fail (Reconcile, checkComponentStatus,
\* updateStatusWithRetry).
THEOREM StatusIsCoherent == Spec => []StatusCoherent
<1>1. Init => CoherentInv
  BY DEF Init, CoherentInv, Coherent, Seen, SeenStale
<1>2. TypeOK /\ CoherentInv /\ [Next]_vars => CoherentInv'
  BY CoherentStep
<1>3. CoherentInv => StatusCoherent
  BY DEF CoherentInv, Coherent, StatusCoherent
<1> QED BY <1>1, <1>2, <1>3, TypeCorrect, PTL DEF Spec

-----------------------------------------------------------------------------
(* Generations.                                                            *)

LEMMA UidStep == ASSUME [Next]_vars PROVE uids' = uids \/ uids' = uids + 1
<1>1. Fault \/ UNCHANGED budgets => uids' = uids
  BY DEF Fault, budgets
<1>2. ASSUME NEW o, Ensure(o) \/ (UpdateDeployment /\ target = o) PROVE uids' = uids
  BY <1>1, <1>2 DEF Ensure, UpdateDeployment, Create, Update, Reject, PutOrFail, ReadFault
<1>3. CASE \/ UpdateDeployment
           \/ ReconcileRBAC \/ ReconcileSecret \/ ReconcileConfigMaps
           \/ ReconcileServices \/ ReconcileWeb
  BY <1>2, <1>3
     DEF ReconcileRBAC, ReconcileSecret, ReconcileConfigMaps, ReconcileServices, ReconcileWeb
<1>4. CASE \/ ReconcileGone \/ AddFinalizer \/ ReconcileSkip \/ ReconcileValidation
           \/ ReconcileNamespace \/ \E d \in Deployments : ReadComponent(d)
           \/ UpdateStatus \/ BeginDelete \/ DeleteBinding \/ RemoveFinalizer
  BY <1>1, <1>4 DEF ReconcileGone, AddFinalizer, ReconcileSkip, ReconcileValidation,
     ReconcileNamespace, ReadComponent, UpdateStatus, BeginDelete, DeleteBinding,
     RemoveFinalizer, ReadFault
<1>5. CASE Users
  BY <1>1, <1>5 DEF Users, CreateCR, EditSpec, DeleteCR, UserWrite
<1>6. CASE Cluster \/ Informers \/ TimerFires \/ Crash \/ UNCHANGED vars
  BY <1>1, <1>6 DEF Cluster, PodsProgress, PodsFail, Drift, GarbageCollect, Informers, SyncCR,
     SyncKind, TimerFires, Crash, vars
<1> QED BY <1>3, <1>4, <1>5, <1>6 DEF Next, Worker

\* What the informer shows, and what a pass works on, is no older than the
\* generation the stored status is about; a pass's own status is about its copy.
MonotoneInv ==
  /\ ~SeenStale => Seen = cr
  /\ uids = 0 => cr = None /\ Seen = None /\ kubenova = None
  /\ cr # None =>
       /\ cr.status.og <= cr.gen
       /\ Seen # None => cr.status.og <= Seen.gen /\ Seen.gen <= cr.gen
       /\ kubenova # None =>
            /\ kubenova.status.og = kubenova.gen
            /\ cr.status.og <= kubenova.gen /\ kubenova.gen <= cr.gen

LEMMA WrittenGeneration ==
  ASSUME TypeOK, Written
  PROVE  \/ cr' = None
         \/ /\ cr # None /\ cr'.gen \in Nat /\ cr'.gen >= cr.gen
            /\ \/ cr'.status = cr.status
               \/ cr'.status = kubenova.status /\ kubenova \in KubeNova /\ Seen = cr
         \/ /\ cr = None /\ uids < MaxUid /\ uids' = uids + 1 /\ kubenova' = kubenova
            /\ cr'.gen = 1 /\ cr'.status.og = 0
<1>1. ASSUME cr \in KubeNova, cr # None, WriteCR(Finalized(cr))
      PROVE  cr'.status = cr.status /\ cr'.gen \in Nat /\ cr'.gen >= cr.gen
  <2>1. cr' = Finalized(cr) /\ cr.gen \in Nat
    BY <1>1 DEF WriteCR, KubeNova
  <2>2. Finalized(cr).status = cr.status /\ Finalized(cr).gen \in {cr.gen, cr.gen + 1}
    BY <1>1 DEF Finalized, KubeNova
  <2> QED BY <2>1, <2>2
<1>2. ASSUME cr \in KubeNova, cr # None, WriteCR(StatusCopiedTo(cr, kubenova))
      PROVE  cr'.status = kubenova.status /\ cr'.gen \in Nat /\ cr'.gen >= cr.gen
  <2>1. cr' = StatusCopiedTo(cr, kubenova) /\ cr.gen \in Nat
    BY <1>2 DEF WriteCR, KubeNova
  <2>2. StatusCopiedTo(cr, kubenova).status = kubenova.status /\ StatusCopiedTo(cr, kubenova).gen = cr.gen
    BY <1>2 DEF StatusCopiedTo, KubeNova
  <2> QED BY <2>1, <2>2
<1>3. ASSUME cr \in KubeNova, NEW spec \in Specs, WriteCR([cr EXCEPT !.spec = spec, !.gen = @ + 1])
      PROVE  cr'.status = cr.status /\ cr'.gen \in Nat /\ cr'.gen >= cr.gen
  <2>1. cr' = [cr EXCEPT !.spec = spec, !.gen = @ + 1] /\ cr.gen \in Nat
    BY <1>3 DEF WriteCR, KubeNova
  <2>2. cr'.status = cr.status /\ cr'.gen = cr.gen + 1
    BY <1>3, <2>1 DEF KubeNova
  <2> QED BY <2>1, <2>2
<1>4. ASSUME cr \in KubeNova, WriteCR([cr EXCEPT !.deleting = TRUE, !.gen = @ + 1])
      PROVE  cr'.status = cr.status /\ cr'.gen \in Nat /\ cr'.gen >= cr.gen
  <2>1. cr' = [cr EXCEPT !.deleting = TRUE, !.gen = @ + 1] /\ cr.gen \in Nat
    BY <1>4 DEF WriteCR, KubeNova
  <2>2. cr'.status = cr.status /\ cr'.gen = cr.gen + 1
    BY <1>4, <2>1 DEF KubeNova
  <2> QED BY <2>1, <2>2
<1>5. ASSUME NEW spec \in Specs,
             WriteCR([uid |-> uids + 1, gen |-> 1, spec |-> spec, finalizer |-> FALSE,
                      deleting |-> FALSE, status |-> InitialStatus])
      PROVE  cr'.gen = 1 /\ cr'.status.og = 0
  BY <1>5 DEF WriteCR, InitialStatus
<1>6. WriteCR(None) => cr' = None
  BY DEF WriteCR
<1> QED BY <1>1, <1>2, <1>3, <1>4, <1>5, <1>6 DEF Written

\* The status a step leaves is about a generation no older than the one before.
Monotone == cr # None /\ cr' # None /\ cr'.uid = cr.uid => cr'.status.og >= cr.status.og

LEMMA MonotoneAction ==
  ASSUME TypeOK, MonotoneInv, [Next]_vars PROVE Monotone
<1>1. cr # None => cr.status.og \in Nat
  BY DEF TypeOK, CRType, KubeNova, Status
<1>2. CASE cr' = cr
  BY <1>1, <1>2 DEF Monotone
<1>3. CASE Written
  BY <1>1, <1>3, WrittenGeneration, ConstantsAssumption DEF Monotone, MonotoneInv
<1> QED BY <1>2, <1>3, CRStep DEF MonotoneInv

LEMMA MonotoneStep ==
  ASSUME MaxUid <= 1, TypeOK, TypeOK', MonotoneInv, [Next]_vars PROVE MonotoneInv'
<1>0. /\ uids \in Nat /\ MaxUid \in Nat /\ None \notin KubeNova
      /\ cr \in KubeNova \cup {None} /\ Seen \in KubeNova \cup {None}
      /\ kubenova \in KubeNova \cup {None}
  BY SeenType, ConstantsAssumption DEF TypeOK, CRType, PassType, BudgetType
<1>1. (~SeenStale => Seen = cr)'
  BY SeenStep DEF MonotoneInv
<1>2. \/ kubenova' = kubenova \/ kubenova' = None
      \/ /\ Seen \in KubeNova
         /\ kubenova'.gen = Seen.gen /\ kubenova'.status.og = Seen.gen
      \/ /\ kubenova \in KubeNova
         /\ kubenova'.gen = kubenova.gen /\ kubenova'.status.og = kubenova.gen
  BY PassStep, PhaseEffect, ValidateEffect, VerdictEffect DEF Passed, Kept, Phases
<1>3. CASE cr' = cr /\ Seen' \in {Seen, cr}
  BY <1>0, <1>1, <1>2, <1>3, UidStep DEF MonotoneInv, KubeNova, Status
<1>4. CASE Written
  <2>1. Seen' \in {Seen, cr'}
    <3>1. ASSUME NEW x, WriteCR(x) PROVE Seen' \in {Seen, cr'}
      BY <3>1 DEF WriteCR, Seen
    <3> QED BY <1>4, <3>1 DEF Written
  <2> QED
    BY <1>0, <1>1, <1>2, <1>4, <2>1, UidStep, WrittenGeneration DEF MonotoneInv, KubeNova, Status
<1> QED BY <1>3, <1>4, CRStep DEF MonotoneInv

\* Within one incarnation the generation the status speaks of never goes back,
\* however many edits, failed writes, restarts and late KubeNova events there
\* are (setStatusPhase, updateStatusWithRetry).
THEOREM ObservedNeverGoesBack == ASSUME MaxUid <= 1 PROVE Spec => ObservedMonotone
<1>1. Init => MonotoneInv
  BY DEF Init, MonotoneInv, Seen, SeenStale
<1>2. TypeOK /\ TypeOK' /\ MonotoneInv /\ [Next]_vars => MonotoneInv'
  BY MonotoneStep
<1>3. TypeOK /\ MonotoneInv /\ [Next]_vars
        => [cr # None /\ cr' # None /\ cr'.uid = cr.uid => cr'.status.og >= cr.status.og]_vars
  BY MonotoneAction DEF Monotone
<1> QED BY <1>1, <1>2, <1>3, TypeCorrect, PTL DEF Spec, ObservedMonotone
=============================================================================
