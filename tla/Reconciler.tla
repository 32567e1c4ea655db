----------------------------- MODULE Reconciler -----------------------------
(***************************************************************************)
(* The KubeNova reconciler for one namespaced name: the API server's       *)
(* KubeNova object and the objects the operator creates for it, the        *)
(* manager's informer copies the reconciler reads, the work queue, and one *)
(* Reconcile pass cut at every API write                                   *)
(* (internal/controller/kubenova_controller.go).                           *)
(*                                                                         *)
(* A pass reads an object and writes it in one step.  What may come        *)
(* between the read and the write is covered by the informer copy being    *)
(* older than the object: a kind in Lagging is delivered some time after   *)
(* it changed, any other kind at once.  resourceVersion appears only as    *)
(* "this copy is out of date", which is all optimistic locking compares.   *)
(*                                                                         *)
(* An operator named <definition>_<what> is that definition with a         *)
(* plausible bug.  It is used nowhere: PROJECT.json names the property that *)
(* fails when it takes the definition's place.                             *)
(***************************************************************************)
EXTENDS Naturals, FiniteSets

CONSTANTS
  Services,    \* backend services (portal-api, portal-rpc, ...)
  Specs,       \* the KubeNovaSpec values users write
  None,        \* no object, or no target
  Lagging,     \* kinds whose informer copy may be older than the object
  ReadFaults,  \* may a read through the client fail?
  MaxGen,      \* bound: edits stop at this generation
  MaxUid,      \* bound: incarnations of the KubeNova name
  MaxFaults,   \* bound: failed API calls and operator crashes
  MaxOutages,  \* bound: times a Deployment loses ready pods
  MaxDrift     \* bound: owned objects deleted by a third party

Web == "kube-nova-web"

Kinds == {"KubeNova", "ServiceAccount", "ClusterRoleBinding", "Secret",
          "ConfigMap", "Deployment", "Service", "Ingress"}

\* Kinds SetupWithManager watches besides KubeNova.
Owned == Kinds \ {"KubeNova", "ClusterRoleBinding"}

Settings == {"a", "b"}

\* KubeNovaSpec: image stands for what deploymentSpecEqual compares,
\* pullPolicy for what it does not, settings for what is rendered into the
\* Secret and the nginx ConfigMap.  canonical says whether the services'
\* resources are written the way the API server prints them; the builder's
\* defaults are not ("1000m").  nonBlock stands for the fields whose default is
\* not the zero value of their Go type.
KubeNovaSpec ==
  [valid : BOOLEAN, enabled : SUBSET Services, ingress : BOOLEAN,
   customNginx : BOOLEAN, image : Settings, pullPolicy : Settings,
   canonical : BOOLEAN, nonBlock : BOOLEAN, settings : Settings]

ServiceAccount     == <<"ServiceAccount", "kube-nova-sa">>
ClusterRoleBinding == <<"ClusterRoleBinding", "cluster-admin">>
Secret             == <<"Secret", "kube-nova-secret">>
NginxConfigMap     == <<"ConfigMap", Web>>
Ingress            == <<"Ingress", Web>>

Workloads == Services \cup {Web}

Objects ==
  {ServiceAccount, ClusterRoleBinding, Secret, Ingress}
    \cup ({"ConfigMap", "Deployment", "Service"} \X Workloads)

Kind(o) == o[1]

Deployments == {"Deployment"} \X Workloads

Phases == {"none", "Validating", "Creating", "Ready", "Failed", "Deleting"}
Conditions == {"unset", "True", "False"}

Status == [phase : Phases, og : Nat, validated : Conditions, ready : Conditions]

KubeNova ==
  [uid : Nat, gen : Nat, spec : Specs, finalizer : BOOLEAN,
   deleting : BOOLEAN, status : Status]

\* What the builders put into object o for a spec, as far as it varies here.
Render(o, spec) ==
  CASE Kind(o) = "Deployment" -> <<spec.image, spec.pullPolicy>>
    [] o \in {Secret, NginxConfigMap} -> <<spec.settings>>
    [] OTHER -> << >>

Contents == {Render(o, spec) : o \in Objects, spec \in Specs}

\* A stored object: the uid of its controller owner (0: none), its content,
\* and, for a Deployment, whether ReadyReplicas has reached Replicas.
Stored == [owner : Nat, content : Contents, ready : BOOLEAN]

\* What becomes of a spec the operator writes back: omitempty leaves a false
\* nonBlock out, and the API server puts in the default.
Resent(spec) == [spec EXCEPT !.nonBlock = TRUE]

ASSUME ConstantsAssumption ==
  /\ Specs \subseteq KubeNovaSpec
  /\ \A spec \in Specs : Resent(spec) \in Specs
  /\ Web \notin Services
  /\ Lagging \subseteq Kinds
  /\ ReadFaults \in BOOLEAN
  /\ MaxGen \in Nat /\ MaxUid \in Nat /\ MaxFaults \in Nat
  /\ MaxOutages \in Nat /\ MaxDrift \in Nat
  /\ None \notin KubeNova \cup Stored \cup Objects
  /\ None \notin [gen : Nat, guarded : BOOLEAN, deleting : BOOLEAN]

VARIABLES
  cr,        \* the KubeNova object in the API server, or None
  crCache,   \* the informer's copy of it
  crStale,   \* has cr been written since the informer's copy?
  store,     \* the other objects in the API server
  cache,     \* the informers' copies of them
  stale,     \* the objects written since their copies
  queued,    \* is the request in the work queue?
  timer,     \* is a RequeueAfter pending?
  pc,        \* where the worker is in the pass
  todo,      \* objects the pass has still to ensure, or to inspect
  target,    \* the Deployment found different, about to be updated
  kubenova,  \* the pass's own copy of the KubeNova
  current,   \* does that copy carry the latest resourceVersion?
  allReady,  \* verdict of checkComponentStatus so far
  tries,     \* attempts of updateStatusWithRetry
  uids, faults, outages, drifts, \* budgets used (see the bounds above)
  \* History: no guard reads it, it is what the properties make exceptions for.
  astray,    \* objects a third party took, or that a pass misjudged because its
             \* copy was outdated or could not be read, and that are not mended
  unsure     \* Deployments not running that no check can have known of

crVars    == <<cr, crCache, crStale>>
objects   == <<store, cache, stale>>
history   == <<astray, unsure>>
objVars   == <<objects, history>>
queueVars == <<queued, timer>>
passVars  == <<pc, todo, target, kubenova, current, allReady, tries>>
budgets   == <<uids, faults, outages, drifts>>
vars      == <<crVars, objVars, queueVars, passVars, budgets>>

PC == {"idle", "namespace", "ensure", "check",
       "failing", "reporting", "deleting", "binding", "finalizer"}

CRType == cr \in KubeNova \cup {None} /\ crCache \in KubeNova \cup {None} /\ crStale \in BOOLEAN

ObjType ==
  /\ store \in [Objects -> Stored \cup {None}]
  /\ cache \in [Objects -> Stored \cup {None}]
  /\ stale \in SUBSET Objects
  /\ astray \in SUBSET Objects /\ unsure \in SUBSET Deployments

QueueType == queued \in BOOLEAN /\ timer \in BOOLEAN

PassType ==
  /\ pc \in PC
  /\ todo \in SUBSET Objects
  /\ target \in Objects \cup {None}
  /\ kubenova \in KubeNova \cup {None}
  /\ pc # "idle" => kubenova # None
  /\ current \in BOOLEAN /\ allReady \in BOOLEAN
  /\ tries \in 1..3

BudgetType == uids \in Nat /\ faults \in Nat /\ outages \in Nat /\ drifts \in Nat

\* Every variable has its type: a status only holds phases and conditions the
\* code sets, a pass under way has its copy of the KubeNova, and
\* updateStatusWithRetry makes at most three attempts.
TypeOK == CRType /\ ObjType /\ QueueType /\ PassType /\ BudgetType

Init ==
  /\ cr = None /\ crCache = None /\ crStale = FALSE
  /\ store = [o \in Objects |-> None] /\ cache = store /\ stale = {}
  /\ astray = {} /\ unsure = {}
  /\ queued = FALSE /\ timer = FALSE
  /\ pc = "idle" /\ todo = {} /\ target = None /\ kubenova = None
  /\ current = FALSE /\ allReady = TRUE /\ tries = 1
  /\ uids = 0 /\ faults = 0 /\ outages = 0 /\ drifts = 0

-----------------------------------------------------------------------------
(* The API server and the manager's client, as the reconciler uses them.   *)

\* What r.Get returns for the KubeNova and for another object.
Seen == IF "KubeNova" \in Lagging THEN crCache ELSE cr
SeenStale == "KubeNova" \in Lagging /\ crStale
View(o) == IF Kind(o) \in Lagging THEN cache[o] ELSE store[o]
Outdated(o) == Kind(o) \in Lagging /\ o \in stale

Fault == faults < MaxFaults /\ faults' = faults + 1 /\ UNCHANGED <<uids, outages, drifts>>
ReadFault == ReadFaults /\ Fault

\* The KubeNova becomes x.
WriteCR(x) ==
  /\ cr' = x
  /\ crStale' = ("KubeNova" \in Lagging)
  /\ UNCHANGED crCache

\* A write of the KubeNova reaches the queue at once, or with the informer.
CREvent == "KubeNova" \notin Lagging

\* What History records.  The operator has written o as it wants it.
Mended(o) ==
  /\ astray' = astray \ {o}
  /\ unsure' = unsure \cup ({o} \cap astray \cap Deployments)

\* A pass leaves o alone, on the strength of its copy.
Trusted(o, fine) ==
  IF Outdated(o) /\ ~fine THEN astray' = astray \cup {o} /\ UNCHANGED unsure ELSE Mended(o)

\* Somebody else deletes objects of a KubeNova.
Taken(gone) ==
  /\ astray' = IF cr # None THEN astray \cup gone ELSE astray
  /\ UNCHANGED unsure

\* Object o becomes x (None: deleted).  Writing what is there is a no-op.
Put(o, x) ==
  /\ store' = [store EXCEPT ![o] = x]
  /\ stale' = IF x # store[o] /\ Kind(o) \in Lagging THEN stale \cup {o} ELSE stale
  /\ UNCHANGED cache

\* Does writing x queue the request at once?
Event(o, x) == x # store[o] /\ Kind(o) \in Owned \ Lagging

PutAndQueue(o, x) == Put(o, x) /\ queued' = (queued \/ Event(o, x))

\* A write that is served, or fails after or before it took effect.
PutOrFail(o, x, ok, fail) ==
  \/ PutAndQueue(o, x) /\ Mended(o) /\ ok /\ UNCHANGED budgets
  \/ PutAndQueue(o, x) /\ Mended(o) /\ fail /\ Fault
  \/ UNCHANGED <<objVars, queued>> /\ fail /\ Fault

-----------------------------------------------------------------------------
(* What a pass computes in memory.                                         *)

setStatusPhase_ForgetsOnFailure(kn, phase) ==
  [kn EXCEPT !.status.phase = phase,
             !.status.og = IF phase = "Failed" THEN 0 ELSE kn.gen]

setStatusPhase(kn, phase) ==
  [kn EXCEPT !.status.phase = phase, !.status.og = kn.gen]

SetCondition(kn, type, value) ==
  IF type = "Ready" THEN [kn EXCEPT !.status.ready = value]
                    ELSE [kn EXCEPT !.status.validated = value]

\* checkComponentStatus: the phase and condition for its verdict.
Verdict_PhaseOnly(kn, ok) == setStatusPhase(kn, IF ok THEN "Ready" ELSE "Creating")

Verdict(kn, ok) ==
  SetCondition(setStatusPhase(kn, IF ok THEN "Ready" ELSE "Creating"),
               "Ready", IF ok THEN "True" ELSE "False")

\* The early return that skips a pass.
Processed_AnyGeneration(kn) == kn.status.phase = "Ready"

Processed(kn) == kn.status.og = kn.gen /\ kn.status.phase = "Ready"

NeedsFinalizer_Never(kn) == FALSE

NeedsFinalizer(kn) == ~kn.finalizer

\* updateStatusWithRetry copies only the status onto the object it re-read.
StatusCopiedTo_StampsLatest(latest, kn) ==
  [latest EXCEPT !.status = [kn.status EXCEPT !.og = latest.gen]]

StatusCopiedTo(latest, kn) == [latest EXCEPT !.status = kn.status]

\* The objects a pass ensures.  Every service has its ConfigMap, but only
\* the enabled ones their Deployment and Service.
Plan(spec) ==
  {ServiceAccount, ClusterRoleBinding, Secret}
    \cup {<<"Deployment", Web>>, <<"Service", Web>>}
    \cup {<<"ConfigMap", s>> : s \in Services}
    \cup ({"Deployment", "Service"} \X spec.enabled)
    \cup (IF spec.customNginx THEN {} ELSE {NginxConfigMap})
    \cup (IF spec.ingress THEN {Ingress} ELSE {})

\* The stage that ensures o; RBAC and Web each ensure theirs in this order.
Rank(o) ==
  CASE o = ServiceAccount -> 1
    [] o = ClusterRoleBinding -> 2
    [] o = Secret -> 3
    [] o[2] \in Services /\ Kind(o) = "ConfigMap" -> 4
    [] o[2] \in Services -> 5
    [] o = NginxConfigMap -> 6
    [] o = <<"Deployment", Web>> -> 7
    [] o = <<"Service", Web>> -> 8
    [] o = Ingress -> 9

HalfDone ==
  {s \in Services : <<"Service", s>> \in todo /\ <<"Deployment", s>> \notin todo}

\* o comes next: stages in order; reconcileServices ranges over a map, so the
\* services in any order, each one's Service right after its Deployment.
NextUp(o) ==
  /\ pc = "ensure" /\ target = None
  /\ o \in todo
  /\ \A p \in todo : Rank(o) <= Rank(p)
  /\ Rank(o) = 5 => IF Kind(o) = "Service" THEN o[2] \in HalfDone ELSE HalfDone = {}

\* What deploymentSpecEqual and DeepEqual(Data) compare.  The web container
\* mounts the volume nginx-config twice, which compareVolumeMounts never finds
\* equal to itself, and DeepEqual sees the notation of a quantity
\* (DeploymentSync has the comparison itself).
Compared(o, content) == IF Kind(o) = "Deployment" THEN content[1] ELSE content

Differs(o, seen, spec) ==
  \/ o = <<"Deployment", Web>>
  \/ Kind(o) = "Deployment" /\ ~spec.canonical
  \/ Compared(o, seen.content) # Compared(o, Render(o, spec))

\* o exists and holds what the spec asks for, as far as it is compared.
Holds(o, spec) ==
  /\ store[o] # None
  /\ Compared(o, store[o].content) = Compared(o, Render(o, spec))

Fresh(o, kn) ==
  [owner |-> IF o = ClusterRoleBinding THEN 0 ELSE kn.uid,
   content |-> Render(o, kn.spec), ready |-> FALSE]

-----------------------------------------------------------------------------
(* Reconcile up to its first write.                                        *)

Idle ==
  /\ pc' = "idle" /\ kubenova' = None /\ todo' = {} /\ target' = None
  /\ current' = FALSE /\ allReady' = TRUE /\ tries' = 1

\* The worker takes the request from the queue.
Take == pc = "idle" /\ queued

\* Go and store the status with updateStatusWithRetry.
StoreStatusOf(kn, stage) ==
  /\ kubenova' = kn
  /\ pc' = stage /\ tries' = 1
  /\ todo' = {} /\ target' = None /\ allReady' = TRUE

Fail(kn) == StoreStatusOf(setStatusPhase(kn, "Failed"), "failing")

ReconcileGone ==
  /\ Take /\ Seen = None
  /\ queued' = FALSE /\ Idle
  /\ UNCHANGED <<crVars, objVars, timer, budgets>>

\* The Update sends the whole object; a changed spec is a new generation.
Finalized(kn) ==
  [kn EXCEPT !.finalizer = TRUE, !.spec = Resent(@),
             !.gen = IF Resent(kn.spec) = kn.spec THEN @ ELSE @ + 1]

\* Requeue after success, and a retry after an error, both queue it again.
AddFinalizer ==
  /\ Take /\ Seen # None /\ ~Seen.deleting /\ NeedsFinalizer(Seen)
  /\ \/ SeenStale /\ UNCHANGED <<crVars, budgets>>
     \/ /\ ~SeenStale /\ WriteCR(Finalized(Seen))
        /\ UNCHANGED budgets \/ Fault
     \/ Fault /\ UNCHANGED crVars
  /\ queued' = TRUE /\ Idle
  /\ UNCHANGED <<objVars, timer>>

Skippable == Take /\ Seen # None /\ ~Seen.deleting /\ ~NeedsFinalizer(Seen) /\ Processed(Seen)

ReconcileSkip ==
  /\ Skippable
  /\ queued' = FALSE /\ timer' = TRUE /\ Idle
  /\ UNCHANGED <<crVars, objVars, budgets>>

Validate(kn) ==
  SetCondition(setStatusPhase(kn, "Validating"), "Validated",
               IF kn.spec.valid THEN "True" ELSE "False")

ReconcileValidation ==
  /\ Take /\ Seen # None /\ ~Seen.deleting /\ ~NeedsFinalizer(Seen) /\ ~Processed(Seen)
  /\ LET kn == Validate(Seen) IN
       IF kn.spec.valid
         THEN /\ kubenova' = kn
              /\ pc' = "namespace"
              /\ UNCHANGED <<todo, target, allReady, tries>>
         ELSE Fail(kn)
  /\ current' = ~SeenStale
  /\ queued' = FALSE
  /\ UNCHANGED <<crVars, objVars, timer, budgets>>

\* The namespace of an existing KubeNova exists; only reading it can fail.
ReconcileNamespace ==
  /\ pc = "namespace"
  /\ \/ /\ pc' = "ensure" /\ todo' = Plan(kubenova.spec)
        /\ UNCHANGED <<target, kubenova, allReady, tries, budgets>>
     \/ ReadFault /\ Fail(kubenova)
  /\ UNCHANGED <<crVars, objVars, queueVars, current>>

-----------------------------------------------------------------------------
(* The stages that create and update objects.                              *)

\* o is ensured.  reconcileServices sets the phase as it begins; after the
\* last object checkComponentStatus looks at every Deployment, enabled or not.
Done(o) ==
  LET rest == todo \ {o} IN
  /\ kubenova' = IF \A p \in rest : Rank(p) >= 5
                   THEN setStatusPhase(kubenova, "Creating") ELSE kubenova
  /\ IF rest = {} THEN pc' = "check" /\ todo' = Deployments
                  ELSE pc' = "ensure" /\ todo' = rest
  /\ target' = None /\ allReady' = TRUE
  /\ UNCHANGED tries

Reject == Fail(kubenova) /\ UNCHANGED <<objVars, queued, budgets>>

Create_ExistingKept(o) ==
  IF store[o] # None
    THEN Done(o) /\ UNCHANGED <<objVars, queued, budgets>>
    ELSE PutOrFail(o, Fresh(o, kubenova), Done(o), Fail(kubenova))

Create(o) ==
  IF store[o] # None THEN Reject  \* AlreadyExists
                     ELSE PutOrFail(o, Fresh(o, kubenova), Done(o), Fail(kubenova))

\* The replicas are among what is compared: when they change, ReadyReplicas may
\* no longer be, or now be, as many.
Readiness(o, seen, spec) ==
  IF Kind(o) = "Deployment" /\ Compared(o, seen.content) # Compared(o, Render(o, spec))
    THEN BOOLEAN ELSE {seen.ready}

\* An Update carries the resourceVersion of the copy it was read from.
Update(o) ==
  IF Outdated(o)
    THEN Reject  \* Conflict, or NotFound
    ELSE \E ready \in Readiness(o, View(o), kubenova.spec) :
           PutOrFail(o, [View(o) EXCEPT !.content = Render(o, kubenova.spec), !.ready = ready],
                     Done(o), Fail(kubenova))

Ensure(o) ==
  /\ NextUp(o)
  /\ \/ View(o) = None /\ Create(o)
     \/ /\ View(o) # None /\ Differs(o, View(o), kubenova.spec)
        /\ IF Kind(o) # "Deployment"
             THEN Update(o)
             ELSE /\ target' = o
                  /\ UNCHANGED <<objVars, queued, budgets>>
                  /\ UNCHANGED <<pc, todo, kubenova, allReady, tries>>
     \/ /\ View(o) # None /\ ~Differs(o, View(o), kubenova.spec)
        /\ Done(o) /\ Trusted(o, Holds(o, kubenova.spec))
        /\ UNCHANGED <<objects, queued, budgets>>
     \/ ReadFault /\ Fail(kubenova) /\ UNCHANGED <<objVars, queued>>
  /\ UNCHANGED <<crVars, timer, current>>

ReconcileRBAC == Ensure(ServiceAccount) \/ Ensure(ClusterRoleBinding)
ReconcileSecret == Ensure(Secret)
ReconcileConfigMaps == \E s \in Services : Ensure(<<"ConfigMap", s>>)
ReconcileServices == \E o \in {"Deployment", "Service"} \X Services : Ensure(o)
ReconcileWeb ==
  \E o \in {NginxConfigMap, <<"Deployment", Web>>, <<"Service", Web>>, Ingress} : Ensure(o)

\* The Deployment differs: read it again and write it.
UpdateDeployment ==
  /\ pc = "ensure" /\ target # None
  /\ \/ View(target) = None /\ Reject
     \/ View(target) # None /\ Update(target)
     \/ ReadFault /\ Fail(kubenova) /\ UNCHANGED <<objVars, queued>>
  /\ UNCHANGED <<crVars, timer, current>>

-----------------------------------------------------------------------------
(* checkComponentStatus and updateStatusWithRetry.                         *)

\* The verdict after a Deployment that was read.
AndReady_LastOneWins(d) == View(d).ready

AndReady_ExistsOnly(d) == allReady

AndReady(d) == allReady /\ View(d).ready

Up(d) == store[d] # None /\ store[d].ready

\* What History records of a Deployment the check has read, or not.
Judged(d, blind) ==
  /\ unsure' = CASE Up(d) -> unsure \ {d}
                 [] blind /\ store[d] # None /\ ~Up(d) -> unsure \cup {d}
                 [] OTHER -> unsure
  /\ UNCHANGED astray

\* A Deployment that cannot be read is passed over.
ReadComponent(d) ==
  /\ pc = "check" /\ d \in todo
  /\ d[2] = Web => todo = {d}
  /\ \E ok \in BOOLEAN :
       /\ \/ /\ ok = IF View(d) = None THEN allReady ELSE AndReady(d)
             /\ Judged(d, Outdated(d)) /\ UNCHANGED budgets
          \/ ReadFault /\ ok = allReady /\ Judged(d, TRUE)
       /\ IF todo = {d}
            THEN StoreStatusOf(Verdict(kubenova, ok), "reporting")
            ELSE /\ todo' = todo \ {d} /\ allReady' = ok
                 /\ UNCHANGED <<pc, target, kubenova, tries>>
  /\ UNCHANGED <<crVars, objects, queueVars, current>>

\* Three attempts in all.
CanRetry_FourTimes == tries <= 3

CanRetry == tries < 3

\* After a failed stage the error is returned, and the queue retries.
ReturnsError_Swallowed(stage) == FALSE

ReturnsError(stage) == stage = "failing"

\* The caller's copy takes over the resourceVersion of the stored object.
Refreshed_NotCopiedBack == FALSE

Refreshed == TRUE

\* updateStatusWithRetry has returned: its caller goes on.  An error makes
\* the queue retry, a report comes back after 30s or 5min, and reconcileDelete
\* ignores the outcome.
StatusReturned(latest, event) ==
  /\ queued' = (queued \/ event \/ ReturnsError(pc))
  /\ timer' = (timer \/ pc = "reporting")
  /\ IF pc = "deleting"
       THEN /\ pc' = "binding" /\ current' = latest /\ tries' = 1
            /\ UNCHANGED <<todo, target, kubenova, allReady>>
       ELSE Idle

\* One attempt.  LastUpdateTime is in seconds: storing the same status again
\* may or may not change the object.
UpdateStatus ==
  /\ pc \in {"failing", "reporting", "deleting"}
  /\ \/ /\ Seen = None
        /\ StatusReturned(current, FALSE)
        /\ UNCHANGED <<crVars, budgets>>
     \/ /\ Seen # None /\ SeenStale
        /\ IF cr # None /\ CanRetry
             THEN /\ tries' = tries + 1
                  /\ UNCHANGED <<queueVars, pc, todo, target, kubenova, current, allReady>>
             ELSE StatusReturned(current, FALSE)
        /\ UNCHANGED <<crVars, budgets>>
     \/ /\ Seen # None /\ ~SeenStale
        /\ LET x == StatusCopiedTo(Seen, kubenova) IN
           \/ /\ WriteCR(x)
              /\ \/ StatusReturned(Refreshed, CREvent) /\ UNCHANGED budgets
                 \/ StatusReturned(FALSE, CREvent) /\ Fault
           \/ /\ x = cr /\ UNCHANGED crVars
              /\ StatusReturned(TRUE, FALSE) /\ UNCHANGED budgets
     \/ Fault /\ StatusReturned(current, FALSE) /\ UNCHANGED crVars
  /\ UNCHANGED objVars

-----------------------------------------------------------------------------
(* reconcileDelete.                                                        *)

BeginDelete ==
  /\ Take /\ Seen # None /\ Seen.deleting
  /\ StoreStatusOf(setStatusPhase(Seen, "Deleting"), "deleting")
  /\ current' = ~SeenStale
  /\ queued' = FALSE
  /\ UNCHANGED <<crVars, objVars, timer, budgets>>

DeleteBinding_ErrorIgnored ==
  /\ pc = "binding" /\ pc' = "finalizer"
  /\ \/ Put(ClusterRoleBinding, None) /\ Mended(ClusterRoleBinding) /\ UNCHANGED budgets
     \/ UNCHANGED objVars /\ Fault
  /\ UNCHANGED <<queued, todo, target, kubenova, current, allReady, tries, crVars, timer>>

\* Only an error of Delete, not one of Get, ends the pass.
DeleteBinding ==
  /\ pc = "binding"
  /\ \/ /\ \/ /\ View(ClusterRoleBinding) = None
              /\ Trusted(ClusterRoleBinding, store[ClusterRoleBinding] = None)
              /\ UNCHANGED <<objects, budgets>>
           \/ ReadFault /\ Taken({ClusterRoleBinding}) /\ UNCHANGED objects
           \/ /\ View(ClusterRoleBinding) # None
              /\ Put(ClusterRoleBinding, None) /\ Mended(ClusterRoleBinding)
              /\ UNCHANGED budgets
        /\ pc' = "finalizer"
        /\ UNCHANGED <<queued, todo, target, kubenova, current, allReady, tries>>
     \/ /\ View(ClusterRoleBinding) # None /\ Fault
        /\ \/ Put(ClusterRoleBinding, None) /\ Mended(ClusterRoleBinding)
           \/ UNCHANGED objVars
        /\ queued' = TRUE /\ Idle
  /\ UNCHANGED <<crVars, timer>>

\* Update without the finalizer: accepted if the copy is current, and then
\* the API server removes the object.
RemoveFinalizer ==
  /\ pc = "finalizer"
  /\ \/ /\ current /\ cr # None /\ cr.uid = kubenova.uid
        /\ WriteCR(None)
        /\ \/ queued' = (queued \/ CREvent) /\ UNCHANGED budgets
           \/ queued' = TRUE /\ Fault
     \/ /\ ~(current /\ cr # None /\ cr.uid = kubenova.uid)
        /\ queued' = TRUE /\ UNCHANGED <<crVars, budgets>>
     \/ Fault /\ queued' = TRUE /\ UNCHANGED crVars
  /\ Idle
  /\ UNCHANGED <<objVars, timer>>

-----------------------------------------------------------------------------
(* Users, the cluster, the informers and the process itself.               *)

InitialStatus == [phase |-> "none", og |-> 0, validated |-> "unset", ready |-> "unset"]

CreateCR ==
  /\ cr = None /\ uids < MaxUid
  /\ uids' = uids + 1
  /\ \E spec \in Specs :
       WriteCR([uid |-> uids + 1, gen |-> 1, spec |-> spec, finalizer |-> FALSE,
                deleting |-> FALSE, status |-> InitialStatus])
  /\ queued' = (queued \/ CREvent)
  /\ UNCHANGED <<objVars, timer, passVars, faults, outages, drifts>>

\* A user's write makes every copy held by a pass outdated.
UserWrite(x) ==
  /\ WriteCR(x)
  /\ current' = FALSE
  /\ queued' = (queued \/ CREvent)
  /\ UNCHANGED <<objVars, timer, pc, todo, target, kubenova, allReady, tries, budgets>>

EditSpec ==
  /\ cr # None /\ cr.gen < MaxGen
  /\ \E spec \in Specs \ {cr.spec} :
       UserWrite([cr EXCEPT !.spec = spec, !.gen = @ + 1])

\* Without a finalizer the object goes at once; setting deletionTimestamp
\* starts a new generation.
DeleteCR ==
  /\ cr # None /\ ~cr.deleting
  /\ UserWrite(IF cr.finalizer THEN [cr EXCEPT !.deleting = TRUE, !.gen = @ + 1] ELSE None)

ClusterWrite(o, x) == PutAndQueue(o, x) /\ UNCHANGED <<crVars, timer, passVars>>

PodsProgress(d) ==
  /\ store[d] # None /\ ~store[d].ready
  /\ ClusterWrite(d, [store[d] EXCEPT !.ready = TRUE])
  /\ unsure' = unsure \ {d} /\ UNCHANGED astray
  /\ UNCHANGED budgets

PodsFail(d) ==
  /\ store[d] # None /\ store[d].ready
  /\ outages < MaxOutages /\ outages' = outages + 1
  /\ ClusterWrite(d, [store[d] EXCEPT !.ready = FALSE])
  /\ unsure' = unsure \cup {d} /\ UNCHANGED astray
  /\ UNCHANGED <<uids, faults, drifts>>

\* A third party deletes an object.
Drift(o) ==
  /\ store[o] # None
  /\ drifts < MaxDrift /\ drifts' = drifts + 1
  /\ ClusterWrite(o, None) /\ Taken({o})
  /\ UNCHANGED <<uids, faults, outages>>

\* The garbage collector deletes what the owner has left behind, a kind at a
\* time.
Orphans(k) ==
  {o \in Objects : /\ Kind(o) = k /\ store[o] # None
                   /\ store[o].owner # 0
                   /\ cr # None => cr.uid # store[o].owner}

GarbageCollect(k) ==
  /\ Orphans(k) # {}
  /\ store' = [o \in Objects |-> IF o \in Orphans(k) THEN None ELSE store[o]]
  /\ stale' = IF k \in Lagging THEN stale \cup Orphans(k) ELSE stale
  /\ queued' = (queued \/ k \in Owned \ Lagging)
  /\ Taken(Orphans(k))
  /\ UNCHANGED <<crVars, cache, timer, passVars, budgets>>

\* The informer of KubeNova, or of another kind, catches up and queues the
\* request if the controller watches that kind.
SyncCR ==
  /\ "KubeNova" \in Lagging /\ crStale
  /\ crCache' = cr /\ crStale' = FALSE
  /\ queued' = TRUE
  /\ UNCHANGED <<cr, objVars, timer, passVars, budgets>>

SyncKind(k) ==
  LET news == {o \in stale : Kind(o) = k} IN
  /\ k \in Lagging /\ news # {}
  /\ cache' = [o \in Objects |-> IF o \in news THEN store[o] ELSE cache[o]]
  /\ stale' = stale \ news
  /\ queued' = (queued \/ k \in Owned)
  /\ UNCHANGED <<crVars, store, history, timer, passVars, budgets>>

TimerFires ==
  /\ timer
  /\ timer' = FALSE /\ queued' = TRUE
  /\ UNCHANGED <<crVars, objVars, passVars, budgets>>

\* The operator is restarted, or leadership moves: the new process starts
\* from synchronised informers and queues every KubeNova.
Crash ==
  /\ Fault
  /\ crCache' = IF "KubeNova" \in Lagging THEN cr ELSE None
  /\ cache' = [o \in Objects |-> IF Kind(o) \in Lagging THEN store[o] ELSE None]
  /\ crStale' = FALSE /\ stale' = {}
  /\ queued' = (cr # None) /\ timer' = FALSE
  /\ Idle
  /\ UNCHANGED <<cr, store, history>>

-----------------------------------------------------------------------------
Worker ==
  \/ ReconcileGone \/ AddFinalizer \/ ReconcileSkip
  \/ ReconcileValidation \/ ReconcileNamespace
  \/ ReconcileRBAC \/ ReconcileSecret \/ ReconcileConfigMaps
  \/ ReconcileServices \/ ReconcileWeb \/ UpdateDeployment
  \/ \E d \in Deployments : ReadComponent(d)
  \/ UpdateStatus
  \/ BeginDelete \/ DeleteBinding \/ RemoveFinalizer

Informers == SyncCR \/ \E k \in Kinds : SyncKind(k)

Cluster ==
  \/ \E d \in Deployments : PodsProgress(d) \/ PodsFail(d)
  \/ \E o \in Objects : Drift(o)
  \/ \E k \in Kinds : GarbageCollect(k)

Users == CreateCR \/ EditSpec \/ DeleteCR

Next == Worker \/ TimerFires \/ Crash \/ Informers \/ Cluster \/ Users

Spec == Init /\ [][Next]_vars

\* The worker goroutine runs, informers are delivered, timers fire, pods
\* become ready and garbage is collected; users and failures owe nothing.
Fairness ==
  /\ WF_vars(Worker) /\ WF_vars(TimerFires)
  /\ WF_vars(SyncCR) /\ \A k \in Kinds : WF_vars(SyncKind(k))
  /\ \A d \in Deployments : WF_vars(PodsProgress(d))
  /\ \A k \in Kinds : WF_vars(GarbageCollect(k))

LiveSpec == Spec /\ Fairness

-----------------------------------------------------------------------------
(* Safety.                                                                 *)

Live == cr # None /\ ~cr.deleting

\* The status says this very generation is up.
ReadyNow == Live /\ cr.status.phase = "Ready" /\ cr.status.og = cr.gen

\* Every object of the spec is there and holds what it asks for.
Applied(spec) == \A o \in Plan(spec) \ astray : Holds(o, spec)

\* The KubeNova is never Ready for a generation that was not carried out: every
\* object of its spec exists and holds what the spec asks for, as far as the
\* reconciler compares it, unless a third party took it or an outdated copy
\* showed it as it should be.  Edits arrive in the middle of a pass, and
\* updateStatusWithRetry stores an older pass's status on the newer object
\* (Reconcile, setStatusPhase, deploymentSpecEqual).
ReadyMeansApplied == ReadyNow => Applied(cr.spec)

Running(spec) ==
  \A d \in ({"Deployment"} \X (spec.enabled \cup {Web})) \ (astray \cup unsure) : Up(d)

\* A Ready KubeNova has as many ready pods in each Deployment of its spec as the
\* Deployment asks for, unless they were lost later or the check had an outdated
\* copy or none to go by (checkComponentStatus, Reconcile).
ReadyMeansRunning == ReadyNow => Running(cr.spec)

\* The cluster-admin binding is not owned, so the garbage collector never
\* removes it: it must not outlive the KubeNova whose finalizer guards it,
\* through failed writes, restarts and re-creation under the same name.
BindingGuarded ==
  store[ClusterRoleBinding] # None => cr # None /\ cr.finalizer

\* Nor does it, unless a delete pass could not see it, in its informer's copy or
\* because the read failed (reconcileDelete, reconcileRBAC).
BindingHandled == ClusterRoleBinding \notin astray => BindingGuarded

\* While a KubeNova exists something will bring it back to the worker: the
\* queue, a timer, the pass under way, or an undelivered event.
NoLostWakeup ==
  cr # None => queued \/ timer \/ pc # "idle" \/ ("KubeNova" \in Lagging /\ crStale)

\* Phase and conditions are set in different places and must agree: Ready only
\* with both conditions true, and a failed validation only in phase Failed
\* or Deleting.
StatusCoherent ==
  cr # None =>
    /\ cr.status.phase = "Ready" => cr.status.ready = "True" /\ cr.status.validated = "True"
    /\ cr.status.validated = "False" => cr.status.phase \in {"Failed", "Deleting"}

\* Within one incarnation the status never goes back to an older generation.
ObservedMonotone ==
  [][cr # None /\ cr' # None /\ cr'.uid = cr.uid
       => cr'.status.og >= cr.status.og]_vars

-----------------------------------------------------------------------------
(* Why BindingHandled holds.                                               *)

\* A copy that is not out of date shows the object as it is.
Synced == \A o \in Objects : Kind(o) \in Lagging /\ o \notin stale => cache[o] = store[o]

\* A KubeNova that a delete pass may let go.
Released(kn) == kn # None => kn.deleting \/ ~kn.finalizer

\* The inductive invariant.  The binding is only created by a pass that saw
\* the finalizer, and only a delete pass takes the finalizer away; a delete
\* pass can begin from a stale copy, but never while the server's object is
\* live and finalized, nor can a later pass mistake a released one for such.
BindingInv ==
  /\ BindingHandled
  /\ pc \in {"namespace", "ensure", "check", "reporting"} =>
       cr # None /\ cr.finalizer /\ cr.uid = kubenova.uid
  /\ ~Released(Seen) => cr # None /\ cr.finalizer /\ cr.uid = Seen.uid
  /\ Seen # None /\ Seen.deleting => Released(cr)
  /\ pc \in {"deleting", "binding", "finalizer"} => Released(cr) /\ Released(Seen)
  /\ pc = "finalizer" => store[ClusterRoleBinding] = None \/ ClusterRoleBinding \in astray
  /\ ~SeenStale => Seen = cr

-----------------------------------------------------------------------------
(* Why ReadyMeansApplied holds.                                            *)

\* A copy is a KubeNova as it was, and no older one says Ready of a later
\* generation.
Older(kn) ==
  kn # None =>
    /\ kn.uid <= uids
    /\ kn.status.phase = "Ready" => kn.status.og <= kn.gen
    /\ cr # None /\ kn.uid = cr.uid =>
         /\ kn.gen <= cr.gen
         /\ kn.gen = cr.gen => kn.spec = cr.spec /\ kn.deleting = cr.deleting
         /\ kn.deleting => cr.deleting

\* What a stage of a pass knows of the pass's copy.
Fits(stage, kn) ==
  /\ stage \in {"deleting", "binding", "finalizer"} => kn.deleting
  /\ stage \in {"namespace", "ensure", "check", "reporting"} => ~kn.deleting
  /\ stage \in {"failing", "deleting"} => kn.status.phase # "Ready"

CopiesInv ==
  /\ Older(cr) /\ Older(Seen) /\ Older(kubenova)
  /\ Fits(pc, kubenova)

\* A KubeNova that is Ready is carried out, and is only passed over again with
\* the generation it is Ready for.
ReadyIsDone ==
  ReadyNow =>
    /\ Applied(cr.spec) /\ cr.finalizer
    /\ Seen # None /\ Seen.uid = cr.uid /\ Seen.gen = cr.gen
    /\ pc # "idle" => kubenova.uid = cr.uid /\ kubenova.gen = cr.gen

\* What a pass has been through is there.
PassDid ==
  /\ pc = "ensure" =>
       \A o \in Plan(kubenova.spec) \ (todo \cup astray) : Holds(o, kubenova.spec)
  /\ pc = "check" => Applied(kubenova.spec)
  /\ pc = "reporting" /\ kubenova.status.phase = "Ready" => Applied(kubenova.spec)

AppliedInv == ReadyIsDone /\ PassDid

\* What a check has found running still runs, and so does all that a pass is
\* about to report as Ready.
PassSaw ==
  /\ pc = "check" /\ allReady =>
       \A d \in Deployments \ (todo \cup unsure) : store[d] # None => Up(d)
  /\ pc = "reporting" /\ kubenova.status.phase = "Ready" => Running(kubenova.spec)

RunningInv == ReadyMeansRunning /\ PassSaw

-----------------------------------------------------------------------------
(* The reconciler keeps the promises of KubeNovaLifecycle.                 *)

Lifecycle == INSTANCE KubeNovaLifecycle WITH
  object  <- IF cr = None THEN None
             ELSE [gen |-> cr.gen, guarded |-> cr.finalizer, deleting |-> cr.deleting],
  granted <- store[ClusterRoleBinding] # None /\ ClusterRoleBinding \notin astray,
  applied <- cr # None /\ Applied(cr.spec),
  ready   <- ReadyNow,
  misled  <- astray # {}

\* Queue, informers, interleaved edits and failed writes taken away, every step
\* of the reconciler is one of those promised to the user, or none: guard before
\* grant, work that a ready object never loses, an announcement only of what the
\* cluster holds, a release only after the grant is taken back (Reconcile,
\* reconcileDelete, updateStatusWithRetry).
ImplementsLifecycle == Lifecycle!Spec

-----------------------------------------------------------------------------
(* Liveness.                                                               *)

\* Once users and failures stop, a valid KubeNova becomes and stays Ready for
\* its latest generation, whatever was lost, delayed or refused on the way.
Settles == <>[](Live /\ cr.spec.valid => ReadyNow)

\* A KubeNova that is deleted goes away, finalizer and all.
DeletionCompletes ==
  \A u \in 1..MaxUid :
    (cr # None /\ cr.uid = u /\ cr.deleting) ~> (cr = None \/ cr.uid # u)
=============================================================================
