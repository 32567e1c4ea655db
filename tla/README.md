# A verification of the KubeNova operator

TLA+ modules, TLC configurations and TLAPS proofs for the operator in this
repository: a controller that turns a `KubeNova` object into a ServiceAccount, a
ClusterRoleBinding, a Secret, ConfigMaps, Deployments, Services and an Ingress,
and reports in the object's status how far it got.

Source paths below are relative to the repository; line numbers are those
`PROJECT.json` maps every definition to.

## The system

| Part | State it keeps | Operations | Talks to |
|---|---|---|---|
| Reconcile loop (`internal/controller/kubenova_controller.go`) | none between passes; within a pass its copy of the KubeNova | one pass: finalizer, skip, validation, namespace, RBAC, Secret, ConfigMaps, services, web, component check, status write; deletion | API server (writes), informers (reads), work queue (requeue, timer) |
| Status writing (`updateStatusWithRetry`, `setStatusPhase`) | phase, observedGeneration, conditions, access info in the KubeNova's status | three attempts of re-read, copy the status, write, copy back | API server, informer |
| Work queue and informers (controller-runtime; `SetupWithManager`) | one queued request per name, `RequeueAfter` timers, copies of the watched kinds | an event queues the request; an error or `Requeue` queues it again | API server, reconcile loop |
| Configuration (`api/v1/kubenova_types.go`, `internal/validator`) | the spec | defaults, validation | called by the loop and the builders |
| Deployment builders and `deploymentSpecEqual` (`internal/builder/service.go`, `web.go`, controller) | none | spec to Deployment; stored against desired | API server, which stores a normalised form |
| ConfigMaps of the back end (`configmap.go`) | none | seven fixed texts | Secret (placeholders), Services (ports), each other (calls) |
| Web exposure (`web.go`, `secret.go`, `getNodeIP`, `getWebNodePort`, `updateAccessInfo`) | web Service, Ingress, `MINIO_ENDPOINT_PROXY`, `WebURL` | four stages that read each other's results in the cluster | API server, nodes |
| nginx of the frontend (`nginx.go`) | its ConfigMap | spec to servers, upstreams, locations, redirect, MinIO rewrite | mounted into the web pods; the API services |
| Rollout of the frontend (strategy, mounts and probes in `web.go`, order of stages in the controller) | Services, ConfigMap, Deployment; pods and what they have read | a pass writes the three one after the other | Deployment controller, kubelet |
| Several KubeNova (`rbac.go`, fixed names everywhere) | the objects they share | passes, deletions, garbage collection | one worker, garbage collector |
| Process start-up (`cmd/main.go`), generated deep copies, manifests, checksum helpers nobody calls (`common.go`) | none | | |

The pieces meet in shared objects, not in calls: a pass reads what earlier passes,
users, the Deployment controller and the garbage collector left behind, through
copies that may be old; every write may fail, conflict, or take effect and still
report a failure; each write causes an event that starts another pass.

What makes it correct, part by part:

- *Loop and status.* Ready is only said of the generation that was carried out and
  runs, as far as a pass could see; status fields agree with each other; the observed generation does not go
  back; no wakeup is lost; a KubeNova left alone settles; a deleted one goes away.
- *Finalizer.* The cluster-scoped binding has no owner, so the finalizer alone
  guards it: it must not outlive the KubeNova.
- *Deployments.* The comparison is neither too lenient (an edit never reaches
  the pods) nor too strict (an update on every pass); the builders agree with each
  other, with the Secret, the configuration texts and the Services, on mounts, ports,
  certificates and placeholders.
- *Exposure.* Addresses given out lead to nginx in the protocol it speaks, and nginx
  sends each API, page and object to the right place, without a redirect out of reach.
- *Rollout.* A new pod never reads an old configuration, and whatever fails half-way,
  the spec gets there.
- *Sharing.* Bindings are there while somebody needs them and no longer; passes of two
  KubeNova do not mix their settings; nothing is left behind.

What is hard is listed under `hazards` in `PROJECT.json`, each at its line: edits
in the middle of a pass, stale copies, conflicts and the three-attempt limit,
crashes between two writes, deletion and re-creation under one name, stages that
run before what they depend on, comparisons that decide whether anything happens.

## Modules

```
KubeNovaLifecycle     what a user is promised (abstract specification)
Reconciler            one KubeNova name: passes, API server, informers, queue;
                      implements KubeNovaLifecycle (INSTANCE ... WITH)
  MCReconciler        small instances
    ReconcilerClaims  what comments say and the code does not do
  ReconcilerProofs    TLAPS: types, the binding, wakeups, phase and conditions,
                      observed generation
    ReadyProofs       TLAPS: Ready means carried out, and running
      PromiseProofs   TLAPS: the refinement

KubeNovaConfig        spec, defaults, validation (no state)
ConfigMaps            the back end's texts, Secret keys, Services (no state)
  Deployments         Deployment builders, API normal form, deploymentSpecEqual (no state)
    DeploymentSync    one Deployment over edits and outside changes
      MCDeploymentSync
      DeploymentProofs  TLAPS
  NginxConfig         nginx's routing under the generated configuration (no state)
    WebExposure       Service, Ingress, MinIO proxy address, WebURL
      MCWebExposure
      ExposureProofs  TLAPS
    Rollout           a pass, the Deployment controller and the frontend's pods
      MCRollout
      RolloutProofs   TLAPS

SharedNamespace       several KubeNova in one cluster
  MCSharedNamespace
  SharedNamespaceProofs  TLAPS
```

`Reconciler` abstracts what the others have in detail: a Deployment's content is
what `deploymentSpecEqual` compares (`image`), what it does not (`pullPolicy`), and
whether the comparison can be satisfied at all (`Differs`); the Secret's and the
nginx ConfigMap's content is `settings`. The other modules in turn reduce a pass to
the stages they are about, with current reads.

An operator named `<definition>_<what>` is that definition with a plausible bug.
Nothing uses it; `PROJECT.json` ("mutants") names the property that fails when it
takes the definition's place, so no property passes for nothing.

### KubeNovaLifecycle and the refinement

The object (generation, finalizer, deletion), whether its cluster-admin binding
exists, whether the cluster holds what the latest generation asks for, whether it is said
to be ready, and whether the operator is misled about any object, which is then left out
of the promise. No queue, informer, pass or retry. The promises are guards: `Work`
grants only to a guarded object and never takes away what a ready one has, `Announce`
needs `applied`, `Revoke` an object on its way out, `Release` no binding.
`Reconciler!ImplementsLifecycle` maps `applied` to "every object of the plan holds what
the spec asks for", `ready` to phase Ready for the current generation, `misled` to
`astray # {}`. Two steps look odd: `Retract`, where a pass that began before the KubeNova
became Ready stores its own status on it, and `Mislead`, where a third party takes an
object or a pass misjudges one.

### Reconciler

| In the model | In the code |
|---|---|
| `cr`, `crCache`, `crStale` | the KubeNova in the API server, its informer's copy, whether that is out of date (all optimistic locking compares) |
| `store`, `cache`, `stale` | the other objects, likewise |
| `queued`, `timer` | the work queue's one request, a pending `RequeueAfter` |
| `pc`, `todo`, `target`, `kubenova`, `current`, `allReady`, `tries` | where a pass is, the objects it has left, the Deployment it found different, its copy of the KubeNova and whether that carries the latest resourceVersion, `checkComponentStatus`' verdict so far, the attempt of `updateStatusWithRetry` |
| `uids`, `faults`, `outages`, `drifts` | budgets used (bounds, below) |
| `astray`, `unsure` | history, read by no guard: the objects whose promise is void (next paragraph) |

The cached client may show a pass an object that is no longer there, or as it no longer
is, and some of what the operator does then cannot be right. The two history variables
record exactly that, so that the properties make exceptions for those objects and for
no others. `astray`: an object that a third party took; one that a pass left alone since
its outdated copy was as it should be while the object was not (`Trusted`); the binding, if
a delete pass had an outdated copy without it, or its read failed. `unsure`: a Deployment
whose pods were lost, or that was not running when the check could not read it or
read an outdated copy (`Judged`). A later pass that writes the object, or finds it right,
mends it.

A pass is cut at every API write and, for a Deployment, between the comparison and
the second read that precedes its update. One action per stage:
`ReconcileGone`, `AddFinalizer`, `ReconcileSkip`, `ReconcileValidation`,
`ReconcileNamespace`, `ReconcileRBAC` ... `ReconcileWeb` (all `Ensure`: get, create if
absent, update if different), `UpdateDeployment`, `ReadComponent`, `UpdateStatus`
(one attempt), `BeginDelete`, `DeleteBinding`, `RemoveFinalizer`. A failed stage
goes through `Fail`: phase Failed, status write, error to the queue.

Around it: users create, edit and delete (`CreateCR`, `EditSpec`, `DeleteCR`; also
while deleting); pods become ready or are lost; a third party deletes an object
(`Drift`); the garbage collector takes orphans; informers catch up (`SyncCR`,
`SyncKind`); the timer fires; the operator restarts (`Crash`).

Abstractions, and why they lose nothing the properties see:

- A read and the write that follows are one step; what could come between is
  covered by the copy read being older than the object. A kind in `Lagging` is
  delivered late, any other kind at once; an informer may skip versions, as a
  pass that ran in between would have found them anyway.
- resourceVersion is "is this copy current"; after an Update from an outdated copy
  the answer is a conflict.
- Services of one stage come in any order (`reconcileServices` ranges over a map;
  `reconcileConfigMaps` over a list, of which this is a superset).
- A status write may or may not change the object, since its time has seconds.
- `ready` is `ReadyReplicas == Replicas`. An update that changes anything the comparison
  sees may change the replicas, and leaves `ready` open (`Readiness`); that the pods counted
  may be the old ones is `Rollout`'s subject (`ClaimRollout`).
- The garbage collector takes the orphans of one kind at once. The namespace
  of a KubeNova exists; a failing first read of a pass is only requeued.
- Several pending timers are one.

### Deployments, ConfigMaps, DeploymentSync

`DeploymentSync` follows one Deployment, chosen at the start (`workload`), since a pass
treats them independently. `spec` is edited, `Deploy` is the stage that compares and
writes, `Meddle` somebody else's change. `applied`, `sent` and `parity` are history
variables for the properties. `Normalise` is the API server's: canonical quantities,
defaults of `fieldRef` and of volume modes, one operator each. `Latest` is a Go map
filled from a slice, a later entry replacing an earlier one of the same name. Probes,
affinity and labels are constant, and `1000m` is the only quantity in use that is
not canonical.

`ConfigMaps` has, of each of the seven texts, the port it makes the service listen
on, its placeholders and the Services it calls, written down from `configmap.go`, and
beside them the Secret's keys from `secret.go` and the Services' ports from `service.go`.
`Wired` compares these tables with each other and with the container's environment.

### NginxConfig, WebExposure

`Destination` is nginx's choice of a location: exact, else the first regular
expression that matches, else the longest prefix; `MergeSlashes` comes before it, and
`Answer` says who replies on a port, which with a `customNginxConfigMap` (`web.go:44`) is
the user's affair: no property says anything of such a spec. Paths are sequences of tokens. `ReconcileSecret`,
`ReconcileWebService`, `ReconcileIngress` and `CheckComponentStatus` are the stages that
compute the Secret's `MINIO_ENDPOINT_PROXY`, the Service, the Ingress and `WebURL`, in
the code's order, while users edit the spec, nodes join, leave, become Ready or not
(`NodesChange`) and the Service may be deleted. Reads are current; a NodePort that is
taken is the one failure (`ReconcileWebService`). A node stands for its address, which leads
anywhere only while the node is in the cluster (`Entrance`); `informed` (was the Service
there when the Secret was written) is a history variable.

### Rollout

The pass writes Services, nginx's ConfigMap and the Deployment; edits, failures and
restarts of the operator come in between. The Deployment controller works by the
strategy the builder sets (`CreatePod`, `DeleteOldPod`, `ScaleDown`); a container reads
the ConfigMap when it starts (`StartContainer`), because the builder mounts it with
`subPath`, and starts only if the image can, all of nginx's upstream names resolve and
the certificate is mounted if the text has an https block. `UpdateDeploymentStatus`
counts ready pods some time later. `gen` in a configuration and in a pod, and
`changed`, are history variables.

### SharedNamespace

Secret and Deployment stand for all namespaced objects; owner and contents are kept
apart, since an update changes one and not the other. `BindingName` joins namespace
and name at their hyphens, so that `b-c` in `a` and `c` in `a-b` meet. A pass goes
through its stages with no other pass beside it (`Free`), may fail at each, and the
garbage collector takes what an object's owner has left behind.

## Runs

Deadlock is checked where the system cannot stop (`Deployments`, `Exposure`, `Rollout`).
The other runs switch it off: once the objects are gone and the budgets are used
nothing is left to happen, and the system really stops.

| Run | Instance | Checks |
|---|---|---|
| `Lifecycle` | one service, two specs that differ in everything, KubeNova informer lags, 2 generations, 1 fault or crash, pods lost once | `TypeOK`, `ReadyMeansApplied`, `ReadyMeansRunning`, `ObservedMonotone`, `ImplementsLifecycle` |
| `Recreate` | 2 incarnations of the name, KubeNova informer lags, 1 fault | `BindingHandled`, its inductive invariant `BindingInv`, `ImplementsLifecycle` |
| `Faults` | two valid specs and a rejected one, 3 generations, informers of ClusterRoleBinding, Secret and Deployments lag, reads may fail, 1 fault, 1 deletion by a third party | `StatusCoherent`, `NoLostWakeup`, `ReadyMeansApplied`, `ReadyMeansRunning`, `BindingHandled` |
| `Live` | two specs, KubeNova informer lags, 1 fault, under `LiveSpec` | `Settles`, `DeletionCompletes` |
| `Deployments` | some 50 specs, all eight Deployments | `EditsReachPods`, `Wired`, `OnlyRealChanges` |
| `Exposure` | 10 specs, 2 ports, 2 nodes (symmetric), 6 objects, Service may be deleted | `EndpointFollowsService`, `URLServed`, `IngressServed` |
| `Rollout` | 4 specs (HTTPS, an image that never starts, a disabled API, fewer replicas), 3 generations, 3 pods, 1 failure, 1 container crash, under `LiveSpec` | `NewPodsReadNewConfig`, `RollsOut` |
| `Shared` | two KubeNova in one namespace, a third whose binding name collides, 1 failure, under `LiveSpec` | `BindingsNeeded`, `BindingKept`, `Unmixed`, `NothingLeft` |

What the passing runs show. Ready is only reported for a generation whose objects
exist, hold what the spec asks for as far as the reconciler compares them, and run,
whichever edit, deletion or crash came in the middle of a pass, except for objects that
a third party took or an outdated copy or a failed read concealed; a status written
late never counts for a newer generation, because `ObservedGeneration` is taken from
the copy the pass began with. The binding outlives its KubeNova only if a delete pass
could not see it. After any stale read or conflict something brings the object back.
The Deployment comparison notices every change that affects pods, except the source a
volume is filled from and what images are pulled with, and writes again without need in
exactly two cases. Addresses follow the Service, not the configuration, and what
answers there is the frontend, the API or the object asked for, as long as the node
that was named is there. No pod of a new generation reads an old configuration, and an
edit rolls out in the end, if the spec can run at all. KubeNova that share a namespace
leave nothing behind and do not mix their settings, but only because one worker serves
them all: with two passes at a time (`Free_Always`) `Unmixed` fails.

Bounds. Two generations are one edit at every point of a pass; a third, in `Faults`, is
its reversal, which a copy that lags may mistake for nothing at all. Two incarnations
are what a pass over the old object and a cache holding it can mix up. One fault meets
every call of every stage, before or after it took effect; conflicts and
`AlreadyExists` need no fault, they come from stale copies and are unbounded. One
backend service suffices for the order of stages and the service's Deployment and
Service next to the web's. `MaxOutages` and `MaxDrift` are 0 where another run has
them. Two ports let a Service's HTTP and HTTPS differ, and the default 30080 be the
right or the wrong guess; a port that is refused needs no third. Two nodes let the one
that is named be gone, not Ready, or another than the last time; they are
interchangeable (`AnyNode`), since nothing but identity is said of them. Three pods are
two replicas and the surge; three generations are an edit and another one while the
first is rolled out or is undone. `Shared` creates each KubeNova once (`MaxUid` = 1):
re-creation under one name is `Recreate`'s subject, and the proofs about
`SharedNamespace` have no bound.

Fairness. `Reconciler!LiveSpec`: the worker goroutine keeps running, informers deliver,
timers fire, pods become ready, garbage is collected. Each is weak: none can be
disabled and enabled for ever by somebody else once users and failures have stopped.
`Rollout!LiveSpec`: weak for the pass (the queue retries an error, a timer a report),
for Kubernetes and for its count of ready pods. `SharedNamespace!LiveSpec`: strong for
the beginning of each KubeNova's pass, because the work queue is first in, first out
and the others' passes make it wait again and again, weak for the stages of a pass
and the garbage collector. Users, faults and crashes owe nothing and are bounded.

### Runs that find a disagreement

Each checks one sentence of the repository, and TLC shows a run of the code that
does otherwise; `findings` quotes the line.

| Run | What happens |
|---|---|
| `ClaimBinding` | a binding not yet in the cache is not deleted, and the finalizer goes all the same |
| `ClaimHollow` | re-created, a KubeNova turns Ready on its predecessor's objects; they are collected, and every later pass is skipped |
| `ClaimNonBlock` | writing the finalizer turns `nonBlock: false` into `true` |
| `ClaimRollout` | right after an update the old pods are counted, and the KubeNova is Ready before one pod of the new template runs |

Further divergences seen while modelling, which follow from the models but have no
run of their own.

Loop and status:

- Deployments not yet in the informer's copy, or whose read fails, are passed over
  (controller, line 818), and a copy older than the last update is taken at its word, so
  that a KubeNova may be Ready before its pods run (`unsure`);
- a Deployment somebody has scaled to zero counts as running (line 827);
- a conflict on the web Deployment, which every pass updates, shows phase Failed although
  nothing is wrong (line 647);
- condition Ready stays True in phase Failed (only `checkComponentStatus` sets it);
- a disabled service keeps its Deployment and Service, and is still counted for Ready;
- `updateStatusWithRetry` refreshes the caller's resourceVersion but not its spec
  (comment at line 237);
- a status of a deleted object may land on one re-created under its name, with an
  observedGeneration that object never had;
- where the informer of an owned kind lags, an edit and its reversal that come faster
  than it does leave the wrong content: the comparison (line 406 for the Secret) finds
  the old copy as it should be, nothing is written, and Ready is stored. `Faults` goes
  through this: without the exception for `astray`, `ReadyMeansApplied` fails there.

Deployments:

- the web Deployment is updated by every pass, since its two mounts of `nginx-config`
  are compared by name (line 769; the comment at line 633 says "只在 Spec 有实质变化时才更新",
  only on a real change); so is a service with default resources;
- `compareEnvVars` ignores environment variables with an empty value or a value from
  elsewhere (lines 744 and 750): an edit of those alone, such as another
  `secretKeyRef`, does not reach the pods;
- `compareVolumes` ignores volume sources: a new MinIO certificate Secret
  does not reach `portal-rpc`; nor do pull policy and pull secrets by themselves.

Exposure:

- HTTPS switched on later: the Secret gets `https` with the HTTP port (line 453 against
  line 442);
- the first pass writes a guessed NodePort into the Secret; a pass that ends Ready
  leaves it;
- an existing Ingress or Service is not updated while `WebURL` takes the new host or
  kind; after an edit from ingress to nodeport it says for ever that a port is being
  allocated;
- the address of a node that has left the cluster stays in the Secret and in `WebURL`, since
  passes over a Ready KubeNova are skipped (line 102) and nodes are not watched;
- with a `customNginxConfigMap` the MinIO address and `WebURL` are derived as ever, whatever
  that configuration serves;
- the redirect `https://$host$request_uri` (`nginx.go:223`) drops the NodePort;
- scripts, pages and names with a leading dot under the proxied prefix are served from
  nginx's own files and never reach MinIO (`nginx.go`, lines 584-630), and so are
  images under a prefix other than `/storage`;
- the validator takes any `pathPrefix`: one without a leading slash, with a trailing one,
  equal to an API's prefix or above one gives a configuration that does not route or
  does not load.

Rollout and sharing:

- a change of a Secret or ConfigMap alone restarts no pod: with an unchanged template
  the old pods keep the old configuration although the KubeNova is Ready, also when an
  edit and its reversal bring an earlier ReplicaSet back;
- an API disabled from the start has no Service, and nginx does not start without it;
- when one of two KubeNova of a namespace is deleted the other loses the objects the
  first one created and, being Ready, does not make them again, or keeps the first
  one's settings;
- where two KubeNova put the same binding name together, the second one's service
  account stays unbound.

## Proofs

`ReconcilerProofs` proves, for every value of the constants that satisfies
`ConstantsAssumption` (any set of services and specs, any lagging kinds, any bounds):

- `TypeCorrect`: `Spec => []TypeOK`. `TypeOK` is inductive by itself. One step per
  action, over lemmas on the shared helpers (`Put`, `PutOrFail`, `StoreStatusOf`, `Done`,
  ...). The one assumption on specs that is not a type is that writing one back gives
  a spec again (`Resent`).
- `BindingNeverOutlives`: `Spec => []BindingHandled`, that the binding does not outlive its
  KubeNova unless a delete pass could not see it. The exception is the one
  `ClaimBinding` shows; line 260 of the controller treats an error of the read like an
  absent binding. `BindingGuarded`, without the exception, is false.

`BindingHandled` is not inductive: nothing in it says that the pass about to create
the binding still has a finalized KubeNova, or that the delete pass about to drop the
finalizer may do so. `BindingInv` adds: a pass that creates objects has a
finalized KubeNova in the API server; a live finalized copy in the informer means
the same; a copy that is being deleted means the object is deleting or gone, as does a
delete pass under way; before the finalizer is removed the binding is gone, or was not
seen; and a copy that is not stale is the object. The argument then goes action by
action: only `RemoveFinalizer` and a user's deletion of an object without finalizer
remove the KubeNova, and only `ReconcileRBAC` creates the binding. `Synced` (a copy that is
not out of date shows the object) says when a delete pass can trust what it sees.
`Recreate` checks `BindingInv` by TLC as well, and `BindingInvariant` proves it.

`ReadyProofs`, for every value of the constants too, any lagging kinds, re-creations and
deletions by third parties included: `ReadyIsCarriedOut`, `Spec => []ReadyMeansApplied`.
`ReadyMeansApplied` says nothing of a pass that is about to store Ready, or of the copy it
works on, so two invariants carry it. `CopiesInv`: the informer's copy and the pass's are
a KubeNova as it was, of this incarnation with this spec if the generation is this one, and
no stage can store a Ready it has not earned. `AppliedInv`: every object the pass has been
through holds what the pass's spec asks for, or is astray; all of them do when it checks
and reports; and once the KubeNova is Ready for a generation no pass works on another. The
step that matters is the status write: it goes through only from a current copy, and
its Ready counts only if incarnation and generation agree (`BecomesReady`). The garbage
collector is the other: what it takes under a Ready KubeNova is astray, which is the
hollow Ready of `ClaimHollow`.

In the same module `ReadyRuns`, `Spec => []ReadyMeansRunning`. `RunningInv` adds to
`AppliedInv` what the check has seen: while its verdict is good, every Deployment it has
looked at runs, or is unsure, and so do all of the spec when it is about to report Ready.
An update that changes the replicas may stop what ran, but a pass updates before it
checks. The last Deployment read closes the gap, since `AppliedInv` says that those of the spec exist.

`PromiseProofs`: `PromisesKept`, `Spec => ImplementsLifecycle`, the refinement. It puts
`CopiesInv`, `AppliedInv`, `BindingInv` and `Synced` together with `Marked` (an object is
marked as deleted only while its finalizer holds it), and gives each action the promise
it keeps, or none.

More of `ReconcilerProofs`:

- `NothingIsForgotten` (`Spec => []NoLostWakeup`) and `StatusIsCoherent`
  (`Spec => []StatusCoherent`), for every value of the constants, whatever lags, fails
  or is re-created. `WakeInv` adds that a copy that is not out of date is the object;
  `CoherentInv` that the informer's copy is coherent, and the pass's wherever it is
  about to be stored.
- `ObservedNeverGoesBack`: `Spec => ObservedMonotone` if the name is created once.
  `MonotoneInv` bounds the generation in every copy by the object's, and keeps the
  pass's from falling behind what is stored. With re-creation the theorem would
  be about a status of the predecessor that a late write puts on the new object.

`DeploymentProofs`, for any specs that are typed and any of the eight Deployments. All
three rest on `SyncInv`: the Deployment that is stored is one that some spec had
made, but for its replicas and the value of its first environment variable (what
`Meddle` changes); after a pass it is as the present spec asks for in all that
`deploymentSpecEqual` compares. Only the first part makes the second follow: two
Deployments that are just any would pass the comparison with other mount paths,
volumes or ports. (The web's Deployment is written by every pass, and is then simply what
the spec asks for.)

- `EditsAreNoticed`: `Spec => []EditsReachPods`, if users write their environment
  variables with values that are not empty (`Literally`). The hypothesis is needed,
  `compareEnvVars` leaves all other variables out (lines 744 and 750). The proof
  is about the map that a Go loop fills from a slice (`Latest`): equal lengths, and equal
  maps of the variables with a value, give equal environments, since the one variable a
  builder adds without a value, `POD_NAMESPACE`, is the same on both sides.
- `WiringHolds`: `Spec => []Wired`. What the validator and the builders establish for a
  Deployment just made is carried over to the one that is stored, by the parts they share.
- `NothingSentTwice`: `Spec => OnlyRealChanges`. What the API server stores of a Deployment
  passes the comparison with what it was sent, part by part.

`ExposureProofs`, for any typed specs, ports, nodes and objects, without hypotheses. What is
not promised is said in the properties: nothing for a KubeNova that is not Ready, a
Service or Ingress of another kind than the spec's, a node that left, an nginx
configuration of the user's, a prefix that is not `WellFormed`, and an object that a
pattern of nginx's takes (`Reachable`). Two parts.

- `InvariantHolds`: `Spec => []ExposureInv`. The three properties are not inductive, as they
  speak of a Secret and a WebURL written stages or passes ago. `ExposureInv` says
  that a pass has its copy of the spec, the present one unless the spec was edited
  since; that from the Service's stage on the Secret was built from that copy, for some
  node, with the Service's port if the Service was there (`SecretFrom`), and stays so
  because the Service never changes its ports; and that Ready means all this of the
  present spec, with a WebURL read from the Service.
- Routing: `FrontendFound` (each path of the frontend ends at its own location, whatever
  the MinIO prefix), `ObjectFound` and `ObjectRewritten` (a path behind the prefix ends at
  MinIO, as the object's own). No other location is as long a prefix, by the last
  segment of each and by where the prefix ends; no pattern matches; nginx merges nothing.

`URLHolds` (`Spec => []URLServed`) holds for every prefix. `EndpointHolds`
(`Spec => []EndpointFollowsService`) and `IngressHolds` (`Spec => []IngressServed`) speak of a
derived address only where the prefix is `WellFormed`: absolute, without a slash at the
end, without empty segments or such that begin with a dot, and above no API's path. The
default is. Each of these conditions, and each of `Reachable`'s, is needed: without it TLC
finds an object of the run that goes astray.

`RolloutProofs`, for any images, specs and bounds and any finite set of pods:

- `RolloutTypeCorrect`; its one part that is not plain typing is that the check
  at the end of a pass finds a Deployment.
- `NewPodsNeverReadOldConfig`: `Spec => []NewPodsReadNewConfig`. By itself that is not
  inductive, as a pod reads whatever the ConfigMap says by then. `ConfigInv` adds
  that no pass works on a generation older than the ConfigMap's, that a pass about to
  write the Deployment has written the ConfigMap, and that no template is newer than the
  ConfigMap. A pass that dies between the two leaves a ConfigMap that is too new,
  never one too old.

`SharedNamespaceProofs`, for any number of KubeNova in any namespaces and any bounds:

- `PassInv`: passes do not overlap; one that creates has the finalizer and its
  KubeNova is not Ready, one that deletes has an object on its way out.
- `NoBindingForgotten` and `ReadyKeepsBinding` from `BindingInv`: before the finalizer goes
  no binding of that name is left, so the witness of every remaining binding is
  somebody else; and from the RBAC stage on the binding of a KubeNova with a name
  of its own is there.
- `SettledNamespaceIsOfOne`: `Spec => []Unmixed` from `MixInv`, which holds of each
  namespace in which nothing was ever deleted: owners and authors of its
  objects exist (so the garbage collector takes nothing), a pass at a stage has
  written what comes before it, and if the Secret's author is Ready it is the
  Deployment's too. The step that matters is a second KubeNova's pass that
  overwrites the Secret: its own status is not Ready, and it stays so until
  the Deployment is written as well.

The assumptions on constants are `ConstantsAssumption`, `RolloutAssumption`,
`SharedAssumption`, `WorkloadsAssumption`, `ExposureAssumption`, and `SpecsAssumption` and
`NilAssumption` of `DeploymentSync` and `WebExposure`: typing, bounds that are numbers, and a
`Nil` or `None` that is no record. TLC evaluates each in the runs of its module. The inductive invariants were
checked by TLC on the runs' instances before they were proved.

Only model-checked: liveness under fairness (`Settles`, `DeletionCompletes`, `RollsOut`,
`NothingLeft`), which with `ENABLED` is out of this prover's reach, and the four runs
that find a disagreement. Every safety property of a passing run has its
theorem. Induction over data is out of reach too; no module declares a RECURSIVE
operator, and what the code does in a loop over a slice is written with sets of
indices (`Latest`, `MergeSlashes`, `Destination`), about which the proofs need none.

## Not modelled

The Secret's values other than `MINIO_ENDPOINT_PROXY` (copies of spec fields), the text
of the configurations beyond ports, placeholders, calls, servers and routes, nginx's
headers, limits and timeouts, `nginx.conf` (constant), `ComponentStatus` (written,
never read), the probes of the containers, logging, rate limiting and back-off times,
metrics and flags, generated code and manifests. Two managers at once: leader election
is a flag that is off by default, and nothing in the code deals with it. The
checksum helpers of `common.go` have no caller. A rate at which the loop runs is nothing
these models have.

## Plan

Done: `Reconciler` with its runs and the proofs of its safety properties;
`KubeNovaConfig`, `Deployments`, `DeploymentSync`, `ConfigMaps`; `NginxConfig`,
`WebExposure` with their proofs; `KubeNovaLifecycle` and the refinement, checked and
proved; `Rollout` and `SharedNamespace` with their proofs. Every safety property of a
passing run is a theorem.

Next:

1. Liveness with lagging Deployments: that the conflicts of the web Deployment's updates
   end (`Settles` in an instance where pods progress behind the pass's back).
2. `Exposure` with copies of the Service that lag, as `Reconciler` has them.
