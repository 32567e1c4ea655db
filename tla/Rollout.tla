------------------------------- MODULE Rollout -------------------------------
(***************************************************************************)
(* The web frontend's pods while a pass rolls an edit out: the operator    *)
(* writes the Services, nginx's ConfigMap and the Deployment one after the *)
(* other (internal/controller/kubenova_controller.go), the Deployment      *)
(* controller replaces pods by the strategy buildWebDeployment sets, and   *)
(* nginx, when its container starts, reads the ConfigMap as it is by then  *)
(* (it is mounted with subPath, so a running container keeps what it read). *)
(*                                                                         *)
(* The pods and the Deployment controller are Kubernetes'.  Of a spec this *)
(* keeps what decides whether a pod is replaced and whether nginx starts;  *)
(* modules Deployments and NginxConfig have the whole.  The other       *)
(* Deployments are taken to be up, and reads of the KubeNova are current:  *)
(* module Reconciler has the rest.                                         *)
(***************************************************************************)
EXTENDS NginxConfig, FiniteSets

CONSTANTS
  Images,       \* the images users ask for
  Bad,          \* one of them, whose container never becomes ready
  Specs,        \* the specs users write
  Pods,         \* the names of pods
  MaxGen,       \* bounds the KubeNova's generation
  MaxFailures,  \* bounds the failed calls of the operator
  MaxCrashes    \* bounds the crashes of containers

\* Which services are enabled matters for those nginx names.
UpstreamServices == {Upstreams[u][1] : u \in DOMAIN Upstreams}

RolloutSpecs ==
  [image : Images, https : BOOLEAN, replicas : Nat \ {0}, enabled : SUBSET UpstreamServices]

Templates == [image : Images, certificate : BOOLEAN]
Configs == [https : BOOLEAN, gen : Nat]
DeploymentObjects == [replicas : Nat \ {0}, template : Templates]
PodObjects == [template : Templates, gen : Nat, config : Optional(Configs)]
Copies == [spec : Specs, gen : Nat]

ASSUME RolloutAssumption ==
  /\ Specs \subseteq RolloutSpecs
  /\ IsFiniteSet(Pods)
  /\ Nil \notin Configs \cup DeploymentObjects \cup PodObjects \cup Copies
  /\ MaxGen \in Nat \ {0} /\ MaxFailures \in Nat /\ MaxCrashes \in Nat

VARIABLES
  spec, gen,      \* the KubeNova's spec and generation
  kn,             \* the spec and generation the pass works on, Nil between passes
  pc,             \* the pass's stage
  ready,          \* is the status Ready for the latest generation?
  services,       \* the API services whose Service exists
  config,         \* what frontend-nginx-config says and for which generation, or Nil
  deployment,     \* the Deployment, or Nil
  changed,        \* the generation that last changed the Deployment's template
  pods,           \* the Deployment's pods
  readyReplicas,  \* the Deployment's status
  failures, crashes

operator == <<spec, gen, kn, pc, ready>>
objects == <<services, config, deployment, changed>>
cluster == <<pods, readyReplicas>>
vars == <<operator, objects, cluster, failures, crashes>>

TypeOK ==
  /\ spec \in Specs /\ gen \in Nat
  /\ kn \in Optional(Copies)
  /\ pc \in {"idle", "services", "config", "deployment", "check"}
  /\ pc # "idle" => kn # Nil
  /\ ready \in BOOLEAN
  /\ services \in SUBSET UpstreamServices
  /\ config \in Optional(Configs)
  /\ deployment \in Optional(DeploymentObjects)
  /\ pc = "check" => deployment # Nil
  /\ changed \in Nat
  /\ pods \in [Pods -> Optional(PodObjects)]
  /\ readyReplicas \in Nat
  /\ failures \in Nat /\ crashes \in Nat

-----------------------------------------------------------------------------
(* What the operator writes.                                               *)

\* buildDefaultConf, as far as it decides whether nginx starts.
buildDefaultConf(copy) == [https |-> copy.spec.https, gen |-> copy.gen]

\* The certificate is mounted with HTTPS.
buildWebDeployment_NoCertificate(s) ==
  [replicas |-> s.replicas, template |-> [image |-> s.image, certificate |-> FALSE]]

buildWebDeployment(s) ==
  [replicas |-> s.replicas, template |-> [image |-> s.image, certificate |-> s.https]]

\* The strategy of the rolling update.
MaxSurge == 1

MaxUnavailable == 0

-----------------------------------------------------------------------------
(* Pods.  A pod is ready from the moment its container has read a          *)
(* configuration with which nginx starts.                                  *)

Existing == {p \in Pods : pods[p] # Nil}
ReadyPods == {p \in Existing : pods[p].config # Nil}
NewPods == {p \in Existing : pods[p].template = deployment.template}

\* nginx resolves the names of its upstreams when it starts, and reads the
\* certificate of the https server block.
Starts(template, conf, present) ==
  /\ conf # Nil
  /\ template.image # Bad
  /\ UpstreamServices \subseteq present
  /\ conf.https => template.certificate

-----------------------------------------------------------------------------
(* A pass.                                                                 *)

Init ==
  /\ spec \in Specs /\ gen = 1
  /\ kn = Nil /\ pc = "idle" /\ ready = FALSE
  /\ services = {} /\ config = Nil /\ deployment = Nil /\ changed = 0
  /\ pods = [p \in Pods |-> Nil] /\ readyReplicas = 0
  /\ failures = 0 /\ crashes = 0

Begin ==
  /\ pc = "idle" /\ ~ready
  /\ kn' = [spec |-> spec, gen |-> gen] /\ pc' = "services"
  /\ UNCHANGED <<spec, gen, ready, objects, cluster, failures, crashes>>

Go(stage) == pc' = stage /\ UNCHANGED <<spec, gen, kn, ready, cluster, failures, crashes>>

\* The Services of disabled services are left as they are.
ReconcileServices ==
  /\ pc = "services"
  /\ services' = services \cup kn.spec.enabled
  /\ Go("config")
  /\ UNCHANGED <<config, deployment, changed>>

ReconcileConfigMap_OnlyCreates ==
  /\ pc = "config"
  /\ config' = IF config = Nil THEN buildDefaultConf(kn) ELSE config
  /\ Go("deployment")
  /\ UNCHANGED <<services, deployment, changed>>

ReconcileConfigMap ==
  /\ pc = "config"
  /\ config' = buildDefaultConf(kn)
  /\ Go("deployment")
  /\ UNCHANGED <<services, deployment, changed>>

ReconcileDeployment ==
  /\ pc = "deployment"
  /\ deployment' = buildWebDeployment(kn.spec)
  /\ changed' = IF deployment # Nil /\ deployment'.template = deployment.template
                  THEN changed ELSE kn.gen
  /\ Go("check")
  /\ UNCHANGED <<services, config>>

\* ReadyReplicas is taken as it is, whichever generation of the Deployment it
\* was counted for.
CheckComponentStatus ==
  /\ pc = "check"
  /\ ready' = (readyReplicas = deployment.replicas /\ kn.gen = gen)
  /\ kn' = Nil /\ pc' = "idle"
  /\ UNCHANGED <<spec, gen, objects, cluster, failures, crashes>>

\* A call fails, or the operator restarts: the request is tried again.
Fail ==
  /\ pc # "idle" /\ failures < MaxFailures
  /\ failures' = failures + 1
  /\ IF pc = "services"
       THEN \E created \in SUBSET kn.spec.enabled : services' = services \cup created
       ELSE UNCHANGED services
  /\ kn' = Nil /\ pc' = "idle" /\ ready' = FALSE
  /\ UNCHANGED <<spec, gen, config, deployment, changed, cluster, crashes>>

EditSpec ==
  /\ gen < MaxGen
  /\ spec' \in Specs \ {spec} /\ gen' = gen + 1 /\ ready' = FALSE
  /\ UNCHANGED <<kn, pc, objects, cluster, failures, crashes>>

-----------------------------------------------------------------------------
(* Kubernetes: the Deployment controller and the kubelet.                  *)

SetPod(p, pod) ==
  /\ pods' = [pods EXCEPT ![p] = pod]
  /\ UNCHANGED <<operator, objects, readyReplicas, failures>>

CreatePod ==
  /\ deployment # Nil
  /\ Cardinality(Existing) < deployment.replicas + MaxSurge
  /\ Cardinality(NewPods) < deployment.replicas
  /\ Existing # Pods
  /\ LET p == CHOOSE q \in Pods : q \notin Existing
     IN  SetPod(p, [template |-> deployment.template, gen |-> changed, config |-> Nil])
  /\ UNCHANGED crashes

\* An old pod may go if enough are there without it, and enough are ready.
DeleteOldPod ==
  /\ deployment # Nil
  /\ LET least == deployment.replicas - MaxUnavailable IN
       /\ Cardinality(Existing) - Cardinality(NewPods \ ReadyPods) > least
       /\ \E p \in Existing \ NewPods :
            /\ p \in ReadyPods => Cardinality(ReadyPods) > least
            /\ SetPod(p, Nil)
  /\ UNCHANGED crashes

\* A pod too many of the new ones goes, one that is not ready before others.
ScaleDown ==
  /\ deployment # Nil
  /\ Cardinality(NewPods) > deployment.replicas
  /\ \E p \in NewPods : (p \in ReadyPods => NewPods \subseteq ReadyPods) /\ SetPod(p, Nil)
  /\ UNCHANGED crashes

StartContainer ==
  /\ \E p \in Existing \ ReadyPods :
       /\ Starts(pods[p].template, config, services)
       /\ SetPod(p, [pods[p] EXCEPT !.config = config])
  /\ UNCHANGED crashes

CrashContainer ==
  /\ crashes < MaxCrashes /\ crashes' = crashes + 1
  /\ \E p \in ReadyPods : SetPod(p, [pods[p] EXCEPT !.config = Nil])

UpdateDeploymentStatus ==
  /\ readyReplicas' = Cardinality(ReadyPods)
  /\ UNCHANGED <<operator, objects, pods, failures, crashes>>

Pass == Begin \/ ReconcileServices \/ ReconcileConfigMap \/ ReconcileDeployment \/ CheckComponentStatus

Kubernetes == CreatePod \/ DeleteOldPod \/ ScaleDown \/ StartContainer

Next == Pass \/ Fail \/ EditSpec \/ Kubernetes \/ CrashContainer \/ UpdateDeploymentStatus

Spec == Init /\ [][Next]_vars

\* The work queue goes on with a request until it is Ready, and Kubernetes does
\* what it can.
LiveSpec ==
  Spec /\ WF_vars(Pass) /\ WF_vars(Kubernetes) /\ WF_vars(UpdateDeploymentStatus)

-----------------------------------------------------------------------------
(* Properties.                                                             *)

\* A pod made for a generation's template never runs with the configuration of an
\* earlier generation, however edits, failed passes and restarts of containers
\* fall: reconcileWeb writes the ConfigMap before the Deployment.
NewPodsReadNewConfig ==
  \A p \in ReadyPods : pods[p].config.gen >= pods[p].gen

\* Why: the ConfigMap is at least as new as the template, the one in the making
\* included, and no copy the operator works on is older than it.
ConfigInv ==
  /\ kn # Nil => kn.gen <= gen
  /\ config # Nil => config.gen <= gen /\ (kn # Nil => config.gen <= kn.gen)
  /\ pc = "deployment" => config # Nil /\ config.gen = kn.gen
  /\ changed # 0 => config # Nil /\ changed <= config.gen
  /\ \A p \in Existing : pods[p].gen <= changed
  /\ NewPodsReadNewConfig

\* The image can run, and nginx's upstreams resolve.
Runnable ==
  /\ spec.image # Bad
  /\ UpstreamServices \subseteq services \cup spec.enabled

RolledOut ==
  /\ deployment # Nil /\ deployment.template = buildWebDeployment(spec).template
  /\ Existing = NewPods /\ ReadyPods = NewPods
  /\ Cardinality(NewPods) = deployment.replicas

\* Once a spec that can run stays, the pods all become those it asks for and the
\* KubeNova becomes Ready, however many failures, crashes and earlier edits were
\* interrupted half-way: nginx in particular starts as soon as the Services it
\* names are there, and the certificates are mounted whenever its configuration
\* has the https block.
RollsOut == <>[]Runnable => <>[](ready /\ RolledOut)

\* "所有组件运行正常": Ready means that pods of the spec's template run.
ReadyMeansRolledOut ==
  ready => \E p \in ReadyPods : pods[p].template = buildWebDeployment(spec).template
=============================================================================
