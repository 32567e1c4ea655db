---------------------------- MODULE RolloutProofs ----------------------------
(* Proofs about Rollout for all images and specs, any number of pods and   *)
(* any bounds: its types, and that new pods never read an old configuration. *)
EXTENDS Rollout, FiniteSetTheorems, TLAPS

-----------------------------------------------------------------------------
(* The operators stay within their types.                                  *)

LEMMA SpecType ==
  ASSUME NEW s \in Specs
  PROVE  /\ s.image \in Images /\ s.https \in BOOLEAN
         /\ s.replicas \in Nat \ {0} /\ s.enabled \subseteq UpstreamServices
BY RolloutAssumption DEF RolloutSpecs

LEMMA BuildersType ==
  ASSUME NEW copy \in Copies
  PROVE  buildDefaultConf(copy) \in Configs /\ buildWebDeployment(copy.spec) \in DeploymentObjects
<1>1. copy.spec \in Specs /\ copy.gen \in Nat
  BY DEF Copies
<1> QED
  BY <1>1, SpecType DEF buildDefaultConf, buildWebDeployment, Configs, DeploymentObjects, Templates

LEMMA NotNil ==
  /\ \A x \in Configs : x # Nil
  /\ \A x \in DeploymentObjects : x # Nil
  /\ \A x \in PodObjects : x # Nil
  /\ \A x \in Copies : x # Nil
BY RolloutAssumption

LEMMA PodType ==
  ASSUME TypeOK, NEW p \in Existing
  PROVE  p \in Pods /\ pods[p] \in PodObjects
BY DEF TypeOK, Existing, Optional

\* One pod changes.
LEMMA SetPodType ==
  ASSUME TypeOK, NEW p \in Pods, NEW pod \in Optional(PodObjects), SetPod(p, pod), crashes' \in Nat
  PROVE  TypeOK'
BY DEF TypeOK, SetPod, operator, objects

LEMMA PassType ==
  ASSUME TypeOK, Pass \/ Fail \/ EditSpec
  PROVE  TypeOK'
<1>0. kn # Nil => kn \in Copies /\ kn.spec \in Specs /\ kn.spec.enabled \subseteq UpstreamServices
  BY SpecType DEF TypeOK, Optional, Copies
<1>1. CASE Begin
  <2>1. kn' \in Copies /\ kn' # Nil
    BY <1>1, NotNil DEF Begin, Copies, TypeOK
  <2> QED BY <1>1, <2>1 DEF Begin, TypeOK, Optional, objects, cluster
<1>2. CASE ReconcileServices
  BY <1>0, <1>2 DEF ReconcileServices, Go, TypeOK, cluster
<1>3. CASE ReconcileConfigMap
  BY <1>0, <1>3, BuildersType DEF ReconcileConfigMap, Go, TypeOK, Optional, cluster
<1>4. CASE ReconcileDeployment
  <2>1. kn \in Copies /\ kn.gen \in Nat
    BY <1>0, <1>4 DEF ReconcileDeployment, TypeOK, Copies
  <2>2. deployment' \in DeploymentObjects /\ deployment' # Nil
    BY <1>4, <2>1, BuildersType, NotNil DEF ReconcileDeployment
  <2> QED BY <1>4, <2>1, <2>2 DEF ReconcileDeployment, Go, TypeOK, Optional, cluster
<1>5. CASE CheckComponentStatus
  BY <1>5 DEF CheckComponentStatus, TypeOK, Optional, objects, cluster
<1>6. CASE Fail
  <2>1. services' \subseteq UpstreamServices
    BY <1>0, <1>6 DEF Fail, TypeOK
  <2>2. failures' \in Nat /\ Nil \in Optional(Copies)
    BY <1>6 DEF Fail, TypeOK, Optional
  <2>3. kn' = Nil /\ pc' = "idle" /\ ready' = FALSE
        /\ UNCHANGED <<spec, gen, config, deployment, changed, pods, readyReplicas, crashes>>
    BY <1>6 DEF Fail, cluster
  <2> QED BY <2>1, <2>2, <2>3 DEF TypeOK
<1>7. CASE EditSpec
  <2>1. spec' \in Specs /\ gen' \in Nat /\ ready' = FALSE
    BY <1>7 DEF EditSpec, TypeOK
  <2>2. /\ UNCHANGED <<kn, pc, services, config, deployment, changed>>
        /\ UNCHANGED <<pods, readyReplicas, failures, crashes>>
    BY <1>7 DEF EditSpec, objects, cluster
  <2> QED BY <2>1, <2>2 DEF TypeOK
<1> QED BY <1>1, <1>2, <1>3, <1>4, <1>5, <1>6, <1>7 DEF Pass

LEMMA PodsType ==
  ASSUME TypeOK, Kubernetes \/ CrashContainer \/ UpdateDeploymentStatus
  PROVE  TypeOK'
<1>1. CASE CreatePod
  <2>1. PICK p \in Pods : SetPod(p, [template |-> deployment.template, gen |-> changed,
                                     config |-> Nil])
    <3>1. \E q \in Pods : q \notin Existing
      BY <1>1 DEF CreatePod, Existing
    <3> QED BY <1>1, <3>1 DEF CreatePod
  <2>2. deployment.template \in Templates
    BY <1>1 DEF CreatePod, TypeOK, Optional, DeploymentObjects
  <2> QED BY <1>1, <2>1, <2>2, SetPodType DEF CreatePod, PodObjects, TypeOK, Optional
<1>2. CASE DeleteOldPod
  BY <1>2, PodType, SetPodType DEF DeleteOldPod, TypeOK, Optional
<1>3. CASE ScaleDown
  BY <1>3, PodType, SetPodType DEF ScaleDown, NewPods, TypeOK, Optional
<1>4. CASE StartContainer
  <2>1. PICK p \in Existing : /\ config # Nil
                              /\ SetPod(p, [pods[p] EXCEPT !.config = config])
    BY <1>4 DEF StartContainer, Starts
  <2>2. [pods[p] EXCEPT !.config = config] \in PodObjects
    BY <2>1, PodType DEF PodObjects, TypeOK
  <2> QED BY <1>4, <2>1, <2>2, PodType, SetPodType DEF StartContainer, TypeOK, Optional
<1>5. CASE CrashContainer
  <2>1. PICK p \in Existing : SetPod(p, [pods[p] EXCEPT !.config = Nil])
    BY <1>5 DEF CrashContainer, ReadyPods
  <2>2. [pods[p] EXCEPT !.config = Nil] \in PodObjects
    BY PodType DEF PodObjects, Optional
  <2> QED BY <1>5, <2>1, <2>2, PodType, SetPodType DEF CrashContainer, TypeOK, Optional
<1>6. CASE UpdateDeploymentStatus
  <2>1. IsFiniteSet(ReadyPods)
    BY RolloutAssumption, FS_Subset DEF ReadyPods, Existing
  <2>2. Cardinality(ReadyPods) \in Nat
    BY <2>1, FS_CardinalityType
  <2> QED BY <1>6, <2>2 DEF UpdateDeploymentStatus, TypeOK, operator, objects
<1> QED BY <1>1, <1>2, <1>3, <1>4, <1>5, <1>6 DEF Kubernetes

LEMMA TypeInit == Init => TypeOK
<1> SUFFICES ASSUME Init PROVE TypeOK
  OBVIOUS
<1>1. /\ kn \in Optional(Copies) /\ config \in Optional(Configs)
      /\ deployment \in Optional(DeploymentObjects) /\ pods \in [Pods -> Optional(PodObjects)]
  BY DEF Init, Optional
<1>2. services \in SUBSET UpstreamServices /\ ready \in BOOLEAN
  BY DEF Init
<1> QED BY <1>1, <1>2 DEF Init, TypeOK

LEMMA TypeStep == TypeOK /\ [Next]_vars => TypeOK'
<1>1. ASSUME TypeOK, UNCHANGED vars PROVE TypeOK'
  BY <1>1 DEF vars, TypeOK, operator, objects, cluster
<1> QED BY <1>1, PassType, PodsType DEF Next

\* Types of every reachable state: a pass under way has its copy of the KubeNova,
\* checkComponentStatus a Deployment to look at.
THEOREM RolloutTypeCorrect == Spec => []TypeOK
BY TypeInit, TypeStep, PTL DEF Spec

-----------------------------------------------------------------------------
(* A new pod never reads an old configuration.                             *)

LEMMA ExistingType ==
  ASSUME TypeOK, NEW p \in Existing
  PROVE  pods[p].gen \in Nat /\ (p \in ReadyPods => pods[p].config \in Configs)
BY PodType DEF PodObjects, ReadyPods, Optional

\* What holds of every pod still does if no pod changes.
LEMMA SamePods ==
  ASSUME UNCHANGED pods
  PROVE  Existing' = Existing /\ ReadyPods' = ReadyPods
BY DEF Existing, ReadyPods

LEMMA PassConfig ==
  ASSUME TypeOK, ConfigInv, Pass \/ Fail \/ EditSpec
  PROVE  ConfigInv'
<1>0. /\ kn # Nil => kn \in Copies /\ kn.gen \in Nat
      /\ config # Nil => config \in Configs /\ config.gen \in Nat
      /\ gen \in Nat /\ changed \in Nat
  BY DEF TypeOK, Optional, Copies, Configs
<1>1. UNCHANGED pods
  BY DEF Pass, Begin, ReconcileServices, ReconcileConfigMap, ReconcileDeployment,
     CheckComponentStatus, Fail, EditSpec, Go, cluster
<1>2. NewPodsReadNewConfig'
  BY <1>1, SamePods DEF ConfigInv, NewPodsReadNewConfig
<1>3. \A p \in Existing : pods[p].gen \in Nat
  BY ExistingType
<1>4. CASE UNCHANGED <<config, changed>> /\ gen' \in Nat /\ gen' >= gen
           /\ pc' # "deployment" /\ (kn' = Nil \/ kn' = kn \/ kn'.gen = gen)
  BY <1>0, <1>1, <1>2, <1>4, SamePods DEF ConfigInv
<1>5. CASE Begin
  BY <1>0, <1>4, <1>5 DEF Begin, objects
<1>6. CASE ReconcileServices
  BY <1>0, <1>4, <1>6 DEF ReconcileServices, Go
<1>7. CASE ReconcileConfigMap
  <2>1. kn \in Copies /\ kn # Nil
    BY <1>0, <1>7 DEF ReconcileConfigMap, TypeOK
  <2>2. config' # Nil /\ config'.gen = kn.gen
    BY <1>7, <2>1, BuildersType, NotNil DEF ReconcileConfigMap, buildDefaultConf
  <2>3. UNCHANGED <<gen, kn, changed>>
    BY <1>7 DEF ReconcileConfigMap, Go
  <2> QED BY <1>0, <1>1, <1>2, <2>1, <2>2, <2>3, SamePods DEF ConfigInv
<1>8. CASE ReconcileDeployment
  <2>1. kn # Nil /\ pc = "deployment" /\ pc' = "check" /\ UNCHANGED <<gen, kn, config>>
    BY <1>8 DEF ReconcileDeployment, Go, TypeOK
  <2>2. changed' = changed \/ changed' = kn.gen
    BY <1>8 DEF ReconcileDeployment
  <2> QED BY <1>0, <1>1, <1>2, <1>3, <2>1, <2>2, SamePods DEF ConfigInv
<1>9. CASE CheckComponentStatus
  BY <1>0, <1>4, <1>9 DEF CheckComponentStatus, objects
<1>10. CASE Fail
  BY <1>0, <1>4, <1>10 DEF Fail
<1>11. CASE EditSpec
  <2>1. gen' = gen + 1 /\ UNCHANGED <<kn, pc, config, changed>>
    BY <1>11 DEF EditSpec, objects
  <2> QED BY <1>0, <1>1, <1>2, <2>1, SamePods DEF ConfigInv
<1> QED BY <1>5, <1>6, <1>7, <1>8, <1>9, <1>10, <1>11 DEF Pass

\* A pod that is made, started, stopped or removed in accordance with ConfigInv.
LEMMA SetPodConfig ==
  ASSUME TypeOK, ConfigInv, NEW p \in Pods, NEW pod, SetPod(p, pod),
         pod # Nil => pod.gen \in Nat /\ pod.gen <= changed,
         pod # Nil /\ pod.config # Nil => pod.config.gen >= pod.gen
  PROVE  ConfigInv'
<1>1. UNCHANGED <<gen, kn, pc, config, changed>> /\ pods' = [pods EXCEPT ![p] = pod]
  BY DEF SetPod, operator, objects
<1>2. \A q \in Pods : pods'[q] = IF q = p THEN pod ELSE pods[q]
  BY <1>1 DEF TypeOK
<1>3. ASSUME NEW q \in Existing'
      PROVE  q \in Pods /\ ((q = p /\ pod # Nil) \/ (q \in Existing /\ pods'[q] = pods[q]))
  <2>1. q \in Pods /\ pods'[q] # Nil
    BY <1>3 DEF Existing
  <2>2. CASE q = p
    BY <1>2, <2>1, <2>2
  <2>3. CASE q # p
    BY <1>2, <2>1, <2>3 DEF Existing
  <2> QED BY <2>1, <2>2, <2>3
<1>4. (\A q \in Existing : pods[q].gen <= changed)'
  BY <1>1, <1>2, <1>3 DEF ConfigInv
<1>5. NewPodsReadNewConfig'
  BY <1>2, <1>3 DEF ConfigInv, NewPodsReadNewConfig, ReadyPods, Existing
<1> QED BY <1>1, <1>4, <1>5 DEF ConfigInv

LEMMA PodsConfig ==
  ASSUME TypeOK, ConfigInv, Kubernetes \/ CrashContainer \/ UpdateDeploymentStatus
  PROVE  ConfigInv'
<1>0. changed \in Nat /\ \A p \in Existing : p \in Pods /\ pods[p] \in PodObjects
                           /\ pods[p].gen \in Nat /\ pods[p].gen <= changed
  BY PodType, ExistingType DEF TypeOK, ConfigInv
<1>1. CASE CreatePod
  <2>1. \E q \in Pods : q \notin Existing
    BY <1>1 DEF CreatePod, Existing
  <2>2. PICK p \in Pods : SetPod(p, [template |-> deployment.template, gen |-> changed,
                                     config |-> Nil])
    BY <1>1, <2>1 DEF CreatePod
  <2> QED BY <1>0, <2>2, SetPodConfig
<1>2. CASE DeleteOldPod \/ ScaleDown
  <2>1. PICK p \in Existing : SetPod(p, Nil)
    BY <1>2 DEF DeleteOldPod, ScaleDown, NewPods
  <2> QED BY <1>0, <2>1, SetPodConfig
<1>3. CASE StartContainer
  <2>1. PICK p \in Existing : config # Nil /\ SetPod(p, [pods[p] EXCEPT !.config = config])
    BY <1>3 DEF StartContainer, Starts
  <2> DEFINE pod == [pods[p] EXCEPT !.config = config]
  <2>2. pod.gen = pods[p].gen /\ pod.config = config
    BY <1>0 DEF PodObjects
  <2>3. config.gen \in Nat /\ (changed # 0 => changed <= config.gen)
    BY <2>1 DEF ConfigInv, TypeOK, Optional, Configs
  <2>4. pod.gen <= config.gen
    BY <1>0, <2>2, <2>3
  <2>5. p \in Pods /\ SetPod(p, pod)
    BY <1>0, <2>1
  <2> HIDE DEF pod
  <2> QED BY <1>0, <2>2, <2>3, <2>4, <2>5, SetPodConfig
<1>4. CASE CrashContainer
  <2>1. PICK p \in Existing : SetPod(p, [pods[p] EXCEPT !.config = Nil])
    BY <1>4 DEF CrashContainer, ReadyPods
  <2> DEFINE pod == [pods[p] EXCEPT !.config = Nil]
  <2>2. pod.gen = pods[p].gen /\ pod.config = Nil /\ p \in Pods /\ SetPod(p, pod)
    BY <1>0, <2>1 DEF PodObjects
  <2> HIDE DEF pod
  <2> QED BY <1>0, <2>2, SetPodConfig
<1>5. CASE UpdateDeploymentStatus
  <2>1. UNCHANGED <<gen, kn, pc, config, changed, pods>>
    BY <1>5 DEF UpdateDeploymentStatus, operator, objects
  <2> QED BY <2>1, SamePods DEF ConfigInv, NewPodsReadNewConfig
<1> QED BY <1>1, <1>2, <1>3, <1>4, <1>5 DEF Kubernetes

LEMMA ConfigStep == TypeOK /\ ConfigInv /\ [Next]_vars => ConfigInv'
<1>1. ASSUME ConfigInv, UNCHANGED vars PROVE ConfigInv'
  <2>1. UNCHANGED <<gen, kn, pc, config, changed, pods>>
    BY <1>1 DEF vars, operator, objects, cluster
  <2> QED BY <1>1, <2>1, SamePods DEF ConfigInv, NewPodsReadNewConfig
<1> QED BY <1>1, PassConfig, PodsConfig DEF Next

\* A pod made for a generation's template never runs with an earlier generation's
\* configuration, whatever fails, crashes or is edited in between, for any number
\* of pods, images and edits: reconcileWeb writes the ConfigMap first.
THEOREM NewPodsNeverReadOldConfig == Spec => []NewPodsReadNewConfig
<1>1. Init => ConfigInv
  <2> SUFFICES ASSUME Init PROVE ConfigInv
    OBVIOUS
  <2>1. Existing = {} /\ ReadyPods = {}
    BY DEF Init, Existing, ReadyPods
  <2> QED BY <2>1 DEF Init, ConfigInv, NewPodsReadNewConfig
<1>2. ConfigInv => NewPodsReadNewConfig
  BY DEF ConfigInv
<1> QED BY <1>1, <1>2, ConfigStep, RolloutTypeCorrect, PTL DEF Spec
=============================================================================
