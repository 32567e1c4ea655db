--------------------------- MODULE SharedNamespace ---------------------------
(***************************************************************************)
(* Several KubeNova in one cluster.  The objects a pass makes have the same *)
(* names for every KubeNova of a namespace, the owner of each is whoever    *)
(* created it, and an existing one is overwritten without taking it over   *)
(* (internal/controller/kubenova_controller.go, internal/builder/secret.go, *)
(* internal/builder/service.go).  The ClusterRoleBinding's name is put      *)
(* together from namespace and name (internal/builder/rbac.go).            *)
(*                                                                         *)
(* Secret and Deployment stand for all namespaced objects that are updated *)
(* when they exist.  Copies are current and calls may fail: module          *)
(* Reconciler has the rest of a pass.                                      *)
(***************************************************************************)
EXTENDS Naturals, Sequences

CONSTANTS
  KubeNovas,    \* [namespace, name], both split at their hyphens
  Nil,
  MaxUid,       \* bounds how often each of them is created
  MaxFailures   \* bounds the failed calls

Stages == {"rbac", "secret", "deployment", "check", "unbind", "release"}

Passes == [stage : Stages, edited : BOOLEAN]

\* A Secret or Deployment: owner and uid, and whose settings it has.
Contents == [owner : KubeNovas \X Nat, of : KubeNovas]

ASSUME SharedAssumption ==
  /\ Nil \notin Passes \cup Contents
  /\ MaxUid \in Nat /\ MaxFailures \in Nat

VARIABLES
  object,      \* "absent", "live" or "deleting", for each KubeNova
  uid,         \* the uid of its current or last incarnation
  finalizer,   \* does it carry the finalizer?
  ready,       \* is its status Ready for its latest generation?
  pass,        \* the pass over each that is under way, or Nil
  bindings,    \* the ClusterRoleBindings
  secret,      \* each namespace's Secret, or Nil
  deployment,  \* each namespace's Deployment, or Nil
  failures

kubenovas == <<object, uid, finalizer, ready>>
objects == <<bindings, secret, deployment>>
vars == <<kubenovas, pass, objects, failures>>

Namespaces == {k.namespace : k \in KubeNovas}

\* kube-nova-{namespace}-{name}-cluster-admin, the hyphens between left out.
BindingName(k) == k.namespace \o k.name

Binding(k) == [name |-> BindingName(k), namespace |-> k.namespace]

\* What a pass over k creates: SetControllerReference, and k's settings.
Built_Unowned(k) == [owner |-> Nil, of |-> k]

Built(k) == [owner |-> <<k, uid[k]>>, of |-> k]

TypeOK ==
  /\ object \in [KubeNovas -> {"absent", "live", "deleting"}]
  /\ uid \in [KubeNovas -> Nat]
  /\ finalizer \in [KubeNovas -> BOOLEAN] /\ ready \in [KubeNovas -> BOOLEAN]
  /\ pass \in [KubeNovas -> Passes \cup {Nil}]
  /\ bindings \subseteq {Binding(k) : k \in KubeNovas}
  /\ secret \in [Namespaces -> Contents \cup {Nil}]
  /\ deployment \in [Namespaces -> Contents \cup {Nil}]
  /\ failures \in Nat

-----------------------------------------------------------------------------
(* Users.                                                                  *)

Init ==
  /\ object = [k \in KubeNovas |-> "absent"]
  /\ uid = [k \in KubeNovas |-> 0]
  /\ finalizer = [k \in KubeNovas |-> FALSE]
  /\ ready = [k \in KubeNovas |-> FALSE]
  /\ pass = [k \in KubeNovas |-> Nil] /\ bindings = {}
  /\ secret = [n \in Namespaces |-> Nil] /\ deployment = [n \in Namespaces |-> Nil]
  /\ failures = 0

Create(k) ==
  /\ object[k] = "absent" /\ uid[k] < MaxUid
  /\ object' = [object EXCEPT ![k] = "live"]
  /\ uid' = [uid EXCEPT ![k] = @ + 1]
  /\ finalizer' = [finalizer EXCEPT ![k] = FALSE]
  /\ ready' = [ready EXCEPT ![k] = FALSE]
  /\ UNCHANGED <<pass, objects, failures>>

\* A pass that is under way works on the spec as it was.
EditSpec(k) ==
  /\ object[k] = "live"
  /\ ready' = [ready EXCEPT ![k] = FALSE]
  /\ pass' = IF pass[k] = Nil THEN pass ELSE [pass EXCEPT ![k].edited = TRUE]
  /\ UNCHANGED <<object, uid, finalizer, objects, failures>>

Delete(k) ==
  /\ object[k] = "live"
  /\ object' = [object EXCEPT ![k] = IF finalizer[k] THEN "deleting" ELSE "absent"]
  /\ UNCHANGED <<uid, finalizer, ready, pass, objects, failures>>

-----------------------------------------------------------------------------
(* A pass over k.                                                          *)

\* The controller runs with one worker.
Free_Always(k) == pass[k] = Nil

Free(k) == \A l \in KubeNovas : pass[l] = Nil

At(k, stage) == pass[k] # Nil /\ pass[k].stage = stage

AddFinalizer(k) ==
  /\ Free(k) /\ object[k] = "live" /\ ~finalizer[k]
  /\ finalizer' = [finalizer EXCEPT ![k] = TRUE]
  /\ UNCHANGED <<object, uid, ready, pass, objects, failures>>

Start(k, stage) == pass' = [pass EXCEPT ![k] = [stage |-> stage, edited |-> FALSE]]

Begin(k) ==
  /\ Free(k)
  /\ \/ object[k] = "live" /\ finalizer[k] /\ ~ready[k] /\ Start(k, "rbac")
     \/ object[k] = "deleting" /\ Start(k, "unbind")
  /\ UNCHANGED <<kubenovas, objects, failures>>

Go(k, stage) == pass' = [pass EXCEPT ![k].stage = stage] /\ UNCHANGED <<kubenovas, failures>>

\* A binding of that name is left as it is, whichever namespace it is for.
ReconcileRBAC_ErrorIgnored(k) ==
  /\ At(k, "rbac")
  /\ bindings' \in {bindings, bindings \cup {Binding(k)}}
  /\ Go(k, "secret")
  /\ UNCHANGED <<secret, deployment>>

ReconcileRBAC(k) ==
  /\ At(k, "rbac")
  /\ bindings' =
       IF \E b \in bindings : b.name = BindingName(k) THEN bindings
         ELSE bindings \cup {Binding(k)}
  /\ Go(k, "secret")
  /\ UNCHANGED <<secret, deployment>>

\* Created, or else given k's contents.
Ensured(existing, k) == IF existing = Nil THEN Built(k) ELSE [existing EXCEPT !.of = k]

ReconcileSecret(k) ==
  /\ At(k, "secret")
  /\ secret' = [secret EXCEPT ![k.namespace] = Ensured(@, k)]
  /\ Go(k, "deployment")
  /\ UNCHANGED <<bindings, deployment>>

ReconcileServices(k) ==
  /\ At(k, "deployment")
  /\ deployment' = [deployment EXCEPT ![k.namespace] = Ensured(@, k)]
  /\ Go(k, "check")
  /\ UNCHANGED <<bindings, secret>>

\* Ready if the Deployment is up by now.
CheckComponentStatus(k) ==
  /\ At(k, "check")
  /\ \E up \in BOOLEAN : ready' = [ready EXCEPT ![k] = up /\ ~pass[k].edited]
  /\ pass' = [pass EXCEPT ![k] = Nil]
  /\ UNCHANGED <<object, uid, finalizer, objects, failures>>

DeleteBinding_LeftAlone(k) ==
  At(k, "unbind") /\ Go(k, "release") /\ UNCHANGED <<bindings, secret, deployment>>

DeleteBinding(k) ==
  /\ At(k, "unbind")
  /\ bindings' = {b \in bindings : b.name # BindingName(k)}
  /\ Go(k, "release")
  /\ UNCHANGED <<secret, deployment>>

RemoveFinalizer(k) ==
  /\ At(k, "release")
  /\ object' = [object EXCEPT ![k] = "absent"]
  /\ finalizer' = [finalizer EXCEPT ![k] = FALSE]
  /\ ready' = [ready EXCEPT ![k] = FALSE]
  /\ pass' = [pass EXCEPT ![k] = Nil]
  /\ UNCHANGED <<uid, objects, failures>>

\* A call fails, or the operator restarts: the request is tried again.
Fail(k) ==
  /\ pass[k] # Nil /\ failures < MaxFailures
  /\ failures' = failures + 1 /\ pass' = [pass EXCEPT ![k] = Nil]
  /\ UNCHANGED <<kubenovas, objects>>

-----------------------------------------------------------------------------
(* The garbage collector.                                                  *)

Orphan(o) ==
  o # Nil /\ o.owner # Nil
    /\ ~(object[o.owner[1]] # "absent" /\ uid[o.owner[1]] = o.owner[2])

CollectGarbage ==
  /\ \E n \in Namespaces :
       \/ Orphan(secret[n]) /\ secret' = [secret EXCEPT ![n] = Nil] /\ UNCHANGED deployment
       \/ Orphan(deployment[n]) /\ deployment' = [deployment EXCEPT ![n] = Nil] /\ UNCHANGED secret
  /\ UNCHANGED <<kubenovas, pass, bindings, failures>>

Stage(k) ==
  \/ ReconcileRBAC(k) \/ ReconcileSecret(k) \/ ReconcileServices(k) \/ CheckComponentStatus(k)
  \/ DeleteBinding(k) \/ RemoveFinalizer(k)

Next ==
  \/ \E k \in KubeNovas : Create(k) \/ EditSpec(k) \/ Delete(k)
  \/ \E k \in KubeNovas : AddFinalizer(k) \/ Begin(k) \/ Stage(k) \/ Fail(k)
  \/ CollectGarbage

Spec == Init /\ [][Next]_vars

\* Every request in the queue gets its turn, and a pass goes on.
LiveSpec ==
  /\ Spec
  /\ \A k \in KubeNovas : SF_vars(Begin(k)) /\ WF_vars(Stage(k))
  /\ WF_vars(CollectGarbage)

-----------------------------------------------------------------------------
(* Properties.                                                             *)

\* Every cluster-admin binding has a KubeNova whose deletion will remove it, even
\* where two KubeNova put the same name together: reconcileRBAC leaves an
\* existing binding alone and reconcileDelete removes it for both.
BindingsNeeded ==
  \A b \in bindings :
    \E k \in KubeNovas : object[k] # "absent" /\ finalizer[k] /\ BindingName(k) = b.name

\* A Ready KubeNova's service account has its binding, unless another KubeNova
\* puts the same name together.
BindingKept ==
  \A k \in KubeNovas :
    /\ object[k] = "live" /\ ready[k]
    /\ \A l \in KubeNovas \ {k} : BindingName(l) # BindingName(k)
    => Binding(k) \in bindings

\* The KubeNova of a namespace are all Ready, and none was ever deleted.
Settled(n) ==
  \A k \in KubeNovas :
    k.namespace = n => uid[k] = 0 \/ (uid[k] = 1 /\ object[k] = "live" /\ ready[k])

\* When all KubeNova of a namespace are Ready its Secret and its Deployments come
\* from one of them, in whichever order passes ran and failed, because passes do
\* not overlap.  (A deleted one may leave a Secret of its own behind.)
Unmixed ==
  \A n \in Namespaces :
    Settled(n) /\ secret[n] # Nil /\ deployment[n] # Nil => secret[n].of = deployment[n].of

\* Why these hold: passes do not overlap, a pass has its finalizer, and the
\* steps of each leave behind what the later ones rely on.
Unique(k) == \A l \in KubeNovas \ {k} : BindingName(l) # BindingName(k)

Reconciling(k) == pass[k] # Nil /\ pass[k].stage \in {"rbac", "secret", "deployment", "check"}

Deleting(k) == pass[k] # Nil /\ pass[k].stage \in {"unbind", "release"}

PassInv ==
  /\ \A k, l \in KubeNovas : pass[k] # Nil /\ pass[l] # Nil => k = l
  /\ \A k \in KubeNovas :
       /\ uid[k] = 0 => object[k] = "absent"
       /\ object[k] = "deleting" => finalizer[k]
       /\ Reconciling(k) => object[k] # "absent" /\ finalizer[k] /\ ~ready[k]
       /\ Deleting(k) => object[k] = "deleting"

BindingInv ==
  /\ BindingsNeeded
  /\ \A k \in KubeNovas : At(k, "release") => \A b \in bindings : b.name # BindingName(k)
  /\ \A k \in KubeNovas :
       /\ Unique(k)
       /\ (object[k] = "live" /\ ready[k]) \/ (Reconciling(k) /\ ~At(k, "rbac"))
       => Binding(k) \in bindings

\* No KubeNova of a namespace was ever deleted.
Undeleted(n) ==
  \A k \in KubeNovas : k.namespace = n => uid[k] = 0 \/ (uid[k] = 1 /\ object[k] = "live")

\* Who made an object, and whoever wrote it last, exists and is of its namespace.
Placed(n, o) ==
  o # Nil =>
    /\ o.owner[1].namespace = n /\ object[o.owner[1]] = "live" /\ o.owner[2] = 1
    /\ o.of.namespace = n /\ object[o.of] = "live"

\* A pass has written what its stage says.
Written(n, k) ==
  /\ At(k, "deployment") \/ At(k, "check") => secret[n] # Nil /\ secret[n].of = k
  /\ At(k, "check") => deployment[n] # Nil /\ deployment[n].of = k

\* Whoever wrote the Secret is not Ready before it has written the Deployment too.
Same(n) ==
  secret[n] # Nil /\ deployment[n] # Nil /\ ready[secret[n].of] =>
    deployment[n].of = secret[n].of

MixInv ==
  \A n \in Namespaces : Undeleted(n) =>
    /\ Placed(n, secret[n]) /\ Placed(n, deployment[n])
    /\ \A k \in KubeNovas : k.namespace = n => Written(n, k)
    /\ Same(n)

\* After all KubeNova are deleted nothing of theirs remains, although each has
\* overwritten objects of the others ("其他命名空间级资源会通过 OwnerReference 自动删除").
NothingLeft ==
  <>[](\A k \in KubeNovas : object[k] # "live")
    => <>[](/\ \A k \in KubeNovas : object[k] = "absent"
            /\ bindings = {}
            /\ \A n \in Namespaces : secret[n] = Nil /\ deployment[n] = Nil)
=============================================================================
