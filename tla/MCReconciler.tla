---------------------------- MODULE MCReconciler ----------------------------
(* Reconciler on small instances: spec values and lagging kinds.           *)
EXTENDS Reconciler

Base ==
  [valid |-> TRUE, enabled |-> {"portal-api"}, ingress |-> FALSE,
   customNginx |-> FALSE, image |-> "a", pullPolicy |-> "a", canonical |-> TRUE,
   nonBlock |-> TRUE, settings |-> "a"]

\* Two specs that differ in every way an update goes through.
Exposed ==
  [Base EXCEPT !.ingress = TRUE, !.image = "b", !.pullPolicy = "b",
               !.settings = "b", !.canonical = FALSE]

EditedSpecs == {Base, Exposed}

OneService == {"portal-api"}

\* Without backend services.
Bare == [Base EXCEPT !.enabled = {}]
MinimalSpecs == {[Bare EXCEPT !.customNginx = TRUE]}
TwoImages == {[Bare EXCEPT !.customNginx = TRUE, !.image = i] : i \in {"a", "b"}}
FaultySpecs ==
  {[Bare EXCEPT !.customNginx = TRUE, !.image = i, !.settings = i] : i \in {"a", "b"}}
    \cup {[Bare EXCEPT !.customNginx = TRUE, !.valid = FALSE]}
BlockingSpecs ==
  {[Bare EXCEPT !.customNginx = TRUE, !.nonBlock = b] : b \in BOOLEAN}

Nothing == {}
OnlyKubeNova == {"KubeNova"}
OnlyBinding == {"ClusterRoleBinding"}
ThreeCreated == {"ClusterRoleBinding", "Secret", "Deployment"}
=============================================================================
