-------------------------- MODULE ReconcilerClaims --------------------------
(* What comments of the repository say of the reconciler and the code does *)
(* not do.  BindingGuarded, stated in Reconciler, is checked here again     *)
(* where the binding's informer copy lags.                                 *)
EXTENDS MCReconciler

\* PhaseReady, "部署就绪": a KubeNova is not Ready for good while objects of its
\* spec are missing.  Reconcile skips every later pass once Ready, also the
\* one queued because the garbage collector took what a predecessor owned.
ReadyNotHollow ==
  LET Hollow == ReadyNow /\ \E o \in Plan(cr.spec) : store[o] = None
  IN  Hollow ~> ~Hollow

\* "NonBlock 是否使用非阻塞模式": a spec is the user's; guarding the object with the
\* finalizer leaves it alone.
FinalizerKeepsSpec ==
  [][cr # None /\ cr' # None /\ cr'.uid = cr.uid /\ cr'.finalizer # cr.finalizer
       => cr'.spec = cr.spec]_vars
=============================================================================
