------------------------ MODULE SharedNamespaceProofs ------------------------
(* Proofs about SharedNamespace for any number of KubeNova in any           *)
(* namespaces, and any bounds: bindings are there while they are needed and *)
(* not longer, and the objects of a namespace come from one of its KubeNova. *)
EXTENDS SharedNamespace, TLAPS

-----------------------------------------------------------------------------
(* Types, and that passes do not overlap.                                  *)

LEMMA BuiltType ==
  ASSUME TypeOK, NEW k \in KubeNovas, NEW o \in Contents \cup {Nil}
  PROVE  Ensured(o, k) \in Contents /\ Ensured(o, k) # Nil
<1>1. Built(k) \in Contents
  BY DEF Built, Contents, TypeOK
<1>2. o # Nil => [o EXCEPT !.of = k] \in Contents
  BY DEF Contents
<1> QED BY <1>1, <1>2, SharedAssumption DEF Ensured

LEMMA StageType ==
  ASSUME TypeOK, NEW k \in KubeNovas, pass[k] # Nil, NEW stage \in Stages
  PROVE  [pass EXCEPT ![k].stage = stage] \in [KubeNovas -> Passes \cup {Nil}]
BY DEF TypeOK, Passes

LEMMA UsersType ==
  ASSUME TypeOK, NEW k \in KubeNovas, Create(k) \/ EditSpec(k) \/ Delete(k)
  PROVE  TypeOK'
<1>1. CASE Create(k)
  BY <1>1 DEF Create, TypeOK, objects
<1>2. CASE EditSpec(k)
  <2>1. pass' \in [KubeNovas -> Passes \cup {Nil}]
    BY <1>2 DEF EditSpec, TypeOK, Passes
  <2> QED BY <1>2, <2>1 DEF EditSpec, TypeOK, objects
<1>3. CASE Delete(k)
  BY <1>3 DEF Delete, TypeOK, objects
<1> QED BY <1>1, <1>2, <1>3

LEMMA PassType ==
  ASSUME TypeOK, NEW k \in KubeNovas, AddFinalizer(k) \/ Begin(k) \/ Stage(k) \/ Fail(k)
  PROVE  TypeOK'
<1>0. k.namespace \in Namespaces
  BY DEF Namespaces
<1>1. CASE AddFinalizer(k)
  BY <1>1 DEF AddFinalizer, TypeOK, objects
<1>2. CASE Begin(k)
  <2>1. PICK stage \in Stages : Start(k, stage)
    BY <1>2 DEF Begin, Stages
  <2>2. pass' \in [KubeNovas -> Passes \cup {Nil}]
    BY <2>1 DEF Start, TypeOK, Passes
  <2> QED BY <1>2, <2>2 DEF Begin, TypeOK, kubenovas, objects
<1>3. CASE ReconcileRBAC(k)
  <2>1. pass' \in [KubeNovas -> Passes \cup {Nil}]
    BY <1>3, StageType DEF ReconcileRBAC, Go, At, Stages
  <2> QED BY <1>3, <2>1 DEF ReconcileRBAC, Go, TypeOK, kubenovas
<1>4. CASE ReconcileSecret(k)
  <2>1. pass' \in [KubeNovas -> Passes \cup {Nil}]
    BY <1>4, StageType DEF ReconcileSecret, Go, At, Stages
  <2>2. Ensured(secret[k.namespace], k) \in Contents
    BY <1>0, BuiltType DEF TypeOK
  <2> QED BY <1>4, <2>1, <2>2 DEF ReconcileSecret, Go, TypeOK, kubenovas
<1>5. CASE ReconcileServices(k)
  <2>1. pass' \in [KubeNovas -> Passes \cup {Nil}]
    BY <1>5, StageType DEF ReconcileServices, Go, At, Stages
  <2>2. Ensured(deployment[k.namespace], k) \in Contents
    BY <1>0, BuiltType DEF TypeOK
  <2> QED BY <1>5, <2>1, <2>2 DEF ReconcileServices, Go, TypeOK, kubenovas
<1>6. CASE CheckComponentStatus(k)
  <2>1. ready' \in [KubeNovas -> BOOLEAN]
    BY <1>6 DEF CheckComponentStatus, At, TypeOK, Passes
  <2> QED BY <1>6, <2>1 DEF CheckComponentStatus, TypeOK, objects
<1>7. CASE DeleteBinding(k)
  <2>1. pass' \in [KubeNovas -> Passes \cup {Nil}]
    BY <1>7, StageType DEF DeleteBinding, Go, At, Stages
  <2> QED BY <1>7, <2>1 DEF DeleteBinding, Go, TypeOK, kubenovas
<1>8. CASE RemoveFinalizer(k)
  BY <1>8 DEF RemoveFinalizer, TypeOK, objects
<1>9. CASE Fail(k)
  BY <1>9 DEF Fail, TypeOK, kubenovas, objects
<1> QED BY <1>1, <1>2, <1>3, <1>4, <1>5, <1>6, <1>7, <1>8, <1>9 DEF Stage

LEMMA TypeStep == TypeOK /\ [Next]_vars => TypeOK'
<1>1. ASSUME TypeOK, CollectGarbage PROVE TypeOK'
  BY <1>1 DEF CollectGarbage, TypeOK, kubenovas
<1>2. ASSUME TypeOK, UNCHANGED vars PROVE TypeOK'
  BY <1>2 DEF vars, TypeOK, kubenovas, objects
<1> QED BY <1>1, <1>2, UsersType, PassType DEF Next

LEMMA TypeCorrect == Spec => []TypeOK
<1>1. Init => TypeOK
  BY DEF Init, TypeOK
<1> QED BY <1>1, TypeStep, PTL DEF Spec

\* The stage an action leaves a pass in.
LEMMA NewStage ==
  ASSUME TypeOK, NEW k \in KubeNovas, pass[k] # Nil, NEW stage \in Stages, Go(k, stage)
  PROVE  /\ pass'[k] # Nil /\ pass'[k].stage = stage
         /\ \A l \in KubeNovas \ {k} : pass'[l] = pass[l]
         /\ UNCHANGED <<object, uid, finalizer, ready, failures>>
<1>1. pass[k] \in Passes
  BY DEF TypeOK
<1>2. pass'[k] = [pass[k] EXCEPT !.stage = stage]
  BY DEF Go, TypeOK
<1>3. pass'[k] \in Passes
  BY <1>1, <1>2 DEF Passes
<1> QED BY <1>1, <1>2, <1>3, SharedAssumption DEF Go, TypeOK, Passes, kubenovas

\* An edit only marks a pass that is under way.
LEMMA EditKeepsStage ==
  ASSUME TypeOK, NEW k \in KubeNovas, EditSpec(k), NEW l \in KubeNovas
  PROVE  (pass'[l] = Nil) = (pass[l] = Nil) /\ (pass[l] # Nil => pass'[l].stage = pass[l].stage)
<1>1. CASE pass[k] = Nil \/ l # k
  <2>1. pass'[l] = pass[l]
    BY <1>1 DEF EditSpec, TypeOK
  <2> QED BY <2>1
<1>2. CASE pass[k] # Nil /\ l = k
  <2>1. pass[k] \in Passes
    BY <1>2 DEF TypeOK
  <2>2. pass'[k] = [pass[k] EXCEPT !.edited = TRUE]
    BY <1>2 DEF EditSpec, TypeOK
  <2>3. pass'[k].stage = pass[k].stage /\ pass'[k] \in Passes
    BY <2>1, <2>2 DEF Passes
  <2> QED BY <1>2, <2>3, SharedAssumption
<1> QED BY <1>1, <1>2

LEMMA UsersPassInv ==
  ASSUME TypeOK, PassInv, NEW k \in KubeNovas, Create(k) \/ EditSpec(k) \/ Delete(k)
  PROVE  PassInv'
<1>1. CASE Create(k)
  <2>1. pass[k] = Nil
    BY <1>1 DEF Create, PassInv, TypeOK, Passes, Stages, Reconciling, Deleting
  <2> QED BY <1>1, <2>1 DEF Create, PassInv, TypeOK, Reconciling, Deleting
<1>2. CASE EditSpec(k)
  <2>1. \A l \in KubeNovas : /\ (pass'[l] = Nil) = (pass[l] = Nil)
                             /\ pass[l] # Nil => pass'[l].stage = pass[l].stage
    BY <1>2, EditKeepsStage
  <2> QED BY <1>2, <2>1 DEF EditSpec, PassInv, TypeOK, Reconciling, Deleting
<1>3. CASE Delete(k)
  BY <1>3 DEF Delete, PassInv, TypeOK, Reconciling, Deleting
<1> QED BY <1>1, <1>2, <1>3

\* A pass goes on, or ends.
LEMMA GoPassInv ==
  ASSUME TypeOK, PassInv, NEW k \in KubeNovas, pass[k] # Nil, NEW stage \in Stages, Go(k, stage),
         stage \in {"unbind", "release"} <=> pass[k].stage \in {"unbind", "release"}
  PROVE  PassInv'
BY NewStage DEF PassInv, Reconciling, Deleting, Stages, TypeOK, Passes

LEMMA EndPassInv ==
  ASSUME TypeOK, PassInv, NEW k \in KubeNovas, pass[k] # Nil, pass' = [pass EXCEPT ![k] = Nil],
         \/ /\ UNCHANGED <<object, uid, finalizer>>
            /\ \A l \in KubeNovas \ {k} : ready'[l] = ready[l]
         \/ /\ object' = [object EXCEPT ![k] = "absent"] /\ UNCHANGED uid
            /\ \A l \in KubeNovas \ {k} : finalizer'[l] = finalizer[l] /\ ready'[l] = ready[l]
  PROVE  PassInv'
<1>1. \A l \in KubeNovas : pass'[l] = Nil
  BY DEF PassInv, TypeOK
<1> QED BY <1>1 DEF PassInv, Reconciling, Deleting, TypeOK

LEMMA PassPassInv ==
  ASSUME TypeOK, PassInv, NEW k \in KubeNovas, AddFinalizer(k) \/ Begin(k) \/ Stage(k) \/ Fail(k)
  PROVE  PassInv'
<1>1. CASE AddFinalizer(k)
  BY <1>1 DEF AddFinalizer, Free, PassInv, TypeOK, Reconciling, Deleting
<1>2. CASE Begin(k)
  <2>1. UNCHANGED <<object, uid, finalizer, ready>>
    BY <1>2 DEF Begin, kubenovas
  <2>2. \A l \in KubeNovas \ {k} : pass'[l] = Nil
    BY <1>2 DEF Begin, Free, Start, TypeOK
  <2>3. \/ pass'[k].stage = "rbac" /\ object[k] = "live" /\ finalizer[k] /\ ~ready[k]
        \/ pass'[k].stage = "unbind" /\ object[k] = "deleting"
    BY <1>2 DEF Begin, Start, TypeOK
  <2> QED BY <2>1, <2>2, <2>3 DEF PassInv, Reconciling, Deleting
<1>3. CASE ReconcileRBAC(k)
  BY <1>3, GoPassInv DEF ReconcileRBAC, At, Stages
<1>4. CASE ReconcileSecret(k)
  BY <1>4, GoPassInv DEF ReconcileSecret, At, Stages
<1>5. CASE ReconcileServices(k)
  BY <1>5, GoPassInv DEF ReconcileServices, At, Stages
<1>6. CASE CheckComponentStatus(k)
  <2>1. \A l \in KubeNovas \ {k} : ready'[l] = ready[l]
    BY <1>6 DEF CheckComponentStatus, TypeOK
  <2> QED BY <1>6, <2>1, EndPassInv DEF CheckComponentStatus, At
<1>7. CASE DeleteBinding(k)
  BY <1>7, GoPassInv DEF DeleteBinding, At, Stages
<1>8. CASE RemoveFinalizer(k)
  <2>1. \A l \in KubeNovas \ {k} : finalizer'[l] = finalizer[l] /\ ready'[l] = ready[l]
    BY <1>8 DEF RemoveFinalizer, TypeOK
  <2> QED BY <1>8, <2>1, EndPassInv DEF RemoveFinalizer, At
<1>9. CASE Fail(k)
  BY <1>9, EndPassInv DEF Fail, kubenovas
<1> QED BY <1>1, <1>2, <1>3, <1>4, <1>5, <1>6, <1>7, <1>8, <1>9 DEF Stage

LEMMA PassInvStep == TypeOK /\ PassInv /\ [Next]_vars => PassInv'
<1>1. ASSUME TypeOK, PassInv, CollectGarbage PROVE PassInv'
  BY <1>1 DEF CollectGarbage, PassInv, kubenovas, Reconciling, Deleting
<1>2. ASSUME TypeOK, PassInv, UNCHANGED vars PROVE PassInv'
  BY <1>2 DEF vars, PassInv, kubenovas, Reconciling, Deleting
<1> QED BY <1>1, <1>2, UsersPassInv, PassPassInv DEF Next

LEMMA PassesApart == Spec => [](TypeOK /\ PassInv)
<1>1. Init => PassInv
  BY DEF Init, PassInv, Reconciling, Deleting
<1> QED BY <1>1, PassInvStep, TypeCorrect, PTL DEF Spec

-----------------------------------------------------------------------------
(* Bindings.                                                               *)

LEMMA NameOf == \A k \in KubeNovas : Binding(k).name = BindingName(k)
BY DEF Binding

\* The name of a binding depends on the KubeNova alone.
LEMMA KeepsNeeded ==
  ASSUME \A b \in bindings' :
           \E l \in KubeNovas : object'[l] # "absent" /\ finalizer'[l] /\ BindingName(l) = b.name
  PROVE  BindingsNeeded'
BY DEF BindingsNeeded, BindingName

\* A step that adds and removes no binding, takes no finalizer from a KubeNova
\* that exists, makes none Ready that has no binding and leads no pass onward.
LEMMA FrameBindingInv ==
  ASSUME BindingInv, UNCHANGED bindings,
         \A l \in KubeNovas : object[l] # "absent" /\ finalizer[l] => object'[l] # "absent" /\ finalizer'[l],
         \A l \in KubeNovas : At(l, "release")' => At(l, "release"),
         \A l \in KubeNovas :
           (object'[l] = "live" /\ ready'[l]) \/ (Reconciling(l)' /\ ~At(l, "rbac")')
           => (object[l] = "live" /\ ready[l]) \/ (Reconciling(l) /\ ~At(l, "rbac"))
  PROVE  BindingInv'
<1>1. BindingsNeeded'
  <2>1. \A b \in bindings' :
          \E l \in KubeNovas : object'[l] # "absent" /\ finalizer'[l] /\ BindingName(l) = b.name
    BY DEF BindingInv, BindingsNeeded
  <2> QED BY <2>1, KeepsNeeded
<1>2. \A l \in KubeNovas : At(l, "release")' => \A b \in bindings' : b.name # BindingName(l)
  BY DEF BindingInv
<1>3. \A l \in KubeNovas :
        Unique(l) /\ ((object'[l] = "live" /\ ready'[l]) \/ (Reconciling(l)' /\ ~At(l, "rbac")'))
        => Binding(l) \in bindings'
  BY DEF BindingInv
<1> QED BY <1>1, <1>2, <1>3 DEF BindingInv, Unique, BindingName, Binding

LEMMA UsersBindingInv ==
  ASSUME TypeOK, PassInv, BindingInv, NEW k \in KubeNovas, Create(k) \/ EditSpec(k) \/ Delete(k)
  PROVE  BindingInv'
<1>1. CASE Create(k)
  BY <1>1, FrameBindingInv DEF Create, TypeOK, objects, At, Reconciling
<1>2. CASE EditSpec(k)
  <2>1. \A l \in KubeNovas : /\ (pass'[l] = Nil) = (pass[l] = Nil)
                             /\ pass[l] # Nil => pass'[l].stage = pass[l].stage
    BY <1>2, EditKeepsStage
  <2>2. \A l \in KubeNovas : ready'[l] => ready[l]
    BY <1>2 DEF EditSpec, TypeOK
  <2> QED BY <1>2, <2>1, <2>2, FrameBindingInv DEF EditSpec, objects, At, Reconciling
<1>3. CASE Delete(k)
  BY <1>3, FrameBindingInv DEF Delete, TypeOK, objects, At, Reconciling
<1> QED BY <1>1, <1>2, <1>3

\* The binding is there, whoever created it.
LEMMA BindBindingInv ==
  ASSUME TypeOK, PassInv, BindingInv, NEW k \in KubeNovas, ReconcileRBAC(k)
  PROVE  BindingInv'
<1>1. /\ pass[k] # Nil /\ pass'[k].stage = "secret"
      /\ \A l \in KubeNovas \ {k} : pass'[l] = pass[l] /\ pass[l] = Nil
      /\ UNCHANGED <<object, uid, finalizer, ready>>
  BY NewStage DEF ReconcileRBAC, At, Stages, PassInv
<1>2. object[k] # "absent" /\ finalizer[k]
  BY DEF ReconcileRBAC, At, PassInv, Reconciling
<1>3. bindings \subseteq bindings' /\ bindings' \subseteq bindings \cup {Binding(k)}
  BY DEF ReconcileRBAC
<1>4. BindingsNeeded'
  <2>1. ASSUME NEW b \in bindings
        PROVE  \E l \in KubeNovas : object'[l] # "absent" /\ finalizer'[l] /\ BindingName(l) = b.name
    BY <1>1 DEF BindingInv, BindingsNeeded
  <2>2. Binding(k).name = BindingName(k)
    BY NameOf
  <2>3. \A b \in bindings' :
          \E l \in KubeNovas : object'[l] # "absent" /\ finalizer'[l] /\ BindingName(l) = b.name
    BY <1>1, <1>2, <1>3, <2>1, <2>2
  <2> QED BY <2>3, KeepsNeeded
<1>5. \A l \in KubeNovas : ~At(l, "release")'
  BY <1>1 DEF At
<1>6. Unique(k) => Binding(k) \in bindings'
  <2>1. ASSUME Unique(k), NEW b \in bindings, b.name = BindingName(k) PROVE b = Binding(k)
    <3>1. PICK l \in KubeNovas : b = Binding(l)
      BY DEF TypeOK
    <3> QED BY <2>1, <3>1, NameOf DEF Unique
  <2> QED BY <2>1, <1>3 DEF ReconcileRBAC
<1>7. \A l \in KubeNovas :
        Unique(l) /\ ((object'[l] = "live" /\ ready'[l]) \/ (Reconciling(l)' /\ ~At(l, "rbac")'))
        => Binding(l) \in bindings'
  BY <1>1, <1>3, <1>6 DEF BindingInv, Reconciling, At
<1> QED BY <1>4, <1>5, <1>7 DEF BindingInv, Unique, BindingName, Binding

LEMMA UnbindBindingInv ==
  ASSUME TypeOK, PassInv, BindingInv, NEW k \in KubeNovas, DeleteBinding(k)
  PROVE  BindingInv'
<1>1. /\ pass[k] # Nil /\ pass'[k].stage = "release"
      /\ \A l \in KubeNovas \ {k} : pass'[l] = pass[l] /\ pass[l] = Nil
      /\ UNCHANGED <<object, uid, finalizer, ready>>
  BY NewStage DEF DeleteBinding, At, Stages, PassInv
<1>2. object[k] = "deleting"
  BY DEF DeleteBinding, At, PassInv, Deleting
<1>3. BindingsNeeded'
  <2>1. \A b \in bindings' :
          \E l \in KubeNovas : object'[l] # "absent" /\ finalizer'[l] /\ BindingName(l) = b.name
    BY <1>1 DEF DeleteBinding, BindingInv, BindingsNeeded
  <2> QED BY <2>1, KeepsNeeded
<1>4. \A l \in KubeNovas : At(l, "release")' => \A b \in bindings' : b.name # BindingName(l)
  BY <1>1 DEF DeleteBinding, At
<1>5. \A l \in KubeNovas :
        Unique(l) /\ ((object'[l] = "live" /\ ready'[l]) \/ (Reconciling(l)' /\ ~At(l, "rbac")'))
        => Binding(l) \in bindings'
  BY <1>1, <1>2, NameOf DEF DeleteBinding, BindingInv, Unique, Reconciling, At
<1> QED BY <1>3, <1>4, <1>5 DEF BindingInv, Unique, BindingName, Binding

\* The one step that takes a finalizer: by then the binding has gone.
LEMMA ReleaseBindingInv ==
  ASSUME TypeOK, PassInv, BindingInv, NEW k \in KubeNovas, RemoveFinalizer(k)
  PROVE  BindingInv'
<1>1. \A l \in KubeNovas \ {k} : /\ pass'[l] = pass[l] /\ object'[l] = object[l]
                                 /\ finalizer'[l] = finalizer[l] /\ ready'[l] = ready[l]
  BY DEF RemoveFinalizer, TypeOK
<1>2. object'[k] = "absent" /\ pass'[k] = Nil /\ UNCHANGED bindings
  BY DEF RemoveFinalizer, TypeOK, objects
<1>3. \A b \in bindings : b.name # BindingName(k)
  BY DEF RemoveFinalizer, BindingInv
<1>4. BindingsNeeded'
  <2>1. ASSUME NEW b \in bindings
        PROVE  \E l \in KubeNovas : object'[l] # "absent" /\ finalizer'[l] /\ BindingName(l) = b.name
    <3>1. PICK l \in KubeNovas : object[l] # "absent" /\ finalizer[l] /\ BindingName(l) = b.name
      BY DEF BindingInv, BindingsNeeded
    <3>2. l # k
      BY <1>3, <3>1
    <3> QED BY <1>1, <3>1, <3>2
  <2> QED BY <1>2, <2>1, KeepsNeeded
<1>5. \A l \in KubeNovas : At(l, "release")' => \A b \in bindings' : b.name # BindingName(l)
  BY <1>1, <1>2 DEF BindingInv, At
<1>6. \A l \in KubeNovas :
        Unique(l) /\ ((object'[l] = "live" /\ ready'[l]) \/ (Reconciling(l)' /\ ~At(l, "rbac")'))
        => Binding(l) \in bindings'
  BY <1>1, <1>2 DEF BindingInv, Reconciling, At
<1> QED BY <1>4, <1>5, <1>6 DEF BindingInv, Unique, BindingName, Binding

LEMMA PassBindingInv ==
  ASSUME TypeOK, PassInv, BindingInv, NEW k \in KubeNovas, AddFinalizer(k) \/ Begin(k) \/ Stage(k) \/ Fail(k)
  PROVE  BindingInv'
<1>1. CASE AddFinalizer(k)
  BY <1>1, FrameBindingInv DEF AddFinalizer, TypeOK, objects, At, Reconciling
<1>2. CASE Begin(k)
  <2>1. \A l \in KubeNovas \ {k} : pass'[l] = pass[l]
    BY <1>2 DEF Begin, Start, TypeOK
  <2>2. pass'[k].stage \in {"rbac", "unbind"}
    BY <1>2 DEF Begin, Start, TypeOK
  <2> QED BY <1>2, <2>1, <2>2, FrameBindingInv DEF Begin, kubenovas, objects, At, Reconciling
<1>3. CASE ReconcileRBAC(k)
  BY <1>3, BindBindingInv
<1>4. ASSUME NEW stage \in {"deployment", "check"}, Go(k, stage), pass[k] # Nil,
             Reconciling(k) /\ ~At(k, "rbac"), UNCHANGED bindings
      PROVE  BindingInv'
  <2>1. /\ pass'[k].stage = stage
        /\ \A l \in KubeNovas \ {k} : pass'[l] = pass[l]
        /\ UNCHANGED <<object, uid, finalizer, ready>>
    BY <1>4, NewStage DEF Stages
  <2> QED BY <1>4, <2>1, FrameBindingInv DEF At, Reconciling
<1>5. CASE ReconcileSecret(k)
  BY <1>4, <1>5 DEF ReconcileSecret, At, Reconciling
<1>6. CASE ReconcileServices(k)
  BY <1>4, <1>6 DEF ReconcileServices, At, Reconciling
<1>7. CASE CheckComponentStatus(k)
  <2>1. \A l \in KubeNovas \ {k} : pass'[l] = pass[l] /\ ready'[l] = ready[l]
    BY <1>7 DEF CheckComponentStatus, TypeOK
  <2>2. pass'[k] = Nil /\ Reconciling(k) /\ ~At(k, "rbac")
    BY <1>7 DEF CheckComponentStatus, TypeOK, At, Reconciling
  <2> QED BY <1>7, <2>1, <2>2, FrameBindingInv DEF CheckComponentStatus, objects, At, Reconciling
<1>8. CASE DeleteBinding(k)
  BY <1>8, UnbindBindingInv
<1>9. CASE RemoveFinalizer(k)
  BY <1>9, ReleaseBindingInv
<1>10. CASE Fail(k)
  <2>1. \A l \in KubeNovas : pass'[l] = Nil \/ pass'[l] = pass[l]
    BY <1>10 DEF Fail, TypeOK
  <2> QED BY <1>10, <2>1, FrameBindingInv DEF Fail, kubenovas, objects, At, Reconciling
<1> QED BY <1>1, <1>2, <1>3, <1>5, <1>6, <1>7, <1>8, <1>9, <1>10 DEF Stage

LEMMA BindingStep == TypeOK /\ PassInv /\ BindingInv /\ [Next]_vars => BindingInv'
<1>1. ASSUME BindingInv, CollectGarbage PROVE BindingInv'
  BY <1>1, FrameBindingInv DEF CollectGarbage, kubenovas, At, Reconciling
<1>2. ASSUME BindingInv, UNCHANGED vars PROVE BindingInv'
  BY <1>2, FrameBindingInv DEF vars, kubenovas, objects, At, Reconciling
<1> QED BY <1>1, <1>2, UsersBindingInv, PassBindingInv DEF Next

LEMMA BindingsRight == Spec => []BindingInv
<1>1. Init => BindingInv
  BY DEF Init, BindingInv, BindingsNeeded, At, Reconciling
<1> QED BY <1>1, BindingStep, PassesApart, PTL DEF Spec

\* Every cluster-admin binding has a KubeNova whose deletion will remove it
\* (reconcileRBAC and reconcileDelete).
THEOREM NoBindingForgotten == Spec => []BindingsNeeded
<1>1. BindingInv => BindingsNeeded
  BY DEF BindingInv
<1> QED BY <1>1, BindingsRight, PTL

\* A Ready KubeNova whose name for the binding nobody else makes has its binding
\* (reconcileRBAC runs before the status is written, and reconcileDelete of
\* another one removes another name).
THEOREM ReadyKeepsBinding == Spec => []BindingKept
<1>1. BindingInv => BindingKept
  BY DEF BindingInv, BindingKept, Unique
<1> QED BY <1>1, BindingsRight, PTL

-----------------------------------------------------------------------------
(* The objects of a namespace.                                             *)

\* Nothing makes a namespace undeleted again.
LEMMA StaysDeleted ==
  ASSUME TypeOK, PassInv, Next, NEW n \in Namespaces, Undeleted(n)'
  PROVE  /\ Undeleted(n)
         /\ \A l \in KubeNovas : l.namespace = n /\ object[l] = "live" => object'[l] = "live"
<1>1. ASSUME NEW k \in KubeNovas, Create(k) PROVE Undeleted(n)
  BY <1>1 DEF Create, Undeleted, TypeOK
<1>2. ASSUME NEW k \in KubeNovas, Create(k), NEW l \in KubeNovas, object[l] = "live"
      PROVE  object'[l] = "live"
  BY <1>2 DEF Create, TypeOK
<1>3. ASSUME NEW k \in KubeNovas, Delete(k) PROVE k.namespace # n
  BY <1>3 DEF Delete, Undeleted, TypeOK, PassInv
<1>4. ASSUME NEW k \in KubeNovas, RemoveFinalizer(k) PROVE k.namespace # n
  <2>1. object[k] = "deleting" /\ object'[k] = "absent" /\ uid[k] # 0 /\ UNCHANGED uid
    BY <1>4 DEF RemoveFinalizer, At, PassInv, Deleting, TypeOK
  <2> QED BY <2>1 DEF Undeleted
<1>5. ASSUME NEW k \in KubeNovas, k.namespace # n, Delete(k) \/ RemoveFinalizer(k)
      PROVE  Undeleted(n) /\ \A l \in KubeNovas : l.namespace = n => object'[l] = object[l]
  BY <1>5 DEF Delete, RemoveFinalizer, Undeleted, TypeOK
<1>6. ASSUME UNCHANGED <<object, uid>> PROVE Undeleted(n)
  BY <1>6 DEF Undeleted
<1>7. ASSUME NEW k \in KubeNovas,
             \/ EditSpec(k) \/ AddFinalizer(k) \/ Begin(k) \/ ReconcileRBAC(k) \/ ReconcileSecret(k)
             \/ ReconcileServices(k) \/ CheckComponentStatus(k) \/ DeleteBinding(k) \/ Fail(k)
      PROVE  UNCHANGED <<object, uid>>
  BY <1>7 DEF EditSpec, AddFinalizer, Begin, ReconcileRBAC, ReconcileSecret, ReconcileServices,
              CheckComponentStatus, DeleteBinding, Fail, Go, kubenovas
<1>8. CollectGarbage => UNCHANGED <<object, uid>>
  BY DEF CollectGarbage, kubenovas
<1> QED BY <1>1, <1>2, <1>3, <1>4, <1>5, <1>6, <1>7, <1>8 DEF Next, Stage

\* In a namespace where none was deleted, whoever is passed over exists.
LEMMA Unaged ==
  ASSUME TypeOK, PassInv, NEW k \in KubeNovas, Undeleted(k.namespace), object[k] # "absent"
  PROVE  uid[k] = 1 /\ object[k] = "live"
BY DEF Undeleted, PassInv

\* What a step does not touch stays right.
LEMMA FrameMix ==
  ASSUME TypeOK, PassInv, MixInv, Next, NEW n \in Namespaces, Undeleted(n)',
         secret'[n] = secret[n], deployment'[n] = deployment[n],
         \A l \in KubeNovas : l.namespace = n =>
           /\ At(l, "deployment")' => At(l, "deployment")
           /\ At(l, "check")' => At(l, "check")
           /\ ready'[l] => ready[l]
  PROVE  /\ Placed(n, secret[n])' /\ Placed(n, deployment[n])'
         /\ \A k \in KubeNovas : k.namespace = n => Written(n, k)'
         /\ Same(n)'
<1>1. Undeleted(n) /\ \A l \in KubeNovas : l.namespace = n /\ object[l] = "live" => object'[l] = "live"
  BY StaysDeleted
<1>2. /\ Placed(n, secret[n]) /\ Placed(n, deployment[n])
      /\ \A k \in KubeNovas : k.namespace = n => Written(n, k)
      /\ Same(n)
  BY <1>1 DEF MixInv
<1>3. ASSUME NEW o \in Contents \cup {Nil}, Placed(n, o) PROVE Placed(n, o)'
  BY <1>1, <1>3 DEF Placed, Contents
<1>4. Placed(n, secret[n])' /\ Placed(n, deployment[n])'
  BY <1>2, <1>3 DEF TypeOK
<1>5. \A k \in KubeNovas : k.namespace = n => Written(n, k)'
  BY <1>2 DEF Written
<1>6. Same(n)'
  <2>1. secret[n] # Nil => secret[n].of \in KubeNovas /\ secret[n].of.namespace = n
    BY <1>2 DEF TypeOK, Contents, Placed
  <2> QED BY <1>2, <2>1 DEF Same
<1> QED BY <1>4, <1>5, <1>6

\* The same for all namespaces.
LEMMA FrameMixInv ==
  ASSUME TypeOK, PassInv, MixInv, Next, UNCHANGED <<secret, deployment>>,
         \A l \in KubeNovas : /\ At(l, "deployment")' => At(l, "deployment")
                              /\ At(l, "check")' => At(l, "check")
                              /\ ready'[l] => ready[l]
  PROVE  MixInv'
<1>1. ASSUME NEW n \in Namespaces, Undeleted(n)'
      PROVE  /\ Placed(n, secret[n])' /\ Placed(n, deployment[n])'
             /\ \A k \in KubeNovas : k.namespace = n => Written(n, k)'
             /\ Same(n)'
  BY <1>1, FrameMix
<1> QED BY <1>1 DEF MixInv, Namespaces

LEMMA UsersMixInv ==
  ASSUME TypeOK, PassInv, MixInv, NEW k \in KubeNovas, Create(k) \/ EditSpec(k) \/ Delete(k)
  PROVE  MixInv'
<1>0. Next
  BY DEF Next
<1>1. CASE Create(k)
  BY <1>0, <1>1, FrameMixInv DEF Create, objects, TypeOK, At
<1>2. CASE EditSpec(k)
  <2>1. \A l \in KubeNovas : /\ (pass'[l] = Nil) = (pass[l] = Nil)
                             /\ pass[l] # Nil => pass'[l].stage = pass[l].stage
    BY <1>2, EditKeepsStage
  <2>2. \A l \in KubeNovas : ready'[l] => ready[l]
    BY <1>2 DEF EditSpec, TypeOK
  <2> QED BY <1>0, <1>2, <2>1, <2>2, FrameMixInv DEF EditSpec, objects, At
<1>3. CASE Delete(k)
  BY <1>0, <1>3, FrameMixInv DEF Delete, objects, At
<1> QED BY <1>1, <1>2, <1>3

\* Whatever was there, k's contents in an object of its namespace are in their place.
LEMMA EnsuredPlaced ==
  ASSUME TypeOK, PassInv, NEW k \in KubeNovas, object[k] # "absent", Undeleted(k.namespace),
         NEW o \in Contents \cup {Nil}, Placed(k.namespace, o)
  PROVE  Placed(k.namespace, Ensured(o, k)) /\ Ensured(o, k) # Nil /\ Ensured(o, k).of = k
<1>1. uid[k] = 1 /\ object[k] = "live"
  BY Unaged
<1>2. Built(k).owner[1] = k /\ Built(k).owner[2] = 1 /\ Built(k).of = k
  BY <1>1 DEF Built
<1>3. o # Nil => /\ [o EXCEPT !.of = k].owner = o.owner
                 /\ [o EXCEPT !.of = k].of = k
  BY DEF Contents
<1>4. Ensured(o, k).of = k
  BY <1>2, <1>3 DEF Ensured
<1>5. CASE o = Nil
  BY <1>1, <1>2, <1>5, BuiltType DEF Ensured, Placed
<1>6. CASE o # Nil
  BY <1>1, <1>3, <1>6, BuiltType DEF Ensured, Placed
<1> QED BY <1>4, <1>5, <1>6, BuiltType

LEMMA SecretMixInv ==
  ASSUME TypeOK, PassInv, MixInv, NEW k \in KubeNovas, ReconcileSecret(k)
  PROVE  MixInv'
<1>0. Next /\ k.namespace \in Namespaces
  BY DEF Next, Stage, Namespaces
<1>1. /\ pass[k] # Nil /\ pass'[k].stage = "deployment"
      /\ \A l \in KubeNovas \ {k} : pass'[l] = pass[l] /\ pass[l] = Nil
      /\ UNCHANGED <<object, uid, finalizer, ready>>
  BY NewStage DEF ReconcileSecret, At, Stages, PassInv
<1>2. object[k] # "absent" /\ ~ready[k]
  BY DEF ReconcileSecret, At, PassInv, Reconciling
<1>3. /\ secret'[k.namespace] = Ensured(secret[k.namespace], k) /\ UNCHANGED deployment
      /\ \A n \in Namespaces \ {k.namespace} : secret'[n] = secret[n]
  BY <1>0 DEF ReconcileSecret, TypeOK
<1>4. ASSUME NEW n \in Namespaces, n # k.namespace, Undeleted(n)'
      PROVE  /\ Placed(n, secret[n])' /\ Placed(n, deployment[n])'
             /\ \A l \in KubeNovas : l.namespace = n => Written(n, l)'
             /\ Same(n)'
  BY <1>0, <1>1, <1>3, <1>4, FrameMix DEF At
<1>5. ASSUME NEW n \in Namespaces, n = k.namespace, Undeleted(n)'
      PROVE  /\ Placed(n, secret[n])' /\ Placed(n, deployment[n])'
             /\ \A l \in KubeNovas : l.namespace = n => Written(n, l)'
             /\ Same(n)'
  <2>1. Undeleted(n)
    BY <1>0, <1>5, StaysDeleted
  <2>2. Placed(n, secret[n]) /\ Placed(n, deployment[n])
    BY <2>1 DEF MixInv
  <2>3. secret'[n] # Nil /\ secret'[n].of = k /\ Placed(n, secret'[n])
    BY <1>2, <1>3, <1>5, <2>1, <2>2, EnsuredPlaced DEF TypeOK
  <2>4. Placed(n, secret[n])' /\ Placed(n, deployment[n])'
    BY <1>1, <1>3, <2>2, <2>3 DEF Placed
  <2>5. \A l \in KubeNovas : Written(n, l)'
    BY <1>1, <2>3 DEF Written, At
  <2>6. Same(n)'
    BY <1>1, <1>2, <2>3 DEF Same
  <2> QED BY <2>4, <2>5, <2>6
<1> QED BY <1>4, <1>5 DEF MixInv, Namespaces

LEMMA ServicesMixInv ==
  ASSUME TypeOK, PassInv, MixInv, NEW k \in KubeNovas, ReconcileServices(k)
  PROVE  MixInv'
<1>0. Next /\ k.namespace \in Namespaces
  BY DEF Next, Stage, Namespaces
<1>1. /\ pass[k] # Nil /\ pass'[k].stage = "check"
      /\ \A l \in KubeNovas \ {k} : pass'[l] = pass[l] /\ pass[l] = Nil
      /\ UNCHANGED <<object, uid, finalizer, ready>>
  BY NewStage DEF ReconcileServices, At, Stages, PassInv
<1>2. object[k] # "absent" /\ At(k, "deployment")
  BY DEF ReconcileServices, At, PassInv, Reconciling
<1>3. /\ deployment'[k.namespace] = Ensured(deployment[k.namespace], k) /\ UNCHANGED secret
      /\ \A n \in Namespaces \ {k.namespace} : deployment'[n] = deployment[n]
  BY <1>0 DEF ReconcileServices, TypeOK
<1>4. ASSUME NEW n \in Namespaces, n # k.namespace, Undeleted(n)'
      PROVE  /\ Placed(n, secret[n])' /\ Placed(n, deployment[n])'
             /\ \A l \in KubeNovas : l.namespace = n => Written(n, l)'
             /\ Same(n)'
  BY <1>0, <1>1, <1>3, <1>4, FrameMix DEF At
<1>5. ASSUME NEW n \in Namespaces, n = k.namespace, Undeleted(n)'
      PROVE  /\ Placed(n, secret[n])' /\ Placed(n, deployment[n])'
             /\ \A l \in KubeNovas : l.namespace = n => Written(n, l)'
             /\ Same(n)'
  <2>1. Undeleted(n)
    BY <1>0, <1>5, StaysDeleted
  <2>2. Placed(n, secret[n]) /\ Placed(n, deployment[n]) /\ secret[n] # Nil /\ secret[n].of = k
    BY <1>2, <1>5, <2>1 DEF MixInv, Written
  <2>3. deployment'[n] # Nil /\ deployment'[n].of = k /\ Placed(n, deployment'[n])
    BY <1>2, <1>3, <1>5, <2>1, <2>2, EnsuredPlaced DEF TypeOK
  <2>4. Placed(n, secret[n])' /\ Placed(n, deployment[n])'
    BY <1>1, <1>3, <2>2, <2>3 DEF Placed
  <2>5. \A l \in KubeNovas : Written(n, l)'
    BY <1>1, <1>3, <2>2, <2>3 DEF Written, At
  <2>6. Same(n)'
    BY <1>3, <2>2, <2>3 DEF Same
  <2> QED BY <2>4, <2>5, <2>6
<1> QED BY <1>4, <1>5 DEF MixInv, Namespaces

\* k becomes Ready, and has written both.
LEMMA StatusMixInv ==
  ASSUME TypeOK, PassInv, MixInv, NEW k \in KubeNovas, CheckComponentStatus(k)
  PROVE  MixInv'
<1>0. Next
  BY DEF Next, Stage
<1>1. /\ At(k, "check") /\ pass'[k] = Nil
      /\ \A l \in KubeNovas \ {k} : pass'[l] = pass[l] /\ pass[l] = Nil /\ ready'[l] = ready[l]
      /\ UNCHANGED <<object, uid, finalizer, secret, deployment>>
  BY DEF CheckComponentStatus, At, TypeOK, PassInv, objects
<1>2. ASSUME NEW n \in Namespaces, Undeleted(n)'
      PROVE  /\ Placed(n, secret[n])' /\ Placed(n, deployment[n])'
             /\ \A l \in KubeNovas : l.namespace = n => Written(n, l)'
             /\ Same(n)'
  <2>1. Undeleted(n)
    BY <1>0, <1>2, StaysDeleted
  <2>2. /\ Placed(n, secret[n]) /\ Placed(n, deployment[n]) /\ Same(n)
        /\ k.namespace = n => Written(n, k)
    BY <2>1 DEF MixInv
  <2>3. Placed(n, secret[n])' /\ Placed(n, deployment[n])'
    BY <1>1, <2>2 DEF Placed
  <2>4. \A l \in KubeNovas : Written(n, l)'
    BY <1>1 DEF Written, At
  <2>5. secret[n] # Nil => secret[n].of \in KubeNovas /\ secret[n].of.namespace = n
    BY <2>2 DEF Placed, TypeOK, Contents
  <2>6. Same(n)'
    BY <1>1, <2>2, <2>5 DEF Same, Written
  <2> QED BY <2>3, <2>4, <2>6
<1> QED BY <1>2 DEF MixInv, Namespaces

\* The garbage collector takes nothing where none was deleted.
LEMMA CollectMixInv ==
  ASSUME TypeOK, PassInv, MixInv, CollectGarbage
  PROVE  MixInv'
<1>0. Next
  BY DEF Next
<1>1. UNCHANGED <<object, uid, finalizer, ready, pass>>
  BY DEF CollectGarbage, kubenovas
<1>2. ASSUME NEW n \in Namespaces, Undeleted(n)'
      PROVE  /\ Placed(n, secret[n])' /\ Placed(n, deployment[n])'
             /\ \A l \in KubeNovas : l.namespace = n => Written(n, l)'
             /\ Same(n)'
  <2>1. Undeleted(n)
    BY <1>0, <1>2, StaysDeleted
  <2>2. ASSUME NEW o \in Contents, Placed(n, o), o # Nil PROVE ~Orphan(o)
    <3>1. /\ o.owner[1] \in KubeNovas /\ o.owner[1].namespace = n
          /\ object[o.owner[1]] = "live" /\ o.owner[2] = 1
      BY <2>2 DEF Contents, Placed
    <3>2. uid[o.owner[1]] = 1
      BY <2>1, <3>1, Unaged
    <3> QED BY <3>1, <3>2 DEF Orphan
  <2>3. ~Orphan(secret[n]) /\ ~Orphan(deployment[n])
    BY <2>1, <2>2 DEF MixInv, TypeOK, Orphan
  <2>4. secret'[n] = secret[n] /\ deployment'[n] = deployment[n]
    BY <2>3 DEF CollectGarbage, TypeOK
  <2> QED BY <1>0, <1>1, <1>2, <2>4, FrameMix DEF At
<1> QED BY <1>2 DEF MixInv, Namespaces

LEMMA PassMixInv ==
  ASSUME TypeOK, PassInv, MixInv, NEW k \in KubeNovas, AddFinalizer(k) \/ Begin(k) \/ Stage(k) \/ Fail(k)
  PROVE  MixInv'
<1>0. Next
  BY DEF Next
<1>1. CASE AddFinalizer(k)
  BY <1>0, <1>1, FrameMixInv DEF AddFinalizer, objects, At
<1>2. CASE Begin(k)
  <2>1. \A l \in KubeNovas \ {k} : pass'[l] = pass[l]
    BY <1>2 DEF Begin, Start, TypeOK
  <2>2. pass'[k].stage \in {"rbac", "unbind"}
    BY <1>2 DEF Begin, Start, TypeOK
  <2> QED BY <1>0, <1>2, <2>1, <2>2, FrameMixInv DEF Begin, kubenovas, objects, At
<1>3. ASSUME NEW stage \in {"secret", "release"}, Go(k, stage), pass[k] # Nil,
             UNCHANGED <<secret, deployment>>
      PROVE  MixInv'
  <2>1. /\ pass'[k].stage = stage
        /\ \A l \in KubeNovas \ {k} : pass'[l] = pass[l]
        /\ UNCHANGED <<object, uid, finalizer, ready>>
    BY <1>3, NewStage DEF Stages
  <2> QED BY <1>0, <1>3, <2>1, FrameMixInv DEF At
<1>4. CASE ReconcileRBAC(k)
  BY <1>3, <1>4 DEF ReconcileRBAC, At
<1>5. CASE ReconcileSecret(k)
  BY <1>5, SecretMixInv
<1>6. CASE ReconcileServices(k)
  BY <1>6, ServicesMixInv
<1>7. CASE CheckComponentStatus(k)
  BY <1>7, StatusMixInv
<1>8. CASE DeleteBinding(k)
  BY <1>3, <1>8 DEF DeleteBinding, At
<1>9. CASE RemoveFinalizer(k)
  <2>1. \A l \in KubeNovas : /\ pass'[l] = Nil \/ pass'[l] = pass[l]
                             /\ ready'[l] => ready[l]
    BY <1>9 DEF RemoveFinalizer, TypeOK
  <2> QED BY <1>0, <1>9, <2>1, FrameMixInv DEF RemoveFinalizer, objects, At
<1>10. CASE Fail(k)
  <2>1. \A l \in KubeNovas : pass'[l] = Nil \/ pass'[l] = pass[l]
    BY <1>10 DEF Fail, TypeOK
  <2> QED BY <1>0, <1>10, <2>1, FrameMixInv DEF Fail, kubenovas, objects, At
<1> QED BY <1>1, <1>2, <1>4, <1>5, <1>6, <1>7, <1>8, <1>9, <1>10 DEF Stage

LEMMA MixStep == TypeOK /\ PassInv /\ MixInv /\ [Next]_vars => MixInv'
<1>1. ASSUME MixInv, UNCHANGED vars PROVE MixInv'
  BY <1>1 DEF vars, kubenovas, objects, MixInv, Undeleted, Placed, Written, Same, At
<1> QED BY <1>1, UsersMixInv, PassMixInv, CollectMixInv DEF Next

\* When all KubeNova of a namespace are Ready and none was ever deleted, its
\* Secret and Deployments come from one of them (reconcileSecret,
\* reconcileServices and checkComponentStatus of one pass at a time).
THEOREM SettledNamespaceIsOfOne == Spec => []Unmixed
<1>1. Init => MixInv
  BY DEF Init, MixInv, Placed, Written, Same, At
<1>2. ASSUME TypeOK, PassInv, MixInv PROVE Unmixed
  <2>1. SUFFICES ASSUME NEW n \in Namespaces, Settled(n), secret[n] # Nil, deployment[n] # Nil
                 PROVE  secret[n].of = deployment[n].of
    BY DEF Unmixed
  <2>2. Undeleted(n)
    BY <2>1 DEF Settled, Undeleted
  <2>3. secret[n].of \in KubeNovas /\ secret[n].of.namespace = n /\ object[secret[n].of] = "live"
    BY <1>2, <2>1, <2>2 DEF MixInv, Placed, TypeOK, Contents
  <2>4. ready[secret[n].of]
    BY <1>2, <2>1, <2>3 DEF Settled, PassInv
  <2> QED BY <1>2, <2>1, <2>2, <2>4 DEF MixInv, Same
<1> QED BY <1>1, <1>2, MixStep, PassesApart, PTL DEF Spec
=============================================================================
