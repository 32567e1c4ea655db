---------------------------- MODULE PromiseProofs ----------------------------
(* Reconciler implements KubeNovaLifecycle: every step of it is a promised  *)
(* one or none, whatever the constants are.                                 *)
EXTENDS ReadyProofs

\* Deleting marks only an object that the finalizer holds back.
Marked == cr # None /\ cr.deleting => cr.finalizer

PromiseInv == TypeOK /\ Synced /\ BindingInv /\ CopiesInv /\ AppliedInv /\ Marked

LEMMA MarkedStep == ASSUME TypeOK, BindingInv, Marked, [Next]_vars PROVE Marked'
<1>1. CASE UNCHANGED cr
  BY <1>1 DEF Marked
<1>2. CASE AddFinalizer
  <2>1. CASE ~SeenStale /\ WriteCR(Finalized(Seen))
    <3>1. Seen = cr /\ cr \in KubeNova
      BY <1>2, <2>1 DEF AddFinalizer, BindingInv, TypeOK, CRType
    <3> QED BY <2>1, <3>1, FinalizedType DEF WriteCR, Marked
  <2> QED BY <1>1, <1>2, <2>1 DEF AddFinalizer, crVars
<1>3. CASE UpdateStatus
  <2>1. CASE Seen # None /\ ~SeenStale /\ WriteCR(StatusCopiedTo(Seen, kubenova))
    <3>1. Seen = cr /\ cr \in KubeNova /\ cr # None
      BY <2>1 DEF BindingInv, TypeOK, CRType
    <3>2. cr'.deleting = cr.deleting /\ cr'.finalizer = cr.finalizer
      BY <2>1, <3>1 DEF WriteCR, StatusCopiedTo, KubeNova
    <3> QED BY <3>1, <3>2 DEF Marked
  <2> QED BY <1>1, <1>3, <2>1 DEF UpdateStatus, crVars
<1>4. CASE RemoveFinalizer
  <2>1. cr' = None \/ cr' = cr
    BY <1>4 DEF RemoveFinalizer, WriteCR, crVars
  <2> QED BY <1>1, <2>1 DEF Marked
<1>5. CASE CreateCR
  BY <1>5 DEF CreateCR, WriteCR, Marked
<1>6. CASE EditSpec
  <2>1. cr \in KubeNova /\ cr # None
    BY <1>6 DEF EditSpec, TypeOK, CRType
  <2>2. cr'.deleting = cr.deleting /\ cr'.finalizer = cr.finalizer
    BY <1>6, <2>1 DEF EditSpec, UserWrite, WriteCR, KubeNova
  <2> QED BY <2>1, <2>2 DEF Marked
<1>7. CASE DeleteCR
  <2>1. cr \in KubeNova /\ cr # None
    BY <1>7 DEF DeleteCR, TypeOK, CRType
  <2>2. cr' = None \/ cr'.finalizer
    BY <1>7, <2>1 DEF DeleteCR, UserWrite, WriteCR, KubeNova
  <2> QED BY <2>2 DEF Marked
<1>8. CASE \/ ReconcileGone \/ ReconcileSkip \/ ReconcileValidation \/ BeginDelete
           \/ ReconcileNamespace \/ UpdateDeployment \/ DeleteBinding
           \/ ReconcileRBAC \/ ReconcileSecret \/ ReconcileConfigMaps
           \/ ReconcileServices \/ ReconcileWeb
           \/ \E d \in Deployments : ReadComponent(d)
  BY <1>1, <1>8 DEF ReconcileGone, ReconcileSkip, ReconcileValidation, BeginDelete,
     ReconcileNamespace, UpdateDeployment, DeleteBinding, ReconcileRBAC, ReconcileSecret,
     ReconcileConfigMaps, ReconcileServices, ReconcileWeb, ReadComponent, Ensure, crVars
<1>9. CASE TimerFires \/ Crash \/ Informers \/ Cluster
  BY <1>1, <1>9 DEF TimerFires, Crash, Informers, SyncCR, SyncKind, Cluster, PodsProgress,
     PodsFail, Drift, ClusterWrite, GarbageCollect, crVars
<1>10. CASE UNCHANGED vars
  BY <1>1, <1>10 DEF vars, crVars
<1> QED BY <1>2, <1>3, <1>4, <1>5, <1>6, <1>7, <1>8, <1>9, <1>10 DEF Next, Worker, Users

LEMMA PromiseInvariant == Spec => []PromiseInv
<1>1. Init => CopiesInv /\ AppliedInv /\ Marked
  BY ReadyInit DEF Init, Marked
<1>2. TypeOK /\ TypeOK' /\ Synced /\ BindingInv /\ CopiesInv /\ AppliedInv /\ Marked /\ [Next]_vars
        => (CopiesInv /\ AppliedInv /\ Marked)'
  BY CopiesStep, ReadyStays, DidStep, MarkedStep DEF AppliedInv
<1>3. PromiseInv <=> TypeOK /\ Synced /\ BindingInv /\ CopiesInv /\ AppliedInv /\ Marked
  BY DEF PromiseInv
<1> QED BY <1>1, <1>2, <1>3, TypeCorrect, CopiesFollow, BindingInvariant, PTL DEF Spec

-----------------------------------------------------------------------------
(* The steps.                                                              *)

LEMMA Mirrored ==
  ASSUME TypeOK, cr # None
  PROVE  Lifecycle!Exists
<1> DEFINE o == [gen |-> cr.gen, guarded |-> cr.finalizer, deleting |-> cr.deleting]
<1>1. cr \in KubeNova
  BY DEF TypeOK, CRType
<1>2. o \in [gen : Nat, guarded : BOOLEAN, deleting : BOOLEAN]
  BY <1>1 DEF KubeNova
<1>3. o # None
  BY <1>2, ConstantsAssumption
<1> QED BY <1>3 DEF Lifecycle!Exists

\* What the abstract variables stand for.
Granted == store[ClusterRoleBinding] # None /\ ClusterRoleBinding \notin astray

Misled == astray # {}

\* Nothing promised changes.
LEMMA Unnoticed ==
  ASSUME cr' = cr, UNCHANGED Granted, UNCHANGED Misled,
         cr # None => (Applied(cr.spec)' <=> Applied(cr.spec))
  PROVE  UNCHANGED Lifecycle!vars
BY DEF Lifecycle!vars, ReadyNow, Live, Granted, Misled

LEMMA SameGranted == ASSUME UNCHANGED <<store, astray>> PROVE UNCHANGED Granted /\ UNCHANGED Misled
BY DEF Granted, Misled

LEMMA UnnoticedStore == ASSUME cr' = cr, UNCHANGED <<store, astray>> PROVE UNCHANGED Lifecycle!vars
BY Unnoticed, SameGranted DEF Applied, Holds

\* The abstract object of KubeNova x.
Object(x) == [gen |-> x.gen, guarded |-> x.finalizer, deleting |-> x.deleting]

LEMMA ObjectGuarded ==
  ASSUME NEW c, NEW x, NEW o, o = Object(c)
  PROVE  [o EXCEPT !.guarded = x.finalizer]
           = [gen |-> c.gen, guarded |-> x.finalizer, deleting |-> c.deleting]
BY DEF Object

LEMMA ObjectEdited ==
  ASSUME NEW c, NEW x, NEW o, o = Object(c)
  PROVE  [o EXCEPT !.gen = x.gen] = [gen |-> x.gen, guarded |-> c.finalizer, deleting |-> c.deleting]
BY DEF Object

LEMMA ObjectGuardedAnew ==
  ASSUME NEW c, NEW x, NEW o, o = Object(c)
  PROVE  [[o EXCEPT !.guarded = x.finalizer] EXCEPT !.gen = x.gen]
           = [gen |-> x.gen, guarded |-> x.finalizer, deleting |-> c.deleting]
<1>1. PICK u : u = [o EXCEPT !.guarded = x.finalizer]
  OBVIOUS
<1>2. u = [gen |-> c.gen, guarded |-> x.finalizer, deleting |-> c.deleting]
  BY <1>1, ObjectGuarded
<1>3. [u EXCEPT !.gen = x.gen] = [gen |-> x.gen, guarded |-> x.finalizer, deleting |-> c.deleting]
  BY <1>2
<1> QED BY <1>1, <1>3

LEMMA ObjectDeleted ==
  ASSUME NEW c, NEW x, NEW o, o = Object(c)
  PROVE  [[o EXCEPT !.deleting = x.deleting] EXCEPT !.gen = x.gen]
           = [gen |-> x.gen, guarded |-> c.finalizer, deleting |-> x.deleting]
<1>1. PICK u : u = [o EXCEPT !.deleting = x.deleting]
  OBVIOUS
<1>2. u = [gen |-> c.gen, guarded |-> c.finalizer, deleting |-> x.deleting]
  BY <1>1 DEF Object
<1>3. [u EXCEPT !.gen = x.gen] = [gen |-> x.gen, guarded |-> c.finalizer, deleting |-> x.deleting]
  BY <1>2
<1> QED BY <1>1, <1>3

LEMMA FlagUpdate ==
  ASSUME NEW o, NEW t \in BOOLEAN, t
  PROVE  /\ [o EXCEPT !.guarded = TRUE] = [o EXCEPT !.guarded = t]
         /\ [o EXCEPT !.deleting = TRUE] = [o EXCEPT !.deleting = t]
OBVIOUS

LEMMA GuardStep ==
  ASSUME PromiseInv, AddFinalizer PROVE Lifecycle!Guard \/ UNCHANGED Lifecycle!vars
<1>1. UNCHANGED <<store, astray>>
  BY DEF AddFinalizer, objVars, objects, history
<1>2. CASE UNCHANGED crVars
  BY <1>1, <1>2, UnnoticedStore DEF crVars
<1>3. CASE ~SeenStale /\ WriteCR(Finalized(Seen))
  <2>1. Seen = cr /\ cr # None /\ cr \in KubeNova /\ ~cr.finalizer /\ ~cr.deleting
    BY <1>3 DEF AddFinalizer, PromiseInv, BindingInv, TypeOK, CRType, NeedsFinalizer
  <2>2. /\ cr' = Finalized(cr) /\ cr' \in KubeNova /\ cr' # None
        /\ cr'.finalizer = TRUE /\ cr'.deleting = cr.deleting /\ cr'.status = cr.status
        /\ cr'.spec = Resent(cr.spec)
        /\ cr'.gen = IF Resent(cr.spec) = cr.spec THEN cr.gen ELSE cr.gen + 1
    <3>1. Finalized(cr) \in KubeNova
      BY <2>1, FinalizedType
    <3> QED BY <1>3, <2>1, <3>1, FinalizedType, ConstantsAssumption DEF WriteCR, Finalized, KubeNova
  <2>e. Lifecycle!Exists
    BY <2>1, Mirrored DEF PromiseInv
  <2> DEFINE mapped == IF cr = None THEN None
                       ELSE [gen |-> cr.gen, guarded |-> cr.finalizer, deleting |-> cr.deleting]
  <2>f. mapped = Object(cr) /\ mapped' = Object(cr')
    BY <2>1, <2>2 DEF Object
  <2> HIDE DEF mapped
  <2>0. cr'.finalizer \in BOOLEAN /\ cr'.finalizer
    BY <2>2 DEF KubeNova
  <2>g. [mapped EXCEPT !.guarded = TRUE] = [mapped EXCEPT !.guarded = cr'.finalizer]
    BY <2>0, FlagUpdate
  <2>h. /\ [mapped EXCEPT !.guarded = cr'.finalizer]
             = [gen |-> cr.gen, guarded |-> cr'.finalizer, deleting |-> cr.deleting]
        /\ [[mapped EXCEPT !.guarded = cr'.finalizer] EXCEPT !.gen = cr'.gen]
             = [gen |-> cr'.gen, guarded |-> cr'.finalizer, deleting |-> cr.deleting]
    <3>1. PICK m : m = mapped
      OBVIOUS
    <3>2. m = Object(cr)
      BY <2>f, <3>1
    <3>3. [m EXCEPT !.guarded = cr'.finalizer]
            = [gen |-> cr.gen, guarded |-> cr'.finalizer, deleting |-> cr.deleting]
      BY <3>2, ObjectGuarded
    <3>4. [[m EXCEPT !.guarded = cr'.finalizer] EXCEPT !.gen = cr'.gen]
            = [gen |-> cr'.gen, guarded |-> cr'.finalizer, deleting |-> cr.deleting]
      BY <3>2, ObjectGuardedAnew
    <3> QED BY <3>1, <3>3, <3>4
  <2>i. mapped.gen = cr.gen
    BY <2>f DEF Object
  <2>3. CASE Resent(cr.spec) = cr.spec
    <3>1. cr'.gen = cr.gen /\ cr'.spec = cr.spec
      BY <2>2, <2>3
    <3>2. (Applied(cr.spec))' <=> Applied(cr.spec)
      BY <1>1, <3>1 DEF Applied, Holds
    <3>3. ReadyNow' <=> ReadyNow
      BY <2>1, <2>2, <3>1 DEF ReadyNow, Live
    <3>4. mapped' = [mapped EXCEPT !.guarded = TRUE]
      BY <2>2, <2>f, <2>g, <2>h, <3>1 DEF Object
    <3>5. UNCHANGED <<Granted, Misled, cr # None /\ Applied(cr.spec), ReadyNow>>
      BY <1>1, <2>1, <2>2, <3>2, <3>3, SameGranted
    <3>6. mapped # None /\ ~mapped.guarded /\ ~mapped.deleting
      BY <2>1, <2>e, <2>f DEF mapped, Object, Lifecycle!Exists
    <3> QED BY <3>4, <3>5, <3>6, Zenon DEF mapped, Granted, Misled, Lifecycle!Guard, Lifecycle!Exists
  <2>4. CASE Resent(cr.spec) # cr.spec
    <3>1. cr'.gen = cr.gen + 1
      BY <2>2, <2>4
    <3>2. ~ReadyNow'
      <4>1. /\ cr.gen \in Nat /\ cr.status.og \in Nat
            /\ cr.status.phase = "Ready" => cr.status.og <= cr.gen
        BY <2>1 DEF PromiseInv, CopiesInv, Older, KubeNova, Status
      <4> QED BY <2>2, <3>1, <4>1 DEF ReadyNow
    <3>3. mapped' = [[mapped EXCEPT !.guarded = TRUE] EXCEPT !.gen = mapped.gen + 1]
      BY <2>2, <2>f, <2>g, <2>h, <2>i, <3>1 DEF Object
    <3>4. /\ (cr # None /\ Applied(cr.spec))' \in BOOLEAN /\ ReadyNow' = FALSE
          /\ UNCHANGED Granted /\ UNCHANGED Misled
      BY <1>1, <3>2, SameGranted
    <3>5. mapped # None /\ ~mapped.guarded /\ ~mapped.deleting
      BY <2>1, <2>e, <2>f DEF mapped, Object, Lifecycle!Exists
    <3> QED BY <3>3, <3>4, <3>5, Zenon
            DEF mapped, Granted, Misled, Lifecycle!Guard, Lifecycle!NewGeneration, Lifecycle!Exists
  <2> QED BY <2>3, <2>4
<1> QED BY <1>2, <1>3 DEF AddFinalizer

\* Creating and updating never takes anything from a Ready KubeNova; what an
\* outdated copy hides is left out of the promise.
LEMMA WorkStep ==
  ASSUME PromiseInv, PromiseInv', NEW o \in Objects, Stage(o)
  PROVE  Lifecycle!Work \/ Lifecycle!Mislead
<1>1. pc = "ensure" /\ UNCHANGED crVars /\ Wrote(o)
  BY StageEffect DEF PromiseInv
<1>2. cr' = cr /\ cr # None /\ cr.finalizer /\ Lifecycle!Exists
  BY <1>1, Mirrored DEF crVars, PromiseInv, BindingInv
<1>3. UNCHANGED ReadyNow /\ (ReadyNow => Applied(cr.spec)')
  BY <1>2 DEF ReadyNow, Live, PromiseInv, AppliedInv, ReadyIsDone
<1>4. CASE Granted => Granted'
  BY <1>2, <1>3, <1>4 DEF Lifecycle!Work, Granted
<1>5. CASE Granted /\ ~Granted'
  <2>1. ClusterRoleBinding \in Objects
    BY DEF Objects
  <2>2. astray' # {}
    BY <1>1, <1>5, <2>1 DEF Wrote, Good, Asked, Granted
  <2> QED BY <1>2, <1>3, <1>5, <2>2 DEF Lifecycle!Mislead, Granted
<1> QED BY <1>4, <1>5

LEMMA ReportStep ==
  ASSUME PromiseInv, PromiseInv', UpdateStatus
  PROVE  Lifecycle!Announce \/ Lifecycle!Retract \/ UNCHANGED Lifecycle!vars
<1>1. UNCHANGED <<store, astray>>
  BY DEF UpdateStatus, objVars, objects, history
<1>2. CASE UNCHANGED crVars
  BY <1>1, <1>2, UnnoticedStore DEF crVars
<1>3. CASE Seen # None /\ ~SeenStale /\ WriteCR(StatusCopiedTo(Seen, kubenova))
  <2>1. Seen = cr /\ cr # None /\ cr \in KubeNova
    BY <1>3 DEF PromiseInv, BindingInv, TypeOK, CRType
  <2>2. /\ cr'.gen = cr.gen /\ cr'.spec = cr.spec /\ cr'.deleting = cr.deleting
        /\ cr'.finalizer = cr.finalizer /\ cr' # None
    <3>1. kubenova \in KubeNova /\ StatusCopiedTo(cr, kubenova) \in KubeNova
      BY <2>1, StatusType DEF UpdateStatus, PromiseInv, TypeOK, PassType, Phases
    <3> QED BY <1>3, <2>1, <3>1, ConstantsAssumption DEF WriteCR, StatusCopiedTo, KubeNova
  <2>3. Applied(cr.spec)' <=> Applied(cr.spec)
    BY <1>1, <2>2 DEF Applied, Holds
  <2>4. CASE ReadyNow'
    <3>1. Applied(cr.spec) /\ cr.finalizer /\ ~cr.deleting
      BY <2>2, <2>3, <2>4 DEF PromiseInv, AppliedInv, ReadyIsDone, ReadyNow, Live
    <3>2. Lifecycle!Exists
      BY <2>1, Mirrored DEF PromiseInv
    <3> QED BY <1>1, <2>1, <2>2, <2>3, <2>4, <3>1, <3>2 DEF Lifecycle!Announce
  <2>5. CASE ~ReadyNow'
    <3>1. ReadyNow' = FALSE
      BY <2>5
    <3> QED BY <1>1, <2>1, <2>2, <2>3, <3>1 DEF Lifecycle!Retract
  <2> QED BY <2>4, <2>5
<1> QED BY <1>2, <1>3 DEF UpdateStatus

\* The binding goes, or the pass could not see that it is there.
LEMMA BindingGoes ==
  ASSUME TypeOK, Synced, DeleteBinding
  PROVE  /\ cr' = cr
         /\ UNCHANGED <<store, astray>> \/ Granted' = FALSE
         /\ UNCHANGED store \/ store'[ClusterRoleBinding] = None
<1>1. cr' = cr /\ ClusterRoleBinding \in Objects
  BY DEF DeleteBinding, crVars, Objects
<1>2. CASE UNCHANGED store /\ View(ClusterRoleBinding) = None
           /\ Trusted(ClusterRoleBinding, store[ClusterRoleBinding] = None)
  <2>1. ~Outdated(ClusterRoleBinding) => store[ClusterRoleBinding] = None
    BY <1>1, <1>2, ViewOfSynced
  <2> QED BY <1>1, <1>2, <2>1 DEF Trusted, Granted
<1>3. CASE UNCHANGED store /\ Taken({ClusterRoleBinding})
  BY <1>1, <1>3 DEF Taken, Granted
<1>4. CASE Put(ClusterRoleBinding, None)
  BY <1>1, <1>4 DEF Put, Granted, TypeOK, ObjType
<1> QED BY <1>1, <1>2, <1>3, <1>4 DEF DeleteBinding, objVars, objects, history

LEMMA RevokeStep ==
  ASSUME PromiseInv, PromiseInv', DeleteBinding
  PROVE  Lifecycle!Revoke \/ Lifecycle!Mislead \/ UNCHANGED Lifecycle!vars
<1>1. /\ cr' = cr
      /\ UNCHANGED <<store, astray>> \/ Granted' = FALSE
      /\ UNCHANGED store \/ store'[ClusterRoleBinding] = None
  BY BindingGoes DEF PromiseInv
<1>2. UNCHANGED ReadyNow /\ (ReadyNow => cr # None /\ Applied(cr.spec)')
  BY <1>1 DEF ReadyNow, Live, PromiseInv, AppliedInv, ReadyIsDone
<1>3. CASE UNCHANGED <<store, astray>>
  BY <1>1, <1>3, UnnoticedStore
<1>4. CASE ~UNCHANGED <<store, astray>> /\ (astray # {} \/ astray' # {})
  <2>1. cr # None => Lifecycle!Exists
    BY Mirrored DEF PromiseInv
  <2> QED BY <1>1, <1>2, <1>4, <2>1 DEF Lifecycle!Mislead, Granted
<1>5. CASE ~UNCHANGED <<store, astray>> /\ astray = {} /\ astray' = {}
  <2>1. store'[ClusterRoleBinding] = None
    BY <1>1, <1>5
  <2>2. ~UNCHANGED store
    BY <1>5
  <2>3. store[ClusterRoleBinding] # None
    <3>1. Put(ClusterRoleBinding, None)
      BY <2>2 DEF DeleteBinding, objVars, objects
    <3> QED BY <2>2, <3>1 DEF Put, PromiseInv, TypeOK, ObjType
  <2>4. cr # None /\ cr.finalizer /\ cr.deleting
    BY <1>5, <2>3 DEF DeleteBinding, PromiseInv, BindingInv, BindingHandled, BindingGuarded, Released
  <2>5. ~Applied(cr.spec)'
    BY <1>5, <2>1 DEF Applied, Plan, Holds
  <2>6. Granted' = FALSE /\ (cr # None /\ Applied(cr.spec))' = FALSE
    BY <1>1, <1>5, <2>2, <2>5
  <2> QED BY <1>1, <1>2, <1>5, <2>4, <2>6 DEF Lifecycle!Revoke, Lifecycle!Exists, Granted
<1> QED BY <1>3, <1>4, <1>5

LEMMA ReleaseStep ==
  ASSUME PromiseInv, RemoveFinalizer PROVE Lifecycle!Release \/ UNCHANGED Lifecycle!vars
<1>1. UNCHANGED <<store, astray>>
  BY DEF RemoveFinalizer, objVars, objects, history
<1>2. CASE UNCHANGED crVars
  BY <1>1, <1>2, UnnoticedStore DEF crVars
<1>3. CASE cr # None /\ cr.uid = kubenova.uid /\ WriteCR(None)
  <2>1. cr.deleting
    BY <1>3 DEF RemoveFinalizer, PromiseInv, CopiesInv, Fits, Older, TypeOK, PassType
  <2>2. cr.finalizer /\ Granted = FALSE
    BY <1>3, <2>1 DEF RemoveFinalizer, PromiseInv, BindingInv, Marked, Granted
  <2>3. cr' = None /\ cr \in KubeNova
    BY <1>3 DEF WriteCR, PromiseInv, TypeOK, CRType
  <2>4. Lifecycle!Exists
    BY <1>3, Mirrored DEF PromiseInv
  <2> QED BY <1>1, <1>3, <2>1, <2>2, <2>3, <2>4
          DEF Lifecycle!Release, Lifecycle!Vanish, ReadyNow, Live, Granted
<1> QED BY <1>2, <1>3 DEF RemoveFinalizer

LEMMA CreateStep == ASSUME PromiseInv, CreateCR PROVE Lifecycle!Create
<1>1. /\ cr = None /\ UNCHANGED <<store, astray>>
      /\ store[ClusterRoleBinding] = None \/ ClusterRoleBinding \in astray
  BY DEF CreateCR, objVars, objects, history, PromiseInv, BindingInv, BindingHandled, BindingGuarded
<1>2. PICK spec \in Specs :
        WriteCR([uid |-> uids + 1, gen |-> 1, spec |-> spec, finalizer |-> FALSE,
                 deleting |-> FALSE, status |-> InitialStatus])
  BY DEF CreateCR
<1>3. cr' # None
  <2> DEFINE new == [uid |-> uids + 1, gen |-> 1, spec |-> spec, finalizer |-> FALSE,
                     deleting |-> FALSE, status |-> InitialStatus]
  <2>1. uids + 1 \in Nat
    BY DEF CreateCR, PromiseInv, TypeOK, BudgetType
  <2>2. InitialStatus \in Status
    BY DEF InitialStatus, Status, Phases, Conditions
  <2>3. new \in KubeNova
    BY <2>1, <2>2 DEF KubeNova
  <2>4. cr' = new
    BY <1>2 DEF WriteCR
  <2> HIDE DEF new
  <2> QED BY <2>3, <2>4, ConstantsAssumption
<1>4. cr'.gen = 1 /\ cr'.finalizer = FALSE /\ cr'.deleting = FALSE /\ cr'.status.phase = "none"
  BY <1>2 DEF WriteCR, InitialStatus
<1>5. ~ReadyNow' /\ (Applied(cr.spec)' => Misled)
  BY <1>1, <1>4 DEF Applied, Plan, Holds, ReadyNow, Misled
<1> DEFINE mapped == IF cr = None THEN None
                     ELSE [gen |-> cr.gen, guarded |-> cr.finalizer, deleting |-> cr.deleting]
           applied == cr # None /\ Applied(cr.spec)
<1>6. mapped = None /\ mapped' = [gen |-> 1, guarded |-> FALSE, deleting |-> FALSE]
  BY <1>1, <1>3, <1>4
<1>7. applied' = FALSE \/ applied' = Misled
  <2>1. applied' => Misled
    BY <1>5
  <2> HIDE DEF applied
  <2>2. applied' \in BOOLEAN /\ Misled \in BOOLEAN
    BY Zenon DEF applied, Misled
  <2> QED BY <2>1, <2>2
<1>8. ReadyNow' = FALSE /\ UNCHANGED Granted /\ UNCHANGED Misled
  BY <1>1, <1>5, SameGranted
<1> QED BY <1>6, <1>7, <1>8, Zenon DEF Lifecycle!Create, Lifecycle!Exists, Granted, Misled

LEMMA EditStep == ASSUME PromiseInv, EditSpec PROVE Lifecycle!Edit
<1>1. cr # None /\ cr \in KubeNova /\ UNCHANGED <<store, astray>>
  BY DEF EditSpec, UserWrite, objVars, objects, history, PromiseInv, TypeOK, CRType
<1>2. PICK spec \in Specs : cr' = [cr EXCEPT !.spec = spec, !.gen = @ + 1]
  BY DEF EditSpec, UserWrite, WriteCR
<1>3. cr' # None /\ cr'.gen = cr.gen + 1 /\ cr'.finalizer = cr.finalizer
      /\ cr'.deleting = cr.deleting /\ cr'.status = cr.status
  <2>1. [cr EXCEPT !.spec = spec, !.gen = @ + 1] \in KubeNova
    BY <1>1, EditType
  <2>2. cr' # None
    BY <1>2, <2>1, ConstantsAssumption
  <2> QED BY <1>1, <1>2, <2>2 DEF KubeNova
<1>4. ~ReadyNow'
  <2>1. /\ cr.gen \in Nat /\ cr.status.og \in Nat
        /\ cr.status.phase = "Ready" => cr.status.og <= cr.gen
    BY <1>1 DEF PromiseInv, CopiesInv, Older, KubeNova, Status
  <2> QED BY <1>3, <2>1 DEF ReadyNow
<1> DEFINE mapped == IF cr = None THEN None
                     ELSE [gen |-> cr.gen, guarded |-> cr.finalizer, deleting |-> cr.deleting]
<1>5. mapped = Object(cr) /\ mapped' = Object(cr') /\ mapped # None
  BY <1>1, <1>3, Mirrored DEF Object, PromiseInv, Lifecycle!Exists
<1> HIDE DEF mapped
<1>6. mapped' = [mapped EXCEPT !.gen = mapped.gen + 1]
  <2>1. PICK m : m = mapped
    OBVIOUS
  <2>2. m = Object(cr) /\ m.gen = cr.gen
    BY <1>5, <2>1 DEF Object
  <2>3. [m EXCEPT !.gen = cr'.gen] = [gen |-> cr'.gen, guarded |-> cr.finalizer, deleting |-> cr.deleting]
    BY <2>2, ObjectEdited
  <2> QED BY <1>3, <1>5, <2>1, <2>2, <2>3 DEF Object
<1>7. /\ (cr # None /\ Applied(cr.spec))' \in BOOLEAN /\ ReadyNow' = FALSE
      /\ UNCHANGED Granted /\ UNCHANGED Misled
  BY <1>1, <1>4, SameGranted
<1> QED BY <1>5, <1>6, <1>7, Zenon
        DEF mapped, Granted, Misled, Lifecycle!Edit, Lifecycle!NewGeneration, Lifecycle!Exists

LEMMA DeleteStep == ASSUME PromiseInv, DeleteCR PROVE Lifecycle!Delete
<1>1. cr # None /\ cr \in KubeNova /\ ~cr.deleting /\ UNCHANGED <<store, astray>>
  BY DEF DeleteCR, UserWrite, objVars, objects, history, PromiseInv, TypeOK, CRType
<1> DEFINE mapped == IF cr = None THEN None
                     ELSE [gen |-> cr.gen, guarded |-> cr.finalizer, deleting |-> cr.deleting]
<1>2. mapped = Object(cr) /\ mapped # None
  BY <1>1, Mirrored DEF Object, PromiseInv, Lifecycle!Exists
<1>3. mapped.gen = cr.gen /\ mapped.guarded = cr.finalizer /\ ~mapped.deleting
  BY <1>1, <1>2 DEF Object
<1>4. UNCHANGED Granted /\ UNCHANGED Misled
  BY <1>1, SameGranted
<1>5. CASE cr.finalizer
  <2>1. cr' = [cr EXCEPT !.deleting = TRUE, !.gen = @ + 1]
    BY <1>5 DEF DeleteCR, UserWrite, WriteCR
  <2>2. /\ cr' # None /\ cr'.gen = cr.gen + 1 /\ cr'.finalizer = cr.finalizer
        /\ cr'.deleting \in BOOLEAN /\ cr'.deleting
    <3>1. cr.spec \in Specs
      BY <1>1 DEF KubeNova
    <3>2. [cr EXCEPT !.deleting = TRUE, !.gen = @ + 1] \in KubeNova
      BY <1>1, <3>1, EditType
    <3>3. cr' # None
      BY <2>1, <3>2, ConstantsAssumption
    <3> QED BY <1>1, <2>1, <3>3 DEF KubeNova
  <2>3. mapped' = Object(cr')
    BY <2>2 DEF Object
  <2> HIDE DEF mapped
  <2>4. mapped' = [[mapped EXCEPT !.deleting = TRUE] EXCEPT !.gen = mapped.gen + 1]
    <3>1. PICK m : m = mapped
      OBVIOUS
    <3>2. m = Object(cr)
      BY <1>2, <3>1
    <3>3. [[m EXCEPT !.deleting = cr'.deleting] EXCEPT !.gen = cr'.gen]
            = [gen |-> cr'.gen, guarded |-> cr.finalizer, deleting |-> cr'.deleting]
      BY <3>2, ObjectDeleted
    <3>4. [mapped EXCEPT !.deleting = TRUE] = [mapped EXCEPT !.deleting = cr'.deleting]
      BY <2>2, FlagUpdate
    <3> QED BY <1>3, <2>2, <2>3, <3>1, <3>3, <3>4 DEF Object
  <2>5. (cr # None /\ Applied(cr.spec))' \in BOOLEAN /\ ReadyNow' = FALSE
    BY <2>2 DEF ReadyNow, Live
  <2> QED BY <1>2, <1>3, <1>4, <1>5, <2>4, <2>5, Zenon
          DEF mapped, Granted, Misled, Lifecycle!Delete, Lifecycle!NewGeneration, Lifecycle!Exists
<1>6. CASE ~cr.finalizer
  <2>1. cr' = None /\ ReadyNow' = FALSE
    BY <1>6 DEF DeleteCR, UserWrite, WriteCR, ReadyNow, Live
  <2> QED BY <1>1, <1>2, <1>3, <1>4, <1>6, <2>1
          DEF Granted, Misled, Lifecycle!Delete, Lifecycle!Vanish, Lifecycle!Exists
<1> QED BY <1>5, <1>6

\* Pods change nothing that was promised; what others delete is left out.
LEMMA ClusterEffect ==
  ASSUME TypeOK, Cluster
  PROVE  /\ cr' = cr
         /\ \/ /\ UNCHANGED astray
               /\ \A o \in Objects : /\ store'[o] # None => store[o] # None
                                     /\ store[o] # None =>
                                          store'[o] # None /\ store'[o].content = store[o].content
            \/ /\ \A o \in Objects : store'[o] # None => store[o] # None
               /\ IF cr = None THEN UNCHANGED astray ELSE astray \subseteq astray' /\ astray' # {}
<1>1. ASSUME NEW d \in Deployments, NEW b \in BOOLEAN, store[d] # None,
             ClusterWrite(d, [store[d] EXCEPT !.ready = b])
      PROVE  /\ cr' = cr
             /\ \A o \in Objects : /\ store'[o] # None => store[o] # None
                                   /\ store[o] # None =>
                                        store'[o] # None /\ store'[o].content = store[o].content
  <2> DEFINE x == [store[d] EXCEPT !.ready = b]
  <2>1. d \in Objects /\ store[d] \in Stored
    BY <1>1, DeploymentObjects DEF TypeOK, ObjType
  <2>2. x \in Stored /\ x.content = store[d].content
    BY <2>1 DEF Stored
  <2>3. store' = [store EXCEPT ![d] = x] /\ cr' = cr
    BY <1>1 DEF ClusterWrite, PutAndQueue, Put, crVars
  <2> HIDE DEF x
  <2> QED BY <1>1, <2>1, <2>2, <2>3, ConstantsAssumption DEF TypeOK, ObjType
<1>2. CASE \E d \in Deployments : PodsProgress(d) \/ PodsFail(d)
  BY <1>1, <1>2 DEF PodsProgress, PodsFail
<1>3. CASE \E o \in Objects : Drift(o)
  BY <1>3 DEF Drift, ClusterWrite, PutAndQueue, Put, Taken, TypeOK, ObjType, crVars
<1>4. ASSUME NEW k \in Kinds, GarbageCollect(k)
      PROVE  /\ cr' = cr
             /\ \A o \in Objects : store'[o] # None => store[o] # None
             /\ IF cr = None THEN UNCHANGED astray ELSE astray \subseteq astray' /\ astray' # {}
  BY <1>4 DEF GarbageCollect, Taken, TypeOK, ObjType, crVars
<1> QED BY <1>2, <1>3, <1>4 DEF Cluster

LEMMA EnvironmentStep ==
  ASSUME PromiseInv, PromiseInv', Cluster
  PROVE  Lifecycle!Mislead \/ UNCHANGED Lifecycle!vars
<1>0. cr' = cr /\ ClusterRoleBinding \in Objects
  BY ClusterEffect DEF PromiseInv, Objects
<1>1. CASE /\ UNCHANGED astray
           /\ \A o \in Objects : /\ store'[o] # None => store[o] # None
                                 /\ store[o] # None =>
                                      store'[o] # None /\ store'[o].content = store[o].content
  <2>a. UNCHANGED astray /\ (store'[ClusterRoleBinding] # None <=> store[ClusterRoleBinding] # None)
    BY <1>0, <1>1
  <2>1. UNCHANGED Granted /\ UNCHANGED Misled
    BY <2>a, Zenon DEF Granted, Misled
  <2>2. cr # None => Plan(cr.spec) \subseteq Objects
    BY PlanType DEF PromiseInv, TypeOK, CRType, KubeNova
  <2>b. ASSUME NEW o \in Objects PROVE Holds(o, cr.spec)' <=> Holds(o, cr.spec)
    BY <1>0, <1>1 DEF Holds
  <2>3. cr # None => (Applied(cr.spec)' <=> Applied(cr.spec))
    BY <2>a, <2>b, <2>2, <1>0 DEF Applied
  <2> QED BY <1>0, <2>1, <2>3, Unnoticed
<1>2. CASE cr = None /\ UNCHANGED astray /\ \A o \in Objects : store'[o] # None => store[o] # None
  <2>1. UNCHANGED Granted /\ UNCHANGED Misled
    BY <1>0, <1>2 DEF Granted, Misled, PromiseInv, BindingInv, BindingHandled, BindingGuarded
  <2> QED BY <1>0, <1>2, <2>1, Unnoticed
<1>3. CASE /\ cr # None /\ astray \subseteq astray' /\ astray' # {}
           /\ \A o \in Objects : store'[o] # None => store[o] # None
  <2>1. UNCHANGED ReadyNow /\ (ReadyNow => Applied(cr.spec)')
    BY <1>0 DEF ReadyNow, Live, PromiseInv, AppliedInv, ReadyIsDone
  <2>2. Lifecycle!Exists
    BY <1>3, Mirrored DEF PromiseInv
  <2>3. Granted' => Granted
    BY <1>0, <1>3 DEF Granted
  <2> QED BY <1>0, <1>3, <2>1, <2>2, <2>3 DEF Lifecycle!Mislead, Granted
<1> QED BY <1>1, <1>2, <1>3, ClusterEffect DEF PromiseInv

\* The rest only computes, delivers or forgets.
LEMMA SilentStep ==
  ASSUME \/ ReconcileGone \/ ReconcileSkip \/ ReconcileValidation \/ BeginDelete
         \/ ReconcileNamespace \/ \E d \in Deployments : ReadComponent(d)
         \/ Informers \/ TimerFires \/ Crash \/ UNCHANGED vars
  PROVE  UNCHANGED Lifecycle!vars
<1>1. cr' = cr /\ UNCHANGED <<store, astray>>
  BY DEF ReconcileGone, ReconcileSkip, ReconcileValidation, BeginDelete, ReconcileNamespace,
     ReadComponent, Judged, Informers, SyncCR, SyncKind, TimerFires, Crash,
     vars, crVars, objVars, objects, history
<1> QED BY <1>1, UnnoticedStore

LEMMA PromiseStep ==
  ASSUME PromiseInv, PromiseInv', [Next]_vars
  PROVE  [Lifecycle!Next]_Lifecycle!vars
<1>1. CASE ReconcileRBAC \/ ReconcileSecret \/ ReconcileConfigMaps \/ ReconcileServices \/ ReconcileWeb
  <2>1. PICK o \in Objects : Ensure(o)
    BY <1>1 DEF ReconcileRBAC, ReconcileSecret, ReconcileConfigMaps, ReconcileServices, ReconcileWeb,
       Objects, Workloads, NginxConfigMap
  <2> QED BY <2>1, WorkStep DEF Stage, Lifecycle!Next
<1>2. CASE UpdateDeployment
  <2>1. target \in Objects
    BY <1>2 DEF UpdateDeployment, PromiseInv, TypeOK, PassType
  <2> QED BY <1>2, <2>1, WorkStep DEF Stage, Lifecycle!Next
<1>3. CASE AddFinalizer \/ UpdateStatus \/ DeleteBinding \/ RemoveFinalizer
  BY <1>3, GuardStep, ReportStep, RevokeStep, ReleaseStep DEF Lifecycle!Next
<1>4. CASE Users
  BY <1>4, CreateStep, EditStep, DeleteStep DEF Users, Lifecycle!Next
<1>5. CASE \/ ReconcileGone \/ ReconcileSkip \/ ReconcileValidation \/ BeginDelete
           \/ ReconcileNamespace \/ \E d \in Deployments : ReadComponent(d)
           \/ Informers \/ TimerFires \/ Crash \/ UNCHANGED vars
  BY <1>5, SilentStep
<1>6. CASE Cluster
  BY <1>6, EnvironmentStep DEF Lifecycle!Next
<1> QED BY <1>1, <1>2, <1>3, <1>4, <1>5, <1>6 DEF Next, Worker

\* The reconciler implements what KubeNovaLifecycle promises, through edits,
\* re-creation, outages, failed calls, restarts and informers that are late for
\* any kind: finalizer before grant, no announcement before the cluster holds
\* the spec, no release before the grant is taken back, but for objects that a
\* third party took or that a pass could not see as they were (Reconcile,
\* reconcileDelete, updateStatusWithRetry).
THEOREM PromisesKept == Spec => ImplementsLifecycle
<1>1. Init => Lifecycle!Init
  BY DEF Init, Lifecycle!Init, ReadyNow, Live, Objects
<1>2. PromiseInv /\ PromiseInv' /\ [Next]_vars => [Lifecycle!Next]_Lifecycle!vars
  BY PromiseStep
<1> QED BY <1>1, <1>2, PromiseInvariant, PTL DEF Spec, ImplementsLifecycle, Lifecycle!Spec
=============================================================================
