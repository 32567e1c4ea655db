--------------------------- MODULE KubeNovaLifecycle ---------------------------
(***************************************************************************)
(* What the operator promises whoever writes a KubeNova, without queue,    *)
(* informers, passes and retries: the object is guarded before anything is *)
(* granted for it, it is called ready only when the cluster holds what its *)
(* latest generation asks for, and it goes away only after what was        *)
(* granted has been taken back.  Objects that a third party took, or that  *)
(* the operator could not see as they were, are left out of the promise.   *)
(* Module Reconciler implements this.                                      *)
(***************************************************************************)
EXTENDS Naturals

CONSTANT None

VARIABLES
  object,   \* the KubeNova: generation, guarded by the finalizer, deleting; or None
  granted,  \* does its cluster-admin binding exist?
  applied,  \* does the cluster hold what the latest generation asks for?
  ready,    \* is it said to be ready for the latest generation?
  misled    \* is any object left out of the promise?

vars == <<object, granted, applied, ready, misled>>

Exists == object # None

Init ==
  /\ object = None /\ granted = FALSE /\ applied = FALSE /\ ready = FALSE
  /\ misled = FALSE

\* A new generation: what was true of the one before need not be of this one.
NewGeneration(o) ==
  /\ object' = [o EXCEPT !.gen = object.gen + 1]
  /\ applied' \in BOOLEAN /\ ready' = FALSE
  /\ UNCHANGED <<granted, misled>>

-----------------------------------------------------------------------------
(* The user.                                                               *)

Create ==
  /\ ~Exists
  /\ object' = [gen |-> 1, guarded |-> FALSE, deleting |-> FALSE]
  /\ applied' \in {FALSE, misled} /\ ready' = FALSE
  /\ UNCHANGED <<granted, misled>>

Edit == Exists /\ NewGeneration(object)

Vanish == object' = None /\ applied' = FALSE /\ ready' = FALSE

\* Nothing holds an unguarded object back.
Delete ==
  /\ Exists /\ ~object.deleting
  /\ \/ object.guarded /\ NewGeneration([object EXCEPT !.deleting = TRUE])
     \/ ~object.guarded /\ Vanish /\ UNCHANGED <<granted, misled>>

-----------------------------------------------------------------------------
(* The operator.                                                           *)

\* The finalizer is set, and the spec may come back with a default filled in.
Guard ==
  /\ Exists /\ ~object.guarded /\ ~object.deleting
  /\ LET o == [object EXCEPT !.guarded = TRUE] IN
       \/ object' = o /\ UNCHANGED <<granted, applied, ready, misled>>
       \/ NewGeneration(o)

\* Objects are created and updated, never away from what a ready object has.
Work ==
  /\ Exists /\ object.guarded
  /\ granted' \in {granted, TRUE}
  /\ applied' \in BOOLEAN /\ (ready => applied')
  /\ misled' \in BOOLEAN
  /\ UNCHANGED <<object, ready>>

Announce ==
  /\ Exists /\ object.guarded /\ ~object.deleting
  /\ applied /\ ready' = TRUE
  /\ UNCHANGED <<object, granted, applied, misled>>

\* A pass that began before the announcement reports a failure of its own.
Retract == ready' = FALSE /\ UNCHANGED <<object, granted, applied, misled>>

\* Taken back only from an object that is on its way out.
Revoke ==
  /\ Exists => object.deleting
  /\ granted' = FALSE /\ applied' = FALSE
  /\ misled' \in BOOLEAN
  /\ UNCHANGED <<object, ready>>

\* The cluster cleans up behind a vanished object, or behind one that goes.
Release ==
  /\ Exists /\ object.guarded /\ object.deleting /\ ~granted
  /\ Vanish /\ UNCHANGED <<granted, misled>>

-----------------------------------------------------------------------------
\* A third party takes an object, or the operator cannot see one as it is: until
\* that is mended the object is left out of the promise.
Mislead ==
  /\ misled \/ misled'
  /\ granted' \in {granted, FALSE}
  /\ applied' \in BOOLEAN /\ (Exists \/ ~applied') /\ (ready => applied')
  /\ misled' \in BOOLEAN
  /\ UNCHANGED <<object, ready>>

-----------------------------------------------------------------------------
Next ==
  \/ Create \/ Edit \/ Delete
  \/ Guard \/ Work \/ Announce \/ Retract \/ Revoke \/ Release
  \/ Mislead

Spec == Init /\ [][Next]_vars
=============================================================================
