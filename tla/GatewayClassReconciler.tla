----------------------- MODULE GatewayClassReconciler -----------------------
(***************************************************************************)
(* The GatewayClass reconciler, for one class name: it keeps the           *)
(* GatewaysExist finalizer while the cached Gateways name the class, and   *)
(* records in the status whether the installed CRD bundle is supported and *)
(* the class accepted.  Reads of the cache, the live list of CRDs and the  *)
(* optimistic patches are separate steps; a class is reconciled only when  *)
(* a watch or a requeue puts its key into the queue.                       *)
(***************************************************************************)
EXTENDS Integers, FiniteSets

CONSTANTS Gateways,         \* Gateways that may name the class
          MaxClasses,       \* how often the class is created
          MaxEdits,         \* edits and deletions of the class
          MaxReferences,    \* changes to which Gateways name the class
          MaxBundleChanges,
          MaxTampers,       \* conditions removed by someone else
          MaxFailures       \* CRD lists that fail

ASSUME BoundsAssumption == MaxClasses \in Nat \ {0} /\ MaxEdits \in Nat

VARIABLES cls,      \* the live class
          uses,     \* the live Gateways that name it
          bundle,   \* the installed CRD bundle is the supported one
          cache,    \* the informers' class and Gateways; fresh: class up to date
          event,    \* a CRD event is on its way
          queued,   \* the workqueue holds the class
          rec,      \* the reconciliation under way
          spent     \* environment steps taken, per kind

vars == <<cls, uses, bundle, cache, event, queued, rec, spent>>

NoCondition == <<"none", 0>>
Absent == [uid |-> 0, gen |-> 0, ours |-> FALSE, params |-> FALSE, deleting |-> FALSE,
           fin |-> FALSE, other |-> FALSE, sup |-> NoCondition, acc |-> NoCondition]
Created(u, ours, params, other) ==
    [Absent EXCEPT !.uid = u, !.gen = 1, !.ours = ours, !.params = params, !.other = other]
Idle == [pc |-> "idle", cls |-> Absent, fresh |-> FALSE, fin |-> FALSE,
         sup |-> NoCondition, acc |-> NoCondition, requeue |-> FALSE]

Init ==
    /\ \E params \in BOOLEAN : cls = Created(1, TRUE, params, FALSE)
    /\ uses = {} /\ bundle \in BOOLEAN
    /\ cache = [cls |-> cls, uses |-> uses, fresh |-> TRUE]
    /\ event = FALSE /\ queued = TRUE /\ rec = Idle
    /\ spent = [classes |-> 1, edits |-> 0, refs |-> 0, bundle |-> 0, tampers |-> 0,
                failures |-> 0]

Spend(kind, max) == spent[kind] < max /\ spent' = [spent EXCEPT ![kind] = @ + 1]

(* Every write makes the copies read before it stale. *)
WriteClass(c) == cls' = c /\ cache' = [cache EXCEPT !.fresh = (c = cls) /\ @]
Quiet == UNCHANGED <<cls, uses, bundle, cache, event, spent>>

-----------------------------------------------------------------------------
(* newGatewayClassScope and reconcileGatewayClassReferences.  A changed      *)
(* finalizer is all that this reconciliation writes; a deleted class without *)
(* Gateways needs nothing else.                                              *)
hasReferencingGateways == cache.uses # {}

Reconcile ==
    /\ rec.pc = "idle" /\ queued
    /\ queued' = FALSE
    /\ LET c == cache.cls
           scope == [Idle EXCEPT !.cls = c, !.fresh = cache.fresh, !.fin = hasReferencingGateways]
       IN  rec' = IF c = Absent \/ ~c.ours THEN Idle
                  ELSE IF c.fin # hasReferencingGateways THEN [scope EXCEPT !.pc = "metadata"]
                  ELSE IF c.deleting /\ ~hasReferencingGateways THEN Idle
                  ELSE [scope EXCEPT !.pc = "observe"]
    /\ Quiet

(* Mutant of Observed: an unsupported bundle leaves the Accepted condition alone. *)
ObservedKeepsAccepted(c) ==
    [sup |-> <<IF bundle THEN "True" ELSE "False", c.gen>>,
     acc |-> IF bundle THEN <<IF c.params THEN "False" ELSE "True", c.gen>> ELSE c.acc]

(* reconcileGatewayClassStatus, from the live list of CRDs. *)
Observed(c) ==
    [sup |-> <<IF bundle THEN "True" ELSE "False", c.gen>>,
     acc |-> <<IF bundle /\ ~c.params THEN "True" ELSE "False", c.gen>>]

ObserveGatewayAPIVersion ==
    /\ rec.pc = "observe"
    /\ rec' = [rec EXCEPT !.pc = "status", !.requeue = ~bundle,
                          !.sup = Observed(rec.cls).sup, !.acc = Observed(rec.cls).acc]
    /\ UNCHANGED queued /\ Quiet

ObserveFailure ==
    /\ rec.pc = "observe" /\ Spend("failures", MaxFailures)
    /\ rec' = Idle /\ queued' = TRUE
    /\ UNCHANGED <<cls, uses, bundle, cache, event>>

(* patchGatewayClass, deferred.  The API server takes no new finalizer on an *)
(* object under deletion, and removes the object with its last one.          *)
PatchMetadata ==
    /\ rec.pc = "metadata"
    /\ IF rec.fresh /\ ~(rec.fin /\ rec.cls.deleting)
       THEN /\ WriteClass(IF cls.deleting /\ ~cls.other THEN Absent
                          ELSE [cls EXCEPT !.fin = rec.fin])
            /\ UNCHANGED queued
       ELSE queued' = TRUE /\ UNCHANGED <<cls, cache>>
    /\ rec' = Idle
    /\ UNCHANGED <<uses, bundle, event, spent>>

(* Mutant of PatchStatus: a patch without the optimistic lock. *)
PatchStatusUnlocked ==
    /\ rec.pc = "status"
    /\ IF cls = Absent THEN UNCHANGED <<cls, cache>>
       ELSE WriteClass([cls EXCEPT !.sup = rec.sup, !.acc = rec.acc])
    /\ rec' = Idle /\ queued' = (queued \/ rec.requeue)
    /\ UNCHANGED <<uses, bundle, event, spent>>

PatchStatus ==
    /\ rec.pc = "status"
    /\ IF <<rec.sup, rec.acc>> = <<rec.cls.sup, rec.cls.acc>>
       THEN queued' = (queued \/ rec.requeue) /\ UNCHANGED <<cls, cache>>
       ELSE IF rec.fresh
       THEN /\ WriteClass([cls EXCEPT !.sup = rec.sup, !.acc = rec.acc])
            /\ queued' = (queued \/ rec.requeue)
       ELSE queued' = TRUE /\ UNCHANGED <<cls, cache>>
    /\ rec' = Idle
    /\ UNCHANGED <<uses, bundle, event, spent>>

-----------------------------------------------------------------------------
(* The watches: what wakes the class. *)
(* Mutant of GatewayClassReconcilePredicate: the usual generation predicate. *)
GatewayClassGenerationPredicate(old, new) ==
    <<old.uid, old.gen, old.deleting>> # <<new.uid, new.gen, new.deleting>>

GatewayClassReconcilePredicate(old, new) ==
    \/ <<old.uid, old.gen, old.deleting>> # <<new.uid, new.gen, new.deleting>>
    \/ old.fin # new.fin \/ old.acc # new.acc \/ old.sup # new.sup

SyncClass ==
    /\ ~cache.fresh
    /\ cache' = [cache EXCEPT !.cls = cls, !.fresh = TRUE]
    /\ queued' = (queued \/ GatewayClassReconcilePredicate(cache.cls, cls))
    /\ UNCHANGED <<cls, uses, bundle, event, rec, spent>>

(* Both the old and the new class of an edited Gateway are woken. *)
gatewayClassRequestsForGateway(g) ==
    /\ (g \in uses) # (g \in cache.uses)
    /\ cache' = [cache EXCEPT !.uses = IF g \in uses THEN @ \cup {g} ELSE @ \ {g}]
    /\ queued' = TRUE
    /\ UNCHANGED <<cls, uses, bundle, event, rec, spent>>

gatewayClassRequestsForGatewayAPICRD ==
    /\ event /\ event' = FALSE
    /\ queued' = (queued \/ cache.cls.ours)
    /\ UNCHANGED <<cls, uses, bundle, cache, rec, spent>>

-----------------------------------------------------------------------------
(* Users and other controllers. *)
UserWrites(c) ==
    /\ c # cls /\ WriteClass(c)
    /\ rec' = [rec EXCEPT !.fresh = FALSE]
    /\ UNCHANGED <<uses, bundle, event, queued>>
EditClass ==
    /\ cls # Absent /\ Spend("edits", MaxEdits)
    /\ UserWrites([cls EXCEPT !.gen = @ + 1, !.params = ~@])
DeleteClass ==
    /\ cls # Absent /\ ~cls.deleting /\ Spend("edits", MaxEdits)
    /\ UserWrites(IF cls.fin \/ cls.other THEN [cls EXCEPT !.deleting = TRUE, !.gen = @ + 1] ELSE Absent)
DropOtherFinalizer ==
    /\ cls.other
    /\ UserWrites(IF cls.deleting /\ ~cls.fin THEN Absent ELSE [cls EXCEPT !.other = FALSE])
    /\ UNCHANGED spent
CreateClass ==
    /\ cls = Absent /\ Spend("classes", MaxClasses)
    /\ \E ours, other \in BOOLEAN : UserWrites(Created(spent'.classes, ours, FALSE, other))
TamperStatus ==
    /\ cls.sup # NoCondition /\ Spend("tampers", MaxTampers)
    /\ UserWrites([cls EXCEPT !.sup = NoCondition])
ChangeReference(g) ==
    /\ Spend("refs", MaxReferences)
    /\ uses' = IF g \in uses THEN uses \ {g} ELSE uses \cup {g}
    /\ UNCHANGED <<cls, bundle, cache, event, queued, rec>>
ChangeBundle ==
    /\ Spend("bundle", MaxBundleChanges)
    /\ bundle' = ~bundle /\ event' = TRUE
    /\ UNCHANGED <<cls, uses, cache, queued, rec>>

Reconciling == Reconcile \/ ObserveGatewayAPIVersion \/ PatchMetadata \/ PatchStatus
Next ==
    \/ Reconciling \/ ObserveFailure \/ SyncClass \/ gatewayClassRequestsForGatewayAPICRD
    \/ \E g \in Gateways : gatewayClassRequestsForGateway(g) \/ ChangeReference(g)
    \/ EditClass \/ DeleteClass \/ DropOtherFinalizer \/ CreateClass \/ TamperStatus
    \/ ChangeBundle

Spec == Init /\ [][Next]_vars
Fairness == /\ WF_vars(Reconciling) /\ WF_vars(SyncClass)
            /\ WF_vars(gatewayClassRequestsForGatewayAPICRD)
            /\ \A g \in Gateways : WF_vars(gatewayClassRequestsForGateway(g))
FairSpec == Spec /\ Fairness

-----------------------------------------------------------------------------
(* The live class and the reconciliation under way are well formed. *)
TypeOK ==
    /\ cls.uid \in 0..MaxClasses /\ cls.gen \in 0..MaxEdits + 1
    /\ cls.uid = 0 => cls = Absent
    /\ cls = Absent \/ ~cls.deleting \/ cls.fin \/ cls.other
    /\ uses \subseteq Gateways /\ cache.uses \subseteq Gateways
    /\ rec.pc \in {"idle", "metadata", "observe", "status"}
    /\ cls.sup[1] \in {"none", "True", "False"} /\ cls.acc[1] \in {"none", "True", "False"}

(* Accepted never outlives the version check it depends on: a class that is  *)
(* Accepted=True for a generation was found supported for that generation by *)
(* the same patch, and one generation's verdict is never published for       *)
(* another (an edit during the CRD list makes the patch fail).  (With        *)
(* TypeOK.)                                                                  *)
VerdictsAgree ==
    /\ TypeOK
    /\ cls.acc[1] = "True" => ~(cls.params /\ cls.acc[2] = cls.gen)
    /\ cls.acc[1] = "True" /\ cls.sup # NoCondition => cls.sup = cls.acc

(* A class of another controller is never written: neither the finalizer nor *)
(* a condition of ours survives or appears on a class recreated for someone  *)
(* else while a reconciliation of the old one is under way.                  *)
ForeignUntouched ==
    cls # Absent /\ ~cls.ours => ~cls.fin /\ cls.sup = NoCondition /\ cls.acc = NoCondition

(* What users last asked for is published. *)
Converged ==
    /\ cls.deleting => cls.other \/ uses # {}
    /\ cls # Absent /\ cls.ours /\ (cls.deleting => cls.fin) =>
         /\ cls.fin = (uses # {})
         /\ [sup |-> cls.sup, acc |-> cls.acc] = Observed(cls)

(* When users stop, the finalizer says whether Gateways name the class and   *)
(* the conditions whether the installed bundle is supported, for the current *)
(* generation; a deleted class without Gateways goes away.  Only watches and *)
(* the requeue of an unsupported class start a reconciliation.               *)
Converges == <>[]Converged
=============================================================================
