-------------------------- MODULE GatewayClassProof --------------------------
(***************************************************************************)
(* What the GatewayClass reconciler publishes is consistent, and it writes *)
(* only classes of its own, for any set of Gateways and any number of      *)
(* edits, recreations, bundle changes and failed requests.                 *)
(***************************************************************************)
EXTENDS GatewayClassReconciler, TLAPS

Conditions == {"none", "True", "False"} \X Nat
Classes == [uid : Nat, gen : Nat, ours : BOOLEAN, params : BOOLEAN, deleting : BOOLEAN,
            fin : BOOLEAN, other : BOOLEAN, sup : Conditions, acc : Conditions]

Caches == [cls : Classes, uses : SUBSET Gateways, fresh : BOOLEAN]
Scopes == [pc : {"idle", "metadata", "observe", "status"}, cls : Classes, fresh : BOOLEAN,
           fin : BOOLEAN, sup : Conditions, acc : Conditions, requeue : BOOLEAN]
Counters == [classes : Nat, edits : Nat, refs : Nat, bundle : Nat, tampers : Nat,
             failures : Nat]

(* The full types of the variables that decide what is written. *)
Types ==
    /\ cls \in Classes /\ cache \in Caches /\ rec \in Scopes
    /\ uses \in SUBSET Gateways /\ bundle \in BOOLEAN /\ spent \in Counters

(* UIDs count the creations of the class and generations its edits. *)
Bounds ==
    /\ spent.classes <= MaxClasses /\ spent.edits <= MaxEdits
    /\ cls.uid <= spent.classes /\ cls.gen <= spent.edits + 1
    /\ cls.uid = 0 => cls = Absent

(* The optimistic lock: a copy whose resourceVersion is current is the live  *)
(* object.                                                                   *)
FreshCopies ==
    /\ cache.fresh => cache.cls = cls
    /\ rec.fresh => rec.cls = cls

(* Only a class of ours gets past newGatewayClassScope. *)
ScopeIsOurs == rec.pc # "idle" => rec.cls # Absent /\ rec.cls.ours

(* A deleted object is held by a finalizer. *)
HeldWhileDeleting == cls.deleting => cls.fin \/ cls.other

(* A condition is never of a later generation than the object's.  Without   *)
(* this an edit could turn an old verdict into one of its new generation.   *)
NoFutureVerdict == cls.acc[2] <= cls.gen

(* The pair of verdicts a reconciliation is about to write. *)
VerdictOfScope ==
    rec.pc = "status" =>
        /\ rec.acc[2] = rec.cls.gen
        /\ rec.acc[1] = "True" => ~rec.cls.params /\ rec.sup = rec.acc

Agreement ==
    /\ cls.acc[1] = "True" => ~(cls.params /\ cls.acc[2] = cls.gen)
    /\ cls.acc[1] = "True" /\ cls.sup # NoCondition => cls.sup = cls.acc

IInv == /\ Types /\ Bounds /\ FreshCopies /\ ScopeIsOurs /\ HeldWhileDeleting
        /\ NoFutureVerdict /\ VerdictOfScope /\ Agreement /\ ForeignUntouched

-----------------------------------------------------------------------------
(* The values the model is built from have the types of the invariant. *)
LEMMA ValueTypes ==
  /\ NoCondition \in Conditions /\ Absent \in Classes
  /\ \A u \in Nat, a, b, c \in BOOLEAN : Created(u, a, b, c) \in Classes
<1>1. NoCondition \in Conditions
  BY DEF NoCondition, Conditions
<1>2. Absent \in Classes
  BY <1>1 DEF Absent, Classes
<1> QED
  BY <1>1, <1>2, Zenon DEF Classes, Created

LEMMA InitIInv == Init => IInv
<1> SUFFICES ASSUME Init PROVE IInv
  OBVIOUS
<1>1. PICK params \in BOOLEAN : cls = Created(1, TRUE, params, FALSE)
  BY Zenon DEF Init
<1>2. cls \in Classes
  BY <1>1, ValueTypes, Zenon
<1>3. Types
  <2>1. cache \in Caches
    BY <1>2, Zenon DEF Init, Caches
  <2>2. rec \in Scopes
    BY ValueTypes DEF Init, Idle, Scopes
  <2>3. spent \in Counters
    BY DEF Init, Counters
  <2> QED
    BY <1>2, <2>1, <2>2, <2>3, Zenon DEF Init, Types
<1>4. Bounds
  BY <1>1, BoundsAssumption DEF Init, Bounds, Created, Absent
<1>5. FreshCopies /\ ScopeIsOurs /\ VerdictOfScope
  BY DEF Init, FreshCopies, ScopeIsOurs, VerdictOfScope, Idle
<1>6. HeldWhileDeleting /\ NoFutureVerdict /\ Agreement /\ ForeignUntouched
  BY <1>1
  DEF HeldWhileDeleting, NoFutureVerdict, Agreement, ForeignUntouched, Created, Absent, NoCondition
<1> QED
  BY <1>3, <1>4, <1>5, <1>6 DEF IInv

(* Steps that leave the live class and its counters alone keep what the      *)
(* invariant says of them.                                                   *)
LEMMA ClassUnchanged ==
  ASSUME IInv, cls' = cls, spent'.classes = spent.classes, spent'.edits = spent.edits
  PROVE  /\ Bounds' /\ HeldWhileDeleting' /\ NoFutureVerdict' /\ Agreement'
         /\ ForeignUntouched'
BY DEF IInv, Bounds, HeldWhileDeleting, NoFutureVerdict, Agreement, ForeignUntouched

(* A reconciliation that has ended holds no copy and no verdict. *)
LEMMA EndedScope ==
  ASSUME rec' = Idle
  PROVE  ScopeIsOurs' /\ VerdictOfScope' /\ ~rec'.fresh
BY DEF ScopeIsOurs, VerdictOfScope, Idle

(* Reconcile starts from the cached class: a scope only for one of ours. *)
LEMMA ReconcileStep == ASSUME IInv, Reconcile PROVE IInv'
<1> DEFINE h == hasReferencingGateways
           scope == [Idle EXCEPT !.cls = cache.cls, !.fresh = cache.fresh, !.fin = h]
<1>1. UNCHANGED <<cls, uses, bundle, cache, event, spent>>
  BY DEF Reconcile, Quiet
<1>2. h \in BOOLEAN /\ cache.cls \in Classes /\ cache.fresh \in BOOLEAN
  BY DEF hasReferencingGateways, IInv, Types, Caches
<1>3. \/ rec' = Idle
      \/ /\ cache.cls # Absent /\ cache.cls.ours
         /\ \E p \in {"metadata", "observe"} : rec' = [scope EXCEPT !.pc = p]
  BY DEF Reconcile
<1>4. CASE rec' = Idle
  BY <1>1, <1>4, ClassUnchanged, EndedScope, ValueTypes
  DEF IInv, Types, FreshCopies, Idle, Scopes
<1>5. CASE rec' # Idle
  <2>1. PICK p \in {"metadata", "observe"} : rec' = [scope EXCEPT !.pc = p]
    BY <1>3, <1>5
  <2> HIDE DEF h
  <2>2. /\ rec' \in Scopes /\ rec'.pc = p
        /\ rec'.cls = cache.cls /\ rec'.fresh = cache.fresh
    BY <1>2, <2>1, ValueTypes, Zenon DEF Idle, Scopes
  <2> QED
    BY <1>1, <1>3, <1>5, <2>2, ClassUnchanged
    DEF IInv, Types, FreshCopies, ScopeIsOurs, VerdictOfScope
<1> QED
  BY <1>4, <1>5

(* The verdict is computed for the generation that was read. *)
LEMMA ObserveStep == ASSUME IInv, ObserveGatewayAPIVersion PROVE IInv'
<1> DEFINE v == Observed(rec.cls)
<1>1. /\ UNCHANGED <<cls, uses, bundle, cache, event, spent>> /\ rec.pc = "observe"
      /\ rec' = [rec EXCEPT !.pc = "status", !.requeue = ~bundle, !.sup = v.sup, !.acc = v.acc]
  BY DEF ObserveGatewayAPIVersion, Quiet
<1>2. /\ v.sup \in Conditions /\ v.acc \in Conditions /\ v.acc[2] = rec.cls.gen
      /\ v.acc[1] = "True" => ~rec.cls.params /\ v.sup = v.acc
  BY DEF Observed, Conditions, IInv, Types, Scopes, Classes
<1>3. (~bundle) \in BOOLEAN
  OBVIOUS
<1> HIDE DEF v
<1>4. /\ rec' \in Scopes /\ rec'.pc = "status" /\ rec'.cls = rec.cls /\ rec'.fresh = rec.fresh
      /\ rec'.sup = v.sup /\ rec'.acc = v.acc
  BY <1>1, <1>2, <1>3, Zenon DEF IInv, Types, Scopes
<1> QED
  BY <1>1, <1>2, <1>4, ClassUnchanged
  DEF IInv, Types, FreshCopies, ScopeIsOurs, VerdictOfScope

(* What WriteClass leaves in the cache: fresh only if nothing was written. *)
LEMMA WrittenCache ==
  ASSUME IInv, NEW c \in Classes, WriteClass(c)
  PROVE  cls' = c /\ cache' \in Caches /\ (cache'.fresh => cache'.cls = cls')
<1>1. cls' = c /\ cache' = [cache EXCEPT !.fresh = (c = cls) /\ @]
  BY DEF WriteClass
<1>2. ((c = cls) /\ cache.fresh) \in BOOLEAN
  OBVIOUS
<1>3. cache' \in Caches /\ cache'.cls = cache.cls
  BY <1>1, <1>2, Zenon DEF IInv, Types, Caches
<1>4. cache'.fresh => c = cls /\ cache.fresh
  BY <1>1, Zenon DEF IInv, Types, Caches
<1> QED
  BY <1>1, <1>3, <1>4 DEF IInv, FreshCopies

(* The finalizer goes to, or leaves, the object that was read: one of ours. *)
LEMMA MetadataStep == ASSUME IInv, PatchMetadata PROVE IInv'
<1> DEFINE c == IF cls.deleting /\ ~cls.other THEN Absent ELSE [cls EXCEPT !.fin = rec.fin]
<1>1. rec' = Idle /\ UNCHANGED <<uses, bundle, spent>> /\ rec.pc = "metadata"
  BY DEF PatchMetadata
<1>2. rec' \in Scopes
  BY <1>1, ValueTypes DEF Idle, Scopes
<1>3. CASE UNCHANGED <<cls, cache>>
  BY <1>1, <1>2, <1>3, ClassUnchanged, EndedScope DEF IInv, Types, FreshCopies
<1>4. CASE rec.fresh /\ ~(rec.fin /\ rec.cls.deleting) /\ WriteClass(c)
  <2>1. cls = rec.cls /\ cls.ours
    BY <1>1, <1>4 DEF IInv, FreshCopies, ScopeIsOurs
  <2>2. CASE cls.deleting /\ ~cls.other
    <3>1. cls' = Absent /\ cache' \in Caches /\ (cache'.fresh => cache'.cls = cls')
      BY <1>4, <2>2, WrittenCache, ValueTypes
    <3>2. Bounds'
      BY <1>1, <3>1 DEF IInv, Types, Bounds, Counters, Absent
    <3>3. HeldWhileDeleting' /\ NoFutureVerdict' /\ Agreement' /\ ForeignUntouched'
      BY <3>1
      DEF HeldWhileDeleting, NoFutureVerdict, Agreement, ForeignUntouched, Absent, NoCondition
    <3> QED
      BY <1>1, <1>2, <3>1, <3>2, <3>3, EndedScope, ValueTypes DEF IInv, Types, FreshCopies
  <2>3. CASE ~(cls.deleting /\ ~cls.other)
    <3>1. c \in Classes /\ c = [cls EXCEPT !.fin = rec.fin]
      BY <2>3 DEF IInv, Types, Classes, Scopes
    <3>2. cls' = c /\ cache' \in Caches /\ (cache'.fresh => cache'.cls = cls')
      BY <1>4, <3>1, WrittenCache
    <3>3. /\ cls'.uid = cls.uid /\ cls'.gen = cls.gen /\ cls'.ours = cls.ours
          /\ cls'.params = cls.params /\ cls'.deleting = cls.deleting /\ cls'.other = cls.other
          /\ cls'.sup = cls.sup /\ cls'.acc = cls.acc
      BY <3>1, <3>2 DEF IInv, Types, Classes
    <3>4. cls # Absent /\ cls.uid # 0
      BY <1>1, <2>1 DEF IInv, ScopeIsOurs, Bounds
    <3>5. Bounds' /\ HeldWhileDeleting' /\ NoFutureVerdict' /\ Agreement' /\ ForeignUntouched'
      BY <1>1, <2>1, <2>3, <3>3, <3>4
      DEF IInv, Bounds, HeldWhileDeleting, NoFutureVerdict, Agreement, ForeignUntouched
    <3> QED
      BY <1>1, <1>2, <3>1, <3>2, <3>5, EndedScope DEF IInv, Types, FreshCopies
  <2> QED
    BY <2>2, <2>3
<1> QED
  BY <1>3, <1>4 DEF PatchMetadata

(* The verdicts are published only on the object they were computed from. *)
LEMMA StatusStep == ASSUME IInv, PatchStatus PROVE IInv'
<1> DEFINE c == [cls EXCEPT !.sup = rec.sup, !.acc = rec.acc]
<1>1. rec' = Idle /\ UNCHANGED <<uses, bundle, spent>> /\ rec.pc = "status"
  BY DEF PatchStatus
<1>2. rec' \in Scopes
  BY <1>1, ValueTypes DEF Idle, Scopes
<1>3. CASE UNCHANGED <<cls, cache>>
  BY <1>1, <1>2, <1>3, ClassUnchanged, EndedScope DEF IInv, Types, FreshCopies
<1>4. CASE rec.fresh /\ WriteClass(c)
  <2>1. cls = rec.cls /\ cls.ours /\ cls # Absent /\ cls.uid # 0
    BY <1>1, <1>4 DEF IInv, FreshCopies, ScopeIsOurs, Bounds
  <2>2. c \in Classes
    BY Zenon DEF IInv, Types, Classes, Scopes
  <2>3. cls' = c /\ cache' \in Caches /\ (cache'.fresh => cache'.cls = cls')
    BY <1>4, <2>2, WrittenCache
  <2>4. /\ cls'.uid = cls.uid /\ cls'.gen = cls.gen /\ cls'.ours = cls.ours
        /\ cls'.params = cls.params /\ cls'.deleting = cls.deleting /\ cls'.other = cls.other
        /\ cls'.fin = cls.fin /\ cls'.sup = rec.sup /\ cls'.acc = rec.acc
    BY <2>3 DEF IInv, Types, Classes
  <2>5. /\ rec.acc[2] = cls.gen
        /\ rec.acc[1] = "True" => ~cls.params /\ rec.sup = rec.acc
    BY <1>1, <2>1 DEF IInv, VerdictOfScope
  <2>6. NoFutureVerdict' /\ Agreement'
    BY <2>4, <2>5 DEF IInv, Types, Classes, NoFutureVerdict, Agreement
  <2>7. Bounds' /\ HeldWhileDeleting' /\ ForeignUntouched'
    BY <1>1, <2>1, <2>4 DEF IInv, Bounds, HeldWhileDeleting, ForeignUntouched
  <2> QED
    BY <1>1, <1>2, <2>2, <2>3, <2>6, <2>7, EndedScope DEF IInv, Types, FreshCopies
<1> QED
  BY <1>3, <1>4 DEF PatchStatus

(* A failed list of CRDs ends the reconciliation. *)
LEMMA FailureStep == ASSUME IInv, ObserveFailure PROVE IInv'
<1>1. rec' = Idle /\ UNCHANGED <<cls, uses, bundle, cache>>
  BY DEF ObserveFailure
<1>2. spent' \in Counters /\ spent'.classes = spent.classes /\ spent'.edits = spent.edits
  BY DEF ObserveFailure, Spend, IInv, Types, Counters
<1>3. rec' \in Scopes
  BY <1>1, ValueTypes DEF Idle, Scopes
<1> QED
  BY <1>1, <1>2, <1>3, ClassUnchanged, EndedScope DEF IInv, Types, FreshCopies

(* Deliveries of the informers and of the watches. *)
LEMMA WatchStep ==
  ASSUME IInv,
         \/ SyncClass \/ gatewayClassRequestsForGatewayAPICRD
         \/ \E g \in Gateways : gatewayClassRequestsForGateway(g)
  PROVE  IInv'
<1>1. UNCHANGED <<cls, uses, bundle, rec, spent>>
  BY DEF SyncClass, gatewayClassRequestsForGatewayAPICRD, gatewayClassRequestsForGateway
<1>2. cache' \in Caches /\ (cache'.fresh => cache'.cls = cls)
  <2>1. CASE SyncClass
    BY <2>1, Zenon DEF SyncClass, IInv, Types, Caches
  <2>2. CASE gatewayClassRequestsForGatewayAPICRD
    BY <2>2 DEF gatewayClassRequestsForGatewayAPICRD, IInv, Types, FreshCopies
  <2>3. ASSUME NEW g \in Gateways, gatewayClassRequestsForGateway(g)
        PROVE  cache' \in Caches /\ (cache'.fresh => cache'.cls = cls)
    BY <2>3 DEF gatewayClassRequestsForGateway, IInv, Types, FreshCopies, Caches
  <2> QED
    BY <2>1, <2>2, <2>3
<1> QED
  BY <1>1, <1>2, ClassUnchanged
  DEF IInv, Types, FreshCopies, ScopeIsOurs, VerdictOfScope

(* A write by someone else makes every copy stale, so only what the          *)
(* invariant says of the live class is left to show.                         *)
LEMMA UserStep ==
  ASSUME IInv, NEW c \in Classes, UserWrites(c), spent' \in Counters,
         /\ Bounds' /\ HeldWhileDeleting' /\ NoFutureVerdict' /\ Agreement' /\ ForeignUntouched'
  PROVE  IInv'
<1>1. cls' = c /\ cache' \in Caches /\ (cache'.fresh => cache'.cls = cls')
  BY WrittenCache DEF UserWrites
<1>2. rec' = [rec EXCEPT !.fresh = FALSE] /\ UNCHANGED <<uses, bundle>>
  BY DEF UserWrites
<1>3. /\ rec' \in Scopes /\ ~rec'.fresh /\ rec'.pc = rec.pc /\ rec'.cls = rec.cls
      /\ rec'.sup = rec.sup /\ rec'.acc = rec.acc
  BY <1>2, Zenon DEF IInv, Types, Scopes
<1> QED
  BY <1>1, <1>2, <1>3 DEF IInv, Types, FreshCopies, ScopeIsOurs, VerdictOfScope

(* What is claimed of a class holds when there is none. *)
LEMMA NoClass ==
  ASSUME IInv, cls' = Absent, spent' \in Counters,
         spent'.classes = spent.classes, spent'.edits \in spent.edits .. MaxEdits
  PROVE  /\ Bounds' /\ HeldWhileDeleting' /\ NoFutureVerdict' /\ Agreement'
         /\ ForeignUntouched'
<1>1. Bounds'
  BY BoundsAssumption DEF IInv, Types, Bounds, Counters, Absent
<1> QED
  BY <1>1
  DEF HeldWhileDeleting, NoFutureVerdict, Agreement, ForeignUntouched, Absent, NoCondition

(* An edit moves the generation on, past every verdict. *)
LEMMA EditStep == ASSUME IInv, EditClass PROVE IInv'
<1> DEFINE c == [cls EXCEPT !.gen = @ + 1, !.params = ~@]
<1>1. /\ spent' \in Counters /\ spent'.classes = spent.classes
      /\ spent'.edits = spent.edits + 1 /\ spent.edits < MaxEdits
  BY DEF EditClass, Spend, IInv, Types, Counters
<1>2. cls # Absent /\ cls.uid # 0 /\ UserWrites(c)
  BY DEF EditClass, IInv, Bounds
<1>3. (~cls.params) \in BOOLEAN /\ cls.gen + 1 \in Nat
  BY DEF IInv, Types, Classes
<1>4. c \in Classes
  BY <1>3, Zenon DEF IInv, Types, Classes
<1>5. cls' = c
  BY <1>2 DEF UserWrites, WriteClass
<1>6. /\ cls'.uid = cls.uid /\ cls'.gen = cls.gen + 1 /\ cls'.ours = cls.ours
      /\ cls'.deleting = cls.deleting /\ cls'.other = cls.other
      /\ cls'.fin = cls.fin /\ cls'.sup = cls.sup /\ cls'.acc = cls.acc
  BY <1>5 DEF IInv, Types, Classes
<1>7. cls.acc[2] \in Nat /\ cls.gen \in Nat
  BY DEF IInv, Types, Classes, Conditions
<1>8. Bounds'
  BY <1>1, <1>2, <1>6, BoundsAssumption DEF IInv, Types, Classes, Counters, Bounds
<1>9. NoFutureVerdict' /\ Agreement'
  BY <1>6, <1>7 DEF IInv, NoFutureVerdict, Agreement
<1>10. HeldWhileDeleting' /\ ForeignUntouched'
  BY <1>2, <1>6 DEF IInv, HeldWhileDeleting, ForeignUntouched
<1> QED
  BY <1>1, <1>2, <1>4, <1>8, <1>9, <1>10, UserStep

(* A deletion marks a class that a finalizer holds, else removes it. *)
LEMMA DeleteStep == ASSUME IInv, DeleteClass PROVE IInv'
<1> DEFINE c == [cls EXCEPT !.deleting = TRUE, !.gen = @ + 1]
<1>1. /\ spent' \in Counters /\ spent'.classes = spent.classes
      /\ spent'.edits = spent.edits + 1 /\ spent.edits < MaxEdits
  BY DEF DeleteClass, Spend, IInv, Types, Counters
<1>2. cls # Absent /\ cls.uid # 0
  BY DEF DeleteClass, IInv, Bounds
<1>3. CASE UserWrites(Absent)
  <2>1. cls' = Absent /\ spent'.edits \in spent.edits .. MaxEdits
    BY <1>1, <1>3, BoundsAssumption DEF UserWrites, WriteClass, IInv, Types, Counters
  <2> QED
    BY <1>1, <1>3, <2>1, NoClass, UserStep, ValueTypes
<1>4. CASE (cls.fin \/ cls.other) /\ UserWrites(c)
  <2>1. c \in Classes
    <3>1. cls.gen + 1 \in Nat
      BY DEF IInv, Types, Classes
    <3> QED
      BY <3>1, Zenon DEF IInv, Types, Classes
  <2>2. cls' = c
    BY <1>4 DEF UserWrites, WriteClass
  <2>3. /\ cls'.uid = cls.uid /\ cls'.gen = cls.gen + 1 /\ cls'.ours = cls.ours
        /\ cls'.params = cls.params /\ cls'.other = cls.other
        /\ cls'.fin = cls.fin /\ cls'.sup = cls.sup /\ cls'.acc = cls.acc
    BY <2>2 DEF IInv, Types, Classes
  <2>4. cls.acc[2] \in Nat /\ cls.gen \in Nat
    BY DEF IInv, Types, Classes, Conditions
  <2>5. Bounds'
    BY <1>1, <1>2, <2>3, BoundsAssumption DEF IInv, Types, Classes, Counters, Bounds
  <2>6. NoFutureVerdict' /\ Agreement'
    BY <2>3, <2>4 DEF IInv, NoFutureVerdict, Agreement
  <2>7. HeldWhileDeleting'
    BY <1>4, <2>2 DEF HeldWhileDeleting, IInv, Types, Classes
  <2>8. ForeignUntouched'
    BY <1>2, <2>3 DEF IInv, ForeignUntouched
  <2> QED
    BY <1>1, <1>4, <2>1, <2>5, <2>6, <2>7, <2>8, UserStep
<1> QED
  BY <1>3, <1>4 DEF DeleteClass

(* Another controller lets go of the class. *)
LEMMA DropStep == ASSUME IInv, DropOtherFinalizer PROVE IInv'
<1> DEFINE c == [cls EXCEPT !.other = FALSE]
<1>1. spent' = spent /\ cls # Absent /\ cls.uid # 0
  BY DEF DropOtherFinalizer, IInv, Bounds, Absent
<1>2. CASE UserWrites(Absent)
  <2>1. /\ cls' = Absent /\ spent' \in Counters /\ spent'.classes = spent.classes
        /\ spent'.edits \in spent.edits .. MaxEdits
    BY <1>1, <1>2, BoundsAssumption DEF UserWrites, WriteClass, IInv, Types, Counters, Bounds
  <2> QED
    BY <1>2, <2>1, NoClass, UserStep, ValueTypes
<1>3. CASE ~(cls.deleting /\ ~cls.fin) /\ UserWrites(c)
  <2>1. c \in Classes
    BY Zenon DEF IInv, Types, Classes
  <2>2. cls' = c
    BY <1>3 DEF UserWrites, WriteClass
  <2>3. /\ cls'.uid = cls.uid /\ cls'.gen = cls.gen /\ cls'.ours = cls.ours
        /\ cls'.params = cls.params /\ cls'.deleting = cls.deleting
        /\ cls'.fin = cls.fin /\ cls'.sup = cls.sup /\ cls'.acc = cls.acc
    BY <2>2 DEF IInv, Types, Classes
  <2>4. Bounds' /\ NoFutureVerdict' /\ Agreement' /\ ForeignUntouched'
    BY <1>1, <2>3 DEF IInv, Bounds, NoFutureVerdict, Agreement, ForeignUntouched
  <2>5. HeldWhileDeleting'
    BY <1>3, <2>3 DEF HeldWhileDeleting
  <2> QED
    BY <1>1, <1>3, <2>1, <2>4, <2>5, UserStep DEF IInv, Types
<1> QED
  BY <1>2, <1>3 DEF DropOtherFinalizer

(* The class comes back, for any controller, with an empty status. *)
LEMMA CreateStep == ASSUME IInv, CreateClass PROVE IInv'
<1>1. /\ spent' \in Counters /\ spent'.classes = spent.classes + 1
      /\ spent'.edits = spent.edits /\ spent.classes < MaxClasses
  BY DEF CreateClass, Spend, IInv, Types, Counters
<1>2. PICK ours, other \in BOOLEAN : UserWrites(Created(spent'.classes, ours, FALSE, other))
  BY Zenon DEF CreateClass
<1>3. spent'.classes \in Nat /\ spent'.classes # 0 /\ spent'.edits \in Nat
  BY <1>1 DEF IInv, Types, Counters
<1>4. /\ Created(spent'.classes, ours, FALSE, other) \in Classes
      /\ cls' = Created(spent'.classes, ours, FALSE, other)
  BY <1>2, <1>3, ValueTypes, Zenon DEF UserWrites, WriteClass
<1>5. /\ cls'.uid = spent'.classes /\ cls'.gen = 1 /\ ~cls'.deleting /\ ~cls'.fin
      /\ cls'.sup = NoCondition /\ cls'.acc = NoCondition
  BY <1>4 DEF Created, Absent
<1>6. Bounds'
  BY <1>1, <1>3, <1>5, BoundsAssumption DEF IInv, Types, Bounds, Counters
<1>7. HeldWhileDeleting' /\ NoFutureVerdict' /\ Agreement' /\ ForeignUntouched'
  BY <1>5 DEF HeldWhileDeleting, NoFutureVerdict, Agreement, ForeignUntouched, NoCondition
<1> QED
  BY <1>1, <1>2, <1>4, <1>6, <1>7, UserStep, Zenon

(* Someone removes the condition that records the version check. *)
LEMMA TamperStep == ASSUME IInv, TamperStatus PROVE IInv'
<1> DEFINE c == [cls EXCEPT !.sup = NoCondition]
<1>1. /\ spent' \in Counters /\ spent'.classes = spent.classes
      /\ spent'.edits = spent.edits
  BY DEF TamperStatus, Spend, IInv, Types, Counters
<1>2. UserWrites(c) /\ cls # Absent /\ cls.uid # 0
  BY DEF TamperStatus, IInv, Bounds, Absent
<1>3. c \in Classes
  BY ValueTypes DEF IInv, Types, Classes
<1>4. cls' = c
  BY <1>2 DEF UserWrites, WriteClass
<1>5. /\ cls'.uid = cls.uid /\ cls'.gen = cls.gen /\ cls'.ours = cls.ours
      /\ cls'.params = cls.params /\ cls'.deleting = cls.deleting /\ cls'.other = cls.other
      /\ cls'.fin = cls.fin /\ cls'.sup = NoCondition /\ cls'.acc = cls.acc
  BY <1>4 DEF IInv, Types, Classes
<1>6. Bounds' /\ NoFutureVerdict' /\ Agreement' /\ ForeignUntouched' /\ HeldWhileDeleting'
  BY <1>1, <1>2, <1>5
  DEF IInv, Bounds, NoFutureVerdict, Agreement, ForeignUntouched, HeldWhileDeleting
<1> QED
  BY <1>1, <1>2, <1>3, <1>6, UserStep

(* Gateways come and go and the CRDs change: the class does not. *)
LEMMA SurroundingsStep ==
  ASSUME IInv, ChangeBundle \/ \E g \in Gateways : ChangeReference(g)
  PROVE  IInv'
<1>1. UNCHANGED <<cls, cache, rec>> /\ uses' \in SUBSET Gateways /\ bundle' \in BOOLEAN
  BY Zenon DEF ChangeBundle, ChangeReference, IInv, Types
<1>2. spent' \in Counters /\ spent'.classes = spent.classes /\ spent'.edits = spent.edits
  BY DEF ChangeBundle, ChangeReference, Spend, IInv, Types, Counters
<1> QED
  BY <1>1, <1>2, ClassUnchanged DEF IInv, Types, FreshCopies, ScopeIsOurs, VerdictOfScope

-----------------------------------------------------------------------------
(* Every step of the reconciler, of its watches and of its surroundings      *)
(* keeps the invariant.                                                      *)
LEMMA NextIInv == IInv /\ [Next]_vars => IInv'
<1> SUFFICES ASSUME IInv, [Next]_vars PROVE IInv'
  OBVIOUS
<1>1. CASE Reconciling \/ ObserveFailure
  BY <1>1, ReconcileStep, ObserveStep, MetadataStep, StatusStep, FailureStep DEF Reconciling
<1>2. CASE \/ SyncClass \/ gatewayClassRequestsForGatewayAPICRD
           \/ \E g \in Gateways : gatewayClassRequestsForGateway(g)
  BY <1>2, WatchStep
<1>3. CASE EditClass \/ DeleteClass \/ DropOtherFinalizer \/ CreateClass \/ TamperStatus
  BY <1>3, EditStep, DeleteStep, DropStep, CreateStep, TamperStep
<1>4. CASE ChangeBundle \/ \E g \in Gateways : ChangeReference(g)
  BY <1>4, SurroundingsStep
<1>5. CASE UNCHANGED vars
  BY <1>5 DEF vars, IInv, Types, Bounds, FreshCopies, ScopeIsOurs, HeldWhileDeleting,
              NoFutureVerdict, VerdictOfScope, Agreement, ForeignUntouched
<1> QED
  BY <1>1, <1>2, <1>3, <1>4, <1>5 DEF Next

(* The invariant bounds the live class as TypeOK does. *)
LEMMA IInvVerdicts == IInv => VerdictsAgree
<1> SUFFICES ASSUME IInv PROVE VerdictsAgree
  OBVIOUS
<1>1. cls.uid \in 0..MaxClasses /\ cls.gen \in 0..MaxEdits + 1
  BY BoundsAssumption DEF IInv, Types, Classes, Counters, Bounds
<1>2. cls.sup[1] \in {"none", "True", "False"} /\ cls.acc[1] \in {"none", "True", "False"}
  BY DEF IInv, Types, Classes, Conditions
<1>3. TypeOK
  BY <1>1, <1>2 DEF TypeOK, IInv, Types, Bounds, HeldWhileDeleting, Caches, Scopes
<1> QED
  BY <1>3 DEF VerdictsAgree, IInv, Agreement

(* Accepted=True is never left beside another verdict of the version check,  *)
(* nor published for a generation that has parameters: the two conditions    *)
(* travel in one optimistic patch, and no verdict is of a later generation   *)
(* than the object, so an edit cannot make it current.                       *)
THEOREM ClassVerdictsAgree == Spec => []VerdictsAgree
BY InitIInv, NextIInv, IInvVerdicts, PTL DEF Spec

(* The reconciler writes no finalizer and no condition on a class of another *)
(* controller, however often the class is recreated under a reconciliation.  *)
THEOREM ClassForeignUntouched == Spec => []ForeignUntouched
<1>1. IInv => ForeignUntouched
  BY DEF IInv
<1> QED
  BY <1>1, InitIInv, NextIInv, PTL DEF Spec
=============================================================================
