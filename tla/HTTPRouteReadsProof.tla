------------------------ MODULE HTTPRouteReadsProof ------------------------
(***************************************************************************)
(* The inductive invariant of the HTTPRoute reconciler, for any names of   *)
(* routes and Gateways, any listeners and any bounds on what its           *)
(* surroundings do: it holds initially, and the steps in which the worker  *)
(* only reads (decisions, snapshots and seals) preserve it.                *)
(***************************************************************************)
EXTENDS HTTPRouteReconciler, TLAPS

(* Zenon is the prover unless a step names another: SMT where it is arithmetic. *)
USE ZenonT(30)

Parents == Gateways \cup {0}
Bindings == UIDs \cup {NoUID}
Shapes == {"ok", "bad"}
Services == {"ok", "missing", "wrong"}
Progs == {"none", "True", "failed", "pending", "rejected", "version"}
Statuses == [parent : Parents, prog : Progs, gen : Nat]
Routes == [uid : Nat, second : Nat, gen : Nat, parent : Parents, shape : Shapes,
           deleting : BOOLEAN, fin : Bindings, ann : Bindings, diag : BOOLEAN, st : Statuses]
GatewayObjects == [uid : Bindings, gen : Nat, port : Nat, kind : {"ok", "invalid", "refuses"},
                   deleting : BOOLEAN, ann : Nat,
                   prog : {"none", "True", "False", "Unknown"} \X Nat, ver : BOOLEAN]
Classes == [ours : BOOLEAN, params : BOOLEAN, supported : BOOLEAN]
Caches == [route : [Names -> Routes], gw : [Gateways -> GatewayObjects], cls : Classes,
           svc : [Names -> Services], fresh : SUBSET Names]
Plans == [kind : {"none", "replace", "failure", "deleting", "version"}, parent : Parents,
          prog : Progs, advance : BOOLEAN]
Places == Cleaning \cup Ensuring \cup {"idle", "check", "prev", "detach", "progress", "diag",
                                       "clear", "version1", "version2", "version3", "patch"}
Scopes == [pc : Places, n : Names \cup {0}, r : Routes, g : GatewayObjects, o : GatewayObjects,
           u : Bindings, fresh : BOOLEAN, mode : {"none", "final", "status", "prev"},
           plan : Plans, requeue : BOOLEAN, binding : BOOLEAN, rivals : SUBSET Names]
Counters == [in : Scenarios, routes : Nat, edits : Nat, gateways : Nat, backends : Nat,
             class : Nat, bundle : Nat, tampers : Nat, failures : Nat, crashes : Nat,
             drifts : Nat, made : UNION {[x.parents -> 1..x.made] : x \in Scenarios}]
PartStates == {"none", "partial", "built"}
LBStates == {"none", "up", "down"}

-----------------------------------------------------------------------------
(* The invariant, first without the reconciliation under way. *)
Types ==
    /\ route \in [Names -> Routes] /\ gw \in [Gateways -> GatewayObjects] /\ cls \in Classes
    /\ svc \in [Names -> Services] /\ bundle \in BOOLEAN /\ cache \in Caches
    /\ queued \subseteq Names /\ spent \in Counters
    /\ lb \in [UIDs -> LBStates] /\ parts \in [UIDs -> [RouteUIDs -> PartStates]]
    /\ spent.routes <= spent.in.routes
    /\ spent.made \in [spent.in.parents -> 1..spent.in.made]

(* The UIDs of routes are counted by the creations and belong to one name; a *)
(* Gateway has the last UID made for its name.                               *)
KnownRoute(r) == r.uid <= spent.routes /\ (r.uid = 0 => r = NoRoute) /\ r.st.gen <= r.gen
KnownGateway(u) == u # NoUID => u[1] \in spent.in.parents /\ u[2] <= spent.made[u[1]]
Identities ==
    /\ \A n \in Names : KnownRoute(route[n]) /\ KnownRoute(cache.route[n])
    /\ \A m, n \in Names : route[m].uid = route[n].uid /\ route[m].uid # 0 => m = n
    /\ \A g \in Gateways :
          /\ gw[g] = NoGateway \/ (g \in spent.in.parents /\ gw[g].uid = <<g, spent.made[g]>>)
          /\ cache.gw[g] = NoGateway \/ cache.gw[g].uid[1] = g
          /\ KnownGateway(cache.gw[g].uid)

(* A cached route is an earlier state of the live one: a generation has one  *)
(* spec, and within it the binding goes to its parent or is removed.         *)
Copied(n) ==
    LET c == cache.route[n]
        r == route[n] IN
    /\ n \in cache.fresh => c = r
    /\ c.uid = r.uid =>
          /\ c.gen <= r.gen /\ (c.deleting => r.deleting)
          /\ c.gen = r.gen => /\ c.parent = r.parent /\ c.shape = r.shape /\ c.second = r.second
                              /\ r.ann \in {c.ann, NoUID} \/ r.ann[1] = r.parent

(* No binding is to a Gateway that the cache has not got to yet. *)
Reached(u, g) == u # NoUID /\ g.uid # NoUID /\ g.uid[1] = u[1] => u[2] <= g.uid[2]
BindingsKnown ==
    \A n \in Names : \A a \in {route[n].ann, cache.route[n].ann} :
        KnownGateway(a) /\ \A g \in Gateways : Reached(a, cache.gw[g])

(* What exists in OpenStack. *)
Bound ==
    \A u \in UIDs :
        /\ lb[u] # "none" => gw[u[1]].uid = u /\ gw[u[1]].ann # 0
        /\ \A x \in RouteUIDs : parts[u][x] # "none" =>
              /\ lb[u] # "none"
              /\ \E n \in Names : /\ route[n].uid = x /\ route[n].fin = u
                                  /\ route[n].ann \in {u, NoUID}
World == Types /\ Identities /\ (\A n \in Names : Copied(n)) /\ BindingsKnown /\ Bound /\ OneRoute

-----------------------------------------------------------------------------
(* The reconciliation under way, on the live route. *)
Stored == route[rec.n]
Kept == parts[rec.u][rec.r.uid] = "none"    \* nothing left to detach
Unpromised(r) == r.deleting \/ r.st.prog # "True" \/ r.st.gen # r.gen
Observing == Ensuring \ {"e1"}
Resting == {"idle", "patch", "version1", "version2", "version3"}   \* no provider call ahead

Revisions ==
    /\ rec.pc # "idle" => rec.n \in Names /\ rec.r.uid # 0
    /\ rec.r.uid <= spent.routes
    /\ rec.pc # "idle" /\ rec.r.uid = Stored.uid =>
          rec.r.gen <= Stored.gen /\ (rec.r.deleting => Stored.deleting)
    /\ rec.pc \in Cleaning \cup Observing /\ Same(Stored, rec.r) =>
          Stored.parent = rec.r.parent /\ Stored.shape = rec.r.shape /\ Stored.second = rec.r.second
    /\ rec.fresh => rec.pc \in (Cleaning \ {"delete"}) \cup Observing /\ Same(Stored, rec.r)
    /\ rec.fresh /\ rec.pc \in Observing => Stored.fin = rec.r.fin /\ Stored.ann = rec.r.ann

(* The Gateway aimed at is the parent of the generation under way. *)
Aims == rec.pc \in Ensuring \/ rec.mode = "prev"
Aim ==
    Aims =>
        /\ rec.g.uid \in UIDs /\ KnownGateway(rec.g.uid) /\ ~rec.r.deleting
        /\ \A g \in Gateways : Reached(rec.g.uid, cache.gw[g])
        /\ Same(Stored, rec.r) => Stored.parent = rec.g.uid[1]
        /\ rec.pc \in Observing => rec.r.parent = rec.g.uid[1]

Modes ==
    /\ rec.pc \in {"check", "prev", "detach"} => rec.u = NoUID
    /\ rec.pc \in Cleaning => rec.u \in UIDs
    /\ rec.pc \in Ensuring \cup Resting => rec.mode = "none"
    /\ rec.pc = "prev" => rec.mode = "prev"
    /\ rec.pc \in Cleaning \cup {"detach", "clear"} => rec.mode \in {"final", "status", "prev"}
    /\ rec.pc = "check" => /\ rec.mode \in {"status", "prev"} /\ rec.plan.kind = "replace"
                           /\ rec.plan.prog # "True"
    /\ rec.pc = "clear" => rec.u = NoUID \/ Kept

(* The parent as observed, and the binding as sealed. *)
Parent == gw[rec.g.uid[1]]
Seals ==
    /\ rec.pc \in Observing \ {"e2"} =>
          /\ Same(rec.o, rec.g) /\ ~rec.o.deleting
          /\ rec.o.uid = Parent.uid =>
                /\ rec.o.gen <= Parent.gen
                /\ rec.o.gen = Parent.gen => rec.o.kind = Parent.kind
    /\ rec.pc \in Observing \ {"e2", "e3"} => rec.o.kind = "ok"
    /\ rec.pc \in {"s1", "s2", "s3", "s4", "mutate"} /\ rec.binding =>
          ~Broken(rec.r) /\ (Present(rec.r) => rec.r.ann = rec.o.uid)
    /\ rec.pc \in {"s3", "s4", "mutate"} /\ ~rec.binding =>
          Stored.uid = rec.r.uid /\ Stored.fin = rec.o.uid /\ Stored.ann \in {rec.o.uid, NoUID}

(* Why no promise of the route's status stands in the way of a cleanup: it   *)
(* has been withdrawn, or there is nothing to detach.  A route that was not  *)
(* seen to move is bound, if at all, to its parent's name.                   *)
Settled ==
    LET here(a) == a = NoUID \/ a[1] = rec.g.uid[1]
        c == cache.route[rec.n] IN
    /\ Same(Stored, rec.r) => here(Stored.ann)
    /\ Same(c, rec.r) =>
          here(c.ann) /\ (\/ c.ann \in {NoUID, rec.g.uid}
                          \/ Same(Stored, rec.r) => Stored.ann \in {c.ann, NoUID})
Left ==
    LET left(a) == a = NoUID \/ (a[1] = rec.g.uid[1] /\ a # rec.g.uid) IN
    /\ Same(Stored, rec.r) => left(Stored.ann)
    /\ Same(cache.route[rec.n], rec.r) => left(cache.route[rec.n].ann)
Withdrawn ==
    /\ rec.mode = "prev" /\ rec.pc \in {"check", "prev", "detach"} =>
          Reached(Stored.ann, rec.g) /\ Reached(cache.route[rec.n].ann, rec.g)
    /\ rec.pc = "prev" => Unpromised(Stored) \/ Settled
    /\ rec.pc = "detach" /\ rec.mode = "status" => Unpromised(Stored)
    /\ rec.pc = "detach" /\ rec.mode = "prev" => Unpromised(Stored) \/ Left
    /\ rec.pc = "detach" /\ rec.mode = "final" => rec.r.deleting
    /\ rec.pc = "c1" => rec.r.deleting \/ Unpromised(Stored) \/ Kept
    /\ rec.pc \in Cleaning \ {"c1"} => Unpromised(Stored) \/ Kept

(* What the history holds at each point of a snapshot: which of the other    *)
(* routes have left the slot to this one, or one that has not.               *)
Clear(held) == \A m \in Others \ held : <<"yields", m>> \in seen
Displaced == \E m \in Others : <<"older", m>> \in seen /\ <<"reserves", m>> \in seen
History ==
    /\ rec.pc \in {"e5", "e6", "e7"} => rec.r.shape = "ok"
    /\ rec.pc = "e6" => Clear(rec.rivals) \/ ~Same(Stored, rec.r)
    /\ rec.pc \in {"e7", "s1", "s2"} => Clear({}) \/ ~Same(Stored, rec.r)
    /\ rec.pc \in {"s3", "s4", "mutate"} => Clear({})
    /\ rec.pc \in {"s1", "s2"} =>
          <<"usable", 0>> \in seen \/ ~Same(Stored, rec.r) \/ ~Same(Parent, rec.o)
    /\ rec.pc = "s3" => <<"usable", 0>> \in seen \/ ~Same(Parent, rec.o)
    /\ rec.pc \in {"s4", "mutate"} => <<"usable", 0>> \in seen
    /\ rec.pc \in {"s2", "s3", "s4", "mutate", "c5", "c6", "c7", "c8", "c9", "c10"} =>
          <<"bundle", 0>> \in seen
    /\ rec.pc = "c3" /\ rec.fresh /\ rec.o.deleting =>
          <<"unwanted", 0>> \in seen /\ (rec.o.uid = rec.u => <<"exempt", 0>> \in seen)
    /\ rec.pc \in {"c6", "c7", "c8", "c9", "c10"} /\ rec.fresh
          /\ (Refused(rec.o) \/ rec.o.uid # rec.u) => <<"unwanted", 0>> \in seen
    /\ rec.pc = "c9" => /\ rec.rivals \subseteq Others
                        /\ rec.fresh => \A m \in rec.rivals : <<"older", m>> \in seen
    /\ rec.pc = "delete" \/ (rec.pc = "seal" /\ rec.fresh) =>
          /\ <<"unwanted", 0>> \in seen \/ Displaced
          /\ <<"bundle", 0>> \in seen \/ <<"exempt", 0>> \in seen

Underway == rec \in Scopes /\ Revisions /\ Aim /\ Modes /\ Seals /\ Withdrawn /\ History

IInv == World /\ Underway

-----------------------------------------------------------------------------
(* What the constants and the absent objects are. *)
LEMMA Sets ==
    /\ Names \subseteq Nat \ {0} /\ Gateways \subseteq Nat \ {0} /\ RouteUIDs \subseteq Nat \ {0}
    /\ \A x \in Scenarios :
          /\ x.names \subseteq Names /\ x.parents \subseteq Gateways
          /\ 1..x.routes \subseteq RouteUIDs /\ x.routes \in Nat /\ x.made \in Nat \ {0}
          /\ \A g \in x.parents, k \in 1..x.made : <<g, k>> \in UIDs
BY ScenariosAssumption, SMTT(30) DEF Names, Gateways, RouteUIDs, UIDs, Bounded

LEMMA UIDFacts ==
    /\ \A u \in UIDs : u = <<u[1], u[2]>> /\ u[1] \in Gateways /\ u[2] \in Nat \ {0}
    /\ NoUID \notin UIDs /\ NoUID[1] = 0 /\ NoUID[2] = 0
    /\ \A u \in Bindings : u # NoUID => u \in UIDs
    /\ \A u \in Bindings : u = <<u[1], u[2]>> /\ u[1] \in Nat /\ u[2] \in Nat
<1>1. \A u \in UIDs : u = <<u[1], u[2]>> /\ u[1] \in Gateways /\ u[2] \in Nat \ {0}
  BY ScenariosAssumption, SMTT(30) DEF UIDs, Gateways
<1>2. NoUID[1] = 0 /\ NoUID[2] = 0 /\ NoUID = <<0, 0>>
  BY DEF NoUID
<1>3. NoUID \notin UIDs
  BY <1>1, <1>2
<1> QED
  BY <1>1, <1>2, <1>3, Sets, SMTT(30) DEF Bindings

(* What the proofs use of the order of generations and counters. *)
LEMMA Order ==
    /\ \A i \in Nat : i <= i /\ i >= i /\ 0 <= i /\ i <= i + 1 /\ i + 1 > i /\ i + 1 # i /\ i + 1 \in Nat
    /\ \A i, j \in Nat : (i >= j <=> j <= i) /\ (i > j <=> ~(i <= j)) /\ (i <= j \/ j <= i)
    /\ \A i, j \in Nat : i <= j /\ j <= i => i = j
    /\ \A i, j, k \in Nat : i <= j /\ j <= k => i <= k
BY SMTT(30)

LEMMA Absences ==
    /\ NoStatus \in Statuses /\ NoRoute \in Routes /\ NoGateway \in GatewayObjects
    /\ NoPlan \in Plans /\ Idle \in Scopes
    /\ NoRoute.uid = 0 /\ NoRoute.gen = 0 /\ NoRoute.parent = 0 /\ ~NoRoute.deleting
    /\ NoRoute.fin = NoUID /\ NoRoute.ann = NoUID /\ NoRoute.st = NoStatus
    /\ NoStatus.gen = 0 /\ NoStatus.prog = "none" /\ NoGateway.uid = NoUID
    /\ NoGateway.ann = 0
<1>1. NoStatus \in Statuses /\ NoPlan \in Plans
  BY DEF NoStatus, Statuses, Progs, Parents, NoPlan, Plans
<1> USE <1>1
<1>2. NoUID \in Bindings /\ 0 \in Parents
  BY DEF Bindings, Parents
<1> USE <1>2
<1>3. NoRoute \in Routes
  BY DEF NoRoute, Routes, Shapes
<1>4. <<"none", 0>> \in {"none", "True", "False", "Unknown"} \X Nat
  OBVIOUS
<1>5. NoGateway \in GatewayObjects
  BY <1>4 DEF NoGateway, GatewayObjects
<1>6. Idle \in Scopes
  BY <1>3, <1>5 DEF Idle, Scopes, Places
<1> QED
  BY <1>3, <1>5, <1>6 DEF NoRoute, NoStatus, NoGateway

LEMMA RouteFields ==
  ASSUME NEW r \in Routes
  PROVE  /\ r.uid \in Nat /\ r.gen \in Nat /\ r.second \in Nat /\ r.parent \in Parents
         /\ r.deleting \in BOOLEAN /\ r.shape \in Shapes /\ r.fin \in Bindings
         /\ r.ann \in Bindings /\ r.diag \in BOOLEAN
         /\ r.st \in Statuses /\ r.st.gen \in Nat /\ r.st.parent \in Parents
         /\ r.st.prog \in Progs
<1>1. r.st \in Statuses
  BY DEF Routes
<1> QED
  BY <1>1 DEF Routes, Statuses

LEMMA GatewayFields ==
  ASSUME NEW g \in GatewayObjects
  PROVE  /\ g.uid \in Bindings /\ g.gen \in Nat /\ g.port \in Nat /\ g.deleting \in BOOLEAN
         /\ g.kind \in {"ok", "invalid", "refuses"} /\ g.ann \in Nat /\ g.ver \in BOOLEAN
         /\ g.prog \in {"none", "True", "False", "Unknown"} \X Nat
BY DEF GatewayObjects

LEMMA Typed ==
  ASSUME Types
  PROVE  /\ \A n \in Names : route[n] \in Routes /\ cache.route[n] \in Routes
         /\ \A g \in Gateways : gw[g] \in GatewayObjects /\ cache.gw[g] \in GatewayObjects
         /\ cache.route \in [Names -> Routes] /\ cache.gw \in [Gateways -> GatewayObjects]
         /\ cache.fresh \subseteq Names /\ cache.cls \in Classes
         /\ cache.svc \in [Names -> Services]
         /\ spent.in \in Scenarios /\ spent.routes \in Nat /\ spent.in.routes \in Nat
         /\ 1..spent.routes \subseteq RouteUIDs /\ spent.in.parents \subseteq Gateways
         /\ \A g \in spent.in.parents :
               spent.made[g] \in Nat \ {0} /\ <<g, spent.made[g]>> \in UIDs
<1>1. spent.in \in Scenarios /\ spent.routes \in Nat
  BY DEF Types, Counters
<1> USE <1>1
<1>2. /\ spent.in.parents \subseteq Gateways /\ spent.in.routes \in Nat
      /\ 1..spent.in.routes \subseteq RouteUIDs /\ spent.in.made \in Nat
      /\ \A g \in spent.in.parents, k \in 1..spent.in.made : <<g, k>> \in UIDs
  BY Sets
<1>3. \A g \in spent.in.parents : spent.made[g] \in 1..spent.in.made
  BY DEF Types
<1>4. 1..spent.routes \subseteq RouteUIDs
  BY <1>2, SMTT(30) DEF Types
<1>5. /\ cache.route \in [Names -> Routes] /\ cache.gw \in [Gateways -> GatewayObjects]
      /\ cache.fresh \subseteq Names /\ cache.cls \in Classes
      /\ cache.svc \in [Names -> Services]
  BY DEF Types, Caches
<1> QED
  BY <1>2, <1>3, <1>4, <1>5, SMTT(30) DEF Types

LEMMA ScopeFields ==
  ASSUME rec \in Scopes
  PROVE  /\ rec.pc \in Places /\ rec.r \in Routes /\ rec.g \in GatewayObjects
         /\ rec.o \in GatewayObjects /\ rec.u \in Bindings /\ rec.fresh \in BOOLEAN
         /\ rec.mode \in {"none", "final", "status", "prev"} /\ rec.plan \in Plans
         /\ rec.requeue \in BOOLEAN /\ rec.binding \in BOOLEAN /\ rec.n \in Names \cup {0}
BY DEF Scopes

(* The world as the worker's reads leave it. *)
LEMMA QuietWorld ==
  ASSUME World, UNCHANGED <<route, gw, cls, svc, bundle, cache, lb, parts, spent>>,
         queued' \subseteq Names
  PROVE  World'
<1>1. Types'
  BY DEF World, Types
<1>2. Identities' /\ BindingsKnown'
  <2>1. Identities'
    BY DEF World, Identities, KnownRoute, KnownGateway
  <2>2. BindingsKnown'
    BY SMTT(30) DEF World, BindingsKnown, KnownGateway, Reached
  <2> QED
    BY <2>1, <2>2
<1>3. (\A n \in Names : Copied(n)')
  BY DEF World, Copied
<1>4. Bound' /\ OneRoute'
  BY SMTT(30) DEF World, Bound, OneRoute
<1> QED
  BY <1>1, <1>2, <1>3, <1>4 DEF World

-----------------------------------------------------------------------------
(* The initial state, and a step that changes nothing. *)
LEMMA StutterIInv ==
  ASSUME IInv, UNCHANGED vars
  PROVE  IInv'
<1>1. UNCHANGED <<route, gw, cls, svc, bundle, cache, queued, rec, lb, parts, seen, spent>>
  BY DEF vars
<1> USE <1>1
<1>2. World'
  BY QuietWorld DEF IInv, World, Types
<1>3. Revisions'
  BY DEF IInv, Underway, Revisions, Stored
<1>4. Aim'
  BY DEF IInv, Underway, Aim, Aims, Stored, KnownGateway
<1>5. Modes'
  BY DEF IInv, Underway, Modes, Kept
<1>6. Seals'
  BY DEF IInv, Underway, Seals, Stored, Parent
<1>7. Withdrawn'
  BY DEF IInv, Underway, Withdrawn, Stored, Kept, Settled, Left
<1>8. History'
  BY DEF IInv, Underway, History, Stored, Parent, Clear, Displaced, Others
<1>9. rec' \in Scopes
  BY DEF IInv, Underway
<1> QED
  BY <1>2, <1>3, <1>4, <1>5, <1>6, <1>7, <1>8, <1>9 DEF IInv, Underway

LEMMA InitIInv == Init => IInv
<1> SUFFICES ASSUME Init PROVE IInv
  OBVIOUS
<1>1. PICK x \in Scenarios :
         /\ \E s \in {t \in x.listeners : t.kind = "ok"} :
               gw = [g \in Gateways |-> IF g \notin x.parents THEN NoGateway
                                        ELSE [NewGateway(<<g, 1>>, s) EXCEPT
                                                !.ann = s.port, !.prog = <<"True", 1>>]]
         /\ lb = [u \in UIDs |-> IF u[1] \in x.parents /\ u[2] = 1 THEN "up" ELSE "none"]
         /\ spent = [in |-> x, routes |-> 0, edits |-> 0, gateways |-> 0, backends |-> 0,
                     class |-> 0, bundle |-> 0, tampers |-> 0, failures |-> 0, crashes |-> 0,
                     drifts |-> 0, made |-> [g \in x.parents |-> 1]]
         /\ svc = [n \in Names |-> IF n \in x.names THEN x.backed[n] ELSE "ok"]
  BY DEF Init
<1>2. PICK s \in x.listeners :
         gw = [g \in Gateways |-> IF g \notin x.parents THEN NoGateway
                                  ELSE [NewGateway(<<g, 1>>, s) EXCEPT
                                          !.ann = s.port, !.prog = <<"True", 1>>]]
  BY <1>1
<1>3. /\ x.parents \subseteq Gateways /\ x.made \in Nat \ {0} /\ x.routes \in Nat
      /\ \A g \in x.parents : <<g, 1>> \in UIDs
      /\ s.port \in Nat \ {0} /\ s.kind \in {"ok", "invalid", "refuses"}
  BY Sets, ScenariosAssumption, SMTT(30)
<1>4. /\ spent.in = x /\ spent.routes = 0 /\ spent.made = [g \in x.parents |-> 1]
      /\ spent \in Counters
  <2> DEFINE made == [g \in x.parents |-> 1]
  <2>1. made \in [x.parents -> 1..x.made]
    BY <1>3, SMTT(30)
  <2>2. made \in UNION {[y.parents -> 1..y.made] : y \in Scenarios}
    BY <2>1
  <2> HIDE DEF made
  <2> QED
    BY <1>1, <2>2 DEF Counters, made
<1>5. \A g \in Gateways : /\ gw[g] \in GatewayObjects
                          /\ g \notin x.parents => gw[g] = NoGateway
                          /\ g \in x.parents => gw[g].uid = <<g, 1>> /\ gw[g].ann = s.port
  <2> SUFFICES ASSUME NEW g \in Gateways
               PROVE  /\ gw[g] \in GatewayObjects /\ (g \notin x.parents => gw[g] = NoGateway)
                      /\ g \in x.parents => gw[g].uid = <<g, 1>> /\ gw[g].ann = s.port
    OBVIOUS
  <2>1. CASE g \notin x.parents
    BY <1>2, <2>1, Absences
  <2>2. CASE g \in x.parents
    <3> USE <2>2
    <3>1. gw[g] = [NewGateway(<<g, 1>>, s) EXCEPT !.ann = s.port, !.prog = <<"True", 1>>]
      BY <1>2
    <3>2. <<g, 1>> \in Bindings /\ <<"True", 1>> \in {"none", "True", "False", "Unknown"} \X Nat
      BY <1>3 DEF Bindings
    <3>3. NoGateway \in GatewayObjects
      BY Absences
    <3> QED
      BY <1>3, <3>1, <3>2, <3>3 DEF NewGateway, GatewayObjects
  <2> QED
    BY <2>1, <2>2
<1> USE <1>5
<1>6. /\ gw \in [Gateways -> GatewayObjects] /\ route = [n \in Names |-> NoRoute]
      /\ cache = [route |-> route, gw |-> gw, cls |-> cls, svc |-> svc, fresh |-> Names]
      /\ queued = {} /\ rec = Idle /\ bundle = TRUE
      /\ cls = [ours |-> TRUE, params |-> FALSE, supported |-> TRUE]
      /\ parts = [u \in UIDs |-> [y \in RouteUIDs |-> "none"]]
  BY <1>2 DEF Init
<1> USE <1>6
<1>7. /\ route \in [Names -> Routes] /\ cls \in Classes /\ svc \in [Names -> Services]
      /\ parts \in [UIDs -> [RouteUIDs -> PartStates]] /\ lb \in [UIDs -> LBStates]
  <2>1. ASSUME NEW n \in Names PROVE svc[n] \in Services
    BY <1>1, ScenariosAssumption DEF Services
  <2>2. svc \in [Names -> Services]
    BY <1>1, <2>1
  <2> QED
    BY <1>1, <2>2, Absences DEF Classes, PartStates, LBStates
<1>8. cache.route = route /\ cache.gw = gw /\ cache \in Caches
  <2> HIDE DEF Init
  <2> QED
    BY <1>7 DEF Caches
<1>9. Types
  BY <1>3, <1>4, <1>7, <1>8, SMTT(30) DEF Types
<1>10. /\ \A n \in Names : route[n] = NoRoute /\ cache.route[n] = NoRoute
       /\ \A g \in Gateways : cache.gw[g] = gw[g]
  BY <1>8
<1>11. Identities
  <2>1. KnownRoute(NoRoute)
    BY <1>4, Absences, Order DEF KnownRoute
  <2>2. \A g \in Gateways : g \in x.parents => gw[g].uid = <<g, spent.made[g]>>
    BY <1>4
  <2>3. \A g \in Gateways : g \in x.parents => KnownGateway(gw[g].uid) /\ gw[g].uid[1] = g
    BY <1>4, SMTT(30) DEF KnownGateway
  <2>4. KnownGateway(NoGateway.uid)
    BY Absences DEF KnownGateway
  <2> QED
    BY <1>4, <1>10, <2>1, <2>2, <2>3, <2>4, Absences DEF Identities
<1>12. \A n \in Names : Copied(n)
  BY <1>10, Absences, SMTT(30) DEF Copied
<1>13. BindingsKnown
  BY <1>10, Absences DEF BindingsKnown, KnownGateway, Reached
<1>14. Bound /\ OneRoute
  <2>1. \A u \in UIDs, y \in RouteUIDs : parts[u][y] = "none"
    OBVIOUS
  <2>2. ASSUME NEW u \in UIDs, lb[u] # "none" PROVE gw[u[1]].uid = u /\ gw[u[1]].ann # 0
    <3>1. u[1] \in x.parents /\ u[2] = 1
      BY <1>1, <2>2
    <3>2. u = <<u[1], u[2]>> /\ u[1] \in Gateways
      BY UIDFacts
    <3>3. gw[u[1]].uid = <<u[1], 1>> /\ gw[u[1]].ann = s.port
      BY <3>1, <3>2
    <3> QED
      BY <1>3, <3>1, <3>2, <3>3
  <2> QED
    BY <2>1, <2>2 DEF Bound, OneRoute
<1>15. Underway
  <2>1. /\ Idle.pc = "idle" /\ Idle.r = NoRoute /\ Idle.fresh = FALSE /\ Idle.mode = "none"
        /\ "idle" \notin Cleaning /\ "idle" \notin Ensuring /\ "idle" \notin Observing
    BY DEF Idle, Cleaning, Ensuring, Observing
  <2> USE <2>1
  <2>2. Idle \in Scopes /\ NoRoute.uid <= spent.routes
    BY <1>4, Absences, Order
  <2>3. Revisions
    BY <2>2 DEF Revisions
  <2>4. Aim /\ Modes
    BY DEF Aim, Aims, Modes
  <2>5. Seals /\ Withdrawn /\ History
    BY DEF Seals, Withdrawn, History, Ensuring, Cleaning, Observing
  <2> QED
    BY <2>2, <2>3, <2>4, <2>5 DEF Underway
<1> QED
  BY <1>9, <1>11, <1>12, <1>13, <1>14, <1>15 DEF IInv, World

-----------------------------------------------------------------------------
(* What the end of a reconciliation, or a new decision in it, keeps. *)
LEMMA Rests ==
  ASSUME rec' \in Scopes, rec'.pc \in Resting, rec'.mode = "none", rec'.fresh = FALSE,
         rec'.r.uid <= spent'.routes,
         rec'.pc # "idle" =>
            /\ rec'.n \in Names /\ rec'.r.uid # 0
            /\ rec'.r.uid = route'[rec'.n].uid => /\ rec'.r.gen <= route'[rec'.n].gen
                                                  /\ rec'.r.deleting => route'[rec'.n].deleting
  PROVE  Underway'
<1>1. rec'.pc \notin Cleaning \cup Ensuring \cup {"check", "prev", "detach", "clear"}
  BY DEF Resting, Cleaning, Ensuring
<1> USE <1>1
<1>2. Revisions'
  BY DEF Revisions, Stored, Observing
<1>3. Aim' /\ Modes'
  BY DEF Aim, Aims, Modes
<1>4. Seals' /\ Withdrawn'
  BY DEF Seals, Withdrawn, Observing, Ensuring, Cleaning
<1>5. History'
  BY DEF History, Cleaning, Ensuring
<1> QED
  BY <1>2, <1>3, <1>4, <1>5 DEF Underway

LEMMA Ends ==
  ASSUME rec' = Idle, spent'.routes \in Nat
  PROVE  Underway'
<1>1. /\ rec' \in Scopes /\ rec'.pc = "idle" /\ rec'.mode = "none" /\ rec'.fresh = FALSE
      /\ rec'.r.uid = 0 /\ rec'.pc \in Resting
  BY Absences DEF Idle, Resting
<1>2. rec'.r.uid <= spent'.routes
  BY <1>1, Order
<1> QED
  BY <1>1, <1>2, Rests

LEMMA Revised ==
  ASSUME NEW r \in Routes
  PROVE  /\ Revision(r, NoRoute) \in Routes /\ Same(Revision(r, NoRoute), r)
         /\ InScope(r) \in Routes /\ Same(InScope(r), r)
         /\ SpecOf(r) \in Routes /\ Same(SpecOf(r), r) /\ SpecOf(r).parent = r.parent
         /\ SpecOf(r).shape = r.shape /\ SpecOf(r).second = r.second
<1>1. FailedStatus(r) \in Statuses
  BY RouteFields, Absences DEF FailedStatus
<1>2. Revision(r, NoRoute) \in Routes /\ Same(Revision(r, NoRoute), r)
  BY Absences DEF Revision, Routes, Same
<1> USE <1>2
<1>3. InScope(r) \in Routes /\ Same(InScope(r), r)
  <2> DEFINE v == Revision(r, NoRoute)
             f == FailedStatus(r)
  <2>1. InScope(r) = [v EXCEPT !.st = f]
    BY DEF InScope
  <2> HIDE DEF v, f
  <2>2. [v EXCEPT !.st = f] \in Routes /\ Same([v EXCEPT !.st = f], v)
    <3>1. v \in Routes /\ f \in Statuses
      BY <1>1 DEF v, f
    <3> QED
      BY <3>1 DEF Routes, Same
  <2>3. Same(v, r)
    BY DEF v
  <2> QED
    BY <2>1, <2>2, <2>3 DEF Same
<1>4. /\ SpecOf(r) \in Routes /\ Same(SpecOf(r), r) /\ SpecOf(r).parent = r.parent
      /\ SpecOf(r).shape = r.shape /\ SpecOf(r).second = r.second
  <2> DEFINE f == FailedStatus(r)
  <2>1. SpecOf(r) = [r EXCEPT !.ann = NoUID, !.fin = NoUID, !.diag = FALSE, !.st = f]
    BY DEF SpecOf
  <2>2. f \in Statuses /\ NoUID \in Bindings
    BY <1>1 DEF Bindings
  <2> HIDE DEF f
  <2> QED
    BY <2>1, <2>2 DEF Routes, Same
<1> QED
  BY <1>3, <1>4

(* A live route is followed by a later state of it, by nothing, or by a      *)
(* successor with a new UID.                                                 *)
Later(n) ==
    \/ route'[n] = NoRoute \/ route'[n].uid > spent.routes
    \/ /\ route'[n].uid = route[n].uid /\ route'[n].gen >= route[n].gen
       /\ route[n].deleting => route'[n].deleting
       /\ route'[n].gen = route[n].gen =>
             /\ route'[n].parent = route[n].parent /\ route'[n].shape = route[n].shape
             /\ route'[n].second = route[n].second

LEMMA Handed ==
  ASSUME IInv, rec.pc # "idle", rec' \in Scopes, rec'.pc \in Resting, rec'.mode = "none",
         rec'.fresh = FALSE, rec'.n = rec.n, Same(rec'.r, rec.r), Later(rec.n),
         route'[rec.n] \in Routes, spent'.routes \in Nat, spent.routes <= spent'.routes
  PROVE  Underway'
<1>1. rec.n \in Names /\ rec.r.uid # 0 /\ rec.r.uid <= spent.routes
  BY DEF IInv, Underway, Revisions
<1> USE <1>1
<1>2. /\ rec.r.uid \in Nat /\ rec.r.gen \in Nat /\ spent.routes \in Nat
      /\ route[rec.n] \in Routes
  BY ScopeFields, RouteFields, Typed DEF IInv, World, Underway
<1> USE <1>2
<1>3. rec.r.uid = route[rec.n].uid => /\ rec.r.gen <= route[rec.n].gen
                                      /\ rec.r.deleting => route[rec.n].deleting
  BY DEF IInv, Underway, Revisions, Stored
<1>4. rec.r.uid = route'[rec.n].uid => /\ rec.r.gen <= route'[rec.n].gen
                                       /\ rec.r.deleting => route'[rec.n].deleting
  <2>1. CASE route'[rec.n] = NoRoute
    BY <2>1, Absences
  <2>2. CASE route'[rec.n].uid > spent.routes
    BY <2>2, RouteFields, Order
  <2>3. CASE /\ route'[rec.n].uid = route[rec.n].uid /\ route'[rec.n].gen >= route[rec.n].gen
             /\ route[rec.n].deleting => route'[rec.n].deleting
    <3>1. route[rec.n].gen \in Nat /\ route'[rec.n].gen \in Nat
      BY RouteFields
    <3> QED
      BY <1>3, <2>3, <3>1, SMTT(30)
  <2> QED
    BY <2>1, <2>2, <2>3 DEF Later
<1>5. rec'.r.uid <= spent'.routes
  BY Order DEF Same
<1> QED
  BY <1>4, <1>5, Rests DEF Same

LEMMA Returned ==
  ASSUME IInv, rec.pc # "idle", NEW plan \in Plans, NEW requeue \in BOOLEAN,
         Return(plan, requeue), Later(rec.n), route'[rec.n] \in Routes,
         spent'.routes \in Nat, spent.routes <= spent'.routes
  PROVE  Underway'
<1> DEFINE v == Revision(rec.r, NoRoute)
<1>1. /\ rec' = [Idle EXCEPT !.pc = "patch", !.n = rec.n, !.r = v, !.plan = plan,
                             !.requeue = requeue]
      /\ v \in Routes /\ Same(v, rec.r) /\ rec.n \in Names \cup {0}
  BY ScopeFields, Revised DEF IInv, Underway, Return
<1> HIDE DEF v
<1>2. /\ rec' \in Scopes /\ rec'.pc = "patch" /\ rec'.n = rec.n /\ rec'.r = v
      /\ rec'.mode = Idle.mode /\ rec'.fresh = Idle.fresh
  BY <1>1, Absences DEF Scopes, Places
<1>3. rec'.mode = "none" /\ rec'.fresh = FALSE /\ rec'.pc \in Resting
  BY <1>2 DEF Idle, Resting
<1> QED
  BY <1>1, <1>2, <1>3, Handed

-----------------------------------------------------------------------------
(* The worker's steps that only read. *)
(* The worker's steps that only read. *)
Reads == UNCHANGED <<route, gw, cls, svc, bundle, cache, lb, parts, spent>>

LEMMA QuietReads == ASSUME Quiet PROVE Reads /\ Remember
BY DEF Quiet, Reads

LEMMA Unread ==
  ASSUME IInv, Reads, rec.pc # "idle"
  PROVE  /\ rec.n \in Names /\ route'[rec.n] = route[rec.n] /\ route[rec.n] \in Routes
         /\ cache.route[rec.n] \in Routes
         /\ Later(rec.n) /\ spent'.routes = spent.routes /\ spent.routes \in Nat /\ Types
<1>1. rec.n \in Names /\ Types
  BY DEF IInv, World, Underway, Revisions
<1>2. route[rec.n] \in Routes /\ cache.route[rec.n] \in Routes /\ spent.routes \in Nat
  BY <1>1, Typed
<1>3. route[rec.n].gen \in Nat
  BY <1>2, RouteFields
<1> QED
  BY <1>1, <1>2, <1>3, Order DEF Reads, Later

LEMMA ReadsWorld ==
  ASSUME IInv, Reads, queued' \subseteq Names
  PROVE  World'
BY QuietWorld DEF IInv, Reads

LEMMA ReadsQueue ==
  ASSUME IInv, rec.pc # "idle", queued' \in {queued, queued \cup {rec.n}}
  PROVE  queued' \subseteq Names
BY DEF IInv, World, Types, Underway, Revisions

LEMMA ReadsAndEnds ==
  ASSUME IInv, Reads, rec.pc # "idle", Again \/ Stop
  PROVE  IInv'
<1>1. rec' = Idle /\ queued' \subseteq Names
  BY ReadsQueue DEF Again, Stop
<1>2. Underway'
  BY <1>1, Unread, Ends
<1> QED
  BY <1>1, <1>2, ReadsWorld DEF IInv

LEMMA ReadsAndReturns ==
  ASSUME IInv, Reads, rec.pc # "idle", NEW plan \in Plans, NEW requeue \in BOOLEAN,
         Return(plan, requeue)
  PROVE  IInv'
<1>1. queued' \subseteq Names
  BY ReadsQueue DEF Return
<1>2. Underway'
  BY Unread, Returned, SMTT(30)
<1> QED
  BY <1>1, <1>2, ReadsWorld DEF IInv

LEMMA ReadsVersion ==
  ASSUME IInv, Reads, rec.pc # "idle", Version
  PROVE  IInv'
<1>Versioned. ASSUME IInv, rec.pc # "idle", Version, Later(rec.n), route'[rec.n] \in Routes,
                     spent'.routes \in Nat, spent.routes <= spent'.routes
              PROVE  Underway'
  <2> USE <1>Versioned
  <2> DEFINE v == Revision(rec.r, NoRoute)
  <2>1. /\ rec' = [Idle EXCEPT !.pc = "version1", !.n = rec.n, !.r = v]
        /\ v \in Routes /\ Same(v, rec.r) /\ rec.n \in Names \cup {0}
    BY ScopeFields, Revised DEF IInv, Underway, Version
  <2> HIDE DEF v
  <2>2. /\ rec' \in Scopes /\ rec'.pc = "version1" /\ rec'.n = rec.n /\ rec'.r = v
        /\ rec'.mode = Idle.mode /\ rec'.fresh = Idle.fresh
    BY <2>1, Absences DEF Scopes, Places
  <2>3. rec'.mode = "none" /\ rec'.fresh = FALSE /\ rec'.pc \in Resting
    BY <2>2 DEF Idle, Resting
  <2> QED
    BY <2>1, <2>2, <2>3, Handed
<1>1. queued' \subseteq Names
  BY ReadsQueue DEF Version
<1>2. Underway'
  BY Unread, <1>Versioned, Order
<1> QED
  BY <1>1, <1>2, ReadsWorld DEF IInv

-----------------------------------------------------------------------------
(* Before the first provider call. *)
LEMMA Prepares ==
  ASSUME rec' \in Scopes, rec'.pc \in {"check", "prev", "detach"}, rec'.fresh = FALSE,
         rec'.n \in Names, rec'.r.uid # 0, rec'.r.uid <= spent'.routes,
         rec'.r.uid = route'[rec'.n].uid =>
            rec'.r.gen <= route'[rec'.n].gen /\ (rec'.r.deleting => route'[rec'.n].deleting),
         Aim', Modes', Withdrawn'
  PROVE  Underway'
<1>1. rec'.pc \notin Cleaning \cup Ensuring
  BY DEF Cleaning, Ensuring
<1> USE <1>1
<1>2. Revisions'
  BY DEF Revisions, Stored, Observing
<1>3. Seals'
  BY DEF Seals, Observing, Ensuring
<1>4. History'
  BY DEF History, Cleaning, Ensuring
<1> QED
  BY <1>2, <1>3, <1>4 DEF Underway

LEMMA ReplacePlan ==
  ASSUME NEW p \in Parents, NEW prog \in Progs
  PROVE  /\ Replace(p, prog) \in Plans /\ Replace(p, prog).kind = "replace"
         /\ Replace(p, prog).prog = prog /\ Replace(p, prog).parent = p
BY Absences DEF Replace, Plans

LEMMA StatusCheck ==
  ASSUME rec' \in Scopes, rec'.pc = "check", rec'.mode = "status", rec'.u = NoUID,
         rec'.plan.kind = "replace", rec'.plan.prog # "True"
  PROVE  Aim' /\ Modes' /\ Withdrawn'
<1>1. Aim' /\ Modes'
  BY DEF Aim, Aims, Modes, Ensuring, Cleaning, Resting
<1>2. Withdrawn'
  BY DEF Withdrawn, Cleaning
<1> QED
  BY <1>1, <1>2

Scoped(s, n, pc) ==
    /\ s \in Scopes /\ s.pc = pc /\ s.n = n /\ s.r \in Routes /\ Same(s.r, cache.route[n])
    /\ s.fresh = FALSE /\ s.u = NoUID /\ s.mode = "none" /\ s.g = NoGateway

(* A reconciliation starts from the cached route. *)
LEMMA StartingStep == IInv /\ (Starting) => IInv'
<1>BeginFacts. ASSUME IInv, NEW n \in Names, NEW d, NEW s, Begin(n, d, s)
               PROVE  /\ Reads /\ Remember /\ queued' \subseteq Names /\ rec' = s /\ cachedRouteDecision(n) = d
                      /\ Types /\ cache.route[n] \in Routes /\ route[n] \in Routes /\ World' /\ rec.pc = "idle"
                      /\ Copied(n) /\ KnownRoute(cache.route[n]) /\ spent'.routes = spent.routes
                      /\ spent.routes \in Nat
  <2> USE <1>BeginFacts
  <2>1. /\ Reads /\ Remember /\ queued' \in {queued, queued \ {n}} /\ rec' = s /\ rec.pc = "idle"
        /\ cachedRouteDecision(n) = d
    BY QuietReads DEF Begin
  <2> USE <2>1
  <2>2. Types /\ queued' \subseteq Names /\ Copied(n) /\ KnownRoute(cache.route[n])
    BY DEF IInv, World, Types, Identities
  <2>3. spent'.routes = spent.routes
    BY DEF Reads
  <2> QED
    BY <2>2, <2>3, ReadsWorld, Typed
<1>ScopeFacts. ASSUME Types, NEW n \in Names, NEW pc \in Places
               PROVE  Scoped(Scope(n, pc), n, pc)
  <2> USE <1>ScopeFacts
  <2> DEFINE v == InScope(cache.route[n])
  <2>1. v \in Routes /\ Same(v, cache.route[n])
    BY Typed, Revised
  <2>2. Scope(n, pc) = [Idle EXCEPT !.pc = pc, !.n = n, !.r = v]
    BY DEF Scope
  <2> HIDE DEF v
  <2>3. LET s == [Idle EXCEPT !.pc = pc, !.n = n, !.r = v] IN
        /\ s \in Scopes /\ s.pc = pc /\ s.n = n /\ s.r = v /\ s.fresh = FALSE /\ s.u = NoUID
        /\ s.mode = "none" /\ s.g = NoGateway
    <3>1. Idle \in Scopes
      BY Absences
    <3>2. Idle.fresh = FALSE /\ Idle.u = NoUID /\ Idle.mode = "none" /\ Idle.g = NoGateway
      BY DEF Idle
    <3> QED
      BY <2>1, <3>1, <3>2 DEF Scopes
  <2> QED
    BY <2>1, <2>2, <2>3 DEF Scoped
(* The revision a decision is about: the cached one. *)
<1>Starts. ASSUME World, NEW n \in Names, cache.route[n] # NoRoute, NEW r \in Routes,
                  Same(r, cache.route[n])
           PROVE  /\ r.uid # 0 /\ r.uid <= spent.routes
                  /\ r.uid = route[n].uid => r.gen <= route[n].gen /\ (r.deleting => route[n].deleting)
  BY <1>Starts, SMTT(30) DEF World, Identities, KnownRoute, Copied, Same
<1>Decided. ASSUME NEW n, NEW d, cachedRouteDecision(n) = d
            PROVE  /\ d \in {"finalize", "version", "unmanaged", "reject", "select"} =>
                         cache.route[n] # NoRoute
                   /\ d = "finalize" => cache.route[n].deleting
                   /\ d = "select" => /\ ~cache.route[n].deleting
                                      /\ Managed(cache.route[n].parent, cache.gw, cache.cls)
  <2> USE <1>Decided
  <2>1. CASE cache.route[n] = NoRoute
    BY <2>1, Absences DEF cachedRouteDecision
  <2>2. CASE cache.route[n] # NoRoute /\ cache.route[n].deleting
    BY <2>2 DEF cachedRouteDecision
  <2>3. CASE cache.route[n] # NoRoute /\ ~cache.route[n].deleting
    <3> USE <2>3
    <3>1. cachedRouteDecision(n) \in {"error", "unmanaged", "version", "reject", "select"}
      BY DEF cachedRouteDecision
    <3>2. cachedRouteDecision(n) = "select" =>
             Managed(cache.route[n].parent, cache.gw, cache.cls)
      BY DEF cachedRouteDecision
    <3> QED
      BY <3>1, <3>2
  <2> QED
    BY <2>1, <2>2, <2>3
<1>BeginEndsStep. ASSUME IInv, NEW n \in Names, ReconcileIgnored(n) \/ ReconcileError(n)
                  PROVE  IInv'
  <2> USE <1>BeginEndsStep
  <2>1. World' /\ rec' = Idle /\ spent'.routes \in Nat
    BY <1>BeginFacts DEF ReconcileIgnored, ReconcileError
  <2> QED
    BY <2>1, Ends DEF IInv
<1>ReconcileVersionStep. ASSUME IInv, NEW n \in Names, ReconcileVersion(n)
                         PROVE  IInv'
  <2> USE <1>ReconcileVersionStep
  <2> DEFINE s == Scope(n, "version1")
  <2>0. Types
    BY DEF IInv, World
  <2>1. /\ World' /\ rec' = s /\ spent'.routes = spent.routes /\ Types /\ Reads
        /\ cachedRouteDecision(n) = "version"
    BY <1>BeginFacts DEF ReconcileVersion
  <2> USE <2>1
  <2>2. cache.route[n] # NoRoute
    BY <1>Decided
  <2>3. "version1" \in Places /\ "version1" \in Resting
    BY DEF Places, Resting
  <2>4. /\ s \in Scopes /\ s.pc = "version1" /\ s.n = n /\ s.r \in Routes /\ Same(s.r, cache.route[n])
        /\ s.fresh = FALSE /\ s.mode = "none"
    <3>1. Scoped(s, n, "version1")
      BY <2>0, <2>3, <1>ScopeFacts
    <3> HIDE DEF s
    <3> QED
      BY <3>1 DEF Scoped
  <2> HIDE DEF s
  <2>5. /\ s.r.uid # 0 /\ s.r.uid <= spent.routes
        /\ s.r.uid = route[n].uid => s.r.gen <= route[n].gen /\ (s.r.deleting => route[n].deleting)
    BY <2>2, <2>4, <1>Starts DEF IInv
  <2>6. route' = route
    BY DEF Reads
  <2> QED
    BY <2>3, <2>4, <2>5, <2>6, Rests DEF IInv
<1>ReconcileDeleteStep. ASSUME IInv, NEW n \in Names, ReconcileDelete(n)
                        PROVE  IInv'
  <2> USE <1>ReconcileDeleteStep
  <2> DEFINE s == Scope(n, "detach")
  <2>0. Types
    BY DEF IInv, World
  <2>1. /\ World' /\ rec' = [s EXCEPT !.mode = "final"] /\ spent'.routes = spent.routes /\ Types
        /\ Reads /\ cachedRouteDecision(n) = "finalize"
    BY <1>BeginFacts DEF ReconcileDelete
  <2> USE <2>1
  <2>2. cache.route[n] # NoRoute /\ cache.route[n].deleting
    BY <1>Decided
  <2>3. "detach" \in Places
    BY DEF Places
  <2>4. /\ s \in Scopes /\ s.pc = "detach" /\ s.n = n /\ s.r \in Routes /\ Same(s.r, cache.route[n])
        /\ s.fresh = FALSE /\ s.u = NoUID
    <3>1. Scoped(s, n, "detach")
      BY <2>0, <2>3, <1>ScopeFacts
    <3> HIDE DEF s
    <3> QED
      BY <3>1 DEF Scoped
  <2> USE <2>4
  <2> HIDE DEF s
  <2>5. /\ s.r.uid # 0 /\ s.r.uid <= spent.routes
        /\ s.r.uid = route[n].uid => s.r.gen <= route[n].gen /\ (s.r.deleting => route[n].deleting)
    BY <2>2, <1>Starts DEF IInv
  <2>6. /\ rec' \in Scopes /\ rec'.pc = "detach" /\ rec'.n = n /\ rec'.r = s.r /\ rec'.mode = "final"
        /\ rec'.fresh = FALSE /\ rec'.u = NoUID
    BY DEF Scopes
  <2> USE <2>6
  <2>7. Aim' /\ Modes'
    BY DEF Aim, Aims, Modes, Ensuring, Cleaning, Resting
  <2>8. Withdrawn'
    BY <2>2 DEF Withdrawn, Same, Cleaning
  <2>9. route' = route
    BY DEF Reads
  <2> QED
    BY <2>5, <2>7, <2>8, <2>9, Prepares DEF IInv
<1>ReconcileWithdrawsStep. ASSUME IInv, NEW n \in Names, ReconcileUnmanaged(n) \/ ReconcileRejected(n)
                           PROVE  IInv'
  <2> USE <1>ReconcileWithdrawsStep
  <2> DEFINE s == Scope(n, "check")
  <2>0. Types
    BY DEF IInv, World
  <2>1. "check" \in Places
    BY DEF Places
  <2>2. /\ s \in Scopes /\ s.pc = "check" /\ s.n = n /\ s.r \in Routes /\ Same(s.r, cache.route[n])
        /\ s.fresh = FALSE /\ s.u = NoUID
    <3>1. Scoped(s, n, "check")
      BY <2>0, <2>1, <1>ScopeFacts
    <3> HIDE DEF s
    <3> QED
      BY <3>1 DEF Scoped
  <2>3. PICK p \in Parents, prog \in {"none", "rejected"} :
           /\ World' /\ rec' = [s EXCEPT !.mode = "status", !.plan = Replace(p, prog)]
           /\ spent'.routes = spent.routes /\ Types /\ Reads /\ cache.route[n] # NoRoute
    <3>1. CASE ReconcileUnmanaged(n)
      <4>1. /\ World' /\ rec' = [s EXCEPT !.mode = "status", !.plan = Replace(0, "none")]
            /\ spent'.routes = spent.routes /\ Types /\ Reads /\ cache.route[n] # NoRoute
        BY <3>1, <1>BeginFacts, <1>Decided DEF ReconcileUnmanaged
      <4> QED
        BY <4>1 DEF Parents
    <3>2. CASE ReconcileRejected(n)
      <4>1. /\ World' /\ spent'.routes = spent.routes /\ Types /\ Reads /\ cache.route[n] # NoRoute
            /\ rec' = [s EXCEPT !.mode = "status",
                                !.plan = Replace(cache.route[n].parent, "rejected")]
        BY <3>2, <1>BeginFacts, <1>Decided DEF ReconcileRejected
      <4>2. cache.route[n].parent \in Parents
        BY <4>1, Typed, RouteFields
      <4> QED
        BY <4>1, <4>2
    <3> QED
      BY <3>1, <3>2
  <2> USE <2>3
  <2>4. Replace(p, prog) \in Plans /\ Replace(p, prog).kind = "replace" /\ Replace(p, prog).prog # "True"
    BY ReplacePlan, SMTT(30) DEF Progs
  <2> HIDE DEF s
  <2>5. /\ s.r.uid # 0 /\ s.r.uid <= spent.routes
        /\ s.r.uid = route[n].uid => s.r.gen <= route[n].gen /\ (s.r.deleting => route[n].deleting)
    BY <2>2, <1>Starts DEF IInv
  <2>6. /\ rec' \in Scopes /\ rec'.pc = "check" /\ rec'.n = n /\ rec'.r = s.r /\ rec'.mode = "status"
        /\ rec'.fresh = FALSE /\ rec'.u = NoUID /\ rec'.plan = Replace(p, prog)
    BY <2>4, <2>2 DEF Scopes
  <2>7. Aim' /\ Modes' /\ Withdrawn'
    BY <2>4, <2>6, StatusCheck
  <2>8. route' = route
    BY DEF Reads
  <2> QED
    BY <2>5, <2>6, <2>7, <2>8, Prepares DEF IInv
<1>GatewayRevision. ASSUME NEW g \in GatewayObjects
                    PROVE  LET v == Revision(g, NoGateway) IN
                           v \in GatewayObjects /\ v.uid = g.uid /\ v.gen = g.gen /\ v.deleting = g.deleting
  BY <1>GatewayRevision, Absences DEF Revision, GatewayObjects
<1>ReconcileSelectedStep. ASSUME IInv, NEW n \in Names, ReconcileSelected(n)
                          PROVE  IInv'
  <2> USE <1>ReconcileSelectedStep
  <2> DEFINE c == cache.route[n]
             p == c.parent
             v == Revision(cache.gw[p], NoGateway)
             moving == Present(c) /\ c.ann # cache.gw[p].uid
             at == IF moving THEN "check" ELSE "prev"
             s == Scope(n, at)
             plan == Replace(p, "pending")
  <2>0. Types
    BY DEF IInv, World
  <2>1. at \in Places /\ at \in {"check", "prev"}
    BY DEF Places
  <2>2. /\ s \in Scopes /\ s.pc = at /\ s.n = n /\ s.r \in Routes /\ Same(s.r, c)
        /\ s.fresh = FALSE /\ s.u = NoUID
    <3> HIDE DEF at
    <3>1. Scoped(s, n, at)
      BY <2>0, <2>1, <1>ScopeFacts
    <3> HIDE DEF s
    <3> QED
      BY <3>1 DEF Scoped
  <2>3. /\ World' /\ rec' = [s EXCEPT !.mode = "prev", !.g = v, !.plan = plan]
        /\ spent'.routes = spent.routes /\ Reads /\ cachedRouteDecision(n) = "select"
    BY <1>BeginFacts DEF ReconcileSelected
  <2>4. c # NoRoute /\ ~c.deleting /\ p # 0 /\ cache.gw[p] # NoGateway
    BY <2>3, <1>Decided DEF Managed
  <2>5. c \in Routes /\ p \in Parents /\ p \in Gateways
    BY <2>0, <2>4, Typed, RouteFields DEF Parents
  <2>6. /\ v \in GatewayObjects /\ v.uid = cache.gw[p].uid /\ v.uid[1] = p /\ KnownGateway(v.uid)
        /\ v.uid \in UIDs
    <3>1. cache.gw[p] \in GatewayObjects
      BY <2>0, <2>5, Typed
    <3>2. v \in GatewayObjects /\ v.uid = cache.gw[p].uid
      BY <3>1, <1>GatewayRevision
    <3>3. cache.gw[p].uid[1] = p /\ KnownGateway(cache.gw[p].uid)
      BY <2>4, <2>5 DEF IInv, World, Identities
    <3>4. cache.gw[p].uid \in Bindings /\ cache.gw[p].uid # NoUID
      BY <2>4, <3>1, <3>3, GatewayFields, UIDFacts
    <3>5. cache.gw[p].uid \in UIDs
      BY <3>4, UIDFacts
    <3> QED
      BY <3>2, <3>3, <3>5
  <2> USE <2>6
  <2>7. plan \in Plans /\ plan.kind = "replace" /\ plan.prog # "True"
    <3>1. "pending" \in Progs /\ "pending" # "True"
      BY DEF Progs
    <3> HIDE DEF plan
    <3>2. plan = Replace(p, "pending")
      BY DEF plan
    <3> QED
      BY <2>5, <3>1, <3>2, ReplacePlan
  <2>8. /\ s.r.uid # 0 /\ s.r.uid <= spent.routes
        /\ s.r.uid = route[n].uid => s.r.gen <= route[n].gen /\ (s.r.deleting => route[n].deleting)
    <3> HIDE DEF s
    <3> QED
      BY <2>2, <2>4, <1>Starts DEF IInv
  <2>9. \A g \in Gateways : Reached(v.uid, cache.gw[g])
    <3>1. \A g \in Gateways : cache.gw[g] = NoGateway \/ cache.gw[g].uid[1] = g
      BY DEF IInv, World, Identities
    <3>2. v.uid[2] \in Nat
      BY UIDFacts
    <3>3. v.uid = cache.gw[p].uid /\ v.uid[1] = p
      OBVIOUS
    <3> HIDE DEF v, p
    <3>4. ASSUME NEW g \in Gateways PROVE Reached(v.uid, cache.gw[g])
      <4>1. CASE g = p
        BY <3>2, <3>3, <4>1, Order DEF Reached
      <4>2. CASE g # p
        BY <3>1, <3>3, <4>2, Absences DEF Reached
      <4> QED
        BY <4>1, <4>2
    <3> QED
      BY <3>4
  <2>10. Reached(route[n].ann, cache.gw[p]) /\ Reached(c.ann, cache.gw[p])
    BY <2>5 DEF IInv, World, BindingsKnown
  <2>11. moving \/ c.ann \in {NoUID, v.uid}
    BY DEF Present
  <2>12. route' = route /\ cache' = cache /\ spent' = spent
    BY <2>3 DEF Reads
  <2> USE <2>12
  <2>13. Copied(n)
    BY DEF IInv, World
  <2> HIDE DEF s, plan, v, moving
  <2>14. /\ rec' \in Scopes /\ rec'.pc = at /\ rec'.n = n /\ rec'.r = s.r /\ rec'.mode = "prev"
         /\ rec'.fresh = FALSE /\ rec'.u = NoUID /\ rec'.plan = plan /\ rec'.g = v
    BY <2>1, <2>2, <2>3, <2>7 DEF Scopes
  <2> USE <2>14
  <2> HIDE DEF at
  <2>15. Modes'
    BY <2>1, <2>7 DEF Modes, Ensuring, Cleaning, Resting
  <2>16. Same(route[n], s.r) =>
            route[n].parent = p /\ (route[n].ann \in {c.ann, NoUID} \/ route[n].ann[1] = p)
    BY <2>2, <2>13 DEF Copied, Same
  <2>17. Aim'
    <3>1. ~s.r.deleting /\ rec'.pc \notin Observing
      BY <2>1, <2>2, <2>4 DEF Same, Observing, Ensuring
    <3> QED
      BY <2>9, <2>16, <3>1 DEF Aim, Aims, Stored, KnownGateway, Reached
  <2>18. Withdrawn'
    <3>1. Reached(Stored.ann, rec.g)' /\ Reached(cache.route[rec.n].ann, rec.g)'
      BY <2>10 DEF Reached, Stored
    <3>2. ASSUME rec'.pc = "prev" PROVE Settled'
      <4>1. c.ann \in {NoUID, v.uid}
        BY <2>11, <3>2 DEF at
      <4> QED
        BY <2>16, <4>1 DEF Settled, Stored
    <3> QED
      BY <2>1, <3>1, <3>2 DEF Withdrawn, Cleaning
  <2> QED
    BY <2>1, <2>3, <2>8, <2>15, <2>17, <2>18, Prepares DEF IInv
<1> QED
  BY <1>BeginEndsStep, <1>ReconcileDeleteStep, <1>ReconcileVersionStep,
     <1>ReconcileWithdrawsStep, <1>ReconcileSelectedStep
  DEF Starting

-----------------------------------------------------------------------------
(* Steps within a reconciliation. *)
(* A step within a reconciliation. *)
Holds == /\ route' = route /\ gw' = gw /\ cache' = cache
         /\ spent'.routes = spent.routes /\ spent'.in = spent.in /\ spent'.made = spent.made

LEMMA ReadsHolds == ASSUME Reads PROVE Holds
BY DEF Reads, Holds

LEMMA Continues ==
  ASSUME IInv, Holds, rec.pc # "idle", rec'.n = rec.n, Same(rec'.r, rec.r)
  PROVE  /\ rec'.n \in Names /\ rec'.r.uid # 0 /\ rec'.r.uid <= spent'.routes
         /\ rec'.r.uid = route'[rec'.n].uid =>
               rec'.r.gen <= route'[rec'.n].gen /\ (rec'.r.deleting => route'[rec'.n].deleting)
<1>1. /\ rec.n \in Names /\ rec.r.uid # 0 /\ rec.r.uid <= spent.routes
      /\ rec.r.uid = route[rec.n].uid =>
               rec.r.gen <= route[rec.n].gen /\ (rec.r.deleting => route[rec.n].deleting)
  BY DEF IInv, Underway, Revisions, Stored
<1> QED
  BY <1>1 DEF Holds, Same

LEMMA AimKept ==
  ASSUME IInv, Holds, Aims, rec'.n = rec.n, Same(rec'.r, rec.r), rec'.g = rec.g,
         rec'.pc \in Observing => rec'.r.parent = rec.g.uid[1]
  PROVE  Aim'
<1>1. /\ rec.g.uid \in UIDs /\ KnownGateway(rec.g.uid) /\ ~rec.r.deleting
      /\ \A g \in Gateways : Reached(rec.g.uid, cache.gw[g])
      /\ Same(route[rec.n], rec.r) => route[rec.n].parent = rec.g.uid[1]
  BY DEF IInv, Underway, Aim, Stored
<1> USE <1>1
<1>2. KnownGateway(rec.g.uid)' /\ \A g \in Gateways : Reached(rec.g.uid, cache.gw[g])'
  BY DEF KnownGateway, Reached, Holds
<1>3. Same(route'[rec.n], rec'.r) => Same(route[rec.n], rec.r)
  BY DEF Same, Holds
<1>4. ~rec'.r.deleting /\ (Same(route'[rec.n], rec'.r) => route'[rec.n].parent = rec.g.uid[1])
  BY <1>3 DEF Same, Holds
<1> QED
  BY <1>2, <1>4 DEF Aim, Stored

(* A revision that is still current was so before. *)
LEMMA RevisionStays ==
  ASSUME IInv, rec.pc # "idle", Later(rec.n), route'[rec.n] \in Routes
  PROVE  /\ rec.n \in Names /\ route[rec.n] \in Routes
         /\ rec.r.uid = route'[rec.n].uid =>
               /\ rec.r.uid = route[rec.n].uid /\ rec.r.gen <= route'[rec.n].gen
               /\ rec.r.deleting => route'[rec.n].deleting
         /\ Same(route'[rec.n], rec.r) =>
               /\ Same(route[rec.n], rec.r) /\ route'[rec.n].parent = route[rec.n].parent
               /\ route'[rec.n].shape = route[rec.n].shape
               /\ route'[rec.n].second = route[rec.n].second
<1> DEFINE q == route[rec.n]
           p == route'[rec.n]
<1>1. /\ rec.n \in Names /\ rec.r.uid # 0 /\ rec.r.uid <= spent.routes
      /\ rec.r.uid = q.uid => rec.r.gen <= q.gen /\ (rec.r.deleting => q.deleting)
  BY DEF IInv, Underway, Revisions, Stored
<1> USE <1>1
<1>2. /\ rec.r \in Routes /\ spent.routes \in Nat /\ q \in Routes /\ p \in Routes
  BY ScopeFields, Typed DEF IInv, World, Underway
<1> USE <1>2
<1>3. /\ rec.r.uid \in Nat /\ rec.r.gen \in Nat /\ q.gen \in Nat /\ p.gen \in Nat
      /\ p.uid \in Nat /\ q.deleting \in BOOLEAN /\ p.deleting \in BOOLEAN
      /\ rec.r.deleting \in BOOLEAN
  BY RouteFields
<1> USE <1>3
<1>4. rec.r.uid = p.uid =>
        /\ p.uid = q.uid /\ p.gen >= q.gen /\ (q.deleting => p.deleting)
        /\ p.gen = q.gen => p.parent = q.parent /\ p.shape = q.shape /\ p.second = q.second
  <2>1. CASE p = NoRoute
    BY <2>1, Absences
  <2>2. CASE p.uid > spent.routes
    BY <2>2, Order
  <2> QED
    BY <2>1, <2>2 DEF Later
<1> HIDE DEF p, q
<1>5. rec.r.uid = p.uid =>
        rec.r.uid = q.uid /\ rec.r.gen <= p.gen /\ (rec.r.deleting => p.deleting)
  BY <1>4, SMTT(30)
<1>6. Same(p, rec.r) => /\ Same(q, rec.r) /\ p.parent = q.parent /\ p.shape = q.shape
                        /\ p.second = q.second
  BY <1>4, Order DEF Same
<1> QED
  BY <1>5, <1>6 DEF p, q

(* A reconciliation goes on to its ensure. *)
LEMMA EnsureStarts ==
  ASSUME IInv, rec.pc # "idle", Aims, Ensure, Later(rec.n), route'[rec.n] \in Routes,
         spent' = spent, cache'.gw = cache.gw
  PROVE  Underway'
<1>1. rec \in Scopes /\ rec.r \in Routes /\ rec.g \in GatewayObjects /\ rec.binding \in BOOLEAN
      /\ rec.n \in Names \cup {0}
  BY ScopeFields DEF IInv, Underway
<1> DEFINE v == InScope(rec.r)
<1>2. v \in Routes /\ Same(v, rec.r) /\ rec' = [Idle EXCEPT !.pc = "e1", !.n = rec.n, !.r = v,
                                                  !.g = rec.g, !.binding = rec.binding]
  BY <1>1, Revised DEF Ensure
<1> USE <1>2
<1>3. "e1" \in Places /\ "e1" \in Ensuring /\ "e1" \notin Observing /\ "e1" \notin Cleaning
      /\ "e1" \notin Resting
  BY DEF Places, Ensuring, Observing, Cleaning, Resting
<1> USE <1>3
<1> HIDE DEF v
<1>4. /\ rec' \in Scopes /\ rec'.pc = "e1" /\ rec'.n = rec.n /\ rec'.r = v /\ rec'.g = rec.g
      /\ rec'.fresh = FALSE /\ rec'.mode = "none" /\ rec'.u = NoUID
  <2>1. Idle \in Scopes /\ Idle.fresh = FALSE /\ Idle.mode = "none" /\ Idle.u = NoUID
    BY Absences DEF Idle
  <2> QED
    BY <1>1, <2>1 DEF Scopes
<1> USE <1>4
<1>5. /\ rec.n \in Names /\ rec.r.uid # 0 /\ rec.r.uid <= spent.routes
  BY DEF IInv, Underway, Revisions
<1>6. /\ rec.r.uid = route'[rec.n].uid =>
            rec.r.gen <= route'[rec.n].gen /\ (rec.r.deleting => route'[rec.n].deleting)
      /\ Same(route'[rec.n], rec.r) =>
            Same(route[rec.n], rec.r) /\ route'[rec.n].parent = route[rec.n].parent
  BY RevisionStays
<1>7. Revisions'
  BY <1>5, <1>6 DEF Revisions, Stored, Same
<1>8. Aim'
  <2>1. /\ rec.g.uid \in UIDs /\ KnownGateway(rec.g.uid) /\ ~rec.r.deleting
        /\ \A g \in Gateways : Reached(rec.g.uid, cache.gw[g])
        /\ Same(route[rec.n], rec.r) => route[rec.n].parent = rec.g.uid[1]
    BY DEF IInv, Underway, Aim, Stored
  <2> USE <2>1
  <2>2. KnownGateway(rec.g.uid)' /\ \A g \in Gateways : Reached(rec.g.uid, cache.gw[g])'
    BY DEF KnownGateway, Reached
  <2>3. ~rec'.r.deleting /\ (Same(route'[rec.n], rec'.r) => route'[rec.n].parent = rec.g.uid[1])
    BY <1>6 DEF Same
  <2> QED
    BY <2>2, <2>3 DEF Aim, Stored
<1>9. Modes' /\ Seals'
  BY DEF Modes, Seals
<1>10. Withdrawn' /\ History'
  BY DEF Withdrawn, History
<1> QED
  BY <1>7, <1>8, <1>9, <1>10 DEF Underway

LEMMA Finishes ==
  ASSUME IInv, rec.pc \in {"detach", "clear"}, Finish, Later(rec.n), route'[rec.n] \in Routes,
         spent' = spent, cache'.gw = cache.gw
  PROVE  Underway' /\ queued' \subseteq Names
<1>1. /\ rec.mode \in {"final", "status", "prev"} /\ rec.plan \in Plans /\ rec.pc # "idle"
      /\ spent'.routes \in Nat /\ spent.routes <= spent'.routes
  <2>1. rec.mode \in {"final", "status", "prev"} /\ rec.plan \in Plans
    BY ScopeFields DEF IInv, Underway, Modes
  <2>2. spent.routes \in Nat
    BY Typed DEF IInv, World
  <2> QED
    BY <2>1, <2>2, Order
<1> USE <1>1
<1>2. CASE rec.mode = "status"
  <2>1. Return(rec.plan, FALSE)
    BY <1>2 DEF Finish
  <2> QED
    BY <2>1, Returned, ReadsQueue DEF Return
<1>3. CASE rec.mode = "prev"
  <2>1. Ensure /\ Aims
    BY <1>3 DEF Finish, Aims
  <2> QED
    BY <2>1, EnsureStarts, ReadsQueue DEF Ensure
<1>4. CASE rec.mode = "final"
  <2>1. Stop
    BY <1>4 DEF Finish
  <2> QED
    BY <2>1, Ends, ReadsQueue DEF Stop
<1> QED
  BY <1>2, <1>3, <1>4

(* A finished cleanup, or one with nothing to clean up, clears the binding. *)
LEMMA Clears ==
  ASSUME IInv, Reads, rec.pc \in {"detach", "delete"}, Go("clear"), rec.u = NoUID \/ Kept
  PROVE  IInv'
<1>1. /\ rec \in Scopes /\ rec.mode \in {"final", "status", "prev"}
      /\ (rec.fresh => rec.pc \in (Cleaning \ {"delete"}) \cup Observing) /\ rec.fresh \in BOOLEAN
  <2>1. rec \in Scopes /\ rec.fresh \in BOOLEAN
    BY ScopeFields DEF IInv, Underway
  <2>2. rec.fresh => rec.pc \in (Cleaning \ {"delete"}) \cup Observing
    BY DEF IInv, Underway, Revisions
  <2>3. rec.mode \in {"final", "status", "prev"}
    BY DEF IInv, Underway, Modes, Cleaning
  <2> QED
    BY <2>1, <2>2, <2>3
<1> USE <1>1
<1>2. ~rec.fresh /\ rec.pc # "idle"
  BY DEF Cleaning, Observing, Ensuring
<1> USE <1>2
<1>3. /\ rec' \in Scopes /\ rec'.pc = "clear" /\ rec'.n = rec.n /\ rec'.r = rec.r /\ rec'.u = rec.u
      /\ rec'.fresh = FALSE /\ rec'.mode = rec.mode /\ rec'.g = rec.g
  BY DEF Go, Scopes, Places
<1> USE <1>3
<1>4. "clear" \notin Cleaning /\ "clear" \notin Ensuring /\ "clear" \notin Observing
      /\ "clear" \notin Resting
  BY DEF Cleaning, Ensuring, Observing, Resting
<1> USE <1>4
<1>5. Holds /\ Same(rec'.r, rec.r)
  BY ReadsHolds DEF Same
<1>6. Revisions'
  <2>1. /\ rec'.n \in Names /\ rec'.r.uid # 0 /\ rec'.r.uid <= spent'.routes
        /\ rec'.r.uid = route'[rec'.n].uid =>
              rec'.r.gen <= route'[rec'.n].gen /\ (rec'.r.deleting => route'[rec'.n].deleting)
    BY <1>5, Continues
  <2> QED
    BY <2>1 DEF Revisions, Stored
<1>7. Aim'
  <2>1. CASE rec.mode = "prev"
    BY <1>5, <2>1, AimKept DEF Aims
  <2>2. CASE rec.mode # "prev"
    BY <2>2 DEF Aim, Aims
  <2> QED
    BY <2>1, <2>2
<1>8. Modes'
  <2>1. (rec.u = NoUID \/ Kept)'
    BY DEF Kept, Reads
  <2> QED
    BY <2>1 DEF Modes
<1>9. Seals' /\ Withdrawn' /\ History'
  BY DEF Seals, Withdrawn, History
<1>10. World'
  BY ReadsQueue, ReadsWorld DEF Go
<1> QED
  BY <1>6, <1>7, <1>8, <1>9, <1>10 DEF IInv, Underway

(* A withdrawn status is checked, and the Gateway the route is bound to found. *)
LEMMA DetachSteps == IInv /\ (Check \/ DetachPrevious \/ Detach) => IInv'
(* No cleanup starts under a status that still promises the route. *)
<1>CheckWithdraws. ASSUME IInv, rec.pc = "check",
                          HasFailure(Stored, rec.plan) \/ Applied(rec.plan, Stored) = Stored.st
                   PROVE  Unpromised(Stored)
  <2> USE <1>CheckWithdraws
  <2>1. rec.plan.kind = "replace" /\ rec.plan.prog # "True"
    BY DEF IInv, Underway, Modes
  <2>2. CASE HasFailure(Stored, rec.plan)
    BY <2>2 DEF HasFailure, Unpromised
  <2>3. CASE Applied(rec.plan, Stored) = Stored.st
    <3>1. Applied(rec.plan, Stored) =
             IF rec.plan.parent = 0 THEN NoStatus
             ELSE [parent |-> rec.plan.parent, prog |-> rec.plan.prog, gen |-> Stored.gen]
      BY <2>1 DEF Applied
    <3>2. Applied(rec.plan, Stored).prog # "True"
      BY <2>1, <3>1, Absences, SMTT(30)
    <3> QED
      BY <2>3, <3>2 DEF Unpromised
  <2> QED
    BY <2>2, <2>3
<1>CheckStep. ASSUME IInv, Check
              PROVE  IInv'
  <2> USE <1>CheckStep
  <2> DEFINE at == IF rec.mode = "prev" THEN "prev" ELSE "detach"
             next == [rec EXCEPT !.pc = at, !.r = InScope(route[rec.n])]
  <2>1. rec.pc = "check" /\ rec.pc # "idle" /\ Reads /\ Remember
    BY QuietReads DEF Check
  <2> USE <2>1
  <2>2. CASE Again
    BY <2>2, ReadsAndEnds
  <2>3. CASE Return(rec.plan, TRUE)
    BY <2>3, ReadsAndReturns, ScopeFields DEF IInv, Underway
  <2>4. CASE /\ rec' = next /\ UNCHANGED queued /\ Same(route[rec.n], rec.r)
             /\ HasFailure(route[rec.n], rec.plan) \/ Applied(rec.plan, route[rec.n]) = route[rec.n].st
    <3> USE <2>4
    <3>1. /\ rec \in Scopes /\ rec.mode \in {"status", "prev"} /\ rec.u = NoUID
          /\ (rec.fresh => rec.pc \in Cleaning \cup Observing) /\ rec.fresh \in BOOLEAN
      BY ScopeFields DEF IInv, Underway, Modes, Revisions
    <3> USE <3>1
    <3>2. ~rec.fresh
      BY DEF Cleaning, Observing, Ensuring
    <3>3. Unpromised(Stored)
      BY <1>CheckWithdraws DEF Stored
    <3>4. InScope(route[rec.n]) \in Routes /\ Same(InScope(route[rec.n]), rec.r)
      BY Unread, Revised DEF Same
    <3> USE <3>4
    <3>5. at \in Places /\ at \in {"prev", "detach"}
      BY DEF Places
    <3> USE <3>5
    <3>6. /\ rec' \in Scopes /\ rec'.pc = at /\ rec'.n = rec.n /\ rec'.r = InScope(route[rec.n])
          /\ rec'.fresh = FALSE /\ rec'.mode = rec.mode /\ rec'.u = NoUID /\ rec'.g = rec.g
      <4> HIDE DEF at
      <4> QED
        BY <3>2 DEF Scopes
    <3> USE <3>6
    <3>7. Modes'
      BY DEF Modes, Cleaning, Ensuring, Resting
    <3>8. Aim'
      <4>1. rec'.pc \notin Observing /\ rec'.pc \notin Ensuring
        BY DEF Observing, Ensuring
      <4>2. CASE rec.mode = "prev"
        BY <4>1, <4>2, AimKept, ReadsHolds DEF Aims
      <4>3. CASE rec.mode # "prev"
        BY <4>1, <4>3 DEF Aim, Aims
      <4> QED
        BY <4>2, <4>3
    <3>9. Withdrawn'
      <4>1. Unpromised(Stored)'
        BY <3>3 DEF Unpromised, Stored, Reads
      <4>2. rec.mode = "prev" => Reached(Stored.ann, rec.g) /\ Reached(cache.route[rec.n].ann, rec.g)
        BY DEF IInv, Underway, Withdrawn
      <4>3. rec'.mode = "prev" =>
               Reached(Stored.ann, rec.g)' /\ Reached(cache.route[rec.n].ann, rec.g)'
        BY <4>2 DEF Reached, Stored, Reads
      <4>4. rec'.pc \notin Cleaning /\ rec'.mode # "final"
        BY DEF Cleaning
      <4> QED
        BY <4>1, <4>3, <4>4 DEF Withdrawn, Cleaning
    <3>10. Underway'
      BY <3>7, <3>8, <3>9, Prepares, Continues, ReadsHolds
    <3>11. World'
      BY ReadsWorld, ReadsQueue
    <3> QED
      BY <3>10, <3>11 DEF IInv
  <2> QED
    BY <2>2, <2>3, <2>4 DEF Check
<1>DetachPreviousStep. ASSUME IInv, DetachPrevious
                       PROVE  IInv'
  <2> USE <1>DetachPreviousStep
  <2> DEFINE c == cache.route[rec.n]
  <2>1. rec.pc = "prev" /\ rec.pc # "idle" /\ Reads /\ Remember
    BY QuietReads DEF DetachPrevious
  <2> USE <2>1
  <2>2. /\ rec.mode = "prev" /\ Aims /\ rec \in Scopes /\ rec.u = NoUID
        /\ (rec.fresh => rec.pc \in Cleaning \cup Observing) /\ rec.fresh \in BOOLEAN
    BY ScopeFields DEF IInv, Underway, Modes, Aims, Revisions
  <2> USE <2>2
  <2>3. CASE Again
    BY <2>3, ReadsAndEnds
  <2>4. CASE Ensure
    <3>1. spent' = spent /\ cache' = cache
      BY DEF Reads
    <3>2. Underway'
      BY <2>4, <3>1, Unread, EnsureStarts
    <3>3. queued' \subseteq Names
      BY <2>4, ReadsQueue DEF Ensure
    <3> QED
      BY <3>2, <3>3, ReadsWorld DEF IInv
  <2>5. CASE Go("detach") /\ Same(c, rec.r) /\ c.ann # NoUID /\ c.ann # rec.g.uid
    <3> USE <2>5
    <3>1. ~rec.fresh
      BY DEF Cleaning, Observing, Ensuring
    <3>2. /\ rec' \in Scopes /\ rec'.pc = "detach" /\ rec'.n = rec.n /\ rec'.r = rec.r
          /\ rec'.fresh = FALSE /\ rec'.mode = "prev" /\ rec'.u = NoUID /\ rec'.g = rec.g
      BY <3>1 DEF Go, Scopes, Places
    <3> USE <3>2
    <3>3. Modes'
      BY DEF Modes, Cleaning, Ensuring, Resting
    <3>4. Same(rec'.r, rec.r) /\ Holds
      BY ReadsHolds DEF Same
    <3> USE <3>4
    <3>5. Aim'
      BY AimKept DEF Observing, Ensuring
    <3>6. Unpromised(Stored) \/ Left
      <4>1. Unpromised(Stored) \/ Settled
        BY DEF IInv, Underway, Withdrawn
      <4>2. ASSUME Settled PROVE Left
        BY <4>2 DEF Settled, Left
      <4> QED
        BY <4>1, <4>2
    <3>7. Withdrawn'
      <4>1. (Unpromised(Stored) \/ Left)'
        BY <3>6, Order DEF Unpromised, Left, Stored, Same, Holds
      <4>2. Reached(Stored.ann, rec.g) /\ Reached(cache.route[rec.n].ann, rec.g)
        BY DEF IInv, Underway, Withdrawn
      <4>3. Reached(Stored.ann, rec.g)' /\ Reached(cache.route[rec.n].ann, rec.g)'
        BY <4>2 DEF Reached, Stored, Holds
      <4> QED
        BY <4>1, <4>3 DEF Withdrawn, Cleaning
    <3>8. Underway'
      BY <3>3, <3>5, <3>7, Prepares, Continues
    <3>9. World'
      BY ReadsWorld, ReadsQueue DEF Go
    <3> QED
      BY <3>8, <3>9 DEF IInv
  <2> QED
    BY <2>3, <2>4, <2>5 DEF DetachPrevious, Present
(* A binding left behind at an earlier Gateway of the same name has no       *)
(* resources: their load balancer went with that Gateway.                    *)
<1>LeftIsEmpty. ASSUME IInv, rec.mode = "prev", NEW u \in UIDs, NEW x \in RouteUIDs, u[1] = rec.g.uid[1],
                       u # rec.g.uid, Reached(u, rec.g)
                PROVE  parts[u][x] = "none"
  <2> USE <1>LeftIsEmpty
  <2>1. rec.g.uid \in UIDs /\ KnownGateway(rec.g.uid)
    BY DEF IInv, Underway, Aim, Aims
  <2>2. /\ u = <<u[1], u[2]>> /\ u[2] \in Nat /\ u[1] \in Gateways /\ u # NoUID
        /\ rec.g.uid = <<rec.g.uid[1], rec.g.uid[2]>> /\ rec.g.uid[2] \in Nat /\ rec.g.uid # NoUID
    BY <2>1, UIDFacts
  <2> USE <2>2
  <2>3. u[2] # rec.g.uid[2] /\ u[2] <= rec.g.uid[2]
    BY DEF Reached
  <2>4. /\ u[1] \in spent.in.parents /\ rec.g.uid[2] <= spent.made[u[1]]
    BY <2>1 DEF KnownGateway
  <2>5. spent.made[u[1]] \in Nat
    BY <2>4, Typed DEF IInv, World
  <2>6. SUFFICES ASSUME parts[u][x] # "none" PROVE FALSE
    OBVIOUS
  <2>7. gw[u[1]].uid = u
    BY <2>6 DEF IInv, World, Bound
  <2>8. u = <<u[1], spent.made[u[1]]>>
    BY <2>7, Absences DEF IInv, World, Identities
  <2>9. u[2] = spent.made[u[1]]
    BY <2>8, SMTT(30)
  <2> QED
    BY <2>3, <2>4, <2>5, <2>9, SMTT(30)
<1>DetachStarts. ASSUME IInv, rec.pc = "detach", Reads, Same(cache.route[rec.n], rec.r),
                        cache.route[rec.n].ann # NoUID,
                        rec' = [rec EXCEPT !.pc = "c1", !.r = SpecOf(cache.route[rec.n]),
                                           !.u = cache.route[rec.n].ann, !.fresh = (rec.n \in cache.fresh)]
                 PROVE  Underway'
  <2> USE <1>DetachStarts
  <2> DEFINE c == cache.route[rec.n]
             v == SpecOf(c)
             f == (rec.n \in cache.fresh)
  <2>1. /\ rec.n \in Names /\ c \in Routes /\ route[rec.n] \in Routes /\ Types /\ Holds
        /\ rec.pc # "idle"
    BY Unread, ReadsHolds
  <2> USE <2>1
  <2>2. /\ v \in Routes /\ Same(v, c) /\ Same(v, rec.r) /\ v.parent = c.parent /\ v.shape = c.shape
        /\ v.second = c.second
    BY Revised DEF Same
  <2> USE <2>2
  <2>3. c.ann \in Bindings /\ c.ann \in UIDs /\ f \in BOOLEAN
    BY RouteFields, UIDFacts, SMTT(30)
  <2>4. /\ rec \in Scopes /\ rec.r \in Routes /\ rec.mode \in {"final", "status", "prev"}
        /\ rec.r.uid # 0 /\ rec.r.uid <= spent.routes
    BY ScopeFields DEF IInv, Underway, Modes, Revisions
  <2>5. rec.r.uid \in RouteUIDs
    BY <2>4, Typed, RouteFields, SMTT(30)
  <2>6. Copied(rec.n)
    BY DEF IInv, World
  <2> HIDE DEF v, f
  <2>7. /\ rec' \in Scopes /\ rec'.pc = "c1" /\ rec'.n = rec.n /\ rec'.r = v /\ rec'.u = c.ann
        /\ rec'.fresh = f /\ rec'.mode = rec.mode /\ rec'.g = rec.g
    <3>1. rec' = [rec EXCEPT !.pc = "c1", !.r = v, !.u = c.ann, !.fresh = f] /\ "c1" \in Places
      BY DEF v, f, Places, Cleaning
    <3> HIDE DEF c
    <3>2. rec' \in Scopes
      BY <2>3, <2>4, <3>1 DEF Scopes
    <3> QED
      BY <2>4, <3>1, <3>2 DEF Scopes
  <2> USE <2>7
  <2>8. "c1" \in Cleaning /\ "c1" \notin Ensuring /\ "c1" \notin Observing /\ "c1" \notin Resting
    BY DEF Cleaning, Ensuring, Observing, Resting
  <2> USE <2>8
  <2>9. Revisions'
    <3>1. /\ rec'.n \in Names /\ rec'.r.uid # 0 /\ rec'.r.uid <= spent'.routes
          /\ rec'.r.uid = route'[rec'.n].uid =>
                rec'.r.gen <= route'[rec'.n].gen /\ (rec'.r.deleting => route'[rec'.n].deleting)
      BY Continues
    <3>2. Same(route[rec.n], v) => /\ route[rec.n].parent = v.parent /\ route[rec.n].shape = v.shape
                                   /\ route[rec.n].second = v.second
      BY <2>6, Order DEF Copied, Same
    <3>3. f => Same(route[rec.n], v)
      BY <2>6 DEF Copied, Same, f
    <3> QED
      BY <3>1, <3>2, <3>3 DEF Revisions, Stored, Holds
  <2>10. Aim'
    <3>1. CASE rec.mode = "prev"
      BY <3>1, AimKept DEF Aims
    <3>2. CASE rec.mode # "prev"
      BY <3>2 DEF Aim, Aims
    <3> QED
      BY <3>1, <3>2
  <2>11. Modes' /\ Seals' /\ History'
    <3>1. Modes'
      BY <2>3, <2>4 DEF Modes
    <3>2. Seals' /\ History'
      BY DEF Seals, History, Observing, Ensuring
    <3> QED
      BY <3>1, <3>2
  <2>12. v.deleting \/ Unpromised(Stored) \/ parts[c.ann][v.uid] = "none"
    <3>1. CASE rec.mode = "status"
      BY <3>1 DEF IInv, Underway, Withdrawn
    <3>2. CASE rec.mode = "final"
      BY <3>2 DEF IInv, Underway, Withdrawn, Same
    <3>3. CASE rec.mode = "prev"
      <4>1. (Unpromised(Stored) \/ Left) /\ Reached(c.ann, rec.g)
        BY <3>3 DEF IInv, Underway, Withdrawn
      <4>2. ASSUME Left PROVE parts[c.ann][v.uid] = "none"
        <5>1. c.ann[1] = rec.g.uid[1] /\ c.ann # rec.g.uid
          BY <4>2 DEF Left
        <5>2. v.uid = rec.r.uid
          BY DEF Same
        <5> QED
          BY <2>3, <2>5, <3>3, <4>1, <5>1, <5>2, <1>LeftIsEmpty, ZenonT(60)
      <4> QED
        BY <4>1, <4>2
    <3> QED
      BY <2>4, <3>1, <3>2, <3>3
  <2>13. Withdrawn'
    <3>1. parts' = parts /\ route' = route
      BY DEF Reads
    <3>2. (rec.r.deleting \/ Unpromised(Stored) \/ Kept)'
      BY <2>12, <3>1 DEF Unpromised, Stored, Kept
    <3> QED
      BY <3>2 DEF Withdrawn
  <2> QED
    BY <2>9, <2>10, <2>11, <2>13 DEF Underway
<1>DetachStep. ASSUME IInv, Detach
               PROVE  IInv'
  <2> USE <1>DetachStep
  <2>1. rec.pc = "detach" /\ rec.pc # "idle" /\ Reads
    BY QuietReads DEF Detach
  <2> USE <2>1
  <2>2. CASE Again \/ Stop
    BY <2>2, ReadsAndEnds
  <2>3. CASE Finish
    <3>1. spent' = spent /\ cache' = cache
      BY DEF Reads
    <3>2. Underway' /\ queued' \subseteq Names
      BY <2>3, <3>1, Unread, Finishes
    <3> QED
      BY <3>2, ReadsWorld DEF IInv
  <2>4. CASE Go("clear")
    <3>1. rec.u = NoUID
      BY DEF IInv, Underway, Modes
    <3> QED
      BY <2>4, <3>1, Clears
  <2>5. CASE /\ rec' = [rec EXCEPT !.pc = "c1", !.r = SpecOf(cache.route[rec.n]),
                          !.u = cache.route[rec.n].ann, !.fresh = (rec.n \in cache.fresh)]
             /\ UNCHANGED queued /\ Same(cache.route[rec.n], rec.r) /\ cache.route[rec.n].ann # NoUID
    BY <2>5, <1>DetachStarts, ReadsWorld, ReadsQueue DEF IInv
  <2> QED
    BY <2>2, <2>3, <2>4, <2>5 DEF Detach, Present
<1> QED
  BY <1>CheckStep, <1>DetachPreviousStep, <1>DetachStep

LEMMA SeenGrows ==
  ASSUME Remember, rec'.pc \in Cleaning \cup Ensuring,
         rec'.pc = rec.pc \/ rec'.pc \notin {"c1", "e1"}
  PROVE  seen \subseteq seen' /\ Now' \subseteq seen'
BY DEF Remember

(* The reads of a cleanup. *)
Surveying == {"c2", "c3", "c4", "c5", "c6", "c7", "c8", "c9", "c10", "seal", "delete"}

(* What the history holds stays there. *)
LEMMA HistoryGrows ==
  ASSUME seen \subseteq seen', rec'.n = rec.n
  PROVE  /\ Others' = Others /\ (Clear({}) => Clear({})') /\ (Displaced => Displaced')
         /\ rec'.rivals = rec.rivals => (Clear(rec.rivals) => Clear(rec.rivals)')
<1>1. Others' = Others
  BY DEF Others
<1> QED
  BY <1>1 DEF Clear, Displaced

(* The snapshot before a cleanup, and its seal. *)
LEMMA CleanupSteps ==
  /\ IInv
  /\ \/ CleanupObserveRoute \/ CleanupObserveParent \/ CleanupObserveClass
     \/ CleanupObserveBundle \/ CleanupObserveParentAgain \/ CleanupObserveClassAgain
     \/ CleanupEvaluateSlot \/ CleanupListRoutes \/ CleanupEvaluateRival
     \/ CleanupBuildModel \/ SealCleanup
  => IInv'
<1>CleanupAdvances. ASSUME IInv, Reads, Remember, rec.pc \in Cleaning, rec'.pc \in Surveying, rec' \in Scopes,
                           rec'.n = rec.n, rec'.r = rec.r, rec'.g = rec.g, rec'.u = rec.u, rec'.mode = rec.mode,
                           rec'.fresh = rec.fresh \/ rec'.fresh = FALSE, rec'.pc = "delete" => rec'.fresh = FALSE,
                           rec.pc = "c1" /\ rec.r.deleting => Unpromised(Stored),
                           queued' = queued, History'
                    PROVE  IInv'
  <2> USE <1>CleanupAdvances
  <2>1. /\ rec.pc # "idle" /\ rec.fresh \in BOOLEAN /\ rec.pc \notin Ensuring
        /\ rec'.pc \in Cleaning \ {"c1"} /\ rec'.pc \notin Ensuring /\ rec'.pc \notin Observing
        /\ rec'.pc \notin Resting
        /\ rec'.pc \notin {"clear", "detach", "check", "prev"}
    BY ScopeFields DEF IInv, Underway, Cleaning, Ensuring, Observing, Surveying, Resting
  <2> USE <2>1
  <2>2. Holds /\ Same(rec'.r, rec.r)
    BY ReadsHolds DEF Same
  <2> USE <2>2
  <2>3. Revisions'
    <3>1. /\ rec'.n \in Names /\ rec'.r.uid # 0 /\ rec'.r.uid <= spent'.routes
          /\ rec'.r.uid = route'[rec'.n].uid =>
                rec'.r.gen <= route'[rec'.n].gen /\ (rec'.r.deleting => route'[rec'.n].deleting)
      BY Continues
    <3>2. /\ Same(Stored, rec.r) => /\ Stored.parent = rec.r.parent /\ Stored.shape = rec.r.shape
                                    /\ Stored.second = rec.r.second
          /\ rec.fresh => Same(Stored, rec.r)
      BY DEF IInv, Underway, Revisions
    <3>3. (Stored = route[rec.n] /\ Stored' = route[rec.n])
      BY DEF Stored, Holds
    <3> QED
      BY <3>1, <3>2, <3>3 DEF Revisions, Stored
  <2>4. Aim'
    <3>1. CASE rec.mode = "prev"
      BY <3>1, AimKept DEF Aims
    <3>2. CASE rec.mode # "prev"
      BY <3>2 DEF Aim, Aims
    <3> QED
      BY <3>1, <3>2
  <2>5. Modes'
    <3>1. rec.u \in UIDs /\ rec.mode \in {"final", "status", "prev"}
      BY DEF IInv, Underway, Modes
    <3> QED
      BY <3>1 DEF Modes
  <2>6. Seals'
    BY DEF Seals, Ensuring
  <2>7. Withdrawn'
    <3>1. Unpromised(Stored) \/ Kept
      BY DEF IInv, Underway, Withdrawn
    <3>2. (Unpromised(Stored) \/ Kept)'
      BY <3>1 DEF Unpromised, Kept, Stored, Reads
    <3> QED
      BY <3>2 DEF Withdrawn
  <2>8. World'
    BY ReadsQueue, ReadsWorld
  <2> QED
    BY <2>3, <2>4, <2>5, <2>6, <2>7, <2>8 DEF IInv, Underway
<1>Momentary. ASSUME Reads, Remember, rec'.pc \in Surveying, rec'.n = rec.n, rec'.u = rec.u
              PROVE  /\ seen \subseteq seen' /\ (bundle => <<"bundle", 0>> \in seen')
                     /\ ~Eligible(rec.n, route[rec.n], rec.u) => <<"unwanted", 0>> \in seen'
                     /\ Exempt => <<"exempt", 0>> \in seen'
                     /\ \A m \in Others : /\ Older(m) => <<"older", m>> \in seen'
                                          /\ CanReserve(svc[m]) => <<"reserves", m>> \in seen'
  <2> USE <1>Momentary
  <2>1. rec'.pc \in Cleaning /\ rec'.pc \notin Ensuring /\ rec'.pc \notin {"c1", "e1"}
    BY DEF Surveying, Cleaning, Ensuring
  <2>2. seen \subseteq seen' /\ Now' \subseteq seen'
    BY <2>1, SeenGrows
  <2>3. Eligible(rec.n, route[rec.n], rec.u)' <=> Eligible(rec.n, route[rec.n], rec.u)
    BY DEF Eligible, Attachable, Managed, Reads
  <2>4. Exempt' <=> Exempt
    BY DEF Exempt, Managed, Reads
  <2>5. /\ (bundle' => <<"bundle", 0>> \in Now') /\ (Exempt' => <<"exempt", 0>> \in Now')
        /\ ~Eligible(rec.n, route[rec.n], rec.u)' => <<"unwanted", 0>> \in Now'
    BY <2>1 DEF Now, Fact
  <2>6. bundle' = bundle
    BY DEF Reads
  <2>7. ASSUME NEW m \in Others
        PROVE  /\ Older(m) => <<"older", m>> \in seen'
               /\ CanReserve(svc[m]) => <<"reserves", m>> \in seen'
    <3>1. m \in Others' /\ svc' = svc /\ (Older(m) => Older(m)')
      BY <2>7 DEF Others, Older, Rivals, Reads
    <3>2. /\ Older(m)' => <<"older", m>> \in Now'
          /\ CanReserve(svc[m])' => <<"reserves", m>> \in Now'
      BY <2>1, <3>1 DEF Now
    <3> QED
      BY <2>2, <3>1, <3>2
  <2> QED
    BY <2>2, <2>3, <2>4, <2>5, <2>6, <2>7
<1>Sealed. ASSUME IInv, Reads, Remember, rec.pc \in Cleaning, Seal,
                  rec.pc = "c1" /\ rec.r.deleting => Unpromised(Stored),
                  rec.fresh => /\ <<"unwanted", 0>> \in seen' \/ Displaced'
                               /\ <<"bundle", 0>> \in seen' \/ <<"exempt", 0>> \in seen'
           PROVE  IInv'
  <2> USE <1>Sealed
  <2>1. rec \in Scopes /\ rec.fresh \in BOOLEAN /\ NoGateway \in GatewayObjects /\ "seal" \in Places
    BY ScopeFields, Absences DEF IInv, Underway, Places, Cleaning
  <2>2. /\ rec' \in Scopes /\ rec'.pc = "seal" /\ rec'.n = rec.n /\ rec'.r = rec.r /\ rec'.g = rec.g
        /\ rec'.u = rec.u /\ rec'.mode = rec.mode /\ rec'.fresh = rec.fresh /\ queued' = queued
    BY <2>1 DEF Seal, Scopes
  <2>3. History'
    BY <2>2 DEF History
  <2> QED
    BY <2>2, <2>3, <1>CleanupAdvances DEF Surveying
(* What a cleanup's copy says of the live route while it is fresh. *)
<1>FreshCopy. ASSUME IInv, rec.pc \in Cleaning, rec.fresh
              PROVE  /\ Same(route[rec.n], rec.r) /\ route[rec.n].parent = rec.r.parent
                     /\ route[rec.n].shape = rec.r.shape /\ route[rec.n].second = rec.r.second
  BY <1>FreshCopy DEF IInv, Underway, Revisions, Stored
<1>Unattached. ASSUME NEW n, NEW r, NEW u
               PROVE  /\ ~Managed(r.parent, gw, cls) => ~Eligible(n, r, u)
                      /\ r.deleting \/ r.shape # "ok" \/ svc[n] # "ok" => ~Eligible(n, r, u)
                      /\ gw[r.parent].uid # u \/ Refused(gw[r.parent]) => ~Eligible(n, r, u)
  BY <1>Unattached DEF Eligible, Attachable
<1>CleanupObserveRouteStep. ASSUME IInv, CleanupObserveRoute
                            PROVE  IInv'
  <2> USE <1>CleanupObserveRouteStep
  <2>1. rec.pc = "c1" /\ rec.pc # "idle" /\ rec.pc \in Cleaning /\ Reads /\ Remember
    BY QuietReads DEF CleanupObserveRoute, Cleaning
  <2> USE <2>1
  <2>2. CASE Again
    BY <2>2, ReadsAndEnds
  <2>3. CASE rec.fresh /\ rec.r.deleting /\ Seal
    <3> USE <2>3
    <3>1. route[rec.n].deleting
      BY <1>FreshCopy DEF Same
    <3>2. Unpromised(Stored) /\ Exempt /\ ~Eligible(rec.n, route[rec.n], rec.u)
      BY <3>1 DEF Unpromised, Stored, Exempt, Eligible, Attachable
    <3>3. rec \in Scopes
      BY DEF IInv, Underway
    <3>4. rec'.pc \in Surveying /\ rec'.n = rec.n /\ rec'.u = rec.u
      BY <3>3 DEF Seal, Surveying, Scopes
    <3>5. <<"unwanted", 0>> \in seen' /\ <<"exempt", 0>> \in seen'
      BY <3>2, <3>4, <1>Momentary
    <3> QED
      BY <3>2, <3>5, <1>Sealed
  <2>4. CASE rec.fresh /\ ~rec.r.deleting /\ Go("c2")
    <3>1. rec \in Scopes
      BY DEF IInv, Underway
    <3>2. /\ rec' \in Scopes /\ rec'.pc = "c2" /\ rec'.n = rec.n /\ rec'.r = rec.r /\ rec'.g = rec.g
          /\ rec'.u = rec.u /\ rec'.mode = rec.mode /\ rec'.fresh = rec.fresh /\ queued' = queued
      BY <2>4, <3>1 DEF Go, Scopes, Places, Cleaning
    <3>3. History'
      BY <3>2 DEF History
    <3> QED
      BY <2>4, <3>2, <3>3, <1>CleanupAdvances DEF Surveying
  <2> QED
    BY <2>2, <2>3, <2>4 DEF CleanupObserveRoute
<1>CleanupObserveGatewayStep. ASSUME IInv, CleanupObserveParent \/ CleanupObserveParentAgain
                              PROVE  IInv'
  <2> USE <1>CleanupObserveGatewayStep
  <2>1. /\ <<rec.pc, rec'.pc>> \in {<<"c2", "c3">>, <<"c5", "c6">>, <<"c2", "seal">>, <<"c5", "seal">>}
        /\ \/ Observed = NoGateway /\ Seal
           \/ /\ Observed # NoGateway /\ rec' = [rec EXCEPT !.pc = rec'.pc, !.o = Observed]
              /\ UNCHANGED queued /\ rec'.pc \in {"c3", "c6"}
        /\ Reads /\ Remember
    <3>1. rec \in Scopes
      BY DEF IInv, Underway
    <3> QED
      BY <3>1, QuietReads DEF CleanupObserveParent, CleanupObserveParentAgain, CleanupObserveGateway,
         Seal, Scopes
  <2> USE <2>1
  <2>2. rec.pc \in Cleaning /\ rec.pc # "c1" /\ rec'.pc \in Surveying /\ rec.pc # "idle"
    BY DEF Cleaning, Surveying
  <2> USE <2>2
  <2>3. /\ rec \in Scopes /\ rec.n \in Names /\ rec.r \in Routes /\ route[rec.n] \in Routes
        /\ Observed \in GatewayObjects
    <3>1. rec \in Scopes /\ rec.r \in Routes /\ route[rec.n] \in Routes /\ rec.n \in Names /\ Types
      BY Unread, ScopeFields DEF IInv, Underway
    <3>2. rec.r.parent \in Parents
      BY <3>1, RouteFields
    <3> QED
      BY <3>1, <3>2, Typed, Absences DEF Observed, Parents
  <2>4. CASE Observed = NoGateway /\ Seal
    <3> USE <2>4
    <3>1. rec'.n = rec.n /\ rec'.u = rec.u
      BY <2>3 DEF Seal, Scopes
    <3>2. ASSUME rec.fresh PROVE <<"unwanted", 0>> \in seen' /\ <<"exempt", 0>> \in seen'
      <4>1. ~Managed(route[rec.n].parent, gw, cls)
        BY <3>2, <1>FreshCopy DEF Observed, Managed
      <4> QED
        BY <3>1, <4>1, <1>Momentary, <1>Unattached DEF Exempt
    <3> QED
      BY <3>2, <1>Sealed
  <2>5. CASE /\ Observed # NoGateway /\ rec' = [rec EXCEPT !.pc = rec'.pc, !.o = Observed]
             /\ UNCHANGED queued /\ rec'.pc \in {"c3", "c6"}
    <3> USE <2>5
    <3> DEFINE at == rec'.pc
    <3>1. at \in Places
      BY DEF Places, Cleaning
    <3>2. /\ rec' \in Scopes /\ rec'.n = rec.n /\ rec'.r = rec.r /\ rec'.g = rec.g
          /\ rec'.u = rec.u /\ rec'.mode = rec.mode /\ rec'.fresh = rec.fresh /\ rec'.o = Observed
      <4>1. rec' = [rec EXCEPT !.pc = at, !.o = Observed]
        OBVIOUS
      <4> HIDE DEF at
      <4> QED
        BY <2>3, <3>1, <4>1 DEF Scopes
    <3> USE <3>2
    <3>3. rec.fresh => gw[route[rec.n].parent] = Observed
      BY <1>FreshCopy DEF Observed
    <3>4. rec.fresh /\ (Refused(Observed) \/ Observed.uid # rec.u) => <<"unwanted", 0>> \in seen'
      BY <3>3, <1>Momentary, <1>Unattached, SMTT(30)
    <3>5. rec.fresh /\ Observed.deleting /\ Observed.uid = rec.u => <<"exempt", 0>> \in seen'
      BY <3>3, <1>Momentary DEF Exempt
    <3>6. rec'.pc = "c6" => <<"bundle", 0>> \in seen'
      <4>1. rec'.pc = "c6" => rec.pc = "c5"
        OBVIOUS
      <4>2. rec.pc = "c5" => <<"bundle", 0>> \in seen
        BY DEF IInv, Underway, History
      <4> QED
        BY <4>1, <4>2, <1>Momentary
    <3>7. History'
      BY <3>4, <3>5, <3>6 DEF History, Refused
    <3> QED
      BY <3>7, <1>CleanupAdvances
  <2> QED
    BY <2>4, <2>5
<1>CleanupGoes. ASSUME IInv, rec.pc \in Cleaning, NEW pc \in Surveying, Go(pc)
                PROVE  /\ rec' \in Scopes /\ rec'.pc = pc /\ rec'.n = rec.n /\ rec'.r = rec.r /\ rec'.g = rec.g
                       /\ rec'.u = rec.u /\ rec'.mode = rec.mode /\ rec'.fresh = rec.fresh /\ rec'.o = rec.o
                       /\ rec'.rivals = rec.rivals /\ queued' = queued
  <2> USE <1>CleanupGoes
  <2>1. rec \in Scopes /\ pc \in Places
    BY DEF IInv, Underway, Surveying, Places, Cleaning
  <2> QED
    BY <2>1 DEF Go, Scopes
<1>SealFacts. ASSUME IInv, Seal
              PROVE  rec'.pc \in Surveying /\ rec'.n = rec.n /\ rec'.u = rec.u
  <2> USE <1>SealFacts
  <2>1. rec \in Scopes
    BY DEF IInv, Underway
  <2> QED
    BY <2>1 DEF Seal, Surveying, Scopes
<1>CleanupObserveClassStep. ASSUME IInv, CleanupObserveClass
                            PROVE  IInv'
  <2> USE <1>CleanupObserveClassStep
  <2>1. rec.pc = "c3" /\ rec.pc # "c1" /\ rec.pc # "idle" /\ rec.pc \in Cleaning /\ Reads /\ Remember
    BY QuietReads DEF CleanupObserveClass, Cleaning
  <2> USE <2>1
  <2>2. CASE ~cls.ours /\ Seal
    <3> USE <2>2
    <3>1. ~Managed(route[rec.n].parent, gw, cls)
      BY DEF Managed
    <3>2. <<"unwanted", 0>> \in seen' /\ <<"exempt", 0>> \in seen'
      BY <3>1, <1>Momentary, <1>SealFacts, <1>Unattached DEF Exempt
    <3> QED
      BY <3>2, <1>Sealed
  <2>3. CASE rec.o.deleting /\ rec.o.uid = rec.u /\ Seal
    <3> USE <2>3
    <3>1. rec.fresh => <<"unwanted", 0>> \in seen /\ <<"exempt", 0>> \in seen
      BY DEF IInv, Underway, History
    <3>2. rec.fresh => <<"unwanted", 0>> \in seen' /\ <<"exempt", 0>> \in seen'
      BY <3>1, <1>Momentary, <1>SealFacts
    <3> QED
      BY <3>2, <1>Sealed
  <2>4. CASE Go("c4")
    <3>1. "c4" \in Surveying
      BY DEF Surveying
    <3>2. History'
      BY <2>4, <3>1, <1>CleanupGoes DEF History
    <3> QED
      BY <2>4, <3>1, <3>2, <1>CleanupGoes, <1>CleanupAdvances
  <2> QED
    BY <2>2, <2>3, <2>4 DEF CleanupObserveClass
<1>CleanupObserveBundleStep. ASSUME IInv, CleanupObserveBundle
                             PROVE  IInv'
  <2> USE <1>CleanupObserveBundleStep
  <2>1. rec.pc = "c4" /\ rec.pc # "c1" /\ rec.pc # "idle" /\ rec.pc \in Cleaning /\ Reads /\ Remember
    BY QuietReads DEF CleanupObserveBundle, Cleaning
  <2> USE <2>1
  <2>2. CASE Version
    BY <2>2, ReadsVersion
  <2>3. CASE bundle /\ Go("c5")
    <3> USE <2>3
    <3>1. "c5" \in Surveying
      BY DEF Surveying
    <3> USE <3>1
    <3>2. <<"bundle", 0>> \in seen'
      BY <1>CleanupGoes, <1>Momentary
    <3>3. History'
      BY <3>2, <1>CleanupGoes DEF History
    <3> QED
      BY <3>3, <1>CleanupGoes, <1>CleanupAdvances
  <2> QED
    BY <2>2, <2>3 DEF CleanupObserveBundle
<1>CleanupObserveClassAgainStep. ASSUME IInv, CleanupObserveClassAgain
                                 PROVE  IInv'
  <2> USE <1>CleanupObserveClassAgainStep
  <2>1. rec.pc = "c6" /\ rec.pc # "c1" /\ rec.pc # "idle" /\ rec.pc \in Cleaning /\ Reads /\ Remember
    BY QuietReads DEF CleanupObserveClassAgain, Cleaning
  <2> USE <2>1
  <2>2. /\ <<"bundle", 0>> \in seen
        /\ rec.fresh /\ (Refused(rec.o) \/ rec.o.uid # rec.u) => <<"unwanted", 0>> \in seen
    BY DEF IInv, Underway, History
  <2>3. CASE Version
    BY <2>3, ReadsVersion
  <2>4. CASE Again
    BY <2>4, ReadsAndEnds
  <2>5. CASE ~cls.ours /\ Seal
    <3> USE <2>5
    <3>1. ~Managed(route[rec.n].parent, gw, cls)
      BY DEF Managed
    <3>2. <<"unwanted", 0>> \in seen' /\ <<"exempt", 0>> \in seen'
      BY <3>1, <1>Momentary, <1>SealFacts, <1>Unattached DEF Exempt
    <3> QED
      BY <3>2, <1>Sealed
  <2>6. CASE (Refused(rec.o) \/ rec.r.shape = "bad") /\ Seal
    <3>1. rec.fresh /\ rec.r.shape = "bad" => ~Eligible(rec.n, route[rec.n], rec.u)
      BY <1>FreshCopy, <1>Unattached
    <3>2. <<"bundle", 0>> \in seen' /\ (rec.fresh => <<"unwanted", 0>> \in seen')
      BY <2>2, <2>6, <3>1, <1>Momentary, <1>SealFacts
    <3> QED
      BY <2>6, <3>2, <1>Sealed
  <2>7. CASE Go("c7")
    <3> USE <2>7
    <3>1. "c7" \in Surveying
      BY DEF Surveying
    <3> USE <3>1
    <3>2. /\ <<"bundle", 0>> \in seen'
          /\ rec.fresh /\ (Refused(rec.o) \/ rec.o.uid # rec.u) => <<"unwanted", 0>> \in seen'
      BY <2>2, <1>CleanupGoes, <1>Momentary
    <3>3. History'
      BY <3>2, <1>CleanupGoes DEF History, Refused
    <3> QED
      BY <3>3, <1>CleanupGoes, <1>CleanupAdvances
  <2> QED
    BY <2>3, <2>4, <2>5, <2>6, <2>7 DEF CleanupObserveClassAgain
(* The live decision, while the copy is fresh: the Service, ... *)
<1>Deciding. ASSUME IInv, rec.pc \in {"c7", "c8", "c9", "c10"}
             PROVE  /\ rec.pc # "c1" /\ rec.pc # "idle" /\ rec.pc \in Cleaning /\ rec \in Scopes
                    /\ <<"bundle", 0>> \in seen
                    /\ rec.fresh /\ (Refused(rec.o) \/ rec.o.uid # rec.u) =>
                          <<"unwanted", 0>> \in seen
  <2> USE <1>Deciding
  <2>1. rec.pc # "c1" /\ rec.pc # "idle" /\ rec.pc \in Cleaning
    BY DEF Cleaning
  <2> QED
    BY <2>1 DEF IInv, Underway, History
<1>DecidingGoesOn. ASSUME IInv, Reads, Remember, rec.pc \in {"c7", "c8", "c9", "c10"},
                          rec'.pc \in {"c8", "c9", "c10"}, rec' \in Scopes,
                          rec'.n = rec.n, rec'.r = rec.r, rec'.g = rec.g, rec'.u = rec.u,
                          rec'.mode = rec.mode, rec'.fresh = rec.fresh, rec'.o = rec.o, queued' = queued,
                          rec'.pc = "c9" => rec'.rivals \subseteq Others,
                          rec'.pc = "c9" /\ rec.fresh => \A m \in rec'.rivals : <<"older", m>> \in seen'
                   PROVE  IInv'
  <2> USE <1>DecidingGoesOn, <1>Deciding
  <2>1. rec'.pc \in Surveying /\ rec'.pc # "delete" /\ Others' = Others
    BY DEF Surveying, Others
  <2> USE <2>1
  <2>2. /\ <<"bundle", 0>> \in seen'
        /\ rec.fresh /\ (Refused(rec.o) \/ rec.o.uid # rec.u) => <<"unwanted", 0>> \in seen'
    BY <1>Momentary
  <2>3. History'
    BY <2>2 DEF History, Refused
  <2> QED
    BY <2>3, <1>CleanupAdvances
<1>CleanupEvaluateSlotStep. ASSUME IInv, CleanupEvaluateSlot
                            PROVE  IInv'
  <2> USE <1>CleanupEvaluateSlotStep
  <2>1. rec.pc = "c7" /\ Reads /\ Remember
    BY QuietReads DEF CleanupEvaluateSlot
  <2> USE <2>1, <1>Deciding
  <2>2. CASE ~CanReserve(svc[rec.n]) /\ Seal
    <3>1. ~Eligible(rec.n, route[rec.n], rec.u)
      BY <2>2, <1>Unattached DEF CanReserve
    <3>2. <<"bundle", 0>> \in seen' /\ <<"unwanted", 0>> \in seen'
      BY <2>2, <3>1, <1>Momentary, <1>SealFacts
    <3> QED
      BY <2>2, <3>2, <1>Sealed
  <2>3. CASE Go("c8")
    <3>1. "c8" \in Surveying
      BY DEF Surveying
    <3> QED
      BY <2>3, <3>1, <1>CleanupGoes, <1>DecidingGoesOn
  <2> QED
    BY <2>2, <2>3 DEF CleanupEvaluateSlot
(* ... the older routes, ... *)
<1>CleanupListRoutesStep. ASSUME IInv, CleanupListRoutes
                          PROVE  IInv'
  <2> USE <1>CleanupListRoutesStep
  <2> DEFINE found == Rivals(rec.n, rec.r, route)
             at == IF found = {} THEN "c10" ELSE "c9"
  <2>1. /\ rec.pc = "c8" /\ Reads /\ Remember /\ queued' = queued
        /\ rec' = [rec EXCEPT !.pc = at, !.rivals = found]
    BY QuietReads DEF CleanupListRoutes, ListRivals
  <2> USE <2>1, <1>Deciding
  <2>2. found \subseteq Others /\ found \subseteq Names /\ at \in {"c9", "c10"}
    BY DEF Rivals, Others
  <2>3. rec.fresh => found = Rivals(rec.n, route[rec.n], route)
    BY <1>FreshCopy DEF Rivals, routePrecedes
  <2>4. rec.fresh => \A m \in found : Older(m)
    BY <2>3 DEF Older
  <2> HIDE DEF found, at
  <2>5. /\ rec' \in Scopes /\ rec'.pc = at /\ rec'.n = rec.n /\ rec'.r = rec.r /\ rec'.g = rec.g
        /\ rec'.u = rec.u /\ rec'.mode = rec.mode /\ rec'.fresh = rec.fresh /\ rec'.o = rec.o
        /\ rec'.rivals = found
    <3>1. at \in Places
      BY <2>2 DEF Places, Cleaning
    <3> QED
      BY <2>2, <3>1 DEF Scopes
  <2>6. rec'.pc \in Surveying
    BY <2>2, <2>5 DEF Surveying
  <2>7. rec.fresh => \A m \in found : <<"older", m>> \in seen'
    BY <2>2, <2>4, <2>5, <2>6, <1>Momentary
  <2> QED
    BY <2>2, <2>5, <2>7, <1>DecidingGoesOn
(* ... their Services, ... *)
<1>CleanupEvaluateRivalStep. ASSUME IInv, CleanupEvaluateRival
                             PROVE  IInv'
  <2> USE <1>CleanupEvaluateRivalStep
  <2>1. rec.pc = "c9" /\ Reads /\ Remember
    BY QuietReads DEF CleanupEvaluateRival
  <2> USE <2>1, <1>Deciding
  <2>2. rec.rivals \subseteq Others /\ (rec.fresh => \A m \in rec.rivals : <<"older", m>> \in seen)
    BY DEF IInv, Underway, History
  <2>3. PICK m \in rec.rivals : IF CanReserve(svc[m]) THEN Seal ELSE PassOver(m, "c10")
    BY DEF CleanupEvaluateRival
  <2>4. CASE CanReserve(svc[m]) /\ Seal
    <3> USE <2>4
    <3>1. seen \subseteq seen' /\ <<"reserves", m>> \in seen' /\ <<"bundle", 0>> \in seen'
      BY <2>2, <2>3, <1>Momentary, <1>SealFacts
    <3>2. rec.fresh => Displaced'
      <4>1. Others' = Others
        BY <1>SealFacts DEF Others
      <4> QED
        BY <2>2, <2>3, <3>1, <4>1 DEF Displaced
    <3> QED
      BY <3>1, <3>2, <1>Sealed
  <2>5. CASE PassOver(m, "c10")
    <3> DEFINE at == IF rec.rivals = {m} THEN "c10" ELSE rec.pc
               left == rec.rivals \ {m}
    <3>1. rec' = [rec EXCEPT !.pc = at, !.rivals = left] /\ queued' = queued
      BY <2>5 DEF PassOver
    <3>2. at \in {"c9", "c10"} /\ left \subseteq rec.rivals /\ rec.rivals \subseteq Names
      BY <2>2 DEF Others
    <3> HIDE DEF at, left
    <3>3. /\ rec' \in Scopes /\ rec'.pc = at /\ rec'.n = rec.n /\ rec'.r = rec.r /\ rec'.g = rec.g
          /\ rec'.u = rec.u /\ rec'.mode = rec.mode /\ rec'.fresh = rec.fresh /\ rec'.o = rec.o
          /\ rec'.rivals = left
      <4>1. at \in Places /\ left \in SUBSET Names
        BY <3>2 DEF Places, Cleaning
      <4> QED
        BY <3>1, <4>1 DEF Scopes
    <3>4. rec'.pc \in Surveying
      BY <3>2, <3>3 DEF Surveying
    <3>5. seen \subseteq seen'
      BY <3>3, <3>4, <1>Momentary
    <3> QED
      BY <2>2, <3>1, <3>2, <3>3, <3>5, <1>DecidingGoesOn
  <2> QED
    BY <2>3, <2>4, <2>5
(* ... and the model. *)
<1>CleanupBuildModelStep. ASSUME IInv, CleanupBuildModel
                          PROVE  IInv'
  <2> USE <1>CleanupBuildModelStep
  <2>1. rec.pc = "c10" /\ Reads /\ Remember
    BY QuietReads DEF CleanupBuildModel
  <2> USE <2>1, <1>Deciding
  <2>2. CASE Again
    BY <2>2, ReadsAndEnds
  <2>3. CASE ~StillDesired /\ Seal
    <3> USE <2>3
    <3>1. rec.fresh => ~Eligible(rec.n, route[rec.n], rec.u) \/ <<"unwanted", 0>> \in seen
      BY <1>Unattached DEF StillDesired
    <3>2. <<"bundle", 0>> \in seen' /\ (rec.fresh => <<"unwanted", 0>> \in seen')
      BY <3>1, <1>Momentary, <1>SealFacts
    <3> QED
      BY <3>2, <1>Sealed
  <2> QED
    BY <2>2, <2>3 DEF CleanupBuildModel
<1>SealCleanupStep. ASSUME IInv, SealCleanup
                    PROVE  IInv'
  <2> USE <1>SealCleanupStep
  <2>1. rec.pc = "seal" /\ rec.pc # "c1" /\ rec.pc # "idle" /\ rec.pc \in Cleaning /\ Reads /\ Remember
    BY QuietReads DEF SealCleanup, Cleaning
  <2> USE <2>1
  <2>2. CASE Again
    BY <2>2, ReadsAndEnds
  <2>3. CASE /\ rec.fresh /\ rec' = [rec EXCEPT !.pc = "delete", !.fresh = FALSE]
             /\ UNCHANGED queued
    <3>1. rec \in Scopes
      BY DEF IInv, Underway
    <3>2. /\ rec' \in Scopes /\ rec'.pc = "delete" /\ rec'.n = rec.n /\ rec'.r = rec.r
          /\ rec'.g = rec.g /\ rec'.u = rec.u /\ rec'.mode = rec.mode /\ rec'.fresh = FALSE
          /\ queued' = queued
      BY <2>3, <3>1 DEF Scopes, Places, Cleaning
    <3> USE <3>2
    <3>3. rec'.pc \in Surveying
      BY DEF Surveying
    <3>4. /\ <<"unwanted", 0>> \in seen \/ Displaced
          /\ <<"bundle", 0>> \in seen \/ <<"exempt", 0>> \in seen
      BY <2>3 DEF IInv, Underway, History
    <3>5. seen \subseteq seen' /\ (Displaced => Displaced')
      BY <3>3, <1>Momentary, HistoryGrows
    <3>6. History'
      BY <3>4, <3>5 DEF History
    <3> QED
      BY <3>3, <3>6, <1>CleanupAdvances
  <2> QED
    BY <2>2, <2>3 DEF SealCleanup
<1> QED
  BY <1>CleanupObserveRouteStep, <1>CleanupObserveGatewayStep, <1>CleanupObserveClassStep,
     <1>CleanupObserveBundleStep, <1>CleanupObserveClassAgainStep, <1>CleanupEvaluateSlotStep,
     <1>CleanupListRoutesStep, <1>CleanupEvaluateRivalStep, <1>CleanupBuildModelStep,
     <1>SealCleanupStep

LEMMA ObservingFacts ==
  ASSUME IInv, rec.pc \in Observing
  PROVE  /\ rec \in Scopes /\ rec.n \in Names /\ route[rec.n] \in Routes /\ rec.r \in Routes
         /\ rec.g.uid \in UIDs /\ rec.g.uid[1] \in Gateways /\ rec.r.parent = rec.g.uid[1]
         /\ gw[rec.r.parent] \in GatewayObjects /\ Parent = gw[rec.r.parent]
         /\ rec.r.parent \in Parents /\ rec.r.parent # 0 /\ ~rec.r.deleting
<1>1. rec.pc \in Ensuring /\ rec.pc # "idle" /\ Aims
  BY DEF Observing, Ensuring, Aims
<1>2. rec \in Scopes /\ rec.n \in Names /\ Types
  BY <1>1 DEF IInv, World, Underway, Revisions
<1>3. rec.g.uid \in UIDs /\ rec.r.parent = rec.g.uid[1] /\ ~rec.r.deleting
  BY <1>1 DEF IInv, Underway, Aim
<1> USE <1>3
<1>4. rec.g.uid[1] \in Gateways
  BY UIDFacts
<1>5. rec.r.parent # 0 /\ rec.r.parent \in Parents
  BY <1>4, Sets DEF Parents
<1> QED
  BY <1>2, <1>4, <1>5, ScopeFields DEF Types, Parent

(* The snapshot before an attachment, and its seal. *)
LEMMA ObserveSteps ==
  /\ IInv
  /\ \/ ObserveRoute \/ ObserveGateway \/ ObserveClass
     \/ EvaluateSlot \/ ListRoutes \/ EvaluateRival \/ BuildModel
     \/ SealBundle \/ SealRoute \/ SealGateway \/ SealClass
  => IInv'
<1>EnsureAdvances. ASSUME IInv, Reads, rec.pc \in Observing, rec'.pc \in Observing \ {"e2"}, rec' \in Scopes,
                          rec'.n = rec.n, rec'.r = rec.r, rec'.g = rec.g, rec'.mode = rec.mode,
                          rec'.fresh = rec.fresh \/ rec'.fresh = FALSE, queued' = queued, Seals', History'
                   PROVE  IInv'
  <2> USE <1>EnsureAdvances
  <2>1. /\ rec.pc \in Ensuring /\ rec'.pc \in Ensuring /\ rec.pc \notin Cleaning
        /\ rec'.pc \notin Cleaning \cup {"check", "prev", "detach", "clear", "idle"} \cup Resting
        /\ rec.pc # "idle" /\ Aims
    BY DEF Observing, Ensuring, Cleaning, Resting, Aims
  <2> USE <2>1
  <2>2. Holds /\ Stored' = Stored
    BY ReadsHolds DEF Reads, Stored
  <2> USE <2>2
  <2>3. Same(rec'.r, rec.r)
    BY DEF Same
  <2>4. Revisions'
    <3>1. /\ rec'.n \in Names /\ rec'.r.uid # 0 /\ rec'.r.uid <= spent'.routes
          /\ rec'.r.uid = route'[rec'.n].uid =>
                rec'.r.gen <= route'[rec'.n].gen /\ (rec'.r.deleting => route'[rec'.n].deleting)
      BY <2>3, Continues
    <3>2. /\ Same(Stored, rec.r) => /\ Stored.parent = rec.r.parent /\ Stored.shape = rec.r.shape
                                    /\ Stored.second = rec.r.second
          /\ rec.fresh => /\ Same(Stored, rec.r) /\ Stored.fin = rec.r.fin
                          /\ Stored.ann = rec.r.ann
      BY DEF IInv, Underway, Revisions
    <3>3. Same(Stored', rec'.r) <=> Same(Stored, rec.r)
      OBVIOUS
    <3> QED
      BY <3>1, <3>2, <3>3 DEF Revisions, Stored
  <2>5. Aim'
    <3>1. rec.r.parent = rec.g.uid[1]
      BY DEF IInv, Underway, Aim
    <3> QED
      BY <2>3, <3>1, AimKept
  <2>6. Modes' /\ Withdrawn'
    <3>1. rec'.mode = "none"
      BY DEF IInv, Underway, Modes
    <3>2. rec'.pc # "c1"
      BY DEF Cleaning
    <3> QED
      BY <3>1, <3>2 DEF Modes, Withdrawn
  <2>7. queued' \subseteq Names
    BY ReadsQueue
  <2> QED
    BY <2>4, <2>5, <2>6, <2>7, ReadsWorld DEF IInv, Underway
(* What a snapshot holds is in the history. *)
<1>Attaching. ASSUME Reads, Remember, rec'.pc \in Observing, rec'.n = rec.n, rec'.r = rec.r, rec'.g = rec.g
              PROVE  /\ seen \subseteq seen' /\ (bundle => <<"bundle", 0>> \in seen')
                     /\ Usable => <<"usable", 0>> \in seen'
                     /\ \A m \in Others : Yields(m) => <<"yields", m>> \in seen'
  <2> USE <1>Attaching
  <2>1. rec'.pc \in Ensuring /\ rec'.pc \notin {"c1", "e1"}
    BY DEF Observing, Ensuring
  <2>2. seen \subseteq seen' /\ Now' \subseteq seen'
    BY <2>1, SeenGrows
  <2>3. Usable' <=> Usable
    BY DEF Usable, Attachable, Reads
  <2>4. (bundle' => <<"bundle", 0>> \in Now') /\ (Usable' => <<"usable", 0>> \in Now')
    BY <2>1 DEF Now, Fact
  <2>5. bundle' = bundle
    BY DEF Reads
  <2>6. ASSUME NEW m \in Others, Yields(m)
        PROVE  <<"yields", m>> \in seen'
    <3>1. m \in Others' /\ Yields(m)'
      BY <2>6 DEF Others, Yields, Older, Rivals, Reads
    <3>2. <<"yields", m>> \in Now'
      BY <2>1, <3>1 DEF Now
    <3> QED
      BY <2>2, <3>2
  <2> QED
    BY <2>2, <2>3, <2>4, <2>5, <2>6
<1>EnsureGoes. ASSUME IInv, NEW pc \in Observing, Go(pc)
               PROVE  /\ rec' \in Scopes /\ rec'.pc = pc /\ rec'.n = rec.n /\ rec'.r = rec.r /\ rec'.g = rec.g
                      /\ rec'.mode = rec.mode /\ rec'.fresh = rec.fresh /\ rec'.o = rec.o
                      /\ rec'.binding = rec.binding /\ queued' = queued
  <2> USE <1>EnsureGoes
  <2>1. pc \in Places /\ rec \in Scopes
    BY DEF Observing, Places, IInv, Underway
  <2> QED
    BY <2>1 DEF Go, Scopes
<1>ObserveRouteStep. ASSUME IInv, ObserveRoute
                     PROVE  IInv'
  <2> USE <1>ObserveRouteStep
  <2> DEFINE q == [route[rec.n] EXCEPT !.st = rec.r.st]
  <2>1. rec.pc = "e1" /\ rec.pc # "idle" /\ Reads /\ rec.pc \in Ensuring /\ Aims
    BY QuietReads DEF ObserveRoute, Ensuring, Aims
  <2> USE <2>1
  <2>2. CASE Again
    BY <2>2, ReadsAndEnds
  <2>3. ASSUME Same(route[rec.n], rec.r),
               rec' = [rec EXCEPT !.pc = "e2", !.fresh = TRUE, !.r = q], queued' = queued
        PROVE  IInv'
    <3> USE <2>3
    <3>1. /\ rec \in Scopes /\ rec.n \in Names /\ route[rec.n] \in Routes /\ rec.r \in Routes
      BY Unread, ScopeFields DEF IInv, Underway
    <3>2. /\ q \in Routes /\ Same(q, route[rec.n]) /\ q.parent = route[rec.n].parent
          /\ q.shape = route[rec.n].shape /\ q.second = route[rec.n].second
          /\ q.fin = route[rec.n].fin /\ q.ann = route[rec.n].ann
      <4>1. rec.r.st \in Statuses
        BY <3>1, RouteFields
      <4> QED
        BY <3>1, <4>1 DEF Routes, Same
    <3> USE <3>2
    <3> HIDE DEF q
    <3>3. /\ rec' \in Scopes /\ rec'.pc = "e2" /\ rec'.n = rec.n /\ rec'.r = q /\ rec'.g = rec.g
          /\ rec'.mode = rec.mode /\ rec'.fresh = TRUE
      <4>1. "e2" \in Places
        BY DEF Places, Ensuring
      <4> QED
        BY <3>1, <4>1 DEF Scopes
    <3> USE <3>3
    <3>4. Holds /\ Stored' = route[rec.n] /\ Same(rec'.r, rec.r)
      BY ReadsHolds DEF Reads, Stored, Same
    <3> USE <3>4
    <3>5. Revisions'
      <4>1. /\ rec'.n \in Names /\ rec'.r.uid # 0 /\ rec'.r.uid <= spent'.routes
            /\ rec'.r.uid = route'[rec'.n].uid =>
                  rec'.r.gen <= route'[rec'.n].gen /\ (rec'.r.deleting => route'[rec'.n].deleting)
        BY Continues
      <4>2. Same(Stored', rec'.r)
        BY DEF Same
      <4>3. "e2" \in Observing
        BY DEF Observing, Ensuring
      <4> QED
        BY <4>1, <4>2, <4>3 DEF Revisions, Stored
    <3>6. Aim'
      <4>1. route[rec.n].parent = rec.g.uid[1]
        BY DEF IInv, Underway, Aim, Stored
      <4> QED
        BY <4>1, AimKept
    <3>7. Modes' /\ Withdrawn'
      <4>1. rec'.mode = "none"
        BY DEF IInv, Underway, Modes
      <4>2. "e2" \notin Cleaning
        BY DEF Cleaning
      <4> QED
        BY <4>1, <4>2 DEF Modes, Withdrawn
    <3>8. Seals' /\ History'
      BY DEF Seals, History
    <3>9. queued' \subseteq Names
      BY ReadsQueue
    <3> QED
      BY <3>5, <3>6, <3>7, <3>8, <3>9, ReadsWorld DEF IInv, Underway
  <2> QED
    BY <2>2, <2>3 DEF ObserveRoute
<1>ObserveGatewayStep. ASSUME IInv, ObserveGateway
                       PROVE  IInv'
  <2> USE <1>ObserveGatewayStep
  <2>1. rec.pc = "e2" /\ rec.pc # "idle" /\ Reads /\ rec.pc \in Observing
    BY QuietReads DEF ObserveGateway, Observing, Ensuring
  <2> USE <2>1
  <2>2. CASE Again
    BY <2>2, ReadsAndEnds
  <2>3. ASSUME Same(gw[rec.r.parent], rec.g), ~gw[rec.r.parent].deleting,
               rec' = [rec EXCEPT !.pc = "e3", !.o = gw[rec.r.parent]], queued' = queued
        PROVE  IInv'
    <3> USE <2>3
    <3>1. rec \in Scopes /\ gw[rec.r.parent] \in GatewayObjects /\ Parent = gw[rec.r.parent]
      BY ObservingFacts
    <3> USE <3>1
    <3>2. /\ rec' \in Scopes /\ rec'.pc = "e3" /\ rec'.n = rec.n /\ rec'.r = rec.r /\ rec'.g = rec.g
          /\ rec'.mode = rec.mode /\ rec'.fresh = rec.fresh /\ rec'.o = gw[rec.r.parent]
      <4>1. "e3" \in Places
        BY DEF Places, Ensuring
      <4> QED
        BY <4>1 DEF Scopes
    <3> USE <3>2
    <3>3. Parent' = gw[rec.r.parent] /\ "e3" \in Observing \ {"e2"}
      BY DEF Parent, Reads, Observing, Ensuring
    <3>4. gw[rec.r.parent].gen \in Nat
      BY GatewayFields
    <3>5. Seals' /\ History'
      BY <3>3, <3>4, Order DEF Seals, History
    <3> QED
      BY <3>3, <3>5, <1>EnsureAdvances
  <2> QED
    BY <2>2, <2>3 DEF ObserveGateway
<1>PendingReturns. ASSUME IInv, Reads, rec.pc \in Observing, Pending
                   PROVE  IInv'
  <2> USE <1>PendingReturns
  <2>1. rec.pc # "idle"
    BY DEF Observing, Ensuring
  <2>2. CASE Again
    BY <2>1, <2>2, ReadsAndEnds
  <2>3. CASE Return(Replace(rec.r.parent, "pending"), TRUE)
    <3>1. Replace(rec.r.parent, "pending") \in Plans
      BY ObservingFacts, ReplacePlan DEF Progs
    <3> QED
      BY <2>1, <2>3, <3>1, ReadsAndReturns
  <2> QED
    BY <2>2, <2>3 DEF Pending
(* What has been sealed stays so while the worker only reads. *)
<1>SealsKept. ASSUME IInv, Reads, rec.pc \in Observing \ {"e2"}, rec'.pc \in Observing \ {"e2"},
                     rec'.n = rec.n, rec'.r = rec.r, rec'.g = rec.g, rec'.o = rec.o,
                     rec'.pc # "e3" => rec.o.kind = "ok",
                     rec'.pc \in {"s1", "s2", "s3", "s4", "mutate"} /\ rec'.binding =>
                        ~Broken(rec.r) /\ (Present(rec.r) => rec.r.ann = rec.o.uid),
                     rec'.pc \in {"s3", "s4", "mutate"} /\ ~rec'.binding =>
                        Stored.uid = rec.r.uid /\ Stored.fin = rec.o.uid /\ Stored.ann \in {rec.o.uid, NoUID}
              PROVE  Seals'
  <2> USE <1>SealsKept
  <2>1. Parent' = Parent /\ Stored' = Stored
    BY DEF Parent, Stored, Reads
  <2>2. /\ Same(rec.o, rec.g) /\ ~rec.o.deleting
        /\ rec.o.uid = Parent.uid => /\ rec.o.gen <= Parent.gen
                                     /\ rec.o.gen = Parent.gen => rec.o.kind = Parent.kind
    BY DEF IInv, Underway, Seals
  <2> QED
    BY <2>1, <2>2 DEF Seals
<1>ObserveClassStep. ASSUME IInv, ObserveClass
                     PROVE  IInv'
  <2> USE <1>ObserveClassStep
  <2>1. /\ rec.pc = "e3" /\ rec.pc # "idle" /\ Reads /\ rec.pc \in Observing \ {"e2"}
        /\ rec.pc \in Observing /\ "e4" \in Observing \ {"e2"} /\ "e4" \in Observing
    BY QuietReads DEF ObserveClass, Observing, Ensuring
  <2> USE <2>1
  <2>2. CASE Again
    BY <2>2, ReadsAndEnds
  <2>3. CASE Version
    BY <2>3, ReadsVersion
  <2>4. CASE Pending
    BY <2>4, <1>PendingReturns
  <2>5. CASE rec.o.kind = "ok" /\ Go("e4")
    <3>1. /\ rec' \in Scopes /\ rec'.pc = "e4" /\ rec'.n = rec.n /\ rec'.r = rec.r
          /\ rec'.g = rec.g /\ rec'.mode = rec.mode /\ rec'.fresh = rec.fresh /\ rec'.o = rec.o
          /\ rec'.binding = rec.binding /\ queued' = queued
      BY <2>5, <1>EnsureGoes
    <3> USE <3>1
    <3>2. Seals'
      BY <2>5, <1>SealsKept
    <3>3. History'
      BY DEF History
    <3> QED
      BY <3>2, <3>3, <1>EnsureAdvances
  <2> QED
    BY <2>2, <2>3, <2>4, <2>5 DEF ObserveClass
(* While a copy of the route holds, it has the older routes of the live one. *)
<1>CopyHolds. ASSUME IInv, rec.pc \in Observing \ {"e2"}, Same(Stored, rec.r)
              PROVE  /\ Stored.parent = rec.r.parent /\ Stored.shape = rec.r.shape
                     /\ Rivals(rec.n, rec.r, route) = Rivals(rec.n, route[rec.n], route)
  <2>1. Stored.parent = rec.r.parent /\ Stored.shape = rec.r.shape /\ Stored.second = rec.r.second
    BY <1>CopyHolds DEF IInv, Underway, Revisions
  <2> QED
    BY <2>1 DEF Rivals, routePrecedes, Stored
(* A route the model is built for is attachable, unless it or its Gateway has *)
(* changed since it was read.                                                 *)
<1>SelectedIsUsable. ASSUME IInv, rec.pc = "e7", svc[rec.n] = "ok", Same(Stored, rec.r), Same(Parent, rec.o)
                     PROVE  Usable
  <2> USE <1>SelectedIsUsable
  <2>1. rec.pc \in Observing /\ rec.pc \in Observing \ {"e2"} /\ rec.pc \in Observing \ {"e2", "e3"}
    BY DEF Observing, Ensuring
  <2> USE <2>1
  <2>2. Stored.parent = rec.r.parent /\ Stored.shape = rec.r.shape
    BY <1>CopyHolds
  <2> USE <2>2
  <2>3. rec.r.shape = "ok"
    BY DEF IInv, Underway, History
  <2>4. rec.r.parent # 0 /\ ~rec.r.deleting /\ Parent = gw[rec.r.parent]
    BY ObservingFacts
  <2> USE <2>4
  <2>5. /\ Same(rec.o, rec.g) /\ ~rec.o.deleting /\ rec.o.kind = "ok"
        /\ rec.o.uid = Parent.uid /\ rec.o.gen = Parent.gen => rec.o.kind = Parent.kind
    BY DEF IInv, Underway, Seals
  <2>6. ~Refused(Parent) /\ Same(Parent, rec.g) /\ Parent.uid = rec.g.uid
    BY <2>5 DEF Same, Refused
  <2>7. ~Stored.deleting
    BY DEF Same
  <2>8. Attachable(rec.n, Stored, rec.g.uid)
    BY <2>3, <2>6, <2>7 DEF Attachable
  <2> QED
    BY <2>6, <2>8 DEF Usable, Stored
<1>SelectStarts. ASSUME IInv, Reads, Remember, rec.pc = "e7", svc[rec.n] = "ok",
                        ~Broken(rec.r), queued' = queued,
                        \/ validRouteBindingTransition /\ rec' = [rec EXCEPT !.pc = "s1", !.binding = TRUE]
                        \/ /\ BoundTo(rec.r, rec.o.uid) /\ ~rec.binding
                           /\ rec' = [rec EXCEPT !.pc = "s1", !.fresh = FALSE]
                 PROVE  IInv'
  <2> USE <1>SelectStarts
  <2>1. /\ rec.pc \in Observing /\ rec.pc \in Observing \ {"e2"} /\ rec.pc \in Observing \ {"e2", "e3"}
        /\ "s1" \in Observing /\ "s1" \in Observing \ {"e2"} /\ "s1" \in Places
    BY DEF Observing, Ensuring, Places
  <2> USE <2>1
  <2>2. rec \in Scopes
    BY DEF IInv, Underway
  <2>3. /\ rec' \in Scopes /\ rec'.pc = "s1" /\ rec'.n = rec.n /\ rec'.r = rec.r
        /\ rec'.g = rec.g /\ rec'.mode = rec.mode /\ rec'.o = rec.o
        /\ rec'.fresh = rec.fresh \/ rec'.fresh = FALSE
        /\ rec'.binding => validRouteBindingTransition
    <3>1. CASE validRouteBindingTransition /\ rec' = [rec EXCEPT !.pc = "s1", !.binding = TRUE]
      BY <2>2, <3>1 DEF Scopes
    <3>2. CASE ~rec.binding /\ rec' = [rec EXCEPT !.pc = "s1", !.fresh = FALSE]
      BY <2>2, <3>2 DEF Scopes
    <3> QED
      BY <3>1, <3>2
  <2> USE <2>3
  <2>4. Seals'
    <3>1. rec.o.kind = "ok"
      BY DEF IInv, Underway, Seals
    <3> QED
      BY <3>1, <1>SealsKept DEF validRouteBindingTransition
  <2>5. History'
    <3>1. Stored' = Stored /\ Parent' = Parent
      BY DEF Stored, Parent, Reads
    <3>2. seen \subseteq seen' /\ (Usable => <<"usable", 0>> \in seen')
      BY <1>Attaching
    <3>3. <<"usable", 0>> \in seen' \/ ~Same(Stored', rec'.r) \/ ~Same(Parent', rec'.o)
      BY <3>1, <3>2, <1>SelectedIsUsable
    <3>4. Clear({}) \/ ~Same(Stored, rec.r)
      BY DEF IInv, Underway, History
    <3>5. Clear({})' \/ ~Same(Stored', rec'.r)
      BY <3>1, <3>2, <3>4, HistoryGrows
    <3> QED
      BY <3>3, <3>5 DEF History
  <2> QED
    BY <2>4, <2>5, <1>EnsureAdvances
<1>Rejects. ASSUME IInv, Reads, rec.pc \in Observing, queued' = queued,
                   rec' = [Idle EXCEPT !.pc = "check", !.n = rec.n, !.r = InScope(rec.r),
                                       !.mode = "status", !.plan = Replace(rec.r.parent, "rejected")]
            PROVE  IInv'
  <2> USE <1>Rejects
  <2>1. rec.pc # "idle" /\ Holds
    BY ReadsHolds DEF Observing, Ensuring
  <2> USE <2>1
  <2>2. rec.r \in Routes /\ rec.n \in Names /\ rec.r.parent \in Parents
    BY ObservingFacts
  <2> USE <2>2
  <2>3. InScope(rec.r) \in Routes /\ Same(InScope(rec.r), rec.r)
    BY Revised
  <2>4. /\ Replace(rec.r.parent, "rejected") \in Plans
        /\ Replace(rec.r.parent, "rejected").kind = "replace"
        /\ Replace(rec.r.parent, "rejected").prog # "True"
    <3>1. "rejected" \in Progs
      BY DEF Progs
    <3>2. Replace(rec.r.parent, "rejected").prog = "rejected"
      BY <3>1, ReplacePlan
    <3> QED
      BY <3>1, <3>2, ReplacePlan
  <2>5. /\ rec' \in Scopes /\ rec'.pc = "check" /\ rec'.n = rec.n /\ rec'.r = InScope(rec.r)
        /\ rec'.mode = "status" /\ rec'.u = NoUID /\ rec'.fresh = FALSE
        /\ rec'.plan = Replace(rec.r.parent, "rejected")
    <3>1. Idle \in Scopes /\ "check" \in Places
      BY Absences DEF Places
    <3>2. Idle.u = NoUID /\ Idle.fresh = FALSE
      BY DEF Idle
    <3> QED
      BY <2>3, <2>4, <3>1, <3>2 DEF Scopes
  <2> USE <2>5
  <2>6. Aim' /\ Modes' /\ Withdrawn'
    BY <2>4, StatusCheck
  <2>7. /\ rec'.n \in Names /\ rec'.r.uid # 0 /\ rec'.r.uid <= spent'.routes
        /\ rec'.r.uid = route'[rec'.n].uid =>
              rec'.r.gen <= route'[rec'.n].gen /\ (rec'.r.deleting => route'[rec'.n].deleting)
    BY <2>3, Continues
  <2>8. Underway'
    BY <2>6, <2>7, Prepares
  <2>9. queued' \subseteq Names
    BY ReadsQueue
  <2> QED
    BY <2>8, <2>9, ReadsWorld DEF IInv
<1>RejectedEnds. ASSUME IInv, Reads, rec.pc \in Observing, Rejected
                 PROVE  IInv'
  <2>1. rec.pc # "idle"
    BY <1>RejectedEnds DEF Observing, Ensuring
  <2>2. CASE Again
    BY <1>RejectedEnds, <2>1, <2>2, ReadsAndEnds
  <2> QED
    BY <1>RejectedEnds, <2>2, <1>Rejects DEF Rejected
(* The selection goes on with the same copies of the route and its Gateway. *)
<1>SelectionGoesOn. ASSUME IInv, Reads, rec.pc \in {"e4", "e5", "e6"}, rec'.pc \in {"e5", "e6", "e7"},
                           rec' \in Scopes, rec'.n = rec.n, rec'.r = rec.r, rec'.g = rec.g, rec'.o = rec.o,
                           rec'.mode = rec.mode, rec'.fresh = rec.fresh, queued' = queued, History'
                    PROVE  IInv'
  <2> USE <1>SelectionGoesOn
  <2>1. /\ rec.pc \in Observing /\ rec.pc \in Observing \ {"e2"} /\ rec.pc \in Observing \ {"e2", "e3"}
        /\ rec'.pc \in Observing \ {"e2"}
    BY DEF Observing, Ensuring
  <2> USE <2>1
  <2>2. Seals'
    <3>1. rec.o.kind = "ok"
      BY DEF IInv, Underway, Seals
    <3> QED
      BY <3>1, <1>SealsKept
  <2> QED
    BY <2>2, <1>EnsureAdvances
<1>EvaluateSlotStep. ASSUME IInv, EvaluateSlot
                     PROVE  IInv'
  <2> USE <1>EvaluateSlotStep
  <2>1. rec.pc = "e4" /\ Reads /\ rec.pc \in Observing /\ "e5" \in Observing
    BY QuietReads DEF EvaluateSlot, Observing, Ensuring
  <2> USE <2>1
  <2>2. CASE rec.r.shape = "ok" /\ Go("e5")
    <3>1. /\ rec' \in Scopes /\ rec'.pc = "e5" /\ rec'.n = rec.n /\ rec'.r = rec.r
          /\ rec'.g = rec.g /\ rec'.mode = rec.mode /\ rec'.fresh = rec.fresh /\ rec'.o = rec.o
          /\ queued' = queued
      BY <2>2, <1>EnsureGoes
    <3>2. History'
      BY <2>2, <3>1 DEF History
    <3> QED
      BY <3>1, <3>2, <1>SelectionGoesOn
  <2> QED
    BY <2>2, <1>RejectedEnds DEF EvaluateSlot
(* Those not listed leave the slot to the route, ... *)
<1>ListRoutesStep. ASSUME IInv, ListRoutes
                   PROVE  IInv'
  <2> USE <1>ListRoutesStep
  <2> DEFINE found == Rivals(rec.n, rec.r, route)
             at == IF found = {} THEN "e7" ELSE "e6"
  <2>1. /\ rec.pc = "e5" /\ Reads /\ Remember /\ queued' = queued
        /\ rec' = [rec EXCEPT !.pc = at, !.rivals = found]
    BY QuietReads DEF ListRoutes, ListRivals
  <2>2. rec.pc \in Observing \ {"e2"}
    BY <2>1 DEF Observing, Ensuring
  <2>3. found \subseteq Names /\ at \in {"e6", "e7"} /\ (at = "e7" => found = {})
    BY DEF Rivals
  <2>4. Same(Stored, rec.r) => \A m \in Others \ found : Yields(m)
    BY <2>2, <1>CopyHolds DEF Yields, Older, Stored
  <2>5. rec \in Scopes /\ rec.r.shape = "ok"
    BY <2>1 DEF IInv, Underway, History
  <2> USE <2>1, <2>3
  <2> HIDE DEF found, at
  <2>6. /\ rec' \in Scopes /\ rec'.pc = at /\ rec'.n = rec.n /\ rec'.r = rec.r /\ rec'.g = rec.g
        /\ rec'.mode = rec.mode /\ rec'.fresh = rec.fresh /\ rec'.o = rec.o /\ rec'.rivals = found
    <3>1. at \in Places
      BY DEF Places, Ensuring
    <3> QED
      BY <2>5, <3>1 DEF Scopes
  <2>7. \A m \in Others : Yields(m) => <<"yields", m>> \in seen'
    <3>1. rec'.pc \in Observing
      BY <2>6 DEF Observing, Ensuring
    <3> QED
      BY <2>6, <3>1, <1>Attaching
  <2>8. Same(Stored, rec.r) => \A m \in Others \ found : <<"yields", m>> \in seen'
    BY <2>4, <2>7
  <2>9. History'
    <3>1. Stored' = Stored /\ Others' = Others
      BY <2>6 DEF Stored, Others, Reads
    <3>2. /\ rec'.pc = "e6" => Clear(rec.rivals)' \/ ~Same(Stored', rec'.r)
          /\ rec'.pc = "e7" => Clear({})' \/ ~Same(Stored', rec'.r)
      BY <2>6, <2>8, <3>1 DEF Clear
    <3> QED
      BY <2>5, <2>6, <3>2 DEF History
  <2> QED
    BY <2>6, <2>9, <1>SelectionGoesOn
(* ... and so does each one passed over. *)
<1>EvaluateRivalStep. ASSUME IInv, EvaluateRival
                      PROVE  IInv'
  <2> USE <1>EvaluateRivalStep
  <2>1. rec.pc = "e6" /\ Reads /\ Remember /\ rec.pc \in Observing
    BY QuietReads DEF EvaluateRival, Observing, Ensuring
  <2> USE <2>1
  <2>2. PICK m \in rec.rivals : IF CanReserve(svc[m]) THEN Rejected ELSE PassOver(m, "e7")
    BY DEF EvaluateRival
  <2>3. CASE Rejected
    BY <2>3, <1>RejectedEnds
  <2>4. CASE ~CanReserve(svc[m]) /\ PassOver(m, "e7")
    <3> DEFINE at == IF rec.rivals = {m} THEN "e7" ELSE rec.pc
               left == rec.rivals \ {m}
    <3>1. rec' = [rec EXCEPT !.pc = at, !.rivals = left] /\ queued' = queued
      BY <2>4 DEF PassOver
    <3>2. /\ rec \in Scopes /\ rec.r.shape = "ok"
          /\ Clear(rec.rivals) \/ ~Same(Stored, rec.r)
      BY DEF IInv, Underway, History
    <3>3. rec.rivals \subseteq Names
      BY <3>2 DEF Scopes
    <3>4. /\ at \in {"e6", "e7"} /\ left \subseteq Names /\ (at = "e7" => left = {})
          /\ rec.rivals = left \cup {m}
      BY <2>2, <3>3
    <3> HIDE DEF at, left
    <3>5. /\ rec' \in Scopes /\ rec'.pc = at /\ rec'.n = rec.n /\ rec'.r = rec.r /\ rec'.g = rec.g
          /\ rec'.mode = rec.mode /\ rec'.fresh = rec.fresh /\ rec'.o = rec.o /\ rec'.rivals = left
      <4>1. at \in Places /\ left \in SUBSET Names
        BY <3>4 DEF Places, Ensuring
      <4> QED
        BY <3>1, <3>2, <4>1 DEF Scopes
    <3>6. seen \subseteq seen' /\ \A k \in Others : Yields(k) => <<"yields", k>> \in seen'
      <4>1. rec'.pc \in Observing
        BY <3>4, <3>5 DEF Observing, Ensuring
      <4> QED
        BY <3>5, <4>1, <1>Attaching
    <3>7. Same(Stored, rec.r) => \A k \in Others \ left : <<"yields", k>> \in seen'
      <4>1. Same(Stored, rec.r) => Yields(m)
        BY <2>4 DEF Yields, Stored
      <4> QED
        BY <3>2, <3>4, <3>6, <4>1 DEF Clear
    <3>8. History'
      <4>1. Stored' = Stored /\ Others' = Others
        BY <3>5 DEF Stored, Others, Reads
      <4>2. /\ rec'.pc = "e6" => Clear(rec.rivals)' \/ ~Same(Stored', rec'.r)
            /\ rec'.pc = "e7" => Clear({})' \/ ~Same(Stored', rec'.r)
        BY <3>4, <3>5, <3>7, <4>1 DEF Clear
      <4> QED
        BY <3>2, <3>4, <3>5, <4>2 DEF History
    <3> QED
      BY <3>1, <3>4, <3>5, <3>8, <1>SelectionGoesOn
  <2> QED
    BY <2>2, <2>3, <2>4
<1>BuildModelStep. ASSUME IInv, BuildModel
                   PROVE  IInv'
  <2> USE <1>BuildModelStep
  <2>1. rec.pc = "e7" /\ rec.pc # "idle" /\ Reads /\ Remember /\ rec.pc \in Observing
    BY QuietReads DEF BuildModel, Observing, Ensuring
  <2> USE <2>1
  <2>2. CASE Again
    BY <2>2, ReadsAndEnds
  <2>3. CASE Pending
    BY <2>3, <1>PendingReturns
  <2>4. CASE Rejected
    BY <2>4, <1>RejectedEnds
  <2>5. CASE svc[rec.n] = "ok" /\ ~Again /\ ~Pending
    BY <2>5, <1>SelectStarts DEF BuildModel, BindingRequired
  <2> QED
    BY <2>2, <2>3, <2>4, <2>5 DEF BuildModel
<1>SealSteps. ASSUME IInv, SealBundle \/ SealRoute \/ SealGateway \/ SealClass
              PROVE  IInv'
  <2> USE <1>SealSteps
  <2>1. /\ rec.pc \in {"s1", "s2", "s3", "s4"} /\ rec.pc # "idle" /\ Reads /\ Remember
        /\ rec.pc \in Observing /\ rec.pc \in Observing \ {"e2"} /\ rec.pc \in Observing \ {"e2", "e3"}
    BY QuietReads DEF SealBundle, SealRoute, SealGateway, SealClass, Observing, Ensuring
  <2> USE <2>1
  <2>2. CASE Again
    BY <2>2, ReadsAndEnds
  <2>3. CASE Version
    BY <2>3, ReadsVersion
  <2>4. ASSUME NEW pc \in {"s2", "s3", "s4", "mutate"}, Go(pc), rec.pc = "s1" => bundle,
               pc \in {"s3", "s4", "mutate"} => rec.pc # "s1",
               pc = "s3" => /\ rec.pc = "s2" /\ Same(Stored, rec.r)
                            /\ rec.binding \/ BoundTo(Stored, rec.o.uid),
               pc \in {"s4", "mutate"} => rec.pc \in {"s3", "s4"},
               pc \in {"s4", "mutate"} => Same(Parent, rec.o) \/ rec.pc = "s4",
               pc = "s2" => rec.pc = "s1"
        PROVE  IInv'
    <3> USE <2>4
    <3>1. pc \in Observing /\ pc \in Observing \ {"e2"}
      BY DEF Observing, Ensuring
    <3> USE <3>1
    <3>2. /\ rec' \in Scopes /\ rec'.pc = pc /\ rec'.n = rec.n /\ rec'.r = rec.r
          /\ rec'.g = rec.g /\ rec'.mode = rec.mode /\ rec'.fresh = rec.fresh /\ rec'.o = rec.o
          /\ rec'.binding = rec.binding /\ queued' = queued
      BY <1>EnsureGoes
    <3> USE <3>2
    <3>3. Seals'
      <4>1. /\ rec.o.kind = "ok"
            /\ rec.binding => ~Broken(rec.r) /\ (Present(rec.r) => rec.r.ann = rec.o.uid)
            /\ rec.pc \in {"s3", "s4"} /\ ~rec.binding =>
                  Stored.uid = rec.r.uid /\ Stored.fin = rec.o.uid /\ Stored.ann \in {rec.o.uid, NoUID}
        BY DEF IInv, Underway, Seals
      <4>2. pc = "s3" /\ ~rec.binding =>
               Stored.uid = rec.r.uid /\ Stored.fin = rec.o.uid /\ Stored.ann \in {rec.o.uid, NoUID}
        BY DEF BoundTo, Same
      <4> QED
        BY <4>1, <4>2, <1>SealsKept
    <3>4. History'
      <4>1. /\ rec.pc \in {"s1", "s2"} =>
                  <<"usable", 0>> \in seen \/ ~Same(Stored, rec.r) \/ ~Same(Parent, rec.o)
            /\ rec.pc = "s3" => <<"usable", 0>> \in seen \/ ~Same(Parent, rec.o)
            /\ rec.pc = "s4" => <<"usable", 0>> \in seen
            /\ rec.pc # "s1" => <<"bundle", 0>> \in seen
            /\ rec.pc \in {"s1", "s2"} => Clear({}) \/ ~Same(Stored, rec.r)
            /\ rec.pc \in {"s3", "s4"} => Clear({})
        BY DEF IInv, Underway, History
      <4> USE <4>1
      <4>2. seen \subseteq seen' /\ (bundle => <<"bundle", 0>> \in seen')
        BY <1>Attaching
      <4> USE <4>2
      <4>3. Stored' = Stored /\ Parent' = Parent
        BY DEF Stored, Parent, Reads
      <4>4. <<"bundle", 0>> \in seen'
        OBVIOUS
      <4>5. pc = "s2" => <<"usable", 0>> \in seen' \/ ~Same(Stored', rec'.r) \/ ~Same(Parent', rec'.o)
        BY <4>3
      <4>6. pc = "s3" => <<"usable", 0>> \in seen' \/ ~Same(Parent', rec'.o)
        BY <4>3
      <4>7. pc \in {"s4", "mutate"} => <<"usable", 0>> \in seen'
        OBVIOUS
      <4>8. Clear({}) => Clear({})'
        BY HistoryGrows
      <4>9. /\ pc = "s2" => Clear({})' \/ ~Same(Stored', rec'.r)
            /\ pc \in {"s3", "s4", "mutate"} => Clear({})'
        BY <4>3, <4>8
      <4> QED
        BY <4>4, <4>5, <4>6, <4>7, <4>9 DEF History
    <3> QED
      BY <3>3, <3>4, <1>EnsureAdvances
  <2> USE <2>4
  <2>5. Parent = gw[rec.r.parent]
    BY ObservingFacts
  <2>6. CASE SealBundle
    BY <2>3, <2>6 DEF SealBundle
  <2>7. CASE SealRoute
    BY <2>2, <2>7 DEF SealRoute, Stored
  <2>8. CASE SealGateway
    <3>1. CASE Same(Parent, rec.o) /\ Go("s4")
      BY <2>8, <3>1 DEF SealGateway
    <3> QED
      BY <2>2, <2>5, <2>8, <3>1 DEF SealGateway
  <2>9. CASE SealClass
    BY <2>2, <2>3, <2>9 DEF SealClass
  <2> QED
    BY <2>6, <2>7, <2>8, <2>9
<1> QED
  BY <1>ObserveRouteStep, <1>ObserveGatewayStep, <1>ObserveClassStep, <1>EvaluateSlotStep,
     <1>ListRoutesStep, <1>EvaluateRivalStep, <1>BuildModelStep, <1>SealSteps

(* The report of an unsupported bundle. *)
LEMMA RefuseSteps ==
  /\ IInv
  /\ VersionObserveRoute \/ VersionObserveParent \/ VersionObserveBundle
  => IInv'
<1>VersionPlan. ASSUME NEW p \in Parents
                PROVE  [NoPlan EXCEPT !.kind = "version", !.parent = p, !.prog = "version"] \in Plans
  BY <1>VersionPlan, Absences DEF Plans, Progs
<1>VersionSteps. ASSUME IInv, VersionObserveRoute \/ VersionObserveParent \/ VersionObserveBundle
                 PROVE  IInv'
  <2> USE <1>VersionSteps
  <2>1. rec.pc \in {"version1", "version2", "version3"} /\ rec.pc # "idle" /\ Reads
    BY QuietReads DEF VersionObserveRoute, VersionObserveParent, VersionObserveBundle
  <2> USE <2>1
  <2>2. /\ rec \in Scopes /\ rec.mode = "none" /\ rec.fresh = FALSE /\ rec.r.parent \in Parents
        /\ rec.n \in Names /\ route[rec.n] \in Routes
    <3>1. rec \in Scopes /\ rec.mode = "none"
      BY DEF IInv, Underway, Modes, Resting
    <3>2. rec.fresh => rec.pc \in (Cleaning \ {"delete"}) \cup Observing
      BY DEF IInv, Underway, Revisions
    <3>3. rec.pc \notin Cleaning /\ rec.pc \notin Observing
      BY DEF Cleaning, Observing, Ensuring
    <3>4. rec.fresh \in BOOLEAN /\ rec.r \in Routes
      BY <3>1, ScopeFields
    <3> QED
      BY <3>1, <3>2, <3>3, <3>4, Unread, RouteFields
  <2> USE <2>2
  <2>3. CASE Again \/ Stop
    BY <2>3, ReadsAndEnds
  <2>4. ASSUME NEW requeue \in BOOLEAN,
               Return([NoPlan EXCEPT !.kind = "version", !.parent = rec.r.parent,
                                     !.prog = "version"], requeue)
        PROVE  IInv'
    BY <2>4, <1>VersionPlan, ReadsAndReturns
  <2>5. ASSUME rec' \in Scopes, rec'.pc \in {"version2", "version3"}, rec'.mode = rec.mode,
               rec'.fresh = rec.fresh, rec'.n = rec.n, Same(rec'.r, rec.r), queued' = queued
        PROVE  IInv'
    <3>1. /\ Later(rec.n) /\ route'[rec.n] \in Routes /\ spent'.routes \in Nat
          /\ spent.routes <= spent'.routes
      BY Unread, Order
    <3>2. Underway'
      BY <2>5, <3>1, Handed DEF Resting
    <3>3. queued' \subseteq Names
      BY <2>5, ReadsQueue
    <3> QED
      BY <3>2, <3>3, ReadsWorld DEF IInv
  <2>6. CASE /\ Same(route[rec.n], rec.r) /\ queued' = queued
             /\ rec' = [rec EXCEPT !.pc = "version2", !.r = route[rec.n]]
    <3>1. /\ rec' \in Scopes /\ rec'.pc = "version2" /\ rec'.mode = rec.mode
          /\ rec'.fresh = rec.fresh /\ rec'.n = rec.n /\ rec'.r = route[rec.n]
      BY <2>6 DEF Scopes, Places
    <3> QED
      BY <2>5, <2>6, <3>1
  <2>7. CASE Go("version3")
    <3>1. /\ rec' \in Scopes /\ rec'.pc = "version3" /\ rec'.mode = rec.mode
          /\ rec'.fresh = rec.fresh /\ rec'.n = rec.n /\ rec'.r = rec.r /\ queued' = queued
      BY <2>7 DEF Go, Scopes, Places
    <3> QED
      BY <2>5, <3>1 DEF Same
  <2> QED
    BY <2>3, <2>4, <2>6, <2>7 DEF VersionObserveRoute, VersionObserveParent, VersionObserveBundle
<1> QED
  BY <1>VersionSteps
=============================================================================
