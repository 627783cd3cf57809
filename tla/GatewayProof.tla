---------------------------- MODULE GatewayProof ----------------------------
(***************************************************************************)
(* The safety of the Gateway reconciler for any listener ports, any number *)
(* of Gateways under the name and any bounds on what its surroundings do.  *)
(***************************************************************************)
EXTENDS GatewayReconciler, TLAPS

(* Zenon is the prover unless a step names another: SMT where it is arithmetic. *)
USE ZenonT(30)

Statuses == {"none", "True", "False", "Unknown"}
Conditions == Statuses \X Nat
Whys == {"none", "rejected", "replacing", "pending", "programmed", "failed", "version"}
Programmeds == Statuses \X Nat \X Whys
Stored == Ports \cup {0}
Objects == [uid : Nat, gen : Nat, port : Stored, class : {"class", "missing"},
            deleting : BOOLEAN, fin : BOOLEAN, ann : Stored, acc : Conditions,
            prog : Programmeds]
Classes == [ours : BOOLEAN, params : BOOLEAN, supported : BOOLEAN]
Caches == [gw : Objects, cls : Classes, fresh : BOOLEAN, lag : 0..MaxClassLag]
Graphs == [st : {"partial", "built"}, port : Ports] \cup {NoGraph}
Places == Fenced \cup {"idle", "cleanup", "unbind", "version1", "version2", "version3", "patch"}
Scopes == [pc : Places, g : Objects, acc : Conditions, prog : Programmeds, fresh : BOOLEAN,
           snapFresh : BOOLEAN, fin : BOOLEAN, ann : Stored, cached : BOOLEAN,
           bind : BOOLEAN, hold : BOOLEAN, requeue : BOOLEAN]
Counters == [in : Scenarios, created : Nat, edits : Nat, class : Nat, bundle : Nat,
             tampers : Nat, failures : Nat, crashes : Nat]

(* Every object under the name has its own UID, counted by the creations. *)
KnownUID(g) == g.uid <= spent.created /\ (g.uid = 0 => g = Absent)
NoFuturePromise(g) == g.prog[2] <= g.gen

(* A copy c of a Gateway was read before, or is, the live one.  Objects only *)
(* go on to higher generations and into deletion, a generation has one spec, *)
(* and within one generation the stored port changes to that of the spec or  *)
(* is removed.                                                               *)
Older(c) ==
    c.uid = gw.uid =>
        /\ c.gen <= gw.gen /\ (c.deleting => gw.deleting)
        /\ c.gen = gw.gen => c.port = gw.port /\ c.class = gw.class
                             /\ gw.ann \in {c.ann, 0, gw.port}

Copy(g) == KnownUID(g) /\ NoFuturePromise(g) /\ Older(g)

-----------------------------------------------------------------------------
(* The invariant, first without the reconciliation under way.  Programmed=   *)
(* True is a promise for the generation it names.                            *)
Types ==
    /\ gw \in Objects /\ cls \in Classes /\ cache \in Caches
    /\ graph \in [UIDs -> Graphs] /\ spent \in Counters
    /\ bundle \in BOOLEAN /\ queued \in BOOLEAN /\ lost \in BOOLEAN
    /\ spent.created <= spent.in.created

Bound == \A u \in UIDs : graph[u] # NoGraph =>
            gw.uid = u /\ gw.fin /\ gw.ann \in {graph[u].port, 0}

Promise == gw.prog[1] = "True" /\ gw.prog[2] = gw.gen
Promised ==
    /\ Promise => Exists(gw) /\ Valid(gw)
    /\ ~cls.ours \/ ~cache.cls.ours => lost
    /\ ProgrammedHonest

World == /\ Types /\ Bound /\ Promised
         /\ Copy(gw) /\ Copy(cache.gw) /\ (cache.fresh => cache.gw = gw)

(* What holds of the reconciliation under way: its copy of the Gateway and   *)
(* the optimistic locks on it; what its snapshot has established and nobody  *)
(* else can undo (a finalizer seen holds the object in place); why no promise*)
(* stands in the way of its cleanup, and why it can keep the one it is about *)
(* to publish; what its history holds.                                       *)
Locks ==
    /\ rec.fresh => /\ SameObject(gw, rec.g) /\ gw.port = rec.g.port /\ gw.class = rec.g.class
                    /\ gw.fin = rec.g.fin /\ gw.ann = rec.g.ann
                    /\ gw.acc = rec.acc /\ gw.prog = rec.prog
    /\ rec.snapFresh => SameObject(gw, rec.g) /\ gw.fin = rec.fin /\ gw.ann = rec.ann
    /\ rec.pc # "patch" => rec.g.prog = rec.prog

Snapshot ==
    /\ rec.pc \in {"observe1", "observe2", "seal1", "seal2", "seal3", "mutate"} =>
           Exists(rec.g) /\ Valid(rec.g) /\ rec.g.ann \in {0, rec.g.port}
    /\ rec.pc \in {"observe2", "seal1", "seal2", "seal3", "mutate"} /\ rec.fin =>
           gw.uid = rec.g.uid /\ gw.fin /\ gw.ann \in {rec.ann, 0}
    /\ rec.pc \in {"seal1", "seal2", "seal3", "mutate"} => SnapshotUsable
    /\ rec.pc = "unbind" => graph[rec.g.uid] = NoGraph

Reasons ==
    /\ rec.pc \in {"cleanup", "clean1"} =>
           rec.g.deleting \/ ~Exists(rec.g) \/ lost \/ rec.prog[1] # "True"
    /\ rec.pc \in {"clean2", "clean3", "delete"} => ~Promise \/ gw.deleting \/ lost
    /\ rec.pc = "patch" /\ rec.g.prog # rec.prog /\ rec.g.prog[1] = "True" =>
           /\ graph[rec.g.uid] = [st |-> "built", port |-> rec.g.port]
           /\ Exists(rec.g) /\ Valid(rec.g)

History ==
    /\ rec.pc \in {"seal1", "seal2"} => "usable" \in seen \/ ~SameObject(gw, rec.g)
    /\ rec.pc \in {"seal3", "mutate"} => "usable" \in seen
    /\ rec.pc \in {"seal2", "seal3", "mutate"} => "bundle" \in seen
    /\ rec.pc = "clean2" /\ (~Exists(rec.g) \/ ~Valid(rec.g) \/ PortMoved(rec.g)) =>
           "unwanted" \in seen
    /\ rec.pc = "clean3" /\ ~rec.hold => "unwanted" \in seen
    /\ rec.pc = "delete" =>
           /\ "unwanted" \in seen
           /\ "bundle" \in seen \/ rec.g.deleting \/ "foreign" \in seen

Underway == /\ rec \in Scopes /\ Copy(rec.g) /\ (rec.pc # "idle" => rec.g.uid # 0)
            /\ Locks /\ Snapshot /\ Reasons /\ History

IInv == World /\ Underway

-----------------------------------------------------------------------------
(* Facts about the operators of the model. *)
LEMMA Sizes ==
  /\ MaxUID \in Nat \ {0} /\ MaxClassLag \in Nat \ {0} /\ Ports \subseteq Nat \ {0}
  /\ Stored \subseteq Nat
BY BoundsAssumption, SMTT(30) DEF Stored

LEMMA ConditionParts ==
  ASSUME NEW p \in Programmeds
  PROVE  p[1] \in Statuses /\ p[2] \in Nat
BY DEF Programmeds, Statuses

LEMMA ValueTypes ==
  /\ Absent \in Objects /\ Absent.uid = 0 /\ Absent.gen = 0 /\ Absent.ann = 0 /\ ~Absent.fin
  /\ ~Absent.deleting /\ Absent.class = "missing" /\ Absent.prog = NoCondition
  /\ Absent.acc \in Conditions /\ NoCondition \in Programmeds
  /\ NoCondition[1] = "none" /\ NoCondition[2] = 0
<1>1. /\ <<"none", 0>> \in Conditions /\ NoCondition \in Programmeds
      /\ NoCondition[1] = "none" /\ NoCondition[2] = 0
  BY DEF NoCondition, Statuses, Conditions, Programmeds, Whys
<1> QED
  BY <1>1 DEF Absent, Objects, Stored, InvalidPort

LEMMA IdleScope ==
  /\ Idle \in Scopes /\ Idle.pc = "idle" /\ Idle.g = Absent /\ Idle.prog = NoCondition
  /\ ~Idle.fresh /\ ~Idle.snapFresh
BY ValueTypes DEF Idle, Scopes, Places, Stored

LEMMA NewObject ==
  ASSUME NEW u \in Nat, NEW x \in Scenarios, NEW s \in Specs(x)
  PROVE  /\ Created(u, s) \in Objects /\ Created(u, s).uid = u /\ Created(u, s).gen = 1
         /\ ~Created(u, s).fin /\ Created(u, s).ann = 0 /\ Created(u, s).prog = NoCondition
<1>1. s.port \in Stored /\ s.class \in {"class", "missing"}
  <2>1. s.port \in x.ports \cup {0} /\ s.class \in x.classes
    BY DEF Specs, InvalidPort
  <2>2. x.ports \subseteq Ports /\ x.classes \subseteq {"class", "missing"}
    BY BoundsAssumption DEF Ports
  <2> QED
    BY <2>1, <2>2 DEF Stored
<1> QED
  BY <1>1, ValueTypes DEF Created, Objects, Absent

(* provider_outcomes.go never reports a failed call as a success. *)
LEMMA FailuresAreNoSuccess ==
  \A f \in Failures : f.status \in {"False", "Unknown"} /\ f.advance \in BOOLEAN
                      /\ f.requeue \in BOOLEAN
<1> SUFFICES ASSUME NEW c PROVE LET f == ProviderFailurePolicyFor(c) IN
                                /\ f.status \in {"False", "Unknown"} /\ f.advance \in BOOLEAN
                                /\ f.requeue \in BOOLEAN
  BY DEF Failures
<1> QED
  BY SMTT(30) DEF ProviderFailurePolicyFor

(* The status writers touch the two conditions only, and never for a         *)
(* generation that is still to come.                                         *)
Restated(g, h) ==
    /\ h \in Objects /\ h.uid = g.uid /\ h.gen = g.gen /\ h.port = g.port /\ h.class = g.class
    /\ h.deleting = g.deleting /\ h.fin = g.fin /\ h.ann = g.ann /\ h.prog[2] <= h.gen

LEMMA ProvisioningFacts ==
  ASSUME NEW g \in Objects, g.prog[2] <= g.gen, NEW status \in {"True", "False", "Unknown"},
         NEW advance \in BOOLEAN, NEW why \in Whys
  PROVE  /\ Restated(g, Provisioning(g, status, advance, why))
         /\ Provisioning(g, status, advance, why).prog[1] = status
<1> DEFINE at == IF advance THEN g.gen ELSE g.prog[2]
<1>1. at \in Nat /\ at <= g.gen /\ g.gen \in Nat
  BY ConditionParts, SMTT(30) DEF Objects
<1>2. /\ <<"True", g.gen>> \in Conditions /\ <<status, at, why>> \in Programmeds
      /\ <<status, at, why>>[1] = status /\ <<status, at, why>>[2] = at
  BY <1>1 DEF Statuses, Conditions, Programmeds, Whys
<1> QED
  BY <1>1, <1>2 DEF Provisioning, Restated, Objects

LEMMA RejectedFacts ==
  ASSUME NEW g \in Objects
  PROVE  Restated(g, Rejected(g)) /\ Rejected(g).prog[1] = "False"
<1> DEFINE a == <<"False", g.gen>>
           p == <<"False", g.gen, "rejected">>
<1>1. /\ g.gen \in Nat /\ g.gen <= g.gen /\ a \in Conditions /\ p \in Programmeds
      /\ p[1] = "False" /\ p[2] = g.gen
  BY SMTT(30) DEF Objects, Statuses, Conditions, Programmeds, Whys
<1>2. Rejected(g) = [g EXCEPT !.acc = a, !.prog = p]
  BY DEF Rejected
<1> HIDE DEF a, p
<1> QED
  BY <1>1, <1>2 DEF Restated, Objects

LEMMA CleanupFailedFacts ==
  ASSUME NEW g \in Objects, g.prog[2] <= g.gen, NEW status \in {"False", "Unknown"},
         NEW advance \in BOOLEAN
  PROVE  /\ Restated(g, CleanupFailed(g, status, advance))
         /\ CleanupFailed(g, status, advance).prog[1] = status
<1> DEFINE at == IF advance THEN g.gen ELSE g.prog[2]
<1>1. at \in Nat /\ at <= g.gen /\ g.gen \in Nat
  BY ConditionParts, SMTT(30) DEF Objects
<1>2. /\ <<status, at, "failed">> \in Programmeds
      /\ <<status, at, "failed">>[1] = status /\ <<status, at, "failed">>[2] = at
  BY <1>1 DEF Statuses, Conditions, Programmeds, Whys
<1> QED
  BY <1>1, <1>2 DEF CleanupFailed, Restated, Objects

LEMMA UnsupportedVersionFacts ==
  ASSUME NEW g \in Objects, g.prog[2] <= g.gen
  PROVE  /\ Restated(g, UnsupportedVersion(g))
         /\ \/ UnsupportedVersion(g).prog = g.prog
            \/ UnsupportedVersion(g).prog[1] = "Unknown"
<1> DEFINE p == IF g.prog[2] = g.gen THEN g.prog ELSE <<"Unknown", g.gen, "version">>
<1>1. p \in Programmeds /\ p[2] <= g.gen /\ (p = g.prog \/ p[1] = "Unknown")
  BY SMTT(30) DEF Objects, Statuses, Programmeds, Whys
<1>2. UnsupportedVersion(g) = [g EXCEPT !.acc = <<"Unknown", g.gen>>, !.prog = p]
  BY DEF UnsupportedVersion, Objects
<1>3. <<"Unknown", g.gen>> \in Conditions
  BY DEF Objects, Statuses, Conditions, Programmeds, Whys
<1> HIDE DEF p
<1> QED
  BY <1>1, <1>2, <1>3 DEF Restated, Objects

(* Which Gateways and classes each phase is decided for. *)
LEMMA PhaseFacts ==
  ASSUME NEW g \in Objects, NEW c \in Classes
  PROVE  LET phase == decideGatewayPhase(g, c) IN
         /\ phase # "ignore" => Exists(g) \/ HasBinding(g)
         /\ phase = "cleanup" => g.deleting \/ ~Exists(g) \/ ~c.ours
         /\ phase \in {"bind", "ensure"} => Exists(g) /\ Valid(g) /\ ~PortMoved(g)
BY DEF decideGatewayPhase, Owned, Objects, Classes

-----------------------------------------------------------------------------
(* Steps that keep the invariant for the same reason. *)
LEMMA SeenGrows ==
  ASSUME Remember, rec'.pc \in Fenced
  PROVE  /\ rec.pc \in Fenced => seen \subseteq seen'
         /\ Usable' => "usable" \in seen'
         /\ Unwanted' => "unwanted" \in seen'
         /\ Foreign' => "foreign" \in seen'
         /\ bundle' => "bundle" \in seen'
<1>1. Now' \subseteq seen' /\ (rec.pc \in Fenced => seen \subseteq seen')
  BY DEF Remember
<1>2. /\ Usable' => "usable" \in Now'
      /\ Unwanted' => "unwanted" \in Now'
      /\ Foreign' => "foreign" \in Now'
      /\ bundle' => "bundle" \in Now'
  BY DEF Now
<1> QED
  BY <1>1, <1>2

(* The live Gateway is a copy of itself. *)
LEMMA LiveCopy ==
  ASSUME Types
  PROVE  Older(gw) /\ gw.uid \in Nat /\ gw.gen \in Nat
BY SMTT(30) DEF Types, Older, Objects

(* No reconciliation is under way. *)
LEMMA Ended == ASSUME World', rec' = Idle PROVE Underway'
<1>1. /\ rec' \in Scopes /\ rec'.pc = "idle" /\ rec'.g = Absent /\ rec'.prog = NoCondition
      /\ ~rec'.fresh /\ ~rec'.snapFresh
  BY IdleScope
<1>2. KnownUID(Absent)'
  BY SMTT(30) DEF World, Copy, KnownUID, Types, Counters, Absent
<1>3. NoFuturePromise(Absent)'
  BY ValueTypes, SMTT(30) DEF NoFuturePromise
<1>4. Older(Absent)'
  <2>1. ASSUME gw'.uid = 0 PROVE gw' = Absent
    BY <2>1 DEF World, Copy, KnownUID
  <2> QED
    BY <2>1, ValueTypes, SMTT(30) DEF Older
<1>5. Copy(rec.g)'
  BY <1>1, <1>2, <1>3, <1>4 DEF Copy
<1> QED
  BY <1>1, <1>5, ValueTypes DEF Underway, Locks, Snapshot, Reasons, History

(* The reconciliation under way stays where it is, and so does what it has   *)
(* read.                                                                     *)
Waits == /\ rec' \in Scopes /\ rec'.pc = rec.pc /\ rec'.g = rec.g /\ rec'.acc = rec.acc
         /\ rec'.prog = rec.prog /\ rec'.fin = rec.fin /\ rec'.ann = rec.ann
         /\ rec'.bind = rec.bind /\ rec'.hold = rec.hold

LEMMA Undisturbed ==
  ASSUME IInv, Waits, rec'.fresh = rec.fresh, rec'.snapFresh = rec.snapFresh,
         gw' = gw, graph' = graph, lost => lost', spent'.created = spent.created, Remember
  PROVE  Underway'
<1>1. Copy(rec.g)' /\ (rec'.pc # "idle" => rec'.g.uid # 0) /\ Locks'
  BY SMTT(30) DEF IInv, Underway, Waits, Copy, KnownUID, NoFuturePromise, Older, Locks, SameObject
<1>2. Snapshot'
  BY DEF IInv, Underway, Waits, Snapshot, SnapshotUsable
<1>3. Reasons'
  BY DEF IInv, Underway, Waits, Reasons, Promise
<1>4. rec'.pc \in Fenced => seen \subseteq seen'
  BY SeenGrows DEF Waits
<1>5. History'
  BY <1>4 DEF IInv, Underway, Waits, History, Fenced, SameObject
<1> QED
  BY <1>1, <1>2, <1>3, <1>5 DEF Underway, Waits

(* A step of the reconciliation under way that changes nothing else. *)
LEMMA QuietWorld ==
  ASSUME IInv, Quiet, queued' \in BOOLEAN
  PROVE  World'
BY SMTT(30) DEF IInv, World, Quiet, Types, Bound, Promised, Promise, ProgrammedHonest, Copy,
       KnownUID, NoFuturePromise, Older

(* It goes on to its next request with the copy it has. *)
Proceeds(pc) ==
    /\ rec' \in Scopes /\ rec'.pc = pc /\ rec'.g = rec.g /\ rec'.acc = rec.acc
    /\ rec'.prog = rec.prog /\ rec'.fresh = rec.fresh /\ rec'.snapFresh = rec.snapFresh
    /\ rec'.fin = rec.fin /\ rec'.ann = rec.ann /\ rec'.bind = rec.bind

LEMMA GoProceeds ==
  ASSUME IInv, NEW pc \in Places, Go(pc)
  PROVE  Proceeds(pc)
BY DEF IInv, Underway, Scopes, Go, Proceeds

LEMMA ProceedsKeeps ==
  ASSUME IInv, Quiet, NEW pc, pc # "patch", Proceeds(pc), rec.pc \notin {"idle", "patch"}
  PROVE  rec' \in Scopes /\ Copy(rec.g)' /\ rec'.g.uid # 0 /\ Locks'
BY SMTT(30) DEF IInv, Underway, Quiet, Proceeds, Copy, KnownUID, NoFuturePromise, Older, Locks, SameObject

LEMMA InitIInv == Init => IInv
<1> SUFFICES ASSUME Init PROVE IInv
  OBVIOUS
<1>1. PICK x \in Scenarios :
         /\ \E s \in Specs(x) : gw = Created(1, s)
         /\ spent = [in |-> x, created |-> 1, edits |-> 0, class |-> 0, bundle |-> 0,
                      tampers |-> 0, failures |-> 0, crashes |-> 0]
  BY DEF Init
<1>2. /\ gw \in Objects /\ gw.uid = 1 /\ gw.gen = 1 /\ ~gw.fin /\ gw.ann = 0
      /\ gw.prog = NoCondition
  BY <1>1, NewObject, SMTT(30)
<1>3. /\ spent \in Counters /\ spent.created = 1 /\ spent.created <= spent.in.created
  BY <1>1, BoundsAssumption, SMTT(30) DEF Counters
<1>4. /\ cls \in Classes /\ cls.ours /\ cache \in Caches /\ cache.gw = gw /\ cache.cls = cls
  BY <1>2, Sizes, SMTT(30) DEF Init, Classes, Caches
<1>5. graph \in [UIDs -> Graphs] /\ \A u \in UIDs : graph[u] = NoGraph
  BY DEF Init, Graphs
<1>6. Types
  BY <1>2, <1>3, <1>4, <1>5 DEF Init, Types
<1>7. Copy(gw)
  BY <1>2, <1>3, <1>6, ValueTypes, LiveCopy, SMTT(30) DEF Copy, KnownUID, NoFuturePromise
<1>8. World
  BY <1>2, <1>4, <1>5, <1>6, <1>7, ValueTypes
  DEF World, Bound, Promised, Promise, ProgrammedHonest
<1>9. Underway
  <2>1. /\ rec \in Scopes /\ rec.pc = "idle" /\ rec.g = Absent /\ rec.prog = NoCondition
        /\ ~rec.fresh /\ ~rec.snapFresh
    BY IdleScope DEF Init
  <2>2. Copy(Absent)
    BY <1>2, <1>3, ValueTypes, SMTT(30) DEF Copy, KnownUID, NoFuturePromise, Older
  <2> QED
    BY <2>1, <2>2, ValueTypes DEF Underway, Locks, Snapshot, Reasons, History
<1> QED
  BY <1>8, <1>9 DEF IInv

-----------------------------------------------------------------------------
(* newGatewayScope: the copy is the cached Gateway. *)
Scoped(pc) ==
    /\ rec' \in Scopes /\ rec'.pc = pc /\ rec'.acc = cache.gw.acc /\ rec'.prog = cache.gw.prog
    /\ rec'.fresh = cache.fresh /\ ~rec'.snapFresh

LEMMA ScopeAtFacts ==
  ASSUME IInv, NEW pc \in Places
  PROVE  LET s == ScopeAt(pc) IN
         /\ s \in Scopes /\ s.pc = pc /\ s.acc = cache.gw.acc /\ s.prog = cache.gw.prog
         /\ s.fresh = cache.fresh /\ ~s.snapFresh /\ s.g = cache.gw
<1>1. (pc = "cleanup") \in BOOLEAN
  OBVIOUS
<1>2. cache.gw \in Objects /\ cache.fresh \in BOOLEAN /\ cache.gw.acc \in Conditions
      /\ cache.gw.prog \in Programmeds
  BY DEF IInv, World, Types, Caches, Objects
<1>3. /\ Scope \in Scopes /\ Scope.acc = cache.gw.acc /\ Scope.prog = cache.gw.prog
      /\ Scope.fresh = cache.fresh /\ ~Scope.snapFresh /\ Scope.g = cache.gw
  BY <1>2, IdleScope DEF Scope, Scopes
<1> QED
  BY <1>1, <1>3 DEF ScopeAt, Scopes

LEMMA CachedScope ==
  ASSUME IInv, NEW pc \in Places, rec' = ScopeAt(pc)
  PROVE  Scoped(pc) /\ rec'.g = cache.gw
BY ScopeAtFacts DEF Scoped

(* A phase other than ignore has a Gateway. *)
LEMMA BeginFacts ==
  ASSUME IInv, NEW phase, phase # "ignore", NEW r, Begin(phase, r)
  PROVE  /\ cache.gw \in Objects /\ cache.cls \in Classes /\ cache.gw.uid # 0
         /\ decideGatewayPhase(cache.gw, cache.cls) = phase
         /\ Quiet /\ World' /\ rec' = r /\ Copy(cache.gw)
<1>1. /\ cache.gw \in Objects /\ cache.cls \in Classes /\ Copy(cache.gw)
      /\ decideGatewayPhase(cache.gw, cache.cls) = phase /\ Quiet /\ rec' = r
      /\ queued' \in BOOLEAN
  BY DEF IInv, World, Types, Caches, Begin
<1>2. cache.gw # Absent
  BY <1>1, PhaseFacts, ValueTypes DEF Exists, HasBinding
<1> QED
  BY <1>1, <1>2, QuietWorld DEF Copy, KnownUID

(* What a scope on the cached Gateway keeps, whatever status it will write. *)
LEMMA ScopedKeeps ==
  ASSUME IInv, Quiet, NEW pc, Scoped(pc), Restated(cache.gw, rec'.g),
         cache.gw \in Objects, cache.gw.uid # 0, rec'.g.prog = rec'.prog \/ pc = "patch"
  PROVE  rec' \in Scopes /\ Copy(rec.g)' /\ rec'.g.uid # 0 /\ Locks'
<1>1. Copy(cache.gw) /\ (cache.fresh => cache.gw = gw)
  BY DEF IInv, World
<1>2. Copy(rec.g)'
  BY <1>1 DEF Quiet, Restated, Copy, KnownUID, NoFuturePromise, Older
<1> QED
  BY <1>1, <1>2 DEF Scoped, Quiet, Restated, Locks, SameObject

LEMMA IgnoredStep == ASSUME IInv, ReconcileIgnored PROVE IInv'
<1>1. Quiet /\ queued' \in BOOLEAN /\ rec' = Idle
  BY DEF ReconcileIgnored, Begin
<1> QED
  BY <1>1, QuietWorld, Ended DEF IInv

LEMMA CachedIsRestated ==
  ASSUME IInv
  PROVE  Restated(cache.gw, cache.gw)
BY DEF IInv, World, Types, Caches, Copy, NoFuturePromise, Restated

LEMMA CleanupStartStep == ASSUME IInv, ReconcileCleanup PROVE IInv'
<1>1. /\ cache.gw \in Objects /\ cache.cls \in Classes /\ cache.gw.uid # 0 /\ Quiet /\ World'
      /\ decideGatewayPhase(cache.gw, cache.cls) = "cleanup" /\ rec' = ScopeAt("cleanup")
  BY BeginFacts DEF ReconcileCleanup
<1>2. Scoped("cleanup") /\ rec'.g = cache.gw /\ rec'.pc = "cleanup"
  BY <1>1, CachedScope DEF Places, Scoped
<1>3. rec' \in Scopes /\ Copy(rec.g)' /\ rec'.g.uid # 0 /\ Locks'
  BY <1>1, <1>2, ScopedKeeps, CachedIsRestated DEF Scoped
<1>4. rec'.g.deleting \/ ~Exists(rec'.g) \/ lost'
  BY <1>1, <1>2, PhaseFacts DEF IInv, World, Promised, Quiet
<1> QED
  BY <1>1, <1>2, <1>3, <1>4 DEF IInv, Underway, Snapshot, Reasons, History, Exists

LEMMA VersionStartStep == ASSUME IInv, ReconcileVersion PROVE IInv'
<1>1. /\ cache.gw \in Objects /\ cache.gw.uid # 0 /\ Quiet /\ World' /\ rec' = ScopeAt("version1")
  BY BeginFacts DEF ReconcileVersion
<1>2. Scoped("version1") /\ rec'.g = cache.gw /\ rec'.pc = "version1"
  BY <1>1, CachedScope DEF Places, Scoped
<1>3. rec' \in Scopes /\ Copy(rec.g)' /\ rec'.g.uid # 0 /\ Locks'
  BY <1>1, <1>2, ScopedKeeps, CachedIsRestated DEF Scoped
<1> QED
  BY <1>1, <1>2, <1>3 DEF IInv, Underway, Snapshot, Reasons, History

(* A scope that writes a status other than Programmed=True straight away. *)
LEMMA StatusOnly ==
  ASSUME IInv, Quiet, World', cache.gw \in Objects, cache.gw.uid # 0,
         Scoped("patch"), Restated(cache.gw, rec'.g), rec'.g.prog[1] = "False"
  PROVE  IInv'
<1>1. rec' \in Scopes /\ Copy(rec.g)' /\ rec'.g.uid # 0 /\ Locks' /\ rec'.pc = "patch"
  BY ScopedKeeps DEF Scoped
<1> QED
  BY <1>1 DEF IInv, Underway, Snapshot, Reasons, History

LEMMA PatchScope ==
  ASSUME IInv, NEW h \in Objects, NEW q \in BOOLEAN,
         \/ rec' = [ScopeAt("patch") EXCEPT !.g = h]
         \/ rec' = [ScopeAt("patch") EXCEPT !.g = h, !.requeue = q]
  PROVE  Scoped("patch") /\ rec'.g = h
<1> DEFINE s == ScopeAt("patch")
<1>1. "patch" \in Places
  BY DEF Places
<1>2. /\ s \in Scopes /\ s.pc = "patch" /\ s.acc = cache.gw.acc /\ s.prog = cache.gw.prog
      /\ s.fresh = cache.fresh /\ ~s.snapFresh
  BY <1>1, ScopeAtFacts
<1>3. rec' = [s EXCEPT !.g = h] \/ rec' = [s EXCEPT !.g = h, !.requeue = q]
  OBVIOUS
<1> HIDE DEF s
<1>4. CASE rec' = [s EXCEPT !.g = h]
  BY <1>2, <1>4 DEF Scoped, Scopes
<1>5. CASE rec' = [s EXCEPT !.g = h, !.requeue = q]
  BY <1>2, <1>5 DEF Scoped, Scopes
<1> QED
  BY <1>3, <1>4, <1>5

LEMMA BadBindingStep == ASSUME IInv, ReconcileBadBinding PROVE IInv'
<1> DEFINE h == Rejected(cache.gw)
<1>1. /\ cache.gw \in Objects /\ cache.gw.uid # 0 /\ Quiet /\ World'
      /\ rec' = [ScopeAt("patch") EXCEPT !.g = h]
  BY BeginFacts DEF ReconcileBadBinding
<1>2. Restated(cache.gw, h) /\ h.prog[1] = "False" /\ h \in Objects
  BY <1>1, RejectedFacts DEF Restated
<1> HIDE DEF h
<1>3. Scoped("patch") /\ rec'.g = h
  BY <1>1, <1>2, PatchScope
<1> QED
  BY <1>1, <1>2, <1>3, StatusOnly

(* cleanupGatewayAfterStatusCheckpoint: a cleanup starts when the status     *)
(* that withdraws the promise is already the cached one.                     *)
LEMMA CheckpointStep ==
  ASSUME IInv, Quiet, World', cache.gw \in Objects, cache.gw.uid # 0,
         NEW h, Restated(cache.gw, h), h.prog[1] = "False", rec' = Checkpoint(h)
  PROVE  IInv'
<1>0. /\ h \in Objects /\ cache.gw.acc \in Conditions /\ cache.gw.prog \in Programmeds
      /\ h.acc \in Conditions /\ h.prog \in Programmeds
  BY DEF Restated, Objects
<1>1. Scope.acc = cache.gw.acc /\ Scope.prog = cache.gw.prog
  BY <1>0 DEF Scope, Idle
<1>2. CASE rec' = [ScopeAt("patch") EXCEPT !.g = h, !.requeue = TRUE]
  <2>1. Scoped("patch") /\ rec'.g = h
    BY <1>0, <1>2, PatchScope
  <2> QED
    BY <2>1, StatusOnly
<1>3. CASE rec' = ScopeAt("cleanup") /\ h.prog = cache.gw.prog
  <2>1. Scoped("cleanup") /\ rec'.g = cache.gw /\ rec'.pc = "cleanup" /\ rec'.prog[1] = "False"
    BY <1>3, CachedScope DEF Places, Scoped
  <2>2. rec' \in Scopes /\ Copy(rec.g)' /\ rec'.g.uid # 0 /\ Locks'
    BY <2>1, ScopedKeeps, CachedIsRestated DEF Scoped
  <2> QED
    BY <2>1, <2>2 DEF IInv, Underway, Snapshot, Reasons, History
<1> QED
  BY <1>1, <1>2, <1>3 DEF Checkpoint

LEMMA RejectedStep == ASSUME IInv, ReconcileRejected PROVE IInv'
<1> DEFINE h == Rejected(cache.gw)
<1>1. cache.gw \in Objects /\ cache.gw.uid # 0 /\ Quiet /\ World' /\ rec' = Checkpoint(h)
  BY BeginFacts DEF ReconcileRejected
<1>2. Restated(cache.gw, h) /\ h.prog[1] = "False"
  BY <1>1, RejectedFacts
<1> HIDE DEF h
<1> QED
  BY <1>1, <1>2, CheckpointStep

LEMMA ReplacementStep == ASSUME IInv, ReconcileReplacement PROVE IInv'
<1> DEFINE h == Provisioning(cache.gw, "False", TRUE, "replacing")
<1>1. /\ cache.gw \in Objects /\ cache.gw.uid # 0 /\ Quiet /\ World' /\ rec' = Checkpoint(h)
      /\ cache.gw.prog[2] <= cache.gw.gen
  BY BeginFacts DEF ReconcileReplacement, Copy, NoFuturePromise
<1>2. Restated(cache.gw, h) /\ h.prog[1] = "False"
  BY <1>1, ProvisioningFacts DEF Whys
<1> HIDE DEF h
<1> QED
  BY <1>1, <1>2, CheckpointStep

(* A binding or an ensure is decided for a Gateway whose class is there,     *)
(* whose spec is valid and whose stored port, if any, is that of the spec.   *)
LEMMA SnapshotStart ==
  ASSUME IInv, Quiet, World', cache.gw \in Objects, cache.gw.uid # 0,
         Scoped("observe1"), rec'.g = cache.gw,
         Exists(cache.gw), Valid(cache.gw), ~PortMoved(cache.gw)
  PROVE  IInv'
<1>1. rec' \in Scopes /\ Copy(rec.g)' /\ rec'.g.uid # 0 /\ Locks' /\ rec'.pc = "observe1"
  BY ScopedKeeps, CachedIsRestated DEF Scoped
<1>2. Snapshot'
  BY <1>1 DEF Snapshot, Exists, Valid, PortMoved
<1> QED
  BY <1>1, <1>2 DEF IInv, Underway, Reasons, History

LEMMA BindingStartStep == ASSUME IInv, ReconcileBinding PROVE IInv'
<1>1. /\ cache.gw \in Objects /\ cache.cls \in Classes /\ cache.gw.uid # 0 /\ Quiet /\ World'
      /\ decideGatewayPhase(cache.gw, cache.cls) = "bind"
      /\ rec' = [ScopeAt("observe1") EXCEPT !.bind = TRUE]
  BY BeginFacts DEF ReconcileBinding
<1> DEFINE s == ScopeAt("observe1")
<1>2. "observe1" \in Places
  BY DEF Places, Fenced
<1>3. /\ s \in Scopes /\ s.pc = "observe1" /\ s.acc = cache.gw.acc /\ s.prog = cache.gw.prog
      /\ s.fresh = cache.fresh /\ ~s.snapFresh /\ s.g = cache.gw
  BY <1>2, ScopeAtFacts
<1>4. rec' = [s EXCEPT !.bind = TRUE]
  BY <1>1
<1> HIDE DEF s
<1>5. Scoped("observe1") /\ rec'.g = cache.gw
  BY <1>3, <1>4 DEF Scoped, Scopes
<1> QED
  BY <1>1, <1>5, SnapshotStart, PhaseFacts

LEMMA GraphStartStep == ASSUME IInv, ReconcileGraph PROVE IInv'
<1>1. /\ cache.gw \in Objects /\ cache.cls \in Classes /\ cache.gw.uid # 0 /\ Quiet /\ World'
      /\ decideGatewayPhase(cache.gw, cache.cls) = "ensure" /\ rec' = ScopeAt("observe1")
  BY BeginFacts DEF ReconcileGraph
<1>2. Scoped("observe1") /\ rec'.g = cache.gw
  BY <1>1, CachedScope DEF Places, Fenced
<1> QED
  BY <1>1, <1>2, SnapshotStart, PhaseFacts

-----------------------------------------------------------------------------
(* The steps of a snapshot. *)
LEMMA AgainEnds ==
  ASSUME IInv, Quiet, Again \/ Stop
  PROVE  IInv'
<1>1. rec' = Idle /\ queued' \in BOOLEAN
  BY DEF Again, Stop, IInv, World, Types
<1> QED
  BY <1>1, QuietWorld, Ended DEF IInv

LEMMA GoesOn ==
  ASSUME IInv, Quiet, NEW pc \in Places, pc # "patch", Go(pc), rec.pc \notin {"idle", "patch"}
  PROVE  /\ World' /\ Proceeds(pc) /\ rec'.hold = rec.hold
         /\ rec' \in Scopes /\ Copy(rec.g)' /\ rec'.g.uid # 0 /\ Locks'
<1>1. queued' \in BOOLEAN /\ Proceeds(pc)
  BY GoProceeds DEF Go, IInv, World, Types
<1>2. rec'.hold = rec.hold
  BY DEF Go, IInv, Underway, Scopes
<1> QED
  BY <1>1, <1>2, QuietWorld, ProceedsKeeps

LEMMA ToVersion ==
  ASSUME IInv, Quiet, Go("version1"), rec.pc \notin {"idle", "patch"}
  PROVE  IInv'
<1>1. /\ World' /\ rec' \in Scopes /\ Copy(rec.g)' /\ rec'.g.uid # 0 /\ Locks'
      /\ rec'.pc = "version1"
  BY GoesOn DEF Places, Proceeds
<1> QED
  BY <1>1 DEF IInv, Underway, Snapshot, Reasons, History

LEMMA ObserveGatewayStep == ASSUME IInv, ObserveGateway PROVE IInv'
<1>1. CASE Again
  BY <1>1, AgainEnds DEF ObserveGateway
<1>2. CASE /\ SameObject(gw, rec.g) /\ UNCHANGED queued
           /\ rec' = [rec EXCEPT !.pc = "observe2", !.fin = gw.fin, !.ann = gw.ann,
                                 !.snapFresh = rec.bind]
  <2>1. rec.pc = "observe1" /\ Quiet /\ rec \in Scopes /\ gw \in Objects
    BY DEF ObserveGateway, IInv, Underway, World, Types
  <2>2. gw.fin \in BOOLEAN /\ gw.ann \in Stored /\ rec.bind \in BOOLEAN
    BY <2>1 DEF Objects, Scopes
  <2>3. /\ rec' \in Scopes /\ rec'.pc = "observe2" /\ rec'.fin = gw.fin /\ rec'.ann = gw.ann
        /\ rec'.g = rec.g /\ rec'.acc = rec.acc /\ rec'.prog = rec.prog /\ rec'.fresh = rec.fresh
    BY <1>2, <2>1, <2>2 DEF Scopes, Places, Fenced
  <2>4. World'
    BY <1>2, <2>1, QuietWorld DEF IInv, World, Types
  <2>5. Copy(rec.g)' /\ rec'.g.uid # 0
    BY <2>1, <2>3 DEF IInv, Underway, Quiet, Copy, KnownUID, NoFuturePromise, Older
  <2>6. Locks'
    BY <1>2, <2>1, <2>3 DEF IInv, Underway, Quiet, Locks, SameObject
  <2>7. Snapshot'
    BY <1>2, <2>1, <2>3 DEF IInv, Underway, Quiet, Snapshot, SameObject
  <2> QED
    BY <2>3, <2>4, <2>5, <2>6, <2>7 DEF IInv, Underway, Reasons, History
<1> QED
  BY <1>1, <1>2 DEF ObserveGateway

(* If the Gateway is still the one decided on, this is the moment when the   *)
(* whole snapshot is usable.                                                 *)
LEMMA ObserveClassStep == ASSUME IInv, ObserveClass PROVE IInv'
<1>0. rec.pc = "observe2" /\ Quiet
  BY DEF ObserveClass
<1>1. CASE Again
  BY <1>0, <1>1, AgainEnds
<1>2. CASE Go("version1")
  BY <1>0, <1>2, ToVersion
<1>3. CASE Go("seal1") /\ Owned(rec.g, cls) /\ ~cls.params /\ cls.supported /\ SnapshotUsable
  <2>1. /\ World' /\ Proceeds("seal1") /\ rec' \in Scopes /\ Copy(rec.g)' /\ rec'.g.uid # 0
        /\ Locks' /\ rec'.pc = "seal1" /\ rec'.g = rec.g
    BY <1>0, <1>3, GoesOn DEF Places, Fenced, Proceeds
  <2>2. Snapshot'
    BY <1>0, <1>3, <2>1 DEF IInv, Underway, Quiet, Snapshot, SnapshotUsable, Proceeds
  <2>3. History'
    <3>1. ASSUME SameObject(gw, rec.g)' PROVE Usable'
      <4>1. gw' = gw /\ cls' = cls /\ gw.class = rec.g.class
        BY <1>0, <2>1, <3>1 DEF IInv, Underway, Copy, Older, Quiet, SameObject
      <4> QED
        BY <1>3, <3>1, <4>1 DEF Usable, Owned, Exists
    <3>2. Remember /\ rec'.pc \in Fenced
      BY <1>0, <2>1 DEF Quiet, Fenced
    <3> QED
      BY <2>1, <3>1, <3>2, SeenGrows DEF History
  <2> QED
    BY <2>1, <2>2, <2>3 DEF IInv, Underway, Reasons
<1> QED
  BY <1>1, <1>2, <1>3 DEF ObserveClass

LEMMA SealBundleStep == ASSUME IInv, SealBundle PROVE IInv'
<1>0. rec.pc = "seal1" /\ Quiet
  BY DEF SealBundle
<1>1. CASE Go("version1")
  BY <1>0, <1>1, ToVersion
<1>2. CASE Go("seal2") /\ bundle
  <2>1. /\ World' /\ Proceeds("seal2") /\ rec' \in Scopes /\ Copy(rec.g)' /\ rec'.g.uid # 0
        /\ Locks' /\ rec'.pc = "seal2" /\ rec'.g = rec.g
    BY <1>0, <1>2, GoesOn DEF Places, Fenced, Proceeds
  <2>2. Snapshot'
    BY <1>0, <2>1 DEF IInv, Underway, Quiet, Snapshot, SnapshotUsable, Proceeds
  <2>3. seen \subseteq seen' /\ "bundle" \in seen'
    BY <1>0, <1>2, <2>1, SeenGrows DEF Quiet, Fenced
  <2>4. History'
    BY <1>0, <2>1, <2>3 DEF IInv, Underway, History, Quiet, SameObject
  <2> QED
    BY <2>1, <2>2, <2>4 DEF IInv, Underway, Reasons
<1> QED
  BY <1>1, <1>2 DEF SealBundle

LEMMA SealGatewayStep == ASSUME IInv, SealGateway PROVE IInv'
<1>0. rec.pc = "seal2" /\ Quiet
  BY DEF SealGateway
<1>1. CASE Again
  BY <1>0, <1>1, AgainEnds
<1>2. CASE Go("seal3") /\ SameObject(gw, rec.g)
  <2>1. /\ World' /\ Proceeds("seal3") /\ rec' \in Scopes /\ Copy(rec.g)' /\ rec'.g.uid # 0
        /\ Locks' /\ rec'.pc = "seal3" /\ rec'.g = rec.g
    BY <1>0, <1>2, GoesOn DEF Places, Fenced, Proceeds
  <2>2. Snapshot'
    BY <1>0, <2>1 DEF IInv, Underway, Quiet, Snapshot, SnapshotUsable, Proceeds
  <2>3. seen \subseteq seen'
    BY <1>0, <2>1, SeenGrows DEF Quiet, Fenced
  <2>4. History'
    BY <1>0, <1>2, <2>1, <2>3 DEF IInv, Underway, History
  <2> QED
    BY <2>1, <2>2, <2>4 DEF IInv, Underway, Reasons
<1> QED
  BY <1>1, <1>2 DEF SealGateway

LEMMA SealClassStep == ASSUME IInv, SealClass PROVE IInv'
<1>0. rec.pc = "seal3" /\ Quiet
  BY DEF SealClass
<1>1. CASE Again
  BY <1>0, <1>1, AgainEnds
<1>2. CASE Go("version1")
  BY <1>0, <1>2, ToVersion
<1>3. CASE Go("mutate")
  <2>1. /\ World' /\ Proceeds("mutate") /\ rec' \in Scopes /\ Copy(rec.g)' /\ rec'.g.uid # 0
        /\ Locks' /\ rec'.pc = "mutate" /\ rec'.g = rec.g
    BY <1>0, <1>3, GoesOn DEF Places, Fenced, Proceeds
  <2>2. Snapshot'
    BY <1>0, <2>1 DEF IInv, Underway, Quiet, Snapshot, SnapshotUsable, Proceeds
  <2>3. seen \subseteq seen'
    BY <1>0, <2>1, SeenGrows DEF Quiet, Fenced
  <2>4. History'
    BY <1>0, <2>1, <2>3 DEF IInv, Underway, History
  <2> QED
    BY <2>1, <2>2, <2>4 DEF IInv, Underway, Reasons
<1> QED
  BY <1>1, <1>2, <1>3 DEF SealClass

-----------------------------------------------------------------------------
(* The deferred status patch takes over the optimistic lock of the scope. *)
LEMMA Returns ==
  ASSUME IInv, World', gw' = gw, spent'.created = spent.created, rec.pc # "idle",
         NEW h, Restated(rec.g, h), NEW q \in BOOLEAN, Return(h, q),
         h.prog[1] = "True" /\ h.prog # rec.prog =>
             /\ graph'[rec.g.uid] = [st |-> "built", port |-> rec.g.port]
             /\ Exists(rec.g) /\ Valid(rec.g)
  PROVE  Underway'
<1>1. /\ rec.acc \in Conditions /\ rec.prog \in Programmeds /\ rec.fresh \in BOOLEAN
      /\ h \in Objects
  BY DEF IInv, Underway, Restated, Scopes
<1>2. /\ rec' \in Scopes /\ rec'.pc = "patch" /\ rec'.g = h /\ rec'.acc = rec.acc
      /\ rec'.prog = rec.prog /\ rec'.fresh = rec.fresh /\ ~rec'.snapFresh
  BY <1>1 DEF Return, Idle, Scopes, Places, Stored
<1>3. Copy(rec.g)' /\ rec'.g.uid # 0
  BY <1>2 DEF IInv, Underway, Restated, Copy, KnownUID, NoFuturePromise, Older
<1>4. Locks'
  BY <1>2 DEF IInv, Underway, Restated, Locks, SameObject
<1>5. Reasons'
  BY <1>2 DEF Restated, Reasons, Exists, Valid
<1> QED
  BY <1>2, <1>3, <1>4, <1>5 DEF Underway, Snapshot, History

(* The binding is written only while nothing is built for the Gateway: had   *)
(* it a graph, its finalizer and stored port would have been in the snapshot.*)
LEMMA NothingBuiltBeforeBinding ==
  ASSUME IInv, rec.pc = "mutate", rec.bind, rec.snapFresh
  PROVE  \A u \in UIDs : graph[u] = NoGraph
<1>1. /\ SameObject(gw, rec.g) /\ gw.fin = rec.fin /\ gw.ann = rec.ann
      /\ rec.g.ann \in {0, rec.g.port} /\ SnapshotUsable
  BY DEF IInv, Underway, Locks, Snapshot
<1>2. gw.ann \in {rec.g.ann, 0, gw.port} /\ gw.port = rec.g.port
  BY <1>1 DEF IInv, Underway, Copy, Older, SameObject
<1>3. ~gw.fin
  BY <1>1, <1>2 DEF SnapshotUsable
<1> QED
  BY <1>3 DEF IInv, World, Bound

LEMMA BindStep == ASSUME IInv, BindGateway PROVE IInv'
<1>0. /\ rec.pc = "mutate" /\ rec.bind /\ rec' = Idle /\ queued' = TRUE
      /\ UNCHANGED <<cls, bundle, graph, lost, spent>>
  BY DEF BindGateway, Again
<1>1. CASE UNCHANGED <<gw, cache>>
  <2>1. World'
    BY <1>0, <1>1, SMTT(30) DEF IInv, World, Types, Bound, Promised, Promise, ProgrammedHonest, Copy,
                      KnownUID, NoFuturePromise, Older
  <2> QED
    BY <1>0, <2>1, Ended DEF IInv
<1>2. CASE rec.snapFresh /\ WriteGateway([gw EXCEPT !.fin = TRUE, !.ann = rec.g.port])
  <2>1. /\ SameObject(gw, rec.g) /\ gw.port = rec.g.port /\ gw \in Objects /\ cache \in Caches
        /\ gw.port \in Stored /\ gw.uid # 0
    BY <1>0, <1>2 DEF IInv, World, Types, Underway, Locks, Copy, Older, SameObject, Objects
  <2>2. /\ gw' \in Objects /\ gw'.uid = gw.uid /\ gw'.gen = gw.gen /\ gw'.port = gw.port
        /\ gw'.class = gw.class /\ gw'.deleting = gw.deleting /\ gw'.fin
        /\ gw'.ann = gw.port /\ gw'.prog = gw.prog
    BY <1>2, <2>1 DEF WriteGateway, Objects
  <2>3. /\ cache' \in Caches /\ cache'.gw = cache.gw /\ cache'.cls = cache.cls /\ ~cache'.fresh
    BY <1>2, <2>1 DEF WriteGateway, Caches
  <2>4. Types'
    BY <1>0, <2>2, <2>3 DEF IInv, World, Types
  <2>5. Copy(gw)' /\ Copy(cache.gw)'
    <3>1. KnownUID(gw)' /\ KnownUID(cache.gw)' /\ NoFuturePromise(gw)' /\ NoFuturePromise(cache.gw)'
      BY <1>0, <2>1, <2>2, <2>3 DEF IInv, World, Copy, KnownUID, NoFuturePromise
    <3>2. Older(gw)' /\ Older(cache.gw)'
      BY <2>1, <2>2, <2>3, <2>4, LiveCopy DEF IInv, World, Copy, Older, Objects
    <3> QED
      BY <3>1, <3>2 DEF Copy
  <2>6. Bound'
    BY <1>0, <1>2, NothingBuiltBeforeBinding DEF Bound
  <2>7. Promised'
    BY <1>0, <2>2, <2>3 DEF IInv, World, Promised, Promise, ProgrammedHonest, Exists, Valid
  <2>8. World'
    BY <2>3, <2>4, <2>5, <2>6, <2>7 DEF World
  <2> QED
    BY <1>0, <2>8, Ended DEF IInv
<1> QED
  BY <1>1, <1>2 DEF BindGateway

-----------------------------------------------------------------------------
(* The provider calls. *)
LEMMA GrownFacts ==
  ASSUME NEW o \in Graphs, NEW p \in Ports
  PROVE  /\ Grown(o, p) \in Graphs /\ Grown(o, p) # NoGraph
         /\ Grown(o, p).port = IF o = NoGraph THEN p ELSE o.port
         /\ o.st = "built" => Grown(o, p) = o
<1>1. CASE o = NoGraph
  BY <1>1, Sizes DEF Grown, NoGraph, Graphs
<1>2. CASE o \in [st : {"partial", "built"}, port : Ports]
  BY <1>2, Sizes, SMTT(30) DEF Grown, NoGraph, Graphs
<1> QED
  BY <1>1, <1>2 DEF Graphs

LEMMA ShrunkFacts ==
  ASSUME NEW o \in Graphs
  PROVE  Shrunk(o) \in Graphs /\ (Shrunk(o) # NoGraph => o # NoGraph /\ Shrunk(o).port = o.port)
<1>1. CASE o = NoGraph
  BY <1>1 DEF Shrunk, NoGraph, Graphs
<1>2. CASE o \in [st : {"partial", "built"}, port : Ports]
  BY <1>2, Sizes, SMTT(30) DEF Shrunk, NoGraph, Graphs
<1> QED
  BY <1>1, <1>2 DEF Graphs

LEMMA SpendFacts ==
  ASSUME spent \in Counters, NEW k \in Bounded \ {"created"}, Spend(k)
  PROVE  spent' \in Counters /\ spent'.in = spent.in /\ spent'.created = spent.created
BY SMTT(30) DEF Spend, Counters, Bounded

(* A graph grows only for a Gateway that is bound to the port it grows for. *)
LEMMA GraphGrows ==
  ASSUME IInv, EnsureCall, UNCHANGED <<gw, cls, bundle, cache, lost>>, queued' \in BOOLEAN,
         spent' \in Counters, spent'.in = spent.in, spent'.created = spent.created,
         graph' \in {graph, [graph EXCEPT ![rec.g.uid] = Grown(@, rec.g.port)]}
  PROVE  World'
<1>1. /\ gw.uid = rec.g.uid /\ gw.fin /\ gw.ann \in {rec.g.port, 0}
      /\ rec.g.port \in Ports /\ rec.g.uid \in UIDs
  <2>1. gw.uid = rec.g.uid /\ gw.fin /\ gw.ann \in {rec.ann, 0} /\ rec.ann = rec.g.port
    BY DEF IInv, Underway, EnsureCall, Snapshot, SnapshotUsable
  <2>2. rec.g.port \in Ports
    BY DEF IInv, Underway, EnsureCall, Snapshot, Valid, Scopes, Objects, Stored, InvalidPort
  <2>3. spent.in.created \in 1..MaxUID /\ spent.created \in Nat
    BY BoundsAssumption DEF IInv, World, Types, Counters
  <2>4. rec.g.uid \in Nat /\ rec.g.uid # 0 /\ rec.g.uid <= spent.in.created
    BY <2>3, SMTT(30) DEF IInv, World, Types, Underway, EnsureCall, Copy, KnownUID, Scopes, Objects
  <2> QED
    BY <2>1, <2>2, <2>3, <2>4, Sizes, SMTT(30) DEF UIDs
<1>2. graph \in [UIDs -> Graphs]
  BY DEF IInv, World, Types
<1>3. /\ graph' \in [UIDs -> Graphs]
      /\ \A u \in UIDs \ {rec.g.uid} : graph'[u] = graph[u]
      /\ graph'[rec.g.uid] \in {graph[rec.g.uid], Grown(graph[rec.g.uid], rec.g.port)}
  BY <1>1, <1>2, GrownFacts, SMTT(30)
<1>4. /\ graph'[rec.g.uid] = NoGraph \/ graph'[rec.g.uid].port \in
                              {rec.g.port} \cup (IF graph[rec.g.uid] = NoGraph THEN {}
                                                 ELSE {graph[rec.g.uid].port})
      /\ graph[rec.g.uid].st = "built" => graph'[rec.g.uid] = graph[rec.g.uid]
  BY <1>1, <1>2, <1>3, GrownFacts, SMTT(30)
<1>5. graph'[rec.g.uid] # NoGraph => gw.ann \in {graph'[rec.g.uid].port, 0}
  <2>1. CASE graph[rec.g.uid] = NoGraph
    BY <1>1, <1>3, <1>4, <2>1
  <2>2. CASE graph[rec.g.uid] # NoGraph
    <3>1. gw.ann \in {graph[rec.g.uid].port, 0}
      BY <1>1, <2>2 DEF IInv, World, Bound
    <3>2. graph'[rec.g.uid].port = graph[rec.g.uid].port
      BY <1>1, <1>2, <1>3, <2>2, GrownFacts, SMTT(30)
    <3> QED
      BY <3>1, <3>2
  <2> QED
    BY <2>1, <2>2
<1>6. Bound'
  BY <1>1, <1>3, <1>5 DEF IInv, World, Bound
<1>7. Promised'
  <2>1. ASSUME gw.prog[1] = "True", gw.prog[2] = gw.gen, ~gw.deleting, ~lost
        PROVE  graph'[gw.uid] = [st |-> "built", port |-> gw.port]
    BY <1>1, <1>4, <2>1, SMTT(30) DEF IInv, World, Promised, ProgrammedHonest
  <2> QED
    BY <2>1 DEF IInv, World, Promised, Promise, ProgrammedHonest
<1>8. Types'
  BY <1>3 DEF IInv, World, Types
<1> QED
  BY <1>6, <1>7, <1>8 DEF IInv, World, Copy, KnownUID, NoFuturePromise, Older

LEMMA EnsureProgressStep == ASSUME IInv, EnsureProgress PROVE IInv'
<1> DEFINE h == Provisioning(rec.g, "False", TRUE, "pending")
<1>1. /\ EnsureCall /\ UNCHANGED <<gw, cls, bundle, cache, lost, spent>> /\ Return(h, TRUE)
      /\ graph' = [graph EXCEPT ![rec.g.uid] = Grown(@, rec.g.port)] /\ rec.pc = "mutate"
  BY DEF EnsureProgress, EnsureCall
<1>2. rec.g \in Objects /\ rec.g.prog[2] <= rec.g.gen
  BY DEF IInv, Underway, Scopes, Copy, NoFuturePromise
<1>3. Restated(rec.g, h) /\ h.prog[1] = "False"
  BY <1>2, ProvisioningFacts DEF Whys
<1> HIDE DEF h
<1>4. World'
  BY <1>1, GraphGrows DEF IInv, World, Types, Return
<1> QED
  BY <1>1, <1>3, <1>4, Returns DEF IInv

LEMMA EnsureReadyStep == ASSUME IInv, EnsureReady PROVE IInv'
<1> DEFINE h == Provisioning(rec.g, "True", TRUE, "programmed")
<1>1. /\ Quiet /\ Return(h, TRUE) /\ rec.pc = "mutate"
      /\ graph[rec.g.uid] = [st |-> "built", port |-> rec.g.port]
  BY DEF EnsureReady, EnsureCall, Mine
<1>2. rec.g \in Objects /\ rec.g.prog[2] <= rec.g.gen
  BY DEF IInv, Underway, Scopes, Copy, NoFuturePromise
<1>3. Restated(rec.g, h) /\ h.prog[1] = "True"
  BY <1>2, ProvisioningFacts DEF Whys
<1> HIDE DEF h
<1>4. World' /\ UNCHANGED <<gw, graph, spent>>
  BY <1>1, QuietWorld DEF IInv, World, Types, Return, Quiet
<1>5. Exists(rec.g) /\ Valid(rec.g)
  BY <1>1 DEF IInv, Underway, Snapshot
<1> QED
  BY <1>1, <1>3, <1>4, <1>5, Returns DEF IInv

LEMMA EnsureFailureStep == ASSUME IInv, EnsureFailure PROVE IInv'
<1>1. PICK f \in Failures :
         IF ~f.reported THEN Again
         ELSE Return(Provisioning(rec.g, f.status, f.advance, "failed"), f.requeue)
  BY DEF EnsureFailure
<1> DEFINE h == Provisioning(rec.g, f.status, f.advance, "failed")
<1>2. /\ EnsureCall /\ UNCHANGED <<gw, cls, bundle, cache, lost>> /\ rec.pc = "mutate"
      /\ graph' \in {graph, [graph EXCEPT ![rec.g.uid] = Grown(@, rec.g.port)]}
      /\ spent' \in Counters /\ spent'.in = spent.in /\ spent'.created = spent.created
  BY SpendFacts DEF EnsureFailure, EnsureCall, IInv, World, Types, Bounded
<1>3. rec.g \in Objects /\ rec.g.prog[2] <= rec.g.gen
  BY DEF IInv, Underway, Scopes, Copy, NoFuturePromise
<1>4. f.status \in {"False", "Unknown"} /\ f.advance \in BOOLEAN /\ f.requeue \in BOOLEAN
  BY FailuresAreNoSuccess
<1>5. Restated(rec.g, h) /\ h.prog[1] # "True"
  BY <1>3, <1>4, ProvisioningFacts, SMTT(30) DEF Whys
<1> HIDE DEF h
<1>6. queued' \in BOOLEAN
  BY <1>1 DEF IInv, World, Types, Return, Again
<1>7. World'
  BY <1>2, <1>6, GraphGrows
<1>8. CASE Again
  BY <1>7, <1>8, Ended DEF IInv, Again
<1>9. CASE Return(h, f.requeue)
  BY <1>2, <1>4, <1>5, <1>7, <1>9, Returns DEF IInv
<1> QED
  BY <1>1, <1>8, <1>9 DEF h

(* A graph shrinks only while no promise of it stands. *)
LEMMA GraphShrinks ==
  ASSUME IInv, DeleteCall, UNCHANGED <<gw, cls, bundle, cache, lost>>, queued' \in BOOLEAN,
         spent' \in Counters, spent'.in = spent.in, spent'.created = spent.created,
         graph' \in {graph, [graph EXCEPT ![rec.g.uid] = Shrunk(@)]}
  PROVE  World'
<1>1. graph \in [UIDs -> Graphs]
  BY DEF IInv, World, Types
<1>2. /\ graph' \in [UIDs -> Graphs]
      /\ \A u \in UIDs : graph'[u] # NoGraph =>
             graph[u] # NoGraph /\ graph'[u].port = graph[u].port
  BY <1>1, ShrunkFacts, SMTT(30)
<1>3. Bound'
  BY <1>2 DEF IInv, World, Bound
<1>4. ~Promise \/ gw.deleting \/ lost
  BY DEF IInv, Underway, Reasons, DeleteCall
<1>5. Promised'
  BY <1>4 DEF IInv, World, Promised, Promise, ProgrammedHonest
<1>6. Types'
  BY <1>2 DEF IInv, World, Types
<1> QED
  BY <1>3, <1>5, <1>6 DEF IInv, World, Copy, KnownUID, NoFuturePromise, Older

LEMMA DeleteProgressStep == ASSUME IInv, DeleteProgress PROVE IInv'
<1>1. World'
  BY GraphShrinks DEF DeleteProgress, Again, IInv, World, Types
<1> QED
  BY <1>1, Ended DEF IInv, DeleteProgress, Again

LEMMA DeleteReadyStep == ASSUME IInv, DeleteReady PROVE IInv'
<1>1. rec.pc = "delete" /\ graph[rec.g.uid] = NoGraph /\ Go("unbind") /\ Quiet
  BY DEF DeleteReady, Mine
<1>2. /\ World' /\ rec' \in Scopes /\ Copy(rec.g)' /\ rec'.g.uid # 0
      /\ Locks' /\ rec'.pc = "unbind" /\ rec'.g = rec.g
  BY <1>1, GoesOn DEF Places, Proceeds
<1>3. Snapshot'
  BY <1>1, <1>2 DEF Snapshot, Quiet
<1> QED
  BY <1>2, <1>3 DEF IInv, Underway, Reasons, History

LEMMA DeleteFailureStep == ASSUME IInv, DeleteFailure PROVE IInv'
<1>1. PICK f \in Failures :
         IF ~f.reported THEN Again
         ELSE Return(CleanupFailed(rec.g, f.status, f.advance), TRUE)
  BY DEF DeleteFailure
<1> DEFINE h == CleanupFailed(rec.g, f.status, f.advance)
<1>2. /\ DeleteCall /\ UNCHANGED <<gw, cls, bundle, cache, lost>> /\ rec.pc = "delete"
      /\ graph' \in {graph, [graph EXCEPT ![rec.g.uid] = Shrunk(@)]}
      /\ spent' \in Counters /\ spent'.in = spent.in /\ spent'.created = spent.created
  BY SpendFacts DEF DeleteFailure, DeleteCall, IInv, World, Types, Bounded
<1>3. rec.g \in Objects /\ rec.g.prog[2] <= rec.g.gen
  BY DEF IInv, Underway, Scopes, Copy, NoFuturePromise
<1>4. f.status \in {"False", "Unknown"} /\ f.advance \in BOOLEAN
  BY FailuresAreNoSuccess
<1>5. Restated(rec.g, h) /\ h.prog[1] # "True"
  BY <1>3, <1>4, CleanupFailedFacts
<1> HIDE DEF h
<1>6. queued' \in BOOLEAN
  BY <1>1 DEF IInv, World, Types, Return, Again
<1>7. World'
  BY <1>2, <1>6, GraphShrinks
<1>8. CASE Again
  BY <1>7, <1>8, Ended DEF IInv, Again
<1>9. CASE Return(h, TRUE)
  BY <1>2, <1>5, <1>7, <1>9, Returns DEF IInv
<1> QED
  BY <1>1, <1>8, <1>9 DEF h

-----------------------------------------------------------------------------
(* The snapshot of a cleanup. *)
LEMMA CleanupGatewayStep == ASSUME IInv, CleanupGateway PROVE IInv'
<1>0. rec.pc = "cleanup" /\ Quiet
  BY DEF CleanupGateway
<1>1. CASE Again \/ Stop
  BY <1>0, <1>1, AgainEnds
<1>2. CASE rec' = [rec EXCEPT !.pc = "clean1", !.cached = FALSE] /\ UNCHANGED queued
  <2>1. Proceeds("clean1") /\ rec'.pc = "clean1" /\ rec'.g = rec.g /\ rec'.prog = rec.prog
    BY <1>2 DEF IInv, Underway, Proceeds, Scopes, Places, Fenced
  <2>2. World' /\ rec' \in Scopes /\ Copy(rec.g)' /\ rec'.g.uid # 0 /\ Locks'
    BY <1>0, <1>2, <2>1, QuietWorld, ProceedsKeeps DEF IInv, World, Types
  <2>3. Reasons'
    BY <1>0, <2>1 DEF IInv, Underway, Quiet, Reasons, Exists
  <2> QED
    BY <2>1, <2>2, <2>3 DEF IInv, Underway, Snapshot, History
<1> QED
  BY <1>1, <1>2 DEF CleanupGateway

(* The cached reason is one of the live Gateway when the copy is fresh. *)
LEMMA CleanupObserveGatewayStep == ASSUME IInv, CleanupObserveGateway PROVE IInv'
<1>0. rec.pc = "clean1" /\ Quiet
  BY DEF CleanupObserveGateway
<1>1. CASE Again
  BY <1>0, <1>1, AgainEnds
<1>2. ASSUME NEW p \in {"delete", "clean2"}, Go(p), rec.fresh, p = "delete" <=> gw.deleting
      PROVE  IInv'
  <2>1. /\ World' /\ rec' \in Scopes /\ Copy(rec.g)' /\ rec'.g.uid # 0
        /\ Locks' /\ rec'.pc = p /\ rec'.g = rec.g
    BY <1>0, <1>2, GoesOn DEF Places, Fenced, Proceeds
  <2>2. /\ gw.deleting = rec.g.deleting /\ gw.class = rec.g.class /\ gw.prog = rec.prog
        /\ gw.port = rec.g.port /\ gw.ann = rec.g.ann
    BY <1>2 DEF IInv, Underway, Locks, SameObject
  <2>3. ~Promise \/ gw.deleting \/ lost
    BY <1>0, <2>2 DEF IInv, World, Promised, Underway, Reasons, Promise, Exists
  <2>4. Reasons'
    BY <1>0, <2>1, <2>3 DEF Quiet, Reasons, Promise
  <2>5. Unwanted' => "unwanted" \in seen'
    BY <1>0, <2>1, SeenGrows DEF Quiet, Fenced
  <2>6. CASE p = "delete"
    BY <1>0, <1>2, <2>1, <2>2, <2>4, <2>5, <2>6
    DEF IInv, Underway, Snapshot, History, Unwanted, Quiet
  <2>7. CASE p = "clean2"
    <3>1. ~Exists(rec.g) \/ ~Valid(rec.g) \/ PortMoved(rec.g) => Unwanted'
      BY <1>0, <2>2 DEF Quiet, Unwanted, Owned, Exists, Valid, PortMoved
    <3> QED
      BY <2>1, <2>4, <2>5, <2>7, <3>1
      DEF IInv, Underway, Snapshot, History, Exists, Valid, PortMoved
  <2> QED
    BY <2>6, <2>7
<1> QED
  BY <1>1, <1>2 DEF CleanupObserveGateway

LEMMA CleanupObserveClassStep == ASSUME IInv, CleanupObserveClass PROVE IInv'
<1>0. rec.pc = "clean2" /\ Quiet /\ (~Promise \/ gw.deleting \/ lost)
  BY DEF CleanupObserveClass, IInv, Underway, Reasons
<1>1. CASE Go("version1")
  BY <1>0, <1>1, ToVersion
<1>2. CASE Go("delete") /\ ~cls.ours
  <2>1. /\ World' /\ rec' \in Scopes /\ Copy(rec.g)' /\ rec'.g.uid # 0
        /\ Locks' /\ rec'.pc = "delete" /\ rec'.g = rec.g
    BY <1>0, <1>2, GoesOn DEF Places, Fenced, Proceeds
  <2>2. Reasons'
    BY <1>0, <2>1 DEF Quiet, Reasons, Promise
  <2>3. Unwanted' /\ Foreign'
    BY <1>0, <1>2 DEF Quiet, Unwanted, Owned, Foreign
  <2>4. "unwanted" \in seen' /\ "foreign" \in seen'
    BY <1>0, <2>1, <2>3, SeenGrows DEF Quiet, Fenced
  <2> QED
    BY <2>1, <2>2, <2>4 DEF IInv, Underway, Snapshot, History
<1>3. CASE rec' = [rec EXCEPT !.pc = "clean3", !.hold = Hold(rec.g, cls)] /\ UNCHANGED queued
  <2> DEFINE hold == Hold(rec.g, cls)
  <2>1. hold \in BOOLEAN
    BY DEF Hold, Exists, Valid, PortMoved
  <2>2. hold \/ ~Exists(rec.g) \/ cls.params \/ ~Valid(rec.g) \/ PortMoved(rec.g)
    BY DEF Hold
  <2> HIDE DEF hold
  <2>3. Proceeds("clean3") /\ rec'.pc = "clean3" /\ rec'.hold = hold
    BY <1>3, <2>1 DEF IInv, Underway, Proceeds, Scopes, Places, Fenced, hold
  <2>4. World' /\ rec' \in Scopes /\ Copy(rec.g)' /\ rec'.g.uid # 0 /\ Locks'
    BY <1>0, <1>3, <2>3, QuietWorld, ProceedsKeeps DEF IInv, World, Types
  <2>5. Reasons'
    BY <1>0, <2>3 DEF Quiet, Reasons, Promise
  <2>6. seen \subseteq seen' /\ (Unwanted' => "unwanted" \in seen')
    BY <1>0, <2>3, SeenGrows DEF Quiet, Fenced
  <2>7. cls.params => Unwanted'
    BY <1>0 DEF Quiet, Unwanted
  <2>8. History'
    BY <1>0, <2>2, <2>3, <2>6, <2>7 DEF IInv, Underway, History
  <2> QED
    BY <2>3, <2>4, <2>5, <2>8 DEF IInv, Underway, Snapshot
<1> QED
  BY <1>1, <1>2, <1>3 DEF CleanupObserveClass

LEMMA CleanupObserveBundleStep == ASSUME IInv, CleanupObserveBundle PROVE IInv'
<1>0. rec.pc = "clean3" /\ Quiet
  BY DEF CleanupObserveBundle
<1>1. CASE Go("version1")
  BY <1>0, <1>1, ToVersion
<1>2. CASE Again
  BY <1>0, <1>2, AgainEnds
<1>3. CASE Go("delete") /\ bundle /\ ~rec.hold
  <2>1. /\ World' /\ rec' \in Scopes /\ Copy(rec.g)' /\ rec'.g.uid # 0
        /\ Locks' /\ rec'.pc = "delete" /\ rec'.g = rec.g
    BY <1>0, <1>3, GoesOn DEF Places, Fenced, Proceeds
  <2>2. Reasons'
    BY <1>0, <2>1 DEF IInv, Underway, Quiet, Reasons, Promise
  <2>3. seen \subseteq seen' /\ "bundle" \in seen'
    BY <1>0, <1>3, <2>1, SeenGrows DEF Quiet, Fenced
  <2> QED
    BY <1>0, <1>3, <2>1, <2>2, <2>3 DEF IInv, Underway, Snapshot, History
<1> QED
  BY <1>1, <1>2, <1>3 DEF CleanupObserveBundle

-----------------------------------------------------------------------------
(* The writes at the end of a reconciliation. *)
LEMMA CacheFallsBehind ==
  ASSUME IInv, NEW g, WriteGateway(g)
  PROVE  /\ gw' = g /\ cache' \in Caches /\ cache'.gw = cache.gw /\ cache'.cls = cache.cls
         /\ ~cache'.fresh
BY DEF IInv, World, Types, WriteGateway, Caches

(* The finalizer goes when nothing is left to find. *)
LEMMA RemoveBindingStep == ASSUME IInv, RemoveBinding PROVE IInv'
<1>0. /\ rec.pc = "unbind" /\ rec' = Idle /\ queued' \in BOOLEAN
      /\ UNCHANGED <<cls, bundle, graph, lost, spent>>
  BY DEF RemoveBinding, Again, Stop, IInv, World, Types
<1>1. CASE UNCHANGED <<gw, cache>>
  <2>1. World'
    BY <1>0, <1>1 DEF IInv, World, Types, Bound, Promised, Promise, ProgrammedHonest, Copy,
                      KnownUID, NoFuturePromise, Older
  <2> QED
    BY <1>0, <2>1, Ended DEF IInv
<1>2. ASSUME rec.fresh, NEW g, WriteGateway(g),
             g = Absent \/ (g = [gw EXCEPT !.fin = FALSE, !.ann = 0])
      PROVE  IInv'
  <2>1. \A u \in UIDs : graph[u] = NoGraph
    BY <1>0, <1>2 DEF IInv, World, Bound, Underway, Locks, Snapshot, SameObject
  <2>2. gw \in Objects /\ gw.uid # 0
    BY <1>0, <1>2 DEF IInv, World, Types, Underway, Locks, SameObject
  <2>3. /\ gw' = g /\ cache' \in Caches /\ cache'.gw = cache.gw /\ cache'.cls = cache.cls
        /\ ~cache'.fresh
    BY <1>2, CacheFallsBehind
  <2>4. \/ gw' = Absent
        \/ /\ gw' \in Objects /\ gw'.uid = gw.uid /\ gw'.gen = gw.gen /\ gw'.port = gw.port
           /\ gw'.class = gw.class /\ gw'.deleting = gw.deleting
           /\ gw'.ann = 0 /\ gw'.prog = gw.prog
    BY <1>2, <2>2, <2>3 DEF Objects, Stored
  <2>5. Types'
    BY <1>0, <2>3, <2>4, ValueTypes DEF IInv, World, Types
  <2>6. KnownUID(gw)' /\ KnownUID(cache.gw)' /\ NoFuturePromise(gw)' /\ NoFuturePromise(cache.gw)'
    BY <1>0, <2>2, <2>3, <2>4, ValueTypes, SMTT(30)
    DEF IInv, World, Types, Counters, Copy, KnownUID, NoFuturePromise
  <2>7. Older(gw)' /\ Older(cache.gw)'
    <3>1. CASE gw' = Absent
      BY <2>3, <2>5, <3>1, LiveCopy, ValueTypes, SMTT(30) DEF IInv, World, Copy, KnownUID, Older
    <3>2. CASE gw'.uid = gw.uid
      BY <2>2, <2>3, <2>4, <2>5, <3>2, LiveCopy, ValueTypes DEF IInv, World, Copy, Older
    <3> QED
      BY <2>4, <3>1, <3>2
  <2>8. Promised'
    BY <1>0, <2>3, <2>4, ValueTypes
    DEF IInv, World, Promised, Promise, ProgrammedHonest, Exists, Valid
  <2>9. World'
    BY <1>0, <2>1, <2>3, <2>5, <2>6, <2>7, <2>8 DEF World, Bound, Copy
  <2> QED
    BY <1>0, <2>9, Ended DEF IInv
<1> QED
  BY <1>1, <1>2 DEF RemoveBinding

(* setGatewayUnsupportedVersion reads the Gateway again before it writes. *)
LEMMA VersionObserveGatewayStep == ASSUME IInv, VersionObserveGateway PROVE IInv'
<1>0. rec.pc = "version1" /\ Quiet
  BY DEF VersionObserveGateway
<1>1. CASE Stop
  BY <1>0, <1>1, AgainEnds
<1>2. CASE /\ SameObject(gw, rec.g) /\ UNCHANGED queued
           /\ rec' = [Idle EXCEPT !.pc = "version2", !.g = gw, !.acc = gw.acc,
                                  !.prog = gw.prog, !.fresh = TRUE]
  <2>1. gw \in Objects /\ gw.acc \in Conditions /\ gw.prog \in Programmeds
    BY DEF IInv, World, Types, Objects
  <2>2. /\ rec' \in Scopes /\ rec'.pc = "version2" /\ rec'.g = gw /\ rec'.acc = gw.acc
        /\ rec'.prog = gw.prog /\ ~rec'.snapFresh
    BY <1>2, <2>1 DEF Idle, Scopes, Places, Stored
  <2>3. gw.uid # 0
    BY <1>0, <1>2 DEF IInv, Underway, SameObject
  <2>4. World'
    BY <1>0, <1>2, QuietWorld DEF IInv, World, Types
  <2>5. Copy(rec.g)' /\ rec'.g.uid # 0 /\ Locks'
    BY <1>0, <2>2, <2>3, <2>4 DEF World, Quiet, Locks, SameObject
  <2> QED
    BY <2>2, <2>4, <2>5 DEF IInv, Underway, Snapshot, Reasons, History
<1> QED
  BY <1>1, <1>2 DEF VersionObserveGateway

LEMMA VersionReported ==
  ASSUME IInv, Quiet, rec.pc \in {"version2", "version3"}, NEW q \in BOOLEAN,
         Return(UnsupportedVersion(rec.g), q)
  PROVE  IInv'
<1> DEFINE h == UnsupportedVersion(rec.g)
<1>1. rec.g \in Objects /\ rec.g.prog[2] <= rec.g.gen /\ rec.g.prog = rec.prog
  BY DEF IInv, Underway, Scopes, Copy, NoFuturePromise, Locks
<1>2. Restated(rec.g, h) /\ (h.prog = rec.prog \/ h.prog[1] # "True")
  BY <1>1, UnsupportedVersionFacts
<1>3. World' /\ UNCHANGED <<gw, spent>>
  BY QuietWorld DEF IInv, World, Types, Return, Quiet
<1> HIDE DEF h
<1>4. Return(h, q)
  BY DEF h
<1> QED
  BY <1>2, <1>3, <1>4, Returns DEF IInv

LEMMA VersionObserveClassStep == ASSUME IInv, VersionObserveClass PROVE IInv'
<1>0. rec.pc = "version2" /\ Quiet
  BY DEF VersionObserveClass
<1>1. CASE Stop
  BY <1>0, <1>1, AgainEnds
<1>2. CASE Go("version3")
  <2>1. /\ World' /\ rec' \in Scopes /\ Copy(rec.g)' /\ rec'.g.uid # 0 /\ Locks'
        /\ rec'.pc = "version3"
    BY <1>0, <1>2, GoesOn DEF Places, Proceeds
  <2> QED
    BY <2>1 DEF IInv, Underway, Snapshot, Reasons, History
<1>3. CASE Return(UnsupportedVersion(rec.g), FALSE)
  BY <1>0, <1>3, VersionReported
<1> QED
  BY <1>1, <1>2, <1>3 DEF VersionObserveClass

LEMMA VersionObserveBundleStep == ASSUME IInv, VersionObserveBundle PROVE IInv'
<1>1. CASE Again
  BY <1>1, AgainEnds DEF VersionObserveBundle
<1>2. CASE Return(UnsupportedVersion(rec.g), TRUE)
  BY <1>2, VersionReported DEF VersionObserveBundle
<1> QED
  BY <1>1, <1>2 DEF VersionObserveBundle

(* patchGateway: a new promise is one that the graph keeps. *)
LEMMA PatchStep == ASSUME IInv, PatchGateway PROVE IInv'
<1>0. /\ rec.pc = "patch" /\ rec' = Idle /\ queued' \in BOOLEAN
      /\ UNCHANGED <<cls, bundle, graph, spent>>
  BY DEF PatchGateway, IInv, World, Types, Underway, Scopes
<1>1. CASE UNCHANGED <<gw, cache, lost>>
  <2>1. World'
    BY <1>0, <1>1, SMTT(30) DEF IInv, World, Types, Bound, Promised, Promise, ProgrammedHonest, Copy,
                      KnownUID, NoFuturePromise, Older
  <2> QED
    BY <1>0, <2>1, Ended DEF IInv
<1>2. CASE /\ rec.fresh /\ WriteGateway([gw EXCEPT !.acc = rec.g.acc, !.prog = rec.g.prog])
           /\ lost' = (~cls.ours \/ ~cache.cls.ours \/ (lost /\ rec.g.prog = rec.prog))
  <2>1. /\ gw \in Objects /\ rec.g \in Objects /\ rec.g.acc \in Conditions
        /\ rec.g.prog \in Programmeds
    BY DEF IInv, World, Types, Underway, Scopes, Objects
  <2>2. /\ cache' \in Caches /\ cache'.gw = cache.gw /\ cache'.cls = cache.cls /\ ~cache'.fresh
        /\ gw' = [gw EXCEPT !.acc = rec.g.acc, !.prog = rec.g.prog]
    BY <1>2, CacheFallsBehind
  <2>3. /\ gw' \in Objects /\ gw'.uid = gw.uid /\ gw'.gen = gw.gen /\ gw'.port = gw.port
        /\ gw'.class = gw.class /\ gw'.deleting = gw.deleting /\ gw'.fin = gw.fin
        /\ gw'.ann = gw.ann /\ gw'.prog = rec.g.prog
    BY <2>1, <2>2 DEF Objects
  <2>4. /\ SameObject(gw, rec.g) /\ gw.port = rec.g.port /\ gw.class = rec.g.class
        /\ gw.prog = rec.prog /\ rec.g.uid # 0
    BY <1>0, <1>2 DEF IInv, Underway, Locks
  <2>5. lost' \in BOOLEAN
    BY <1>2
  <2>6. Types'
    BY <1>0, <2>2, <2>3, <2>5 DEF IInv, World, Types
  <2>7. KnownUID(gw)' /\ KnownUID(cache.gw)' /\ NoFuturePromise(gw)' /\ NoFuturePromise(cache.gw)'
    BY <1>0, <2>2, <2>3, <2>4
    DEF IInv, World, Underway, Copy, KnownUID, NoFuturePromise, SameObject
  <2>8. Older(gw)' /\ Older(cache.gw)'
    BY <2>2, <2>3, <2>6, LiveCopy DEF IInv, World, Copy, Older
  <2>9. Bound'
    BY <1>0, <2>3 DEF IInv, World, Bound
  <2>10. Promised'
    <3>1. CASE rec.g.prog = rec.prog
      <4>1. gw'.prog = gw.prog /\ (lost => lost')
        BY <1>2, <2>3, <2>4, <3>1
      <4> QED
        BY <1>0, <1>2, <2>2, <2>3, <4>1
        DEF IInv, World, Promised, Promise, ProgrammedHonest, Exists, Valid
    <3>2. CASE rec.g.prog # rec.prog
      <4>1. rec.g.prog[1] = "True" =>
               /\ graph[gw.uid] = [st |-> "built", port |-> gw.port]
               /\ Exists(rec.g) /\ Valid(rec.g)
        BY <1>0, <2>4, <3>2 DEF IInv, Underway, Reasons, SameObject
      <4> QED
        BY <1>0, <1>2, <2>2, <2>3, <2>4, <4>1
        DEF Promised, Promise, ProgrammedHonest, Exists, Valid
    <3> QED
      BY <3>1, <3>2
  <2>11. World'
    BY <2>2, <2>6, <2>7, <2>8, <2>9, <2>10 DEF World, Copy
  <2> QED
    BY <1>0, <2>11, Ended DEF IInv
<1> QED
  BY <1>1, <1>2 DEF PatchGateway

-----------------------------------------------------------------------------
(* Informers, the class and the bundle: the live Gateway stays. *)
LEMMA SyncGatewayStep == ASSUME IInv, SyncGateway PROVE IInv'
<1>1. /\ UNCHANGED <<gw, cls, bundle, graph, lost, spent>> /\ Remember
      /\ cache' = [cache EXCEPT !.gw = gw, !.fresh = TRUE]
      /\ rec' = [rec EXCEPT !.cached = FALSE]
      /\ queued' = (queued \/ GatewayReconcilePredicate(cache.gw, gw))
  BY DEF SyncGateway
<1>2. gw \in Objects /\ cache \in Caches /\ rec \in Scopes
  BY DEF IInv, World, Types, Underway
<1>3. cache' \in Caches /\ cache'.gw = gw /\ cache'.cls = cache.cls
  BY <1>1, <1>2 DEF Caches
<1>4. queued' \in BOOLEAN
  BY <1>1 DEF GatewayReconcilePredicate
<1>5. World'
  BY <1>1, <1>3, <1>4 DEF IInv, World, Types, Bound, Promised, Promise, ProgrammedHonest, Copy,
                          KnownUID, NoFuturePromise, Older
<1>6. Waits /\ rec'.fresh = rec.fresh /\ rec'.snapFresh = rec.snapFresh
  BY <1>1, <1>2 DEF Waits, Scopes
<1> QED
  BY <1>1, <1>5, <1>6, Undisturbed DEF IInv

LEMMA RecUnchanged ==
  ASSUME IInv, rec' = rec
  PROVE  Waits /\ rec'.fresh = rec.fresh /\ rec'.snapFresh = rec.snapFresh
BY DEF IInv, Underway, Waits

LEMMA SyncClassStep == ASSUME IInv, SyncClass PROVE IInv'
<1>1. /\ UNCHANGED <<gw, cls, bundle, rec, graph, lost, spent>> /\ Remember
      /\ cache' = [cache EXCEPT !.cls = cls, !.lag = 0]
      /\ queued' = (queued \/ (cache.cls # cls /\ Exists(cache.gw)))
  BY DEF SyncClass
<1>2. /\ cache' \in Caches /\ cache'.gw = cache.gw /\ cache'.cls = cls
      /\ cache'.fresh = cache.fresh
  <2>1. cls \in Classes /\ cache \in Caches /\ 0 \in 0..MaxClassLag
    BY Sizes, SMTT(30) DEF IInv, World, Types
  <2> QED
    BY <1>1, <2>1 DEF Caches
<1>3. queued' \in BOOLEAN
  BY <1>1
<1>4. World'
  BY <1>1, <1>2, <1>3 DEF IInv, World, Types, Bound, Promised, Promise, ProgrammedHonest, Copy,
                          KnownUID, NoFuturePromise, Older
<1> QED
  BY <1>1, <1>4, RecUnchanged, Undisturbed DEF IInv

LEMMA WriteClassStep ==
  ASSUME IInv, NEW c \in Classes, WriteClass(c), spent' \in Counters, spent'.in = spent.in,
         spent'.created = spent.created
  PROVE  IInv'
<1>1. /\ UNCHANGED <<gw, bundle, queued, rec, graph>> /\ Remember /\ cls' = c
      /\ cache.lag < MaxClassLag /\ cache' = [cache EXCEPT !.lag = @ + 1]
      /\ lost' = (lost \/ ~c.ours)
  BY DEF WriteClass
<1>2. cache.lag + 1 \in 0..MaxClassLag /\ cache \in Caches
  BY <1>1, Sizes, SMTT(30) DEF IInv, World, Types, Caches
<1>3. /\ cache' \in Caches /\ cache'.gw = cache.gw /\ cache'.cls = cache.cls
      /\ cache'.fresh = cache.fresh
  BY <1>1, <1>2 DEF Caches
<1>4. lost' \in BOOLEAN /\ (lost => lost') /\ (~c.ours => lost')
  BY <1>1
<1>5. Promised'
  BY <1>1, <1>3, <1>4 DEF IInv, World, Promised, Promise, ProgrammedHonest
<1>6. World'
  BY <1>1, <1>3, <1>4, <1>5 DEF IInv, World, Types, Bound, Copy, KnownUID, NoFuturePromise, Older
<1> QED
  BY <1>1, <1>4, <1>6, RecUnchanged, Undisturbed DEF IInv

LEMMA ReconcileClassStep == ASSUME IInv, ReconcileClass PROVE IInv'
<1>1. [cls EXCEPT !.supported = bundle] \in Classes
  BY DEF IInv, World, Types, Classes
<1> QED
  BY <1>1, WriteClassStep DEF ReconcileClass, IInv, World, Types

LEMMA EditClassStep == ASSUME IInv, EditClass PROVE IInv'
<1>1. PICK o, p \in BOOLEAN : WriteClass([ours |-> o, params |-> p, supported |-> FALSE])
  BY DEF EditClass
<1>2. [ours |-> o, params |-> p, supported |-> FALSE] \in Classes
  BY DEF Classes
<1>3. spent' \in Counters /\ spent'.in = spent.in /\ spent'.created = spent.created
  BY SpendFacts DEF EditClass, IInv, World, Types, Bounded
<1> QED
  BY <1>1, <1>2, <1>3, WriteClassStep

LEMMA ChangeBundleStep == ASSUME IInv, ChangeBundle PROVE IInv'
<1>1. /\ UNCHANGED <<gw, cls, cache, queued, rec, graph, lost>> /\ Remember
      /\ bundle' = ~bundle
      /\ spent' \in Counters /\ spent'.in = spent.in /\ spent'.created = spent.created
  BY SpendFacts DEF ChangeBundle, IInv, World, Types, Bounded
<1>2. bundle' \in BOOLEAN
  BY <1>1
<1>3. World'
  BY <1>1, <1>2 DEF IInv, World, Types, Bound, Promised, Promise, ProgrammedHonest, Copy,
                    KnownUID, NoFuturePromise, Older
<1> QED
  BY <1>1, <1>3, RecUnchanged, Undisturbed DEF IInv

LEMMA CrashStep == ASSUME IInv, Crash PROVE IInv'
<1>1. /\ UNCHANGED <<gw, cls, bundle, graph, lost>> /\ rec' = Idle /\ queued' = TRUE
      /\ cache' = [gw |-> gw, cls |-> cls, fresh |-> TRUE, lag |-> 0]
      /\ spent' \in Counters /\ spent'.in = spent.in /\ spent'.created = spent.created
  BY SpendFacts DEF Crash, IInv, World, Types, Bounded
<1>2. cache' \in Caches /\ cache'.gw = gw /\ cache'.cls = cls
  BY <1>1, Sizes, SMTT(30) DEF IInv, World, Types, Caches
<1>3. World'
  BY <1>1, <1>2 DEF IInv, World, Types, Bound, Promised, Promise, ProgrammedHonest, Copy,
                    KnownUID, NoFuturePromise, Older
<1> QED
  BY <1>1, <1>3, Ended DEF IInv

-----------------------------------------------------------------------------
(* What users may do to the live Gateway: a later state of the same object,  *)
(* with the same finalizer and status and no new stored port; or, when no    *)
(* finalizer holds it, its removal or its successor.                         *)
Aged ==
    /\ gw'.uid = gw.uid /\ gw'.gen >= gw.gen /\ (gw.deleting => gw'.deleting)
    /\ gw'.fin = gw.fin /\ gw'.ann \in {gw.ann, 0} /\ gw'.prog = gw.prog
    /\ gw'.gen = gw.gen => gw'.port = gw.port /\ gw'.class = gw.class
Replaced ==
    /\ ~gw.fin /\ gw'.prog[1] = "none"
    /\ gw' = Absent \/ gw'.uid > spent.created

LEMMA UserStep ==
  ASSUME IInv, NEW g \in Objects, UserWrites(g), spent' \in Counters,
         spent.created <= spent'.created, spent'.created <= spent'.in.created,
         KnownUID(gw)', NoFuturePromise(gw)', Aged \/ Replaced
  PROVE  IInv'
<1>1. /\ UNCHANGED <<cls, bundle, queued, graph, lost>> /\ Remember /\ gw' = g /\ rec' = Stale
      /\ cache' \in Caches /\ cache'.gw = cache.gw /\ cache'.cls = cache.cls /\ ~cache'.fresh
  BY CacheFallsBehind DEF UserWrites, WriteGateway
<1>2. Waits /\ ~rec'.fresh /\ ~rec'.snapFresh
  BY <1>1 DEF IInv, Underway, Stale, Waits, Scopes
<1>3. Types'
  BY <1>1 DEF IInv, World, Types
<1>4. /\ gw \in Objects /\ cache.gw \in Objects /\ rec.g \in Objects
      /\ gw' \in Objects /\ spent.created \in Nat /\ spent'.created \in Nat
  BY <1>1 DEF IInv, World, Types, Caches, Underway, Scopes, Counters
<1>5. ASSUME NEW c \in Objects, Copy(c) PROVE KnownUID(c)' /\ NoFuturePromise(c)' /\ Older(c)'
  <2>1. KnownUID(c)' /\ NoFuturePromise(c)'
    BY <1>4, <1>5, SMTT(30) DEF Copy, KnownUID, NoFuturePromise, Objects
  <2>2. CASE Aged
    <3>1. c.gen \in Nat /\ gw.gen \in Nat /\ gw'.gen \in Nat
      BY <1>4 DEF Objects
    <3>2. Older(c)
      BY <1>5 DEF Copy
    <3> QED
      BY <2>1, <2>2, <3>1, <3>2, SMTT(30) DEF Older, Aged
  <2>3. CASE Replaced
    <3>1. CASE gw' = Absent
      BY <1>5, <2>1, <3>1, ValueTypes, SMTT(30) DEF Copy, KnownUID, Older
    <3>2. CASE gw'.uid > spent.created
      BY <1>4, <1>5, <2>1, <3>2, SMTT(30) DEF Copy, KnownUID, Older, Objects
    <3> QED
      BY <2>3, <3>1, <3>2 DEF Replaced
  <2> QED
    BY <2>1, <2>2, <2>3
<1>6. Copy(cache.gw)' /\ Copy(rec.g)'
  <2>1. Copy(cache.gw) /\ Copy(rec.g) /\ rec'.g = rec.g
    BY <1>2 DEF IInv, World, Underway, Waits
  <2> QED
    <3>1. KnownUID(cache.gw)' /\ NoFuturePromise(cache.gw)' /\ Older(cache.gw)'
      BY <1>1, <1>4, <1>5, <2>1 DEF KnownUID, NoFuturePromise, Older
    <3>2. KnownUID(rec.g)' /\ NoFuturePromise(rec.g)' /\ Older(rec.g)'
      BY <1>1, <1>4, <1>5, <2>1 DEF KnownUID, NoFuturePromise, Older
    <3> QED
      BY <3>1, <3>2 DEF Copy
<1>7. Bound'
  BY <1>1 DEF IInv, World, Bound, Aged, Replaced
<1>8. (Promise' => Promise /\ gw'.gen = gw.gen) /\ (gw.deleting /\ Promise' => gw'.deleting)
  BY <1>4, SMTT(30) DEF IInv, World, Copy, NoFuturePromise, Promise, Aged, Replaced, Objects
<1>9. Promised'
  BY <1>1, <1>8, ValueTypes
  DEF IInv, World, Promised, Promise, ProgrammedHonest, Exists, Valid, Aged, Replaced
<1>10. World'
  <2>1. Older(gw)'
    <3>1. gw'.gen <= gw'.gen
      <4>1. gw'.gen \in Nat
        BY <1>4 DEF Objects
      <4> QED
        BY <4>1, SMTT(30)
    <3> QED
      BY <3>1 DEF Older
  <2> QED
    BY <1>1, <1>3, <1>6, <1>7, <1>9, <2>1 DEF World, Copy
<1>11. Locks'
  BY <1>2 DEF IInv, Underway, Locks, Waits
<1>12. Snapshot'
  BY <1>1, <1>2, SMTT(30) DEF IInv, Underway, Snapshot, SnapshotUsable, Waits, Aged, Replaced, Exists, Valid
<1>13. Reasons'
  BY <1>1, <1>2, <1>8 DEF IInv, Underway, Reasons, Waits, Exists, Valid
<1>14. History'
  <2>1. rec'.pc \in Fenced => seen \subseteq seen'
    BY <1>1, <1>2, SeenGrows DEF Waits
  <2>2. SameObject(gw, rec.g)' => SameObject(gw, rec.g) \/ rec.pc = "idle"
    <3>1. /\ rec'.g = rec.g /\ Copy(rec.g) /\ (rec.pc # "idle" => rec.g.uid # 0)
          /\ gw.gen \in Nat /\ gw'.gen \in Nat /\ rec.g.gen \in Nat
          /\ gw'.uid \in Nat /\ rec.g.uid \in Nat /\ gw.deleting \in BOOLEAN
          /\ gw'.deleting \in BOOLEAN /\ rec.g.deleting \in BOOLEAN
      BY <1>2, <1>4 DEF IInv, Underway, Waits, Objects
    <3>2. CASE Aged
      BY <3>1, <3>2, SMTT(30) DEF Copy, Older, Aged, SameObject
    <3>3. CASE Replaced
      BY <1>4, <3>1, <3>3, ValueTypes, SMTT(30) DEF Copy, KnownUID, Replaced, SameObject
    <3> QED
      BY <3>2, <3>3
  <2> QED
    BY <1>2, <2>1, <2>2 DEF IInv, Underway, History, Waits, Fenced, Exists, Valid, PortMoved
<1> QED
  BY <1>2, <1>6, <1>10, <1>11, <1>12, <1>13, <1>14 DEF IInv, Underway, Waits

LEMMA EditGatewayStep == ASSUME IInv, EditGateway PROVE IInv'
<1>1. PICK s \in Specs(spent.in) :
         UserWrites([gw EXCEPT !.gen = @ + 1, !.port = s.port, !.class = s.class])
  BY DEF EditGateway
<1> DEFINE g == [gw EXCEPT !.gen = @ + 1, !.port = s.port, !.class = s.class]
<1>2. /\ spent' \in Counters /\ spent'.in = spent.in /\ spent'.created = spent.created
      /\ spent.created \in Nat /\ spent.created <= spent.in.created
  BY SpendFacts DEF EditGateway, IInv, World, Types, Bounded, Counters
<1>3. gw \in Objects /\ spent.in \in Scenarios /\ gw.gen \in Nat /\ gw.gen + 1 \in Nat
  BY SMTT(30) DEF IInv, World, Types, Counters, Objects
<1>4. s.port \in Stored /\ s.class \in {"class", "missing"}
  <2>1. s.port \in spent.in.ports \cup {0} /\ s.class \in spent.in.classes
    BY DEF Specs, InvalidPort
  <2>2. spent.in.ports \subseteq Ports /\ spent.in.classes \subseteq {"class", "missing"}
    BY <1>3, BoundsAssumption DEF Ports
  <2> QED
    BY <2>1, <2>2 DEF Stored
<1>5. /\ g \in Objects /\ g.uid = gw.uid /\ g.gen = gw.gen + 1 /\ g.deleting = gw.deleting
      /\ g.fin = gw.fin /\ g.ann = gw.ann /\ g.prog = gw.prog
  BY <1>3, <1>4 DEF Objects
<1>6. gw' = g /\ UserWrites(g)
  BY <1>1 DEF UserWrites, WriteGateway
<1> HIDE DEF g
<1>7. KnownUID(gw)'
  BY <1>2, <1>5, <1>6 DEF EditGateway, IInv, World, Copy, KnownUID
<1>8. NoFuturePromise(gw)'
  <2>1. gw.prog[2] \in Nat /\ gw.prog[2] <= gw.gen
    BY <1>3, ConditionParts DEF Objects, IInv, World, Copy, NoFuturePromise
  <2> QED
    BY <1>3, <1>5, <1>6, <2>1, SMTT(30) DEF NoFuturePromise
<1>9. Aged
  BY <1>3, <1>5, <1>6, SMTT(30) DEF Aged
<1>10. spent.created <= spent'.created /\ spent'.created <= spent'.in.created
  BY <1>2, SMTT(30)
<1> QED
  BY <1>2, <1>5, <1>6, <1>7, <1>8, <1>9, <1>10, UserStep

LEMMA DeleteObjectStep == ASSUME IInv, DeleteObject PROVE IInv'
<1>2. /\ spent' \in Counters /\ spent'.in = spent.in /\ spent'.created = spent.created
      /\ spent.created \in Nat /\ spent.created <= spent.in.created
  BY SpendFacts DEF DeleteObject, IInv, World, Types, Bounded, Counters
<1>3. gw \in Objects /\ gw.gen \in Nat
  BY DEF IInv, World, Types, Objects
<1>4. spent.created <= spent'.created /\ spent'.created <= spent'.in.created
  BY <1>2, SMTT(30)
<1>5. CASE gw.fin /\ UserWrites([gw EXCEPT !.deleting = TRUE])
  <2> DEFINE g == [gw EXCEPT !.deleting = TRUE]
  <2>1. /\ g \in Objects /\ g.uid = gw.uid /\ g.gen = gw.gen /\ g.port = gw.port
        /\ g.class = gw.class /\ g.deleting /\ g.fin = gw.fin /\ g.ann = gw.ann /\ g.prog = gw.prog
    BY <1>3 DEF Objects
  <2>2. gw' = g /\ UserWrites(g)
    BY <1>5 DEF UserWrites, WriteGateway
  <2> HIDE DEF g
  <2>3. KnownUID(gw)' /\ NoFuturePromise(gw)'
    BY <1>2, <2>1, <2>2 DEF DeleteObject, IInv, World, Copy, KnownUID, NoFuturePromise
  <2>4. Aged
    BY <1>3, <2>1, <2>2, SMTT(30) DEF Aged
  <2> QED
    BY <1>2, <1>4, <2>1, <2>2, <2>3, <2>4, UserStep
<1>6. CASE ~gw.fin /\ UserWrites(Absent)
  <2>1. gw' = Absent
    BY <1>6 DEF UserWrites, WriteGateway
  <2>2. KnownUID(gw)' /\ NoFuturePromise(gw)'
    BY <1>2, <2>1, ValueTypes, SMTT(30) DEF KnownUID, NoFuturePromise
  <2>3. Replaced
    BY <1>6, <2>1, ValueTypes DEF Replaced
  <2> QED
    BY <1>2, <1>4, <1>6, <2>2, <2>3, UserStep, ValueTypes
<1> QED
  BY <1>5, <1>6 DEF DeleteObject

LEMMA CreateObjectStep == ASSUME IInv, CreateObject PROVE IInv'
<1>1. PICK s \in Specs(spent.in) : UserWrites(Created(spent'.created, s))
  BY DEF CreateObject
<1>2. spent \in Counters /\ Spend("created")
  BY DEF CreateObject, IInv, World, Types
<1>3. spent.in \in Scenarios /\ spent.in.created \in Nat /\ spent.created \in Nat
  BY <1>2, BoundsAssumption DEF Counters, Bounded
<1>4. /\ spent' \in Counters /\ spent'.in = spent.in /\ spent'.created = spent.created + 1
      /\ spent.created < spent.in.created
  BY <1>2, <1>3, SMTT(30) DEF Spend, Counters
<1> DEFINE u == spent.created + 1
<1>5. u \in Nat /\ u = spent'.created /\ u > spent.created /\ u # 0
  BY <1>3, <1>4, SMTT(30)
<1> HIDE DEF u
<1>6. /\ Created(u, s) \in Objects /\ Created(u, s).uid = u /\ Created(u, s).gen = 1
      /\ Created(u, s).prog = NoCondition
  BY <1>3, <1>5, NewObject
<1>7. gw' = Created(u, s) /\ UserWrites(Created(u, s))
  BY <1>1, <1>5 DEF UserWrites, WriteGateway
<1>8. KnownUID(gw)' /\ NoFuturePromise(gw)'
  BY <1>4, <1>5, <1>6, <1>7, ValueTypes, SMTT(30) DEF KnownUID, NoFuturePromise
<1>9. Replaced
  BY <1>5, <1>6, <1>7, ValueTypes DEF CreateObject, Replaced
<1>10. spent.created <= spent'.created /\ spent'.created <= spent'.in.created
  BY <1>3, <1>4, SMTT(30)
<1> QED
  BY <1>4, <1>6, <1>7, <1>8, <1>9, <1>10, UserStep

LEMMA LoseAnnotationsStep == ASSUME IInv, LoseAnnotations PROVE IInv'
<1> DEFINE g == [gw EXCEPT !.ann = 0]
<1>1. /\ spent' \in Counters /\ spent'.in = spent.in /\ spent'.created = spent.created
      /\ spent.created \in Nat /\ spent.created <= spent.in.created
  BY SpendFacts DEF LoseAnnotations, IInv, World, Types, Bounded, Counters
<1>2. gw \in Objects /\ gw.gen \in Nat /\ gw.ann # 0
  BY DEF IInv, World, Types, Objects, LoseAnnotations
<1>3. spent.created <= spent'.created /\ spent'.created <= spent'.in.created
  BY <1>1, SMTT(30)
<1>4. /\ g \in Objects /\ g.uid = gw.uid /\ g.gen = gw.gen /\ g.port = gw.port
      /\ g.class = gw.class /\ g.deleting = gw.deleting /\ g.fin = gw.fin /\ g.ann = 0
      /\ g.prog = gw.prog
  BY <1>2 DEF Objects, Stored
<1>5. gw' = g /\ UserWrites(g)
  BY DEF LoseAnnotations, UserWrites, WriteGateway
<1> HIDE DEF g
<1>6. gw.uid # 0
  BY <1>2, ValueTypes DEF IInv, World, Copy, KnownUID
<1>7. KnownUID(gw)' /\ NoFuturePromise(gw)'
  BY <1>1, <1>4, <1>5, <1>6 DEF IInv, World, Copy, KnownUID, NoFuturePromise
<1>8. Aged
  BY <1>2, <1>4, <1>5, SMTT(30) DEF Aged
<1> QED
  BY <1>1, <1>3, <1>4, <1>5, <1>7, <1>8, UserStep

-----------------------------------------------------------------------------
LEMMA StutterIInv == ASSUME IInv, UNCHANGED vars PROVE IInv'
<1>1. UNCHANGED <<gw, cls, bundle, cache, queued, rec, graph, seen, lost, spent>>
  BY DEF vars
<1>2. Copy(gw)' /\ Copy(cache.gw)' /\ Copy(rec.g)'
  BY <1>1 DEF IInv, World, Underway, Copy, KnownUID, NoFuturePromise, Older
<1>3. Types' /\ Bound'
  BY <1>1 DEF IInv, World, Types, Bound
<1>4. Promised'
  BY <1>1 DEF IInv, World, Promised, Promise, ProgrammedHonest
<1>5. Locks' /\ Snapshot'
  BY <1>1 DEF IInv, Underway, Locks, Snapshot, SnapshotUsable, SameObject
<1>6. Reasons' /\ History'
  <2>1. Reasons'
    BY <1>1 DEF IInv, Underway, Reasons, Promise
  <2>2. History'
    BY <1>1 DEF IInv, Underway, History, SameObject
  <2> QED
    BY <2>1, <2>2
<1> QED
  BY <1>1, <1>2, <1>3, <1>4, <1>5, <1>6 DEF IInv, World, Underway

LEMMA NextIInv == IInv /\ [Next]_vars => IInv'
<1> SUFFICES ASSUME IInv, [Next]_vars PROVE IInv'
  OBVIOUS
<1>1. CASE Reconciling
  BY <1>1, IgnoredStep, CleanupStartStep, VersionStartStep, BadBindingStep, RejectedStep,
     ReplacementStep, BindingStartStep, GraphStartStep, ObserveGatewayStep, ObserveClassStep,
     SealBundleStep, SealGatewayStep, SealClassStep, BindStep, EnsureProgressStep,
     EnsureReadyStep, CleanupGatewayStep, CleanupObserveGatewayStep, CleanupObserveClassStep,
     CleanupObserveBundleStep, DeleteProgressStep, DeleteReadyStep, RemoveBindingStep,
     VersionObserveGatewayStep, VersionObserveClassStep, VersionObserveBundleStep, PatchStep
  DEF Reconciling
<1>2. CASE Environment
  BY <1>2, EnsureFailureStep, DeleteFailureStep, CrashStep, EditClassStep, ChangeBundleStep,
     EditGatewayStep, DeleteObjectStep, CreateObjectStep, LoseAnnotationsStep
  DEF Environment
<1>3. CASE SyncGateway \/ SyncClass \/ ReconcileClass
  BY <1>3, SyncGatewayStep, SyncClassStep, ReconcileClassStep
<1>4. CASE UNCHANGED vars
  BY <1>4, StutterIInv
<1> QED
  BY <1>1, <1>2, <1>3, <1>4 DEF Next

LEMMA InvariantHolds == Spec => []IInv
BY InitIInv, NextIInv, PTL DEF Spec

(* Whatever exists in OpenStack for a Gateway UID can be found again: the    *)
(* object of the UID is there, with the finalizer, bound to the graph's port *)
(* unless a user removed the annotation (bindGateway before ensureGateway,   *)
(* patchGatewayMetadata after DeleteGateway reported Ready).                 *)
THEOREM GatewayBoundGraph == Spec => []BoundGraph
<1>1. ASSUME IInv PROVE BoundGraph
  <2>1. gw.uid \in 0..MaxUID
    <3>1. spent.in.created \in 1..MaxUID /\ spent.created \in Nat
      BY <1>1, BoundsAssumption DEF IInv, World, Types, Counters
    <3>2. gw.uid \in Nat /\ gw.uid <= spent.created /\ spent.created <= spent.in.created
      BY <1>1 DEF IInv, World, Types, Objects, Copy, KnownUID
    <3> QED
      BY <3>1, <3>2, Sizes, SMTT(30)
  <2>2. /\ gw.ann \in Stored /\ gw.port \in Stored /\ gw.deleting \in BOOLEAN
        /\ gw.fin \in BOOLEAN /\ cls \in Classes /\ graph \in [UIDs -> Graphs]
        /\ rec.pc \in Places /\ cache.lag \in 0..MaxClassLag
        /\ bundle \in BOOLEAN /\ queued \in BOOLEAN /\ lost \in BOOLEAN
    BY <1>1 DEF IInv, World, Types, Underway, Objects, Scopes, Caches
  <2>3. TypeOK
    BY <2>1, <2>2 DEF TypeOK, Stored, InvalidPort, Classes, Graphs, Places
  <2> QED
    BY <1>1, <2>3 DEF BoundGraph, IInv, World, Bound
<1> QED
  BY <1>1, InvariantHolds, PTL

(* A Gateway that says Programmed=True for its current generation has its    *)
(* whole graph for that generation's port (cleanupGatewayAfterStatusCheckpoint*)
(* withdraws the promise before anything is deleted).                        *)
THEOREM GatewayProgrammedHonest == Spec => []ProgrammedHonest
<1>1. IInv => ProgrammedHonest
  BY DEF IInv, World, Promised
<1> QED
  BY <1>1, InvariantHolds, PTL

(* A binding or an ensure mutation is sent only if at one moment of its      *)
(* snapshot the live Gateway was the one decided on and its class usable     *)
(* (observeGatewayMutationSnapshot and sealGatewayMutationSnapshot).         *)
THEOREM GatewayEnsureAuthorized == Spec => EnsureAuthorized
<1>1. IInv => [BindGateway \/ EnsureProgress => "usable" \in seen]_vars
  BY DEF IInv, Underway, History, BindGateway, EnsureProgress, EnsureCall
<1> QED
  BY <1>1, InvariantHolds, PTL DEF EnsureAuthorized

(* A graph is deleted only if the live Gateway was really deleted, handed    *)
(* off, refused or moved during the snapshot of the cleanup                  *)
(* (observeGatewayCleanupSnapshot).                                          *)
THEOREM GatewayCleanupAuthorized == Spec => CleanupAuthorized
<1>1. IInv => [DeleteProgress => "unwanted" \in seen]_vars
  BY DEF IInv, Underway, History, DeleteProgress, DeleteCall
<1> QED
  BY <1>1, InvariantHolds, PTL DEF CleanupAuthorized

(* No step changes a graph while the CRD bundle is unsupported, but for a    *)
(* Gateway under deletion and one that went to another controller.           *)
THEOREM GatewayBundleFence == Spec => BundleFence
<1> DEFINE A == graph' # graph =>
                  "bundle" \in seen \/ rec.g.deleting \/ "foreign" \in seen
<1>1. IInv /\ [Next]_vars => [A]_vars
  <2> SUFFICES ASSUME IInv, Next, graph' # graph
               PROVE  "bundle" \in seen \/ rec.g.deleting \/ "foreign" \in seen
    BY DEF vars
  <2>1. EnsureProgress \/ EnsureFailure \/ DeleteProgress \/ DeleteFailure
    BY DEF Next, Reconciling, Environment, Quiet, Begin, ReconcileIgnored, ReconcileCleanup,
           ReconcileVersion, ReconcileBadBinding, ReconcileRejected, ReconcileReplacement,
           ReconcileBinding, ReconcileGraph, ObserveGateway, ObserveClass, SealBundle,
           SealGateway, SealClass, BindGateway, EnsureReady, CleanupGateway,
           CleanupObserveGateway, CleanupObserveClass, CleanupObserveBundle, DeleteReady,
           RemoveBinding, VersionObserveGateway, VersionObserveClass, VersionObserveBundle,
           PatchGateway, Crash, EditClass, WriteClass, ChangeBundle, EditGateway, DeleteObject,
           CreateObject, LoseAnnotations, UserWrites, SyncGateway, SyncClass, ReconcileClass
  <2>2. rec.pc \in {"mutate", "delete"}
    BY <2>1 DEF EnsureProgress, EnsureFailure, DeleteProgress, DeleteFailure, EnsureCall, DeleteCall
  <2> QED
    BY <2>2 DEF IInv, Underway, History
<1> QED
  BY <1>1, InvariantHolds, PTL DEF BundleFence, Spec
=============================================================================
