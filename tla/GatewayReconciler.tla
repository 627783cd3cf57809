-------------------------- MODULE GatewayReconciler --------------------------
(***************************************************************************)
(* The life of one Gateway object under its reconciler.  A reconciliation  *)
(* decides from the informer cache, then reads the live Gateway, its class *)
(* and the installed CRD bundle again, one request at a time, before it    *)
(* writes a binding or calls the provider; users, the GatewayClass         *)
(* controller and crashes act between any two of these reads.  What the    *)
(* provider does is abstracted to how much of the graph of a Gateway UID   *)
(* exists and for which listener port (ProviderGraph has the detail).      *)
(***************************************************************************)
EXTENDS Integers, FiniteSets, ProviderErrors

CONSTANTS Scenarios,    \* what the environment may do: records of ports, the valid
                        \* listener ports; classes, a subset of {"class", "missing"};
                        \* and the bounds below, for all Gateways of the name
          MaxUID,       \* Gateway objects created under the name
          MaxClassLag   \* class changes the watch may merge into one event

Bounded == {"created", "edits", "class", "bundle", "tampers", "failures", "crashes"}
Ports == UNION {x.ports : x \in Scenarios}

ASSUME BoundsAssumption ==
    /\ Ports \subseteq Nat \ {0}
    /\ \A x \in Scenarios : /\ x.classes \subseteq {"class", "missing"}
                            /\ \A k \in Bounded : x[k] \in Nat
                            /\ x.created \in 1..MaxUID
    /\ {MaxUID, MaxClassLag} \subseteq Nat \ {0}

VARIABLES gw,      \* the Gateway in the API server
          cls,     \* the GatewayClass named "class"
          bundle,  \* the installed CRDs are the supported bundle
          cache,   \* the informers: Gateway, class, lag of each
          queued,  \* the workqueue holds the Gateway's key
          rec,     \* the reconciliation under way
          graph,   \* UID -> what exists of its OpenStack graph
          seen,    \* what has been true since rec's snapshot began (history)
          lost,    \* the class left us since Programmed was last written (history)
          spent    \* environment steps, per kind, and their scenario

vars == <<gw, cls, bundle, cache, queued, rec, graph, seen, lost, spent>>

UIDs == 1..MaxUID
InvalidPort == 0        \* any spec that Validate refuses
NoCondition == <<"none", 0, "none">>
Absent == [uid |-> 0, gen |-> 0, port |-> InvalidPort, class |-> "missing",
           deleting |-> FALSE, fin |-> FALSE, ann |-> 0,
           acc |-> <<"none", 0>>, prog |-> NoCondition]
Specs(x) == [port : x.ports \cup {InvalidPort}, class : x.classes]
Created(uid, s) == [Absent EXCEPT !.uid = uid, !.gen = 1, !.port = s.port,
                                  !.class = s.class]
NoGraph == [st |-> "none", port |-> 0]
Idle == [pc |-> "idle", g |-> Absent, acc |-> Absent.acc, prog |-> NoCondition,
         fresh |-> FALSE, snapFresh |-> FALSE, fin |-> FALSE, ann |-> 0,
         cached |-> FALSE, bind |-> FALSE, hold |-> FALSE, requeue |-> FALSE]

Init ==
    /\ \E x \in Scenarios :
          /\ \E s \in Specs(x) : gw = Created(1, s)
          /\ spent = [in |-> x, created |-> 1, edits |-> 0, class |-> 0, bundle |-> 0,
                      tampers |-> 0, failures |-> 0, crashes |-> 0]
    /\ cls = [ours |-> TRUE, params |-> FALSE, supported |-> TRUE]
    /\ bundle = TRUE
    /\ cache = [gw |-> gw, cls |-> cls, fresh |-> TRUE, lag |-> 0]
    /\ queued = TRUE
    /\ rec = Idle
    /\ graph = [u \in UIDs |-> NoGraph]
    /\ seen = {}
    /\ lost = FALSE

Spend(kind) == spent[kind] < spent.in[kind] /\ spent' = [spent EXCEPT ![kind] = @ + 1]

-----------------------------------------------------------------------------
(* What the code asks of a Gateway g and of the class c it names. *)
Exists(g) == g.class = "class"
Owned(g, c) == Exists(g) /\ c.ours
HasBinding(g) == g.fin \/ g.ann # 0
ValidBinding(g) == g.fin => g.ann # 0
Complete(g) == g.fin /\ g.ann # 0
SameObject(g, h) == g.uid = h.uid /\ g.gen = h.gen /\ g.deleting = h.deleting
Valid(g) == g.port # InvalidPort
PortMoved(g) == g.ann # 0 /\ g.ann # g.port

(* A write to the live Gateway gets a new resourceVersion: every copy of *)
(* it that was read before is out of date from now on.                   *)
Stale == [rec EXCEPT !.fresh = FALSE, !.snapFresh = FALSE]
WriteGateway(g) == gw' = g /\ cache' = [cache EXCEPT !.fresh = FALSE]

(* setGatewayFailure and setGatewayFailureReason; setGatewayProgressing and *)
(* setGatewayProgrammed through setGatewayProvisioningStatus.               *)
Rejected(g) == [g EXCEPT !.acc = <<"False", g.gen>>,
                         !.prog = <<"False", g.gen, "rejected">>]
Provisioning(g, status, advance, why) ==
    [g EXCEPT !.acc = <<"True", g.gen>>,
              !.prog = <<status, IF advance THEN g.gen ELSE g.prog[2], why>>]
CleanupFailed(g, status, advance) ==
    [g EXCEPT !.prog = <<status, IF advance THEN g.gen ELSE g.prog[2], "failed">>]
UnsupportedVersion(g) ==
    [g EXCEPT !.acc = <<"Unknown", g.gen>>,
              !.prog = IF @[2] = g.gen THEN @ ELSE <<"Unknown", g.gen, "version">>]

-----------------------------------------------------------------------------
(* seen: what held of the live objects at some moment since the snapshot of *)
(* the reconciliation under way began.                                      *)
Fenced == {"observe1", "observe2", "seal1", "seal2", "seal3", "mutate",
           "clean1", "clean2", "clean3", "delete"}
Usable == SameObject(gw, rec.g) /\ Owned(gw, cls) /\ ~cls.params /\ cls.supported
Unwanted == gw.deleting \/ ~Owned(gw, cls) \/ cls.params \/ ~Valid(gw) \/ PortMoved(gw)
Foreign == ~cls.ours
Now == (IF Usable THEN {"usable"} ELSE {}) \cup (IF Unwanted THEN {"unwanted"} ELSE {})
       \cup (IF Foreign THEN {"foreign"} ELSE {}) \cup (IF bundle THEN {"bundle"} ELSE {})
Remember ==
    seen' = IF rec'.pc \in Fenced
            THEN Now' \cup (IF rec.pc \in Fenced THEN seen ELSE {})
            ELSE {}
Quiet == UNCHANGED <<gw, cls, bundle, cache, graph, lost, spent>> /\ Remember

-----------------------------------------------------------------------------
(* newGatewayScope and decideGatewayPhase, on what the cache holds. *)
decideGatewayPhase(g, c) ==
    CASE g.deleting \/ ~Owned(g, c) -> IF HasBinding(g) THEN "cleanup" ELSE "ignore"
      [] OTHER ->
           IF ~c.supported THEN "version"
           ELSE IF ~ValidBinding(g) THEN "badBinding"
           ELSE IF c.params \/ ~Valid(g) THEN "reject"
           ELSE IF PortMoved(g) THEN "replace"
           ELSE IF Complete(g) THEN "ensure" ELSE "bind"

(* How a reconciliation goes on: to its next request, to the deferred status *)
(* patch, or to its end, with the key back in the queue or not.              *)
Go(pc) == rec' = [rec EXCEPT !.pc = pc] /\ UNCHANGED queued
Return(g, requeue) ==
    /\ rec' = [Idle EXCEPT !.pc = "patch", !.g = g, !.requeue = requeue,
                           !.acc = rec.acc, !.prog = rec.prog, !.fresh = rec.fresh]
    /\ UNCHANGED queued
Again == rec' = Idle /\ queued' = TRUE
Stop == rec' = Idle /\ UNCHANGED queued

Scope == [Idle EXCEPT !.g = cache.gw, !.acc = cache.gw.acc, !.prog = cache.gw.prog,
                      !.fresh = cache.fresh]
Begin(phase, r) ==
    /\ rec.pc = "idle" /\ queued
    /\ decideGatewayPhase(cache.gw, cache.cls) = phase
    /\ queued' = FALSE /\ rec' = r
    /\ Quiet
ScopeAt(pc) == [Scope EXCEPT !.pc = pc, !.cached = (pc = "cleanup")]

(* cleanupGatewayAfterStatusCheckpoint: publish the new status first, clean *)
(* up in a later reconciliation that finds it published.                    *)
Checkpoint(g) ==
    IF <<g.acc, g.prog>> # <<Scope.acc, Scope.prog>>
    THEN [ScopeAt("patch") EXCEPT !.g = g, !.requeue = TRUE]
    ELSE ScopeAt("cleanup")

ReconcileIgnored == Begin("ignore", Idle)
ReconcileCleanup == Begin("cleanup", ScopeAt("cleanup"))
ReconcileVersion == Begin("version", ScopeAt("version1"))
ReconcileBadBinding ==
    Begin("badBinding", [ScopeAt("patch") EXCEPT !.g = Rejected(cache.gw)])
ReconcileRejected == Begin("reject", Checkpoint(Rejected(cache.gw)))
ReconcileReplacement ==
    Begin("replace", Checkpoint(Provisioning(cache.gw, "False", TRUE, "replacing")))
ReconcileBinding == Begin("bind", [ScopeAt("observe1") EXCEPT !.bind = TRUE])
ReconcileGraph == Begin("ensure", ScopeAt("observe1"))

-----------------------------------------------------------------------------
(* observeGatewayMutationSnapshot: the live Gateway, then the live class. *)
ObserveGateway ==
    /\ rec.pc = "observe1"
    /\ IF SameObject(gw, rec.g)
       THEN /\ rec' = [rec EXCEPT !.pc = "observe2", !.fin = gw.fin, !.ann = gw.ann,
                                  !.snapFresh = rec.bind]
            /\ UNCHANGED queued
       ELSE Again
    /\ Quiet

SnapshotUsable ==
    IF rec.bind
    THEN (rec.fin => rec.ann # 0) /\ ~(rec.fin /\ rec.ann = rec.g.port)
    ELSE rec.fin /\ rec.ann = rec.g.port

ObserveClass ==
    /\ rec.pc = "observe2"
    /\ IF ~Owned(rec.g, cls) \/ cls.params THEN Again
       ELSE IF ~cls.supported THEN Go("version1")
       ELSE IF SnapshotUsable THEN Go("seal1") ELSE Again
    /\ Quiet

(* Mutant of SealGateway: the Gateway is not read again. *)
SealGatewaySkipped == rec.pc = "seal2" /\ Go("seal3") /\ Quiet

(* sealGatewayMutationSnapshot: the bundle, the Gateway and the class again. *)
SealBundle ==
    /\ rec.pc = "seal1"
    /\ IF bundle THEN Go("seal2") ELSE Go("version1")
    /\ Quiet
SealGateway ==
    /\ rec.pc = "seal2"
    /\ IF SameObject(gw, rec.g) /\ gw.fin = rec.fin /\ gw.ann = rec.ann
       THEN Go("seal3") ELSE Again
    /\ Quiet
SealClass ==
    /\ rec.pc = "seal3"
    /\ IF ~Owned(rec.g, cls) \/ cls.params THEN Again
       ELSE IF cls.supported THEN Go("mutate") ELSE Go("version1")
    /\ Quiet

(* bindGateway: the optimistic metadata patch on the observed Gateway. *)
BindGateway ==
    /\ rec.pc = "mutate" /\ rec.bind
    /\ IF rec.snapFresh
       THEN WriteGateway([gw EXCEPT !.fin = TRUE, !.ann = rec.g.port])
       ELSE UNCHANGED <<gw, cache>>
    /\ Again
    /\ UNCHANGED <<cls, bundle, graph, lost, spent>> /\ Remember

-----------------------------------------------------------------------------
(* The provider: one mutation per call; Ready only when none is left to do. *)
Grown(o, port) == IF o.st = "none" THEN [st |-> "partial", port |-> port]
                  ELSE IF o.port = port THEN [o EXCEPT !.st = "built"] ELSE o
Shrunk(o) == IF o.st = "built" THEN [o EXCEPT !.st = "partial"] ELSE NoGraph

Mine == graph[rec.g.uid]
EnsureCall == rec.pc = "mutate" /\ ~rec.bind
DeleteCall == rec.pc = "delete"

EnsureProgress ==
    /\ EnsureCall /\ Grown(Mine, rec.g.port) # Mine
    /\ graph' = [graph EXCEPT ![rec.g.uid] = Grown(@, rec.g.port)]
    /\ Return(Provisioning(rec.g, "False", TRUE, "pending"), TRUE)
    /\ UNCHANGED <<gw, cls, bundle, cache, lost, spent>> /\ Remember

(* Mutant of EnsureReady: a half-built graph is reported as Programmed. *)
EnsureReadyEarly ==
    /\ EnsureCall /\ Mine # NoGraph
    /\ Return(Provisioning(rec.g, "True", TRUE, "programmed"), TRUE)
    /\ Quiet

EnsureReady ==
    /\ EnsureCall /\ Mine = [st |-> "built", port |-> rec.g.port]
    /\ Return(Provisioning(rec.g, "True", TRUE, "programmed"), TRUE)
    /\ Quiet

(* A failed call may have taken effect all the same. *)
EnsureFailure ==
    /\ EnsureCall /\ Spend("failures")
    /\ graph' \in {graph, [graph EXCEPT ![rec.g.uid] = Grown(@, rec.g.port)]}
    /\ \E f \in Failures :
           IF ~f.reported THEN Again
           ELSE Return(Provisioning(rec.g, f.status, f.advance, "failed"), f.requeue)
    /\ UNCHANGED <<gw, cls, bundle, cache, lost>> /\ Remember

DeleteProgress ==
    /\ DeleteCall /\ Mine # NoGraph
    /\ graph' = [graph EXCEPT ![rec.g.uid] = Shrunk(@)]
    /\ Again
    /\ UNCHANGED <<gw, cls, bundle, cache, lost, spent>> /\ Remember

(* Mutant of DeleteReady: the first deletion counts as the last one. *)
DeleteReadyEarly == rec.pc = "delete" /\ Mine.st # "built" /\ Go("unbind") /\ Quiet

DeleteReady ==
    /\ rec.pc = "delete"
    /\ Mine = NoGraph
    /\ Go("unbind")
    /\ Quiet

DeleteFailure ==
    /\ DeleteCall /\ Spend("failures")
    /\ graph' \in {graph, [graph EXCEPT ![rec.g.uid] = Shrunk(@)]}
    /\ \E f \in Failures : IF ~f.reported THEN Again
                         ELSE Return(CleanupFailed(rec.g, f.status, f.advance), TRUE)
    /\ UNCHANGED <<gw, cls, bundle, cache, lost>> /\ Remember

-----------------------------------------------------------------------------
(* cleanupGateway: the cached Gateway must still be the one decided on. *)
CleanupGateway ==
    /\ rec.pc = "cleanup"
    /\ IF cache.gw = Absent THEN Stop
       ELSE IF ~rec.cached THEN Again
       ELSE IF ~HasBinding(rec.g) THEN Stop
       ELSE IF ~ValidBinding(rec.g) THEN Again
       ELSE rec' = [rec EXCEPT !.pc = "clean1", !.cached = FALSE] /\ UNCHANGED queued
    /\ Quiet

(* observeGatewayCleanupSnapshot: the same revision live; then, unless it is *)
(* being deleted, a reason in its class or its spec, under a known bundle.   *)
CleanupObserveGateway ==
    /\ rec.pc = "clean1"
    /\ IF ~rec.fresh THEN Again
       ELSE IF gw.deleting THEN Go("delete") ELSE Go("clean2")
    /\ Quiet

(* Mutant of Hold: the live Gateway is never found to be wanted after all. *)
HoldNever(g, c) == FALSE

Hold(g, c) == Exists(g) /\ ~c.params /\ Valid(g) /\ ~PortMoved(g)

CleanupObserveClass ==
    /\ rec.pc = "clean2"
    /\ IF Exists(rec.g) /\ ~cls.ours THEN Go("delete")
       ELSE IF Exists(rec.g) /\ ~cls.supported THEN Go("version1")
       ELSE /\ rec' = [rec EXCEPT !.pc = "clean3", !.hold = Hold(rec.g, cls)]
            /\ UNCHANGED queued
    /\ Quiet

(* Mutant of CleanupObserveBundle: a cleanup does not look at the bundle. *)
CleanupIgnoresBundle ==
    /\ rec.pc = "clean3"
    /\ IF rec.hold THEN Again ELSE Go("delete")
    /\ Quiet

CleanupObserveBundle ==
    /\ rec.pc = "clean3"
    /\ IF ~bundle THEN Go("version1")
       ELSE IF rec.hold THEN Again ELSE Go("delete")
    /\ Quiet

(* patchGatewayMetadata: drop finalizer and annotations, optimistically.  The *)
(* API server removes a deleted object with its last finalizer.               *)
RemoveBinding ==
    /\ rec.pc = "unbind"
    /\ IF rec.fresh
       THEN /\ WriteGateway(IF gw.deleting THEN Absent
                            ELSE [gw EXCEPT !.fin = FALSE, !.ann = 0])
            /\ Stop
       ELSE Again /\ UNCHANGED <<gw, cache>>
    /\ UNCHANGED <<cls, bundle, graph, lost, spent>> /\ Remember

(* setGatewayUnsupportedVersion, with gatewayStillManaged. *)
VersionObserveGateway ==
    /\ rec.pc = "version1"
    /\ IF SameObject(gw, rec.g)
       THEN /\ rec' = [Idle EXCEPT !.pc = "version2", !.g = gw, !.acc = gw.acc,
                                  !.prog = gw.prog, !.fresh = TRUE]
            /\ UNCHANGED queued
       ELSE Stop
    /\ Quiet

VersionObserveClass ==
    /\ rec.pc = "version2"
    /\ IF ~Owned(rec.g, cls) THEN Stop
       ELSE IF cls.supported THEN Go("version3")
       ELSE Return(UnsupportedVersion(rec.g), FALSE)
    /\ Quiet

VersionObserveBundle ==
    /\ rec.pc = "version3"
    /\ IF bundle THEN Again ELSE Return(UnsupportedVersion(rec.g), TRUE)
    /\ Quiet

(* patchGateway, deferred by Reconcile: an optimistic status patch. *)
PatchGateway ==
    /\ rec.pc = "patch"
    /\ IF <<rec.g.acc, rec.g.prog>> = <<rec.acc, rec.prog>>
       THEN /\ queued' = (queued \/ rec.requeue)
            /\ UNCHANGED <<gw, cache, lost>>
       ELSE IF rec.fresh
       THEN /\ WriteGateway([gw EXCEPT !.acc = rec.g.acc, !.prog = rec.g.prog])
            /\ lost' = (~cls.ours \/ ~cache.cls.ours
                         \/ (lost /\ rec.g.prog = rec.prog))
            /\ queued' = (queued \/ rec.requeue)
       ELSE queued' = TRUE /\ UNCHANGED <<gw, cache, lost>>
    /\ rec' = Idle
    /\ UNCHANGED <<cls, bundle, graph, spent>> /\ Remember

-----------------------------------------------------------------------------
(* Mutant of GatewayReconcilePredicate: a new generation alone is no event. *)
GatewayReconcilePredicateMetadata(old, new) == old.fin # new.fin \/ old.ann # new.ann

(* Informers deliver what changed; predicates choose what wakes the Gateway. *)
GatewayReconcilePredicate(old, new) ==
    \/ ~SameObject(old, new)
    \/ old.fin # new.fin \/ old.ann # new.ann

SyncGateway ==
    /\ ~cache.fresh
    /\ cache' = [cache EXCEPT !.gw = gw, !.fresh = TRUE]
    /\ rec' = [rec EXCEPT !.cached = FALSE]
    /\ queued' = (queued \/ GatewayReconcilePredicate(cache.gw, gw))
    /\ UNCHANGED <<gw, cls, bundle, graph, lost, spent>> /\ Remember

SyncClass ==
    /\ cache.lag > 0
    /\ cache' = [cache EXCEPT !.cls = cls, !.lag = 0]
    /\ queued' = (queued \/ (cache.cls # cls /\ Exists(cache.gw)))
    /\ UNCHANGED <<gw, cls, bundle, rec, graph, lost, spent>> /\ Remember

(* The GatewayClass reconciler records whether the bundle is supported. *)
WriteClass(c) ==
    /\ cache.lag < MaxClassLag
    /\ cls' = c /\ cache' = [cache EXCEPT !.lag = @ + 1]
    /\ lost' = (lost \/ ~c.ours)
    /\ UNCHANGED <<gw, bundle, queued, rec, graph>> /\ Remember
ReconcileClass ==
    /\ cls.ours /\ cls.supported # bundle
    /\ WriteClass([cls EXCEPT !.supported = bundle])
    /\ UNCHANGED spent

(* Users recreate the class for another controller or back, or give it     *)
(* parameters (its SupportedVersion condition is of the old generation),   *)
(* and upgrade the CRDs.                                                   *)
EditClass ==
    /\ Spend("class")
    /\ \E o, p \in BOOLEAN :
           /\ <<o, p>> # <<cls.ours, cls.params>>
           /\ WriteClass([ours |-> o, params |-> p, supported |-> FALSE])
ChangeBundle ==
    /\ Spend("bundle")
    /\ bundle' = ~bundle
    /\ UNCHANGED <<gw, cls, cache, queued, rec, graph, lost>> /\ Remember

(* Users edit the Gateway's spec, delete it, create it again, or lose the *)
(* binding annotations.                                                   *)
UserWrites(g) ==
    /\ WriteGateway(g) /\ rec' = Stale
    /\ UNCHANGED <<cls, bundle, queued, graph, lost>> /\ Remember
EditGateway ==
    /\ gw # Absent /\ Spend("edits")
    /\ \E s \in Specs(spent.in) :
           /\ <<s.port, s.class>> # <<gw.port, gw.class>>
           /\ UserWrites([gw EXCEPT !.gen = @ + 1, !.port = s.port, !.class = s.class])
DeleteObject ==
    /\ gw # Absent /\ ~gw.deleting /\ Spend("edits")
    /\ UserWrites(IF gw.fin THEN [gw EXCEPT !.deleting = TRUE] ELSE Absent)
CreateObject ==
    /\ gw = Absent /\ Spend("created")
    /\ \E s \in Specs(spent.in) : UserWrites(Created(spent'.created, s))
LoseAnnotations ==
    /\ gw.ann # 0 /\ Spend("tampers")
    /\ UserWrites([gw EXCEPT !.ann = 0])

Crash ==
    /\ Spend("crashes")
    /\ rec' = Idle /\ queued' = TRUE
    /\ cache' = [gw |-> gw, cls |-> cls, fresh |-> TRUE, lag |-> 0]
    /\ UNCHANGED <<gw, cls, bundle, graph, lost>> /\ Remember

-----------------------------------------------------------------------------
Reconciling ==
    \/ ReconcileIgnored \/ ReconcileCleanup \/ ReconcileVersion
    \/ ReconcileBadBinding \/ ReconcileRejected \/ ReconcileReplacement
    \/ ReconcileBinding \/ ReconcileGraph
    \/ ObserveGateway \/ ObserveClass \/ SealBundle \/ SealGateway \/ SealClass
    \/ BindGateway \/ EnsureProgress \/ EnsureReady
    \/ CleanupGateway \/ CleanupObserveGateway \/ CleanupObserveClass
    \/ CleanupObserveBundle \/ DeleteProgress \/ DeleteReady \/ RemoveBinding
    \/ VersionObserveGateway \/ VersionObserveClass \/ VersionObserveBundle
    \/ PatchGateway

Environment ==
    \/ EnsureFailure \/ DeleteFailure \/ Crash
    \/ EditClass \/ ChangeBundle
    \/ EditGateway \/ DeleteObject \/ CreateObject \/ LoseAnnotations

Next == Reconciling \/ Environment \/ SyncGateway \/ SyncClass \/ ReconcileClass

Spec == Init /\ [][Next]_vars
Fairness == /\ WF_vars(Reconciling)
            /\ WF_vars(SyncGateway)
            /\ WF_vars(SyncClass)
            /\ WF_vars(ReconcileClass)
FairSpec == Spec /\ Fairness

-----------------------------------------------------------------------------
(* Types of the live object, of the graphs and of the control state. *)
TypeOK ==
    /\ gw.uid \in 0..MaxUID /\ gw.ann \in Ports \cup {0}
    /\ gw.port \in Ports \cup {InvalidPort}
    /\ {gw.deleting, gw.fin, bundle, queued, lost} \subseteq BOOLEAN
    /\ cls \in [ours : BOOLEAN, params : BOOLEAN, supported : BOOLEAN]
    /\ \A u \in UIDs : graph[u] = NoGraph \/ graph[u] \in [st : {"partial", "built"}, port : Ports]
    /\ rec.pc \in Fenced \cup {"idle", "cleanup", "unbind", "version1", "version2",
                               "version3", "patch"}
    /\ cache.lag \in 0..MaxClassLag

(* Whatever exists in OpenStack for a Gateway UID can still be found again  *)
(* and finished: the object of that UID exists, carries the finalizer, and  *)
(* its stored port is the graph's (or was removed by a user).  The binding  *)
(* is durable before the first create (bindGateway before ensureGateway)    *)
(* and goes only after DeleteGateway reported Ready, whatever crashes,      *)
(* edits, handoffs and stale caches come between.  (With TypeOK.)           *)
BoundGraph ==
    TypeOK /\ \A u \in UIDs : graph[u] # NoGraph =>
        gw.uid = u /\ gw.fin /\ gw.ann \in {graph[u].port, 0}

(* A Gateway that says Programmed=True for its current generation has its  *)
(* whole graph for that generation's port: a graph is torn down only after *)
(* the status checkpoint has withdrawn the promise.  Not claimed: a Gateway*)
(* under deletion, and one whose class went to another controller since.   *)
ProgrammedHonest ==
    gw.prog[1] = "True" /\ gw.prog[2] = gw.gen /\ ~gw.deleting /\ ~lost =>
        graph[gw.uid] = [st |-> "built", port |-> gw.port]

(* Fences.  The reads of a snapshot and its seal are separate requests, yet *)
(* a binding or an ensure mutation is sent only if at one single moment of  *)
(* its snapshot the live Gateway was the one decided on and the live class  *)
(* was ours, supported and without parameters.                              *)
EnsureAuthorized ==
    [][BindGateway \/ EnsureProgress => "usable" \in seen]_vars

(* The cleanup of a graph starts only if, during its snapshot, the live    *)
(* Gateway was really deleted, handed off, refused or moved to a new port: *)
(* a stale cache never deletes a graph that is wanted (disposition Hold).  *)
CleanupAuthorized ==
    [][DeleteProgress => "unwanted" \in seen]_vars

(* While the CRD bundle is unsupported no graph changes, except for a      *)
(* Gateway being deleted and for one that went to another controller.      *)
BundleFence ==
    [][graph' # graph =>
         "bundle" \in seen \/ rec.g.deleting \/ "foreign" \in seen]_vars

(* The Gateway agrees with what users last asked for. *)
Converged ==
    LET mine == IF gw = Absent THEN NoGraph ELSE graph[gw.uid]
        others == {u \in UIDs : u # gw.uid /\ graph[u] # NoGraph} IN
    /\ others = {}
    /\ CASE gw = Absent -> TRUE
         [] gw.deleting -> FALSE
         [] Owned(gw, cls) /\ ~bundle -> TRUE
         [] Owned(gw, cls) /\ bundle /\ Valid(gw) /\ ~cls.params ->
              \/ gw.prog = <<"True", gw.gen, "programmed">> /\ mine.st = "built"
              \/ gw.prog = <<"False", gw.gen, "failed">>    \* terminal validation
         [] Owned(gw, cls) /\ bundle ->
              mine = NoGraph /\ ~HasBinding(gw) /\ gw.prog = Rejected(gw).prog
         [] Exists(gw) -> mine = NoGraph /\ ~HasBinding(gw)
         [] OTHER -> bundle => mine = NoGraph /\ ~HasBinding(gw)

(* Nothing is forgotten: when users stop, the Gateway reaches what they     *)
(* asked for, although reconciliations run only when the queue holds the    *)
(* key and several of their ends do not requeue it.  Not claimed: a Gateway *)
(* whose stored binding somebody removed, which the code leaves for a human.*)
Converges == <>[](Converged \/ spent.tampers > 0)
=============================================================================
