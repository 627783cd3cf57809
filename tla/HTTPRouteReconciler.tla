------------------------- MODULE HTTPRouteReconciler -------------------------
(***************************************************************************)
(* The life of HTTPRoutes under their reconciler, next to the Gateways     *)
(* they attach to.  The one worker decides from the informer caches, then  *)
(* reads route, Gateway, class, competing routes and CRD bundle live, one  *)
(* request at a time, before it stores a binding, calls the provider or    *)
(* clears a binding.  Users, crashes and the Gateway reconciler (reduced   *)
(* here to its effects; GatewayReconciler has the detail) act in between.  *)
(* Of OpenStack there is left whether a Gateway UID has its load balancer, *)
(* whether that is up, and how much of each route's resources is below it. *)
(***************************************************************************)
EXTENDS Integers, ProviderErrors

(* What the environment may do is a scenario: a record of                   *)
(*   names      HTTPRoute names,                                             *)
(*   parents    Gateway names; all name the one GatewayClass,                *)
(*   listeners  Gateway specs [port, kind]; kind "ok", "invalid", "refuses", *)
(*   shapes     what a route's spec is: "ok" or "bad",                       *)
(*   backed     name -> its Service at first: "ok", "missing" or "wrong",    *)
(*   services   name -> what that Service may become,                        *)
(*   errors     how the provider fails, a subset of Failures,                *)
(* made, how often a Gateway name is created, and a bound for each of        *)
CONSTANTS Scenarios
Bounded == {"routes", "edits", "gateways", "backends", "class", "bundle", "tampers",
            "failures", "crashes", "drifts"}

ASSUME ScenariosAssumption ==
    \A x \in Scenarios :
        /\ x.names \subseteq Nat \ {0} /\ x.parents \subseteq Nat \ {0}
        /\ \A s \in x.listeners : /\ s.port \in Nat \ {0}
                                  /\ s.kind \in {"ok", "invalid", "refuses"}
        /\ x.shapes \subseteq {"ok", "bad"} /\ x.errors \subseteq Failures
        /\ \A n \in x.names : x.services[n] \cup {x.backed[n]} \subseteq {"ok", "missing", "wrong"}
        /\ x.made \in Nat \ {0} /\ \A k \in Bounded : x[k] \in Nat

VARIABLES route,   \* name -> the HTTPRoute in the API server
          gw,      \* name -> the Gateway in the API server
          cls,     \* the GatewayClass
          svc,     \* name of a route -> its backend Service object
          bundle,  \* the installed CRDs are the supported bundle
          cache,   \* the informers' copies; fresh: the routes whose copy is current
          queued,  \* names in the workqueue
          rec,     \* the reconciliation under way
          lb,      \* Gateway UID -> its load balancer and listener
          parts,   \* Gateway UID -> route UID -> that route's resources there
          seen,    \* what has been true since rec's snapshot began (history): <<fact, 0>>
                   \* of the route itself, <<fact, m>> of the route named m next to it
          spent    \* environment steps, per kind, and their scenario

vars == <<route, gw, cls, svc, bundle, cache, queued, rec, lb, parts, seen, spent>>

Names == UNION {x.names : x \in Scenarios}
Gateways == UNION {x.parents : x \in Scenarios}
UIDs == UNION {x.parents \X (1..x.made) : x \in Scenarios}   \* a Gateway UID tells its name
NoUID == <<0, 0>>
RouteUIDs == UNION {1..x.routes : x \in Scenarios}          \* in order of creation

NoStatus == [parent |-> 0, prog |-> "none", gen |-> 0]
NoRoute == [uid |-> 0, second |-> 0, gen |-> 0, parent |-> 0, shape |-> "ok", deleting |-> FALSE,
            fin |-> NoUID, ann |-> NoUID, diag |-> FALSE, st |-> NoStatus]
NoGateway == [uid |-> NoUID, gen |-> 0, port |-> 0, kind |-> "ok",
              deleting |-> FALSE, ann |-> 0, prog |-> <<"none", 0>>, ver |-> FALSE]
NewGateway(u, s) == [NoGateway EXCEPT !.uid = u, !.gen = 1, !.port = s.port,
                                      !.kind = s.kind]
NoPlan == [kind |-> "none", parent |-> 0, prog |-> "none", advance |-> TRUE]
Idle == [pc |-> "idle", n |-> 0, r |-> NoRoute, g |-> NoGateway, o |-> NoGateway,
         u |-> NoUID, fresh |-> FALSE, mode |-> "none", plan |-> NoPlan,
         requeue |-> FALSE, binding |-> FALSE, rivals |-> {}]

(* Every Gateway is programmed, no route exists yet. *)
Init ==
    /\ \E x \in Scenarios :
          /\ \E s \in {t \in x.listeners : t.kind = "ok"} :
                gw = [g \in Gateways |-> IF g \notin x.parents THEN NoGateway
                                         ELSE [NewGateway(<<g, 1>>, s) EXCEPT
                                                 !.ann = s.port, !.prog = <<"True", 1>>]]
          /\ lb = [u \in UIDs |-> IF u[1] \in x.parents /\ u[2] = 1 THEN "up" ELSE "none"]
          /\ spent = [in |-> x, routes |-> 0, edits |-> 0, gateways |-> 0, backends |-> 0,
                      class |-> 0, bundle |-> 0, tampers |-> 0, failures |-> 0, crashes |-> 0,
                      drifts |-> 0, made |-> [g \in x.parents |-> 1]]
          /\ svc = [n \in Names |-> IF n \in x.names THEN x.backed[n] ELSE "ok"]
    /\ route = [n \in Names |-> NoRoute]
    /\ cls = [ours |-> TRUE, params |-> FALSE, supported |-> TRUE]
    /\ bundle = TRUE
    /\ cache = [route |-> route, gw |-> gw, cls |-> cls, svc |-> svc, fresh |-> Names]
    /\ queued = {}
    /\ rec = Idle
    /\ parts = [u \in UIDs |-> [x \in RouteUIDs |-> "none"]]
    /\ seen = {}

Spend(kind) == spent[kind] < spent.in[kind] /\ spent' = [spent EXCEPT ![kind] = @ + 1]

-----------------------------------------------------------------------------
(* What the code asks of a route, of its parent and of its competitors, in *)
(* the live objects or in the cached ones.                                 *)
(* rec keeps of an object it has read what later steps still look at.       *)
Revision(x, none) == [none EXCEPT !.uid = x.uid, !.gen = x.gen, !.deleting = x.deleting]
FailedStatus(r) == IF r.st.prog = "failed" THEN r.st ELSE NoStatus
InScope(r) == [Revision(r, NoRoute) EXCEPT !.st = FailedStatus(r)]
SpecOf(r) == [r EXCEPT !.ann = NoUID, !.fin = NoUID, !.diag = FALSE,
                       !.st = FailedStatus(r)]
Same(a, b) == a.uid = b.uid /\ a.gen = b.gen /\ a.deleting = b.deleting
HasBinding(r) == r.fin # NoUID \/ r.ann # NoUID
Present(r) == r.ann # NoUID
Broken(r) == r.fin # NoUID /\ r.ann # r.fin       \* StoredRouteIdentity fails
BoundTo(r, u) == r.ann = u /\ r.fin = u
Managed(p, gws, c) == p # 0 /\ gws[p] # NoGateway /\ c.ours
Refused(g) == g.deleting \/ g.kind = "refuses"    \* validateRouteParent fails
Programmed(g) == g.prog = <<"True", g.gen>>

(* isSelectedRouteWithReader: an older route that can hold the Gateway's one *)
(* slot takes it.  Creation timestamps count seconds; names break ties.  A    *)
(* Service that is absent, or does not expose the port yet, holds the slot.   *)
routePrecedes(m, c, n, r) == c.second < r.second \/ (c.second = r.second /\ m < n)
Rivals(n, r, routes) ==
    {m \in Names \ {n} : LET c == routes[m] IN
        /\ c.uid # 0 /\ ~c.deleting /\ c.parent = r.parent /\ c.shape = "ok"
        /\ routePrecedes(m, c, n, r)}
CanReserve(s) == s # "wrong"
Selected(n, r, routes, svcs) == \A m \in Rivals(n, r, routes) : ~CanReserve(svcs[m])

(* The status a plan leaves on route r: applyRouteParentStatuses,            *)
(* applyRouteProviderFailureStatuses, applyDeletingRouteProviderFailure and  *)
(* unsupportedGatewayAPIVersionRouteStatus.                                  *)
Applied(plan, r) ==
    LET old == IF r.st.parent = plan.parent THEN r.st ELSE NoStatus
        new == [parent |-> plan.parent, prog |-> plan.prog, gen |-> r.gen] IN
    CASE plan.kind = "none" -> r.st
      [] plan.kind = "replace" -> IF plan.parent = 0 THEN NoStatus ELSE new
      [] plan.kind = "failure" ->
           [new EXCEPT !.gen = IF plan.advance THEN @ ELSE old.gen]
      [] plan.kind = "deleting" ->
           IF old = NoStatus THEN r.st
           ELSE [new EXCEPT !.gen = IF plan.advance THEN @ ELSE old.gen]
      [] plan.kind = "version" ->
           IF old.prog = "True" /\ old.gen = r.gen THEN old ELSE new
Replace(p, prog) == [NoPlan EXCEPT !.kind = "replace", !.parent = p, !.prog = prog]
HasFailure(r, plan) == plan.parent # 0 /\ r.st.parent = plan.parent
                       /\ r.st.prog = "failed"

(* validateRouteStatusOwnership: the plan covers the managed parents. *)
StatusOwned(r, plan) ==
    plan.kind \in {"none", "deleting"}
    \/ plan.parent = (IF Managed(r.parent, gw, cls) THEN r.parent ELSE 0)

-----------------------------------------------------------------------------
(* seen: what held of the live objects at some moment since the snapshot of *)
(* the reconciliation under way began.                                      *)
Cleaning == {"c1", "c2", "c3", "c4", "c5", "c6", "c7", "c8", "c9", "c10", "seal", "delete"}
Ensuring == {"e1", "e2", "e3", "e4", "e5", "e6", "e7", "s1", "s2", "s3", "s4", "mutate"}

Attachable(n, r, u) ==    \* route r, by itself, fits on the Gateway of UID u
    /\ ~r.deleting /\ r.shape = "ok" /\ svc[n] = "ok"
    /\ r.parent # 0 /\ gw[r.parent].uid = u /\ ~Refused(gw[r.parent])
Eligible(n, r, u) == Attachable(n, r, u) /\ Managed(r.parent, gw, cls)
Wanted(n, r, u) == Eligible(n, r, u) /\ Selected(n, r, route, svc)
Usable == LET r == route[rec.n] IN
    Same(r, rec.r) /\ Attachable(rec.n, r, rec.g.uid) /\ Same(gw[r.parent], rec.g)
Older(m) == m \in Rivals(rec.n, route[rec.n], route)
Yields(m) == Same(route[rec.n], rec.r) /\ (Older(m) => ~CanReserve(svc[m]))
Exempt == LET r == route[rec.n] IN    \* cleanup that a version mismatch allows
    \/ r.deleting \/ ~Managed(r.parent, gw, cls)
    \/ (gw[r.parent].deleting /\ gw[r.parent].uid = rec.u)
Others == Names \ {rec.n}
Fact(fact, holds) == IF holds THEN {<<fact, 0>>} ELSE {}
Now == Fact("bundle", bundle) \cup
       (IF rec.pc \in Ensuring
        THEN Fact("usable", Usable) \cup {<<"yields", m>> : m \in {k \in Others : Yields(k)}}
        ELSE Fact("unwanted", ~Eligible(rec.n, route[rec.n], rec.u)) \cup Fact("exempt", Exempt)
             \cup {<<"older", m>> : m \in {k \in Others : Older(k)}}
             \cup {<<"reserves", m>> : m \in {k \in Others : CanReserve(svc[k])}})
Remember ==
    seen' = IF rec'.pc \notin Cleaning \cup Ensuring THEN {}
            ELSE IF rec'.pc # rec.pc /\ rec'.pc \in {"c1", "e1"} THEN Now'
            ELSE Now' \cup seen
Quiet == UNCHANGED <<route, gw, cls, svc, bundle, cache, lb, parts, spent>> /\ Remember

(* Every write to a live route makes each copy read before it stale. *)
WriteRoute(n, r) ==
    /\ route' = [route EXCEPT ![n] = r]
    /\ cache' = IF r = route[n] THEN cache ELSE [cache EXCEPT !.fresh = @ \ {n}]

(* How a reconciliation goes on: to its next request, to the deferred status *)
(* patch, or to its end, with the key back in the queue or not.              *)
Go(pc) == rec' = [rec EXCEPT !.pc = pc] /\ UNCHANGED queued
Return(plan, requeue) ==
    /\ rec' = [Idle EXCEPT !.pc = "patch", !.n = rec.n, !.r = Revision(rec.r, NoRoute),
                           !.plan = plan, !.requeue = requeue]
    /\ UNCHANGED queued
Again == rec' = Idle /\ queued' = queued \cup {rec.n}
Stop == rec' = Idle /\ UNCHANGED queued
Version == rec' = [Idle EXCEPT !.pc = "version1", !.n = rec.n,
                               !.r = Revision(rec.r, NoRoute)]
           /\ UNCHANGED queued

-----------------------------------------------------------------------------
(* newHTTPRouteScope, buildCachedRouteDecision, validateCachedRouteDecision: *)
(* the caches decide what the reconciliation is about.                       *)
cachedRouteDecision(n) ==
    LET r == cache.route[n]
        p == r.parent IN
    CASE r = NoRoute -> "ignore"
      [] r.deleting -> IF HasBinding(r) THEN "finalize" ELSE "ignore"
      [] OTHER ->
           IF Broken(r) THEN "error"
           ELSE IF ~Managed(p, cache.gw, cache.cls) THEN "unmanaged"
           ELSE IF ~cache.cls.supported THEN "version"
           ELSE IF \/ Refused(cache.gw[p])
                   \/ (r.shape = "ok" /\ cache.svc[n] = "wrong")
                   \/ ~Selected(n, r, cache.route, cache.svc) THEN "reject"
           ELSE "select"

Begin(n, decision, r) ==
    /\ rec.pc = "idle" /\ n \in queued
    /\ cachedRouteDecision(n) = decision
    /\ queued' = (IF decision = "error" THEN queued ELSE queued \ {n})
    /\ rec' = r
    /\ Quiet
Scope(n, pc) == [Idle EXCEPT !.pc = pc, !.n = n,
                   !.r = InScope(cache.route[n])]

ReconcileIgnored(n) == Begin(n, "ignore", Idle)
ReconcileError(n) == Begin(n, "error", Idle)
ReconcileDelete(n) == Begin(n, "finalize", [Scope(n, "detach") EXCEPT !.mode = "final"])
ReconcileVersion(n) == Begin(n, "version", Scope(n, "version1"))
ReconcileUnmanaged(n) ==
    Begin(n, "unmanaged", [Scope(n, "check") EXCEPT !.mode = "status",
                                                    !.plan = Replace(0, "none")])
ReconcileRejected(n) ==
    Begin(n, "reject", [Scope(n, "check") EXCEPT !.mode = "status",
                            !.plan = Replace(cache.route[n].parent, "rejected")])

(* reconcileSelectedRoute: leaving another Gateway is announced first. *)
ReconcileSelected(n) ==
    LET r == cache.route[n]
        g == cache.gw[r.parent]
        moving == Present(r) /\ r.ann # g.uid IN
    Begin(n, "select", [Scope(n, IF moving THEN "check" ELSE "prev") EXCEPT
                          !.mode = "prev", !.g = Revision(g, NoGateway),
                          !.plan = Replace(r.parent, "pending")])

(* Mutant of Check: the cleanup does not wait for the status to be published. *)
CheckSkipped ==
    /\ rec.pc = "check"
    /\ IF Same(route[rec.n], rec.r)
       THEN Go(IF rec.mode = "prev" THEN "prev" ELSE "detach") ELSE Again
    /\ Quiet

(* routeCleanupStatusCheckpointNeeded: nothing is torn down before the live *)
(* status says so, in an earlier reconciliation.                            *)
Check ==
    /\ rec.pc = "check"
    /\ LET live == route[rec.n]
           next == [rec EXCEPT !.pc = IF rec.mode = "prev" THEN "prev" ELSE "detach",
                               !.r = InScope(live)] IN
       IF ~Same(live, rec.r) THEN Again
       ELSE IF HasFailure(rec.r, rec.plan) /\ HasFailure(live, rec.plan)
       THEN rec' = next /\ UNCHANGED queued
       ELSE IF ~StatusOwned(live, rec.plan) \/ Applied(rec.plan, live) # live.st
       THEN Return(rec.plan, TRUE)
       ELSE rec' = next /\ UNCHANGED queued
    /\ Quiet

Ensure == rec' = [Idle EXCEPT !.pc = "e1", !.n = rec.n, !.r = InScope(rec.r),
                              !.g = rec.g, !.binding = rec.binding]
          /\ UNCHANGED queued

(* detachPreviousGateway, from the cache again. *)
DetachPrevious ==
    /\ rec.pc = "prev"
    /\ LET c == cache.route[rec.n] IN
       IF c = NoRoute THEN Ensure
       ELSE IF ~Same(c, rec.r) \/ Broken(c) THEN Again
       ELSE IF Present(c) /\ c.ann # rec.g.uid THEN Go("detach") ELSE Ensure
    /\ Quiet

(* detachRoute and finalizeRoute, with getRouteBinding from the cache.  What *)
(* follows a finished cleanup depends on who asked for it.                   *)
Finish == CASE rec.mode = "status" -> Return(rec.plan, FALSE)
            [] rec.mode = "prev" -> Ensure
            [] rec.mode = "final" -> Stop
Detach ==
    /\ rec.pc = "detach"
    /\ LET c == cache.route[rec.n] IN
       IF c = NoRoute THEN Finish
       ELSE IF ~Same(c, rec.r) \/ Broken(c) THEN Again
       ELSE IF Present(c)
       THEN /\ rec' = [rec EXCEPT !.pc = "c1", !.r = SpecOf(c), !.u = c.ann,
                                  !.fresh = (rec.n \in cache.fresh)]
            /\ UNCHANGED queued
       ELSE IF rec.mode = "final" THEN Stop ELSE Go("clear")
    /\ Quiet

-----------------------------------------------------------------------------
(* The live List of the routes, then one Get per older competitor; a Service *)
(* that cannot reserve the slot drops its route.  (Those the route precedes   *)
(* are read as well and change nothing.)                                      *)
ListRivals(pc, next, none) ==
    /\ rec.pc = pc
    /\ LET found == Rivals(rec.n, rec.r, route) IN
       rec' = [rec EXCEPT !.pc = IF found = {} THEN none ELSE next, !.rivals = found]
    /\ UNCHANGED queued
    /\ Quiet
PassOver(m, none) ==
    /\ rec' = [rec EXCEPT !.pc = IF rec.rivals = {m} THEN none ELSE rec.pc,
                          !.rivals = @ \ {m}]
    /\ UNCHANGED queued

Seal == rec' = [rec EXCEPT !.pc = "seal", !.o = NoGateway, !.rivals = {}] /\ UNCHANGED queued

(* buildRouteCleanupSnapshot: the same revision live, then the parents and   *)
(* whether a version mismatch lets the cleanup pass, the bundle, the parents *)
(* again, and the live decision, read by read: the route's own Service, the  *)
(* competing routes, their Services, and in the model its Service once more. *)
(* A route still wanted here is not detached.                                *)
CleanupObserveRoute ==
    /\ rec.pc = "c1"
    /\ IF ~rec.fresh THEN Again ELSE IF rec.r.deleting THEN Seal ELSE Go("c2")
    /\ Quiet

Observed == IF rec.r.parent = 0 THEN NoGateway ELSE gw[rec.r.parent]
CleanupObserveGateway(pc, next) ==
    /\ rec.pc = pc
    /\ IF Observed = NoGateway THEN Seal
       ELSE rec' = [rec EXCEPT !.pc = next, !.o = Observed] /\ UNCHANGED queued
    /\ Quiet
CleanupObserveParent == CleanupObserveGateway("c2", "c3")
CleanupObserveParentAgain == CleanupObserveGateway("c5", "c6")

CleanupObserveClass ==
    /\ rec.pc = "c3"
    /\ IF ~cls.ours \/ (rec.o.deleting /\ rec.o.uid = rec.u) THEN Seal ELSE Go("c4")
    /\ Quiet

(* Mutant of CleanupObserveBundle: a cleanup does not look at the bundle. *)
CleanupIgnoresBundle == rec.pc = "c4" /\ Go("c5") /\ Quiet

CleanupObserveBundle ==
    /\ rec.pc = "c4"
    /\ IF bundle THEN Go("c5") ELSE Version
    /\ Quiet

CleanupObserveClassAgain ==
    /\ rec.pc = "c6"
    /\ IF ~cls.ours THEN Seal
       ELSE IF ~cls.supported THEN Version
       ELSE IF cls.params THEN Again
       ELSE IF Refused(rec.o) \/ rec.r.shape = "bad" THEN Seal ELSE Go("c7")
    /\ Quiet

CleanupEvaluateSlot ==
    /\ rec.pc = "c7"
    /\ IF CanReserve(svc[rec.n]) THEN Go("c8") ELSE Seal
    /\ Quiet
CleanupListRoutes == ListRivals("c8", "c9", "c10")
CleanupEvaluateRival ==
    /\ rec.pc = "c9"
    /\ \E m \in rec.rivals : IF CanReserve(svc[m]) THEN Seal ELSE PassOver(m, "c10")
    /\ Quiet

(* Mutant of StillDesired: the cleanup trusts the cached decision. *)
StillDesiredNever == FALSE

StillDesired == svc[rec.n] = "ok" /\ rec.o.uid = rec.u
CleanupBuildModel ==
    /\ rec.pc = "c10"
    /\ IF StillDesired THEN Again ELSE Seal
    /\ Quiet

SealCleanup ==
    /\ rec.pc = "seal"
    /\ IF rec.fresh
       THEN rec' = [rec EXCEPT !.pc = "delete", !.fresh = FALSE] /\ UNCHANGED queued
       ELSE Again
    /\ Quiet

-----------------------------------------------------------------------------
(* The provider.  It mutates one resource per call, and refuses to touch a *)
(* load balancer that holds another route's resources.                     *)
Grown(s) == IF s = "none" THEN "partial" ELSE "built"
Shrunk(s) == IF s = "built" THEN "partial" ELSE "none"
(* Mutant of Conflict: the provider does not look whose pool it finds. *)
ConflictNever(u) == FALSE

Conflict(u) == lb[u] # "none" /\ \E x \in RouteUIDs \ {rec.r.uid} : parts[u][x] # "none"
Part(u) == parts[u][rec.r.uid]

FailurePlan(kind, p, f) == [kind |-> kind, parent |-> p, prog |-> "failed",
                            advance |-> f.advance]
OwnershipConflict == ProviderFailurePolicyFor("OwnershipConflict")
(* handleRouteProviderFailure *)
Failed(p, f) == IF f.reported THEN Return(FailurePlan("failure", p, f), f.requeue)
                ELSE Return(NoPlan, TRUE)

DeleteProgress ==
    /\ rec.pc = "delete" /\ ~Conflict(rec.u) /\ Part(rec.u) # "none"
    /\ parts' = [parts EXCEPT ![rec.u][rec.r.uid] = Shrunk(@)]
    /\ Go("progress")
    /\ UNCHANGED <<route, gw, cls, svc, bundle, cache, lb, spent>> /\ Remember

(* Mutant of DeleteReady: the binding goes with the last policy, before the pool. *)
DeleteReadyEarly ==
    /\ rec.pc = "delete" /\ ~Conflict(rec.u) /\ Part(rec.u) # "built"
    /\ Go("clear")
    /\ Quiet

DeleteReady ==
    /\ rec.pc = "delete" /\ ~Conflict(rec.u) /\ Part(rec.u) = "none"
    /\ Go("clear")
    /\ Quiet

(* setRouteStatusesAndDetach and handleRouteFinalizationFailure mark the     *)
(* route first ("diag"); reconcileSelectedRoute only reports.                *)
DeleteFailed(f) ==
    LET p == rec.plan.parent IN
    CASE ~f.reported \/ rec.mode = "prev" -> Failed(p, f)
      [] f.reported /\ rec.mode = "status" ->
           /\ rec' = [rec EXCEPT !.pc = "diag",
                        !.plan = IF p = 0 THEN @ ELSE FailurePlan("failure", p, f)]
           /\ UNCHANGED queued
      [] f.reported /\ rec.mode = "final" ->
           /\ rec' = [rec EXCEPT !.pc = "diag",
                        !.plan = IF rec.r.parent = rec.u[1]
                                 THEN FailurePlan("deleting", rec.r.parent, f) ELSE NoPlan]
           /\ UNCHANGED queued
DeleteConflict ==
    /\ rec.pc = "delete" /\ Conflict(rec.u)
    /\ DeleteFailed(OwnershipConflict)
    /\ Quiet
(* Mutant of DeleteFailure: a failed deletion counts as done. *)
DeleteFailureIgnored ==
    /\ rec.pc = "delete" /\ Spend("failures")
    /\ Go("clear")
    /\ UNCHANGED <<route, gw, cls, svc, bundle, cache, lb, parts>> /\ Remember

DeleteFailure ==
    /\ rec.pc = "delete" /\ Spend("failures")
    /\ parts' \in {parts, IF Conflict(rec.u) THEN parts
                          ELSE [parts EXCEPT ![rec.u][rec.r.uid] = Shrunk(@)]}
    /\ \E f \in spent.in.errors : DeleteFailed(f)
    /\ UNCHANGED <<route, gw, cls, svc, bundle, cache, lb>> /\ Remember

(* patchRouteCleanupFailure, after a failure and after progress. *)
PatchCleanupFailure ==
    /\ rec.pc \in {"diag", "progress"}
    /\ LET live == route[rec.n] IN
       IF ~Same(live, rec.r) THEN Again /\ UNCHANGED <<route, cache>>
       ELSE /\ WriteRoute(rec.n, [live EXCEPT !.diag = (rec.pc = "diag")])
            /\ Return(rec.plan, TRUE)
    /\ UNCHANGED <<gw, cls, svc, bundle, lb, parts, spent>> /\ Remember

(* clearStoredRouteBinding, outside the lock: the live route must still hold *)
(* the identity whose resources are gone.  The API server drops a deleted    *)
(* object with its last finalizer.                                           *)
ClearBinding ==
    /\ rec.pc = "clear"
    /\ LET live == route[rec.n] IN
       IF live = NoRoute THEN Finish /\ UNCHANGED <<route, cache>>
       ELSE IF ~Same(live, rec.r) \/ Broken(live) \/ live.ann # rec.u
       THEN Again /\ UNCHANGED <<route, cache>>
       ELSE /\ WriteRoute(rec.n, IF live.deleting THEN NoRoute
                                 ELSE [live EXCEPT !.fin = NoUID, !.ann = NoUID,
                                                   !.diag = FALSE])
            /\ Finish
    /\ UNCHANGED <<gw, cls, svc, bundle, lb, parts, spent>> /\ Remember

-----------------------------------------------------------------------------
(* ensureRouteGraph: buildRouteValidationSnapshot, for an ensure or, after a *)
(* write conflict, for the binding alone (then every doubt ends the attempt).*)
ObserveRoute ==
    /\ rec.pc = "e1"
    /\ IF Same(route[rec.n], rec.r)
       THEN /\ rec' = [rec EXCEPT !.pc = "e2", !.fresh = TRUE,
                                  !.r = [route[rec.n] EXCEPT !.st = rec.r.st]]
            /\ UNCHANGED queued
       ELSE Again
    /\ Quiet

ObserveGateway ==
    /\ rec.pc = "e2"
    /\ LET g == gw[rec.r.parent] IN
       IF Same(g, rec.g) /\ ~g.deleting
       THEN rec' = [rec EXCEPT !.pc = "e3", !.o = g] /\ UNCHANGED queued
       ELSE Again
    /\ Quiet

Pending == IF rec.binding THEN Again ELSE Return(Replace(rec.r.parent, "pending"), TRUE)

ObserveClass ==
    /\ rec.pc = "e3"
    /\ IF ~cls.ours \/ cls.params THEN Again
       ELSE IF ~cls.supported THEN Version
       ELSE IF rec.o.ann = 0 THEN Again
       ELSE IF rec.o.kind # "ok" THEN Pending
       ELSE IF rec.o.ann # rec.o.port THEN Again ELSE Go("e4")
    /\ Quiet

(* Mutant of BindingRequired: a bound route binds again below a Gateway that *)
(* is not Programmed.                                                        *)
BindingRequiredForRepair ==
    ~BoundTo(rec.r, rec.o.uid) \/ rec.r.diag \/ ~Programmed(rec.o)

(* selectAndBuildRouteModel: the route's own Service, the competing routes   *)
(* and their Services, its Service again for the model.  A route of an        *)
(* unsupported structure gets no further than the model.                      *)
Rejected ==
    IF rec.binding THEN Again
    ELSE /\ rec' = [Idle EXCEPT !.pc = "check", !.n = rec.n, !.r = InScope(rec.r),
                      !.mode = "status", !.plan = Replace(rec.r.parent, "rejected")]
         /\ UNCHANGED queued
EvaluateSlot ==
    /\ rec.pc = "e4"
    /\ IF rec.r.shape = "ok" /\ CanReserve(svc[rec.n]) THEN Go("e5") ELSE Rejected
    /\ Quiet
ListRoutes == ListRivals("e5", "e6", "e7")

(* Mutant of EvaluateRival: only a route whose Service exists holds the slot. *)
EvaluateRivalNeedsService ==
    /\ rec.pc = "e6"
    /\ \E m \in rec.rivals : IF svc[m] = "ok" THEN Rejected ELSE PassOver(m, "e7")
    /\ Quiet

EvaluateRival ==
    /\ rec.pc = "e6"
    /\ \E m \in rec.rivals : IF CanReserve(svc[m]) THEN Rejected ELSE PassOver(m, "e7")
    /\ Quiet

(* The model, and finishRouteBindingSnapshot. *)
BindingRequired == ~BoundTo(rec.r, rec.o.uid) \/ rec.r.diag
validRouteBindingTransition ==
    Programmed(rec.o) /\ (Present(rec.r) => rec.r.ann = rec.o.uid)
BuildModel ==
    /\ rec.pc = "e7"
    /\ IF svc[rec.n] # "ok" THEN Rejected
       ELSE IF Broken(rec.r) THEN Again
       ELSE IF ~Programmed(rec.o) /\ ~BoundTo(rec.r, rec.o.uid) THEN Pending
       ELSE IF BindingRequired
       THEN IF validRouteBindingTransition
            THEN rec' = [rec EXCEPT !.pc = "s1", !.binding = TRUE] /\ UNCHANGED queued
            ELSE Again
       ELSE IF rec.binding THEN Again
       ELSE rec' = [rec EXCEPT !.pc = "s1", !.fresh = FALSE] /\ UNCHANGED queued
    /\ Quiet

(* sealRouteMutationSnapshot: bundle, route, Gateway and class once more. *)
SealBundle ==
    /\ rec.pc = "s1"
    /\ IF bundle THEN Go("s2") ELSE Version
    /\ Quiet
SealRoute ==
    /\ rec.pc = "s2"
    /\ IF Same(route[rec.n], rec.r) /\ (rec.binding \/ BoundTo(route[rec.n], rec.o.uid))
       THEN Go("s3") ELSE Again
    /\ Quiet
SealGateway ==
    /\ rec.pc = "s3"
    /\ LET g == gw[rec.r.parent] IN
       IF Same(g, rec.o) /\ g.ann = rec.o.ann THEN Go("s4") ELSE Again
    /\ Quiet
SealClass ==
    /\ rec.pc = "s4"
    /\ IF ~cls.ours \/ cls.params THEN Again
       ELSE IF cls.supported THEN Go("mutate") ELSE Version
    /\ Quiet

(* bindRouteFromSnapshot: the optimistic patch of the observed route. *)
BindRoute ==
    /\ rec.pc = "mutate" /\ rec.binding
    /\ IF rec.fresh
       THEN /\ WriteRoute(rec.n, [route[rec.n] EXCEPT !.ann = rec.o.uid,
                                      !.fin = rec.o.uid, !.diag = FALSE])
            /\ Again
       ELSE Ensure /\ UNCHANGED <<route, cache>>
    /\ UNCHANGED <<gw, cls, svc, bundle, lb, parts, spent>> /\ Remember

EnsureCall == rec.pc = "mutate" /\ ~rec.binding

(* EnsureRoute waits for the Gateway's part of the graph, builds its own, *)
(* and last turns a disabled load balancer or listener on again.          *)
EnsureWait ==
    /\ EnsureCall /\ lb[rec.o.uid] = "none"
    /\ Return(Replace(rec.r.parent, "pending"), TRUE)
    /\ Quiet
(* Mutant of EnsureProgress: a mutation is not followed up. *)
EnsureProgressOnce ==
    /\ EnsureCall /\ lb[rec.o.uid] # "none" /\ ~Conflict(rec.o.uid)
    /\ Part(rec.o.uid) # "built"
    /\ parts' = [parts EXCEPT ![rec.o.uid][rec.r.uid] = Grown(@)]
    /\ Return(Replace(rec.r.parent, "pending"), FALSE)
    /\ UNCHANGED <<route, gw, cls, svc, bundle, cache, lb, spent>> /\ Remember

EnsureProgress ==
    /\ EnsureCall /\ lb[rec.o.uid] # "none" /\ ~Conflict(rec.o.uid)
    /\ Part(rec.o.uid) # "built"
    /\ parts' = [parts EXCEPT ![rec.o.uid][rec.r.uid] = Grown(@)]
    /\ Return(Replace(rec.r.parent, "pending"), TRUE)
    /\ UNCHANGED <<route, gw, cls, svc, bundle, cache, lb, spent>> /\ Remember
EnsureRepair ==
    /\ EnsureCall /\ lb[rec.o.uid] = "down" /\ ~Conflict(rec.o.uid)
    /\ Part(rec.o.uid) = "built"
    /\ lb' = [lb EXCEPT ![rec.o.uid] = "up"]
    /\ Return(Replace(rec.r.parent, "pending"), TRUE)
    /\ UNCHANGED <<route, gw, cls, svc, bundle, cache, parts, spent>> /\ Remember
EnsureReady ==
    /\ EnsureCall /\ lb[rec.o.uid] = "up" /\ ~Conflict(rec.o.uid)
    /\ Part(rec.o.uid) = "built"
    /\ Return(Replace(rec.r.parent, "True"), TRUE)
    /\ Quiet
EnsureConflict ==
    /\ EnsureCall /\ Conflict(rec.o.uid)
    /\ Failed(rec.r.parent, OwnershipConflict)
    /\ Quiet
EnsureFailure ==
    /\ EnsureCall /\ Spend("failures")
    /\ parts' \in {parts, IF lb[rec.o.uid] = "none" \/ Conflict(rec.o.uid) THEN parts
                          ELSE [parts EXCEPT ![rec.o.uid][rec.r.uid] = Grown(@)]}
    /\ \E f \in spent.in.errors : Failed(rec.r.parent, f)
    /\ UNCHANGED <<route, gw, cls, svc, bundle, cache, lb>> /\ Remember

-----------------------------------------------------------------------------
(* setRouteUnsupportedVersion. *)
VersionObserveRoute ==
    /\ rec.pc = "version1"
    /\ IF Same(route[rec.n], rec.r) /\ ~rec.r.deleting
       THEN rec' = [rec EXCEPT !.pc = "version2", !.r = route[rec.n]] /\ UNCHANGED queued
       ELSE Stop
    /\ Quiet
VersionObserveParent ==
    /\ rec.pc = "version2"
    /\ IF ~Managed(rec.r.parent, gw, cls) THEN Stop
       ELSE IF cls.supported THEN Go("version3")
       ELSE Return([NoPlan EXCEPT !.kind = "version", !.parent = rec.r.parent,
                                  !.prog = "version"], FALSE)
    /\ Quiet
VersionObserveBundle ==
    /\ rec.pc = "version3"
    /\ IF bundle THEN Again
       ELSE Return([NoPlan EXCEPT !.kind = "version", !.parent = rec.r.parent,
                                  !.prog = "version"], TRUE)
    /\ Quiet

(* patchHTTPRoute, deferred by Reconcile: on the live route, retried on a *)
(* write conflict as long as its revision is the reconciled one.          *)
PatchHTTPRoute ==
    /\ rec.pc = "patch"
    /\ LET live == route[rec.n] IN
       IF rec.plan.kind # "none" /\ live # NoRoute
          /\ ~(Same(live, rec.r) /\ StatusOwned(live, rec.plan))
       THEN queued' = queued \cup {rec.n} /\ UNCHANGED <<route, cache>>
       ELSE /\ IF live = NoRoute THEN UNCHANGED <<route, cache>>
               ELSE WriteRoute(rec.n, [live EXCEPT !.st = Applied(rec.plan, live)])
            /\ queued' = IF rec.requeue THEN queued \cup {rec.n} ELSE queued
    /\ rec' = Idle
    /\ UNCHANGED <<gw, cls, svc, bundle, lb, parts, spent>> /\ Remember

-----------------------------------------------------------------------------
(* The watches.  A route wakes itself, and for a new generation or a deletion *)
(* its peers; a Gateway wakes the routes that name it, report it or are bound *)
(* to it; a Service wakes its route and that route's peers.  No watch maps a  *)
(* GatewayClass to routes.                                                    *)
Naming(ps) == {m \in Names : cache.route[m].parent \in ps \ {0}}

SyncRoute(n) ==
    /\ n \notin cache.fresh
    /\ LET old == cache.route[n]
           new == route[n] IN
       /\ cache' = [cache EXCEPT !.route[n] = new, !.fresh = @ \cup {n}]
       /\ queued' = queued
            \cup (IF ~Same(old, new) \/ old.fin # new.fin \/ old.ann # new.ann
                  THEN {n} ELSE {})
            \cup (IF Same(old, new) THEN {} ELSE Naming({old.parent, new.parent}))
    /\ UNCHANGED <<route, gw, cls, svc, bundle, rec, lb, parts, spent>> /\ Remember

(* The indexes a Gateway is looked up in: spec, status and annotations. *)
statusParentGatewayKeys(r) == {r.st.parent}
boundGatewayKey(r) == r.ann[1]
GatewayKeys(r) == {r.parent, boundGatewayKey(r)} \cup statusParentGatewayKeys(r)
SyncGateway(g) ==
    /\ cache.gw[g] # gw[g]
    /\ cache' = [cache EXCEPT !.gw[g] = gw[g]]
    /\ queued' = queued \cup {m \in Names : g \in GatewayKeys(cache.route[m])}
    /\ UNCHANGED <<route, gw, cls, svc, bundle, rec, lb, parts, spent>> /\ Remember

SyncClass ==
    /\ cache.cls # cls
    /\ cache' = [cache EXCEPT !.cls = cls]
    /\ UNCHANGED <<route, gw, cls, svc, bundle, queued, rec, lb, parts, spent>> /\ Remember

SyncService(n) ==
    /\ cache.svc[n] # svc[n]
    /\ cache' = [cache EXCEPT !.svc[n] = svc[n]]
    /\ queued' = queued \cup (IF cache.route[n] = NoRoute THEN {}
                              ELSE {n} \cup Naming({cache.route[n].parent}))
    /\ UNCHANGED <<route, gw, cls, svc, bundle, rec, lb, parts, spent>> /\ Remember

-----------------------------------------------------------------------------
(* The Gateway reconciler, by its effects: bind, build or repair, report,    *)
(* and, once the status says so, tear down everything below the Gateway and  *)
(* unbind.  Its provider calls wait for the lock of the Gateway UID.         *)
Locked == IF rec.pc \in Cleaning THEN rec.u
          ELSE IF rec.pc \in Ensuring THEN rec.g.uid ELSE NoUID
HasParts(u) == \E x \in RouteUIDs : parts[u][x] # "none"

Live(g) == gw[g] # NoGateway /\ ~gw[g].deleting /\ cls.ours /\ cls.supported /\ bundle
Serving(g) == Live(g) /\ ~cls.params /\ gw[g].kind = "ok"
              /\ gw[g].ann \in {0, gw[g].port}
Condemned(g) == gw[g].ann # 0 /\ (\/ gw[g].deleting \/ ~cls.ours
                                  \/ (Live(g) /\ ~Serving(g)
                                      /\ gw[g].prog = <<"False", gw[g].gen>>))

WriteGateway(g, new) ==
    /\ gw' = [gw EXCEPT ![g] = new]
    /\ UNCHANGED <<route, cls, svc, bundle, cache, queued, rec, lb, parts>> /\ Remember
GatewayBinds(g) ==
    /\ Serving(g) /\ gw[g].ann = 0
    /\ WriteGateway(g, [gw[g] EXCEPT !.ann = gw[g].port]) /\ UNCHANGED spent
GatewayBuilds(g) ==
    LET u == gw[g].uid IN
    /\ Serving(g) /\ gw[g].ann # 0 /\ u # Locked
    /\ lb[u] = "none" \/ (lb[u] = "down" /\ ~HasParts(u))
    /\ lb' = [lb EXCEPT ![u] = "up"]
    /\ UNCHANGED <<route, gw, cls, svc, bundle, cache, queued, rec, parts, spent>>
    /\ Remember
GatewayReports(g) ==
    LET st == IF Serving(g) /\ lb[gw[g].uid] = "up" THEN "True" ELSE "False"
        new == [gw[g] EXCEPT !.prog = <<st, gw[g].gen>>, !.ver = FALSE] IN
    /\ Live(g) /\ (Serving(g) => gw[g].ann # 0) /\ new # gw[g]
    /\ WriteGateway(g, new) /\ UNCHANGED spent
GatewayReportsVersion(g) ==    \* Accepted becomes Unknown, Programmed may stay
    /\ gw[g] # NoGateway /\ ~gw[g].deleting /\ ~gw[g].ver
    /\ cls.ours /\ ~(cls.supported /\ bundle)
    /\ WriteGateway(g, [gw[g] EXCEPT !.ver = TRUE,
                           !.prog = IF @[2] = gw[g].gen THEN @ ELSE <<"Unknown", gw[g].gen>>])
    /\ UNCHANGED spent
GatewayTearsDown(g) ==
    LET u == gw[g].uid IN
    /\ Condemned(g) /\ u # Locked
    /\ \/ /\ \E x \in RouteUIDs : /\ parts[u][x] # "none"
                                  /\ parts' = [parts EXCEPT ![u][x] = Shrunk(@)]
          /\ UNCHANGED lb
       \/ /\ ~HasParts(u) /\ lb[u] # "none"
          /\ lb' = [lb EXCEPT ![u] = "none"] /\ UNCHANGED parts
    /\ UNCHANGED <<route, gw, cls, svc, bundle, cache, queued, rec, spent>> /\ Remember
GatewayUnbinds(g) ==
    /\ Condemned(g) /\ lb[gw[g].uid] = "none"
    /\ WriteGateway(g, IF gw[g].deleting THEN NoGateway ELSE [gw[g] EXCEPT !.ann = 0])
    /\ UNCHANGED spent

-----------------------------------------------------------------------------
(* Users edit, delete and create routes, Gateways and Services; recreate the *)
(* class for another controller, back, or with parameters; upgrade the CRDs; *)
(* lose binding annotations; disable a load balancer.                        *)
UserWrites(n, r) ==
    /\ WriteRoute(n, r)
    /\ rec' = IF rec.n = n THEN [rec EXCEPT !.fresh = FALSE] ELSE rec
    /\ UNCHANGED <<gw, cls, svc, bundle, queued, lb, parts>> /\ Remember
Seconds == {t \in RouteUIDs :       \* a creation timestamp of now
              /\ \A m \in Names : route[m].second <= t
              /\ \E m \in Names : route[m].second \in {t, t - 1}}
CreateRoute(n) ==
    /\ n \in spent.in.names /\ route[n] = NoRoute /\ Spend("routes")
    /\ \E p \in spent.in.parents, s \in spent.in.shapes, t \in Seconds :
           UserWrites(n, [NoRoute EXCEPT !.uid = spent'.routes, !.second = t, !.gen = 1,
                                         !.parent = p, !.shape = s])
EditRoute(n) ==
    /\ route[n] # NoRoute /\ Spend("edits")
    /\ \E p \in spent.in.parents \cup {0}, s \in spent.in.shapes :
           /\ <<p, s>> # <<route[n].parent, route[n].shape>>
           /\ UserWrites(n, [route[n] EXCEPT !.gen = @ + 1, !.parent = p, !.shape = s])
DeleteRouteObject(n) ==
    /\ route[n] # NoRoute /\ ~route[n].deleting /\ Spend("edits")
    /\ UserWrites(n, IF route[n].fin = NoUID THEN NoRoute
                     ELSE [route[n] EXCEPT !.deleting = TRUE])
LoseAnnotations(n) ==
    /\ Present(route[n]) /\ Spend("tampers")
    /\ UserWrites(n, [route[n] EXCEPT !.ann = NoUID])

EditGateway(g) ==
    /\ gw[g] # NoGateway /\ Spend("gateways")
    /\ \E s \in spent.in.listeners :
           /\ <<s.port, s.kind>> # <<gw[g].port, gw[g].kind>>
           /\ WriteGateway(g, [gw[g] EXCEPT !.gen = @ + 1, !.port = s.port,
                                            !.kind = s.kind])
DeleteGatewayObject(g) ==
    /\ gw[g] # NoGateway /\ ~gw[g].deleting /\ Spend("gateways")
    /\ WriteGateway(g, IF gw[g].ann = 0 THEN NoGateway
                       ELSE [gw[g] EXCEPT !.deleting = TRUE])
CreateGateway(g) ==
    /\ g \in spent.in.parents /\ gw[g] = NoGateway /\ spent.made[g] < spent.in.made
    /\ spent' = [spent EXCEPT !.made[g] = @ + 1]
    /\ \E s \in spent.in.listeners : WriteGateway(g, NewGateway(<<g, spent'.made[g]>>, s))

WriteClass(c) ==
    /\ cls' = c
    /\ UNCHANGED <<route, gw, svc, bundle, cache, queued, rec, lb, parts>> /\ Remember
ReconcileClass ==
    /\ cls.ours /\ cls.supported # bundle
    /\ WriteClass([cls EXCEPT !.supported = bundle]) /\ UNCHANGED spent
EditClass ==
    /\ Spend("class")
    /\ \E o, p \in BOOLEAN :
           /\ <<o, p>> # <<cls.ours, cls.params>>
           /\ WriteClass([ours |-> o, params |-> p, supported |-> FALSE])
ChangeBundle ==
    /\ Spend("bundle")
    /\ bundle' = ~bundle
    /\ UNCHANGED <<route, gw, cls, svc, cache, queued, rec, lb, parts>> /\ Remember
EditService(n) ==
    /\ n \in spent.in.names /\ Spend("backends")
    /\ svc' \in {[svc EXCEPT ![n] = s] : s \in spent.in.services[n] \ {svc[n]}}
    /\ UNCHANGED <<route, gw, cls, bundle, cache, queued, rec, lb, parts>> /\ Remember
Drift(u) ==
    /\ lb[u] = "up" /\ Spend("drifts")
    /\ lb' = [lb EXCEPT ![u] = "down"]
    /\ UNCHANGED <<route, gw, cls, svc, bundle, cache, queued, rec, parts>> /\ Remember
Crash ==
    /\ Spend("crashes")
    /\ rec' = Idle /\ queued' = {n \in Names : route[n] # NoRoute}
    /\ cache' = [route |-> route, gw |-> gw, cls |-> cls, svc |-> svc, fresh |-> Names]
    /\ UNCHANGED <<route, gw, cls, svc, bundle, lb, parts>> /\ Remember

-----------------------------------------------------------------------------
Starting ==
    \E n \in Names :
        \/ ReconcileIgnored(n) \/ ReconcileError(n) \/ ReconcileDelete(n)
        \/ ReconcileVersion(n) \/ ReconcileUnmanaged(n) \/ ReconcileRejected(n)
        \/ ReconcileSelected(n)
Continuing ==
    \/ Check \/ DetachPrevious \/ Detach
    \/ CleanupObserveRoute \/ CleanupObserveParent \/ CleanupObserveClass
    \/ CleanupObserveBundle \/ CleanupObserveParentAgain \/ CleanupObserveClassAgain
    \/ CleanupEvaluateSlot \/ CleanupListRoutes \/ CleanupEvaluateRival
    \/ CleanupBuildModel \/ SealCleanup
    \/ DeleteProgress \/ DeleteReady \/ DeleteConflict
    \/ PatchCleanupFailure \/ ClearBinding
    \/ ObserveRoute \/ ObserveGateway \/ ObserveClass
    \/ EvaluateSlot \/ ListRoutes \/ EvaluateRival \/ BuildModel
    \/ SealBundle \/ SealRoute \/ SealGateway \/ SealClass \/ BindRoute
    \/ EnsureWait \/ EnsureProgress \/ EnsureRepair \/ EnsureReady \/ EnsureConflict
    \/ VersionObserveRoute \/ VersionObserveParent \/ VersionObserveBundle
    \/ PatchHTTPRoute
GatewayActs(g) ==
    \/ GatewayBinds(g) \/ GatewayBuilds(g) \/ GatewayReports(g)
    \/ GatewayReportsVersion(g) \/ GatewayTearsDown(g) \/ GatewayUnbinds(g)
Environment ==
    \/ EnsureFailure \/ DeleteFailure \/ Crash \/ EditClass \/ ChangeBundle
    \/ \E n \in Names : \/ CreateRoute(n) \/ EditRoute(n) \/ DeleteRouteObject(n)
                        \/ LoseAnnotations(n) \/ EditService(n)
    \/ \E g \in Gateways : EditGateway(g) \/ DeleteGatewayObject(g) \/ CreateGateway(g)
    \/ \E u \in UIDs : Drift(u)

Next ==
    \/ Starting \/ Continuing \/ Environment \/ SyncClass \/ ReconcileClass
    \/ \E n \in Names : SyncRoute(n) \/ SyncService(n)
    \/ \E g \in Gateways : SyncGateway(g) \/ GatewayActs(g)

Spec == Init /\ [][Next]_vars

(* The process runs, the queue is served in turn, watches deliver, and the  *)
(* other two reconcilers make progress.                                     *)
Fairness ==
    /\ WF_vars(Continuing) /\ WF_vars(SyncClass) /\ WF_vars(ReconcileClass)
    /\ \A n \in Names : /\ WF_vars(SyncRoute(n)) /\ WF_vars(SyncService(n))
                        /\ SF_vars(ReconcileIgnored(n) \/ ReconcileDelete(n)
                             \/ ReconcileVersion(n) \/ ReconcileUnmanaged(n)
                             \/ ReconcileRejected(n) \/ ReconcileSelected(n))
    /\ \A g \in Gateways : /\ WF_vars(SyncGateway(g))
                           /\ SF_vars(GatewayActs(g))
FairSpec == Spec /\ Fairness

-----------------------------------------------------------------------------
(* Types of the live objects, the resources and the control state; a route's *)
(* finalizer and annotations name a Gateway UID that existed.                *)
TypeOK ==
    /\ \A n \in Names : LET r == route[n] IN
         /\ r.uid \in RouteUIDs \cup {0} /\ r.parent \in Gateways \cup {0}
         /\ r.st.parent \in Gateways \cup {0}
         /\ {r.ann, r.fin} \subseteq UIDs \cup {NoUID}
         /\ Present(r) => r.ann[2] <= spent.made[r.ann[1]]
    /\ \A g \in Gateways : gw[g].uid \in {u \in UIDs : u[1] = g} \cup {NoUID}
    /\ parts \in [UIDs -> [RouteUIDs -> {"none", "partial", "built"}]]
    /\ lb \in [UIDs -> {"none", "up", "down"}]
    /\ queued \subseteq Names /\ cache.fresh \subseteq Names
    /\ rec.pc \in Cleaning \cup Ensuring \cup
         {"idle", "check", "prev", "detach", "progress", "diag", "clear",
          "version1", "version2", "version3", "patch"}

(* Whatever exists in OpenStack for a route can be found and removed again:  *)
(* the route exists, its finalizer names that very Gateway, its annotations  *)
(* too (unless a user removed them), and the Gateway with that UID exists    *)
(* and is bound.  So a binding precedes the first create, moves to another   *)
(* Gateway only over an empty graph, and goes last, although it is cleared   *)
(* outside the lock and from another read than the deletion.  (With TypeOK.) *)
BoundRoute ==
    TypeOK /\ \A u \in UIDs, x \in RouteUIDs : parts[u][x] # "none" =>
        /\ \E n \in Names : /\ route[n].uid = x /\ route[n].fin = u
                            /\ route[n].ann \in {u, NoUID}
        /\ gw[u[1]].uid = u /\ gw[u[1]].ann # 0 /\ lb[u] # "none"

(* At most one route has resources below a Gateway, whoever was selected     *)
(* when: the selection is not repeated by the seal, the provider's ownership *)
(* check is what keeps a newly selected route out until the old one left.    *)
OneRoute ==
    \A u \in UIDs : \A x, y \in RouteUIDs :
        parts[u][x] # "none" /\ parts[u][y] # "none" => x = y

(* A binding is written, and a route's resources are created, only if at one *)
(* moment of the snapshot the live route and the live Gateway were the ones  *)
(* decided on and the route's Service was usable, and if every other route   *)
(* left the Gateway's slot to this one at some moment of the snapshot: it    *)
(* was no older supported route of the Gateway, or its Service ruled it out. *)
(* These moments may differ: the seal repeats none of the selection's reads, *)
(* so all of it together may have held at no single moment.                  *)
EnsureAuthorized ==
    [][BindRoute \/ EnsureProgress =>
         <<"usable", 0>> \in seen /\ \A m \in Others : <<"yields", m>> \in seen]_vars

(* Resources of a route are deleted only if, at one moment of the snapshot,  *)
(* the live objects did not ask for the route there (deletion, another       *)
(* Gateway or class owner, a refused spec, an unusable Service), or if some  *)
(* route was its older competitor at one moment and had a Service that can   *)
(* hold the slot at one (not always the same one).  Stale caches alone never *)
(* detach a route (architecture.md, cleanup rebuilds the live decision).     *)
DetachAuthorized ==
    [][DeleteProgress =>
         \/ <<"unwanted", 0>> \in seen
         \/ \E m \in Others : {<<"older", m>>, <<"reserves", m>>} \subseteq seen]_vars

(* A live route that says Programmed for its current generation is not torn  *)
(* down by the route reconciler before that status has been withdrawn.       *)
WithdrawnFirst ==
    [][DeleteProgress => LET r == route[rec.n] IN
         r.deleting \/ ~(r.st.prog = "True" /\ r.st.gen = r.gen)]_vars

(* Under an unsupported CRD bundle the route reconciler changes no resources *)
(* but those of deleted routes, of routes that no longer name a managed      *)
(* Gateway, and of routes whose own Gateway is being deleted.                *)
BundleFence ==
    [][DeleteProgress \/ EnsureProgress \/ EnsureRepair =>
         <<"bundle", 0>> \in seen \/ <<"exempt", 0>> \in seen]_vars

(* Routes agree with what users last asked for: a wanted one is programmed   *)
(* on its Gateway, an unwanted one is bound to none.                         *)
Converged ==
    \A n \in Names : LET r == route[n] IN
        r # NoRoute =>
            /\ ~r.deleting
            /\ IF r.parent # 0 /\ Wanted(n, r, gw[r.parent].uid)
               THEN Serving(r.parent) =>
                      /\ r.st = [parent |-> r.parent, prog |-> "True", gen |-> r.gen]
                      /\ BoundTo(r, gw[r.parent].uid)
                      /\ parts[r.ann][r.uid] = "built"
               ELSE (cls.ours => cls.supported /\ ~cls.params /\ bundle) => ~HasBinding(r)

(* When users stop, routes reach what they asked for, although several ends  *)
(* of a reconciliation rely on a watch to be woken again.  (The wake-ups by   *)
(* Services are those of RouteBackends: the cache here may skip a change of a *)
(* Service and its undoing, as a relist does.)                               *)
Converges == <>[](Converged \/ spent.backends > 0)

(* "The already bound HTTPRoute performs the repair" (architecture.md): a    *)
(* disabled load balancer is enabled again, by the route bound to it or, once *)
(* that route has left, by the Gateway.  The exception is the code's: with a *)
(* recorded cleanup failure the route must rebind first, which it may only   *)
(* below a Programmed Gateway, and the Gateway waits for the route.          *)
RepairHappens ==
    []<>(\A u \in UIDs : lb[u] = "down" =>
           \E n \in Names : route[n].diag /\ BoundTo(route[n], u))
=============================================================================
