---------------------------- MODULE RouteBackends ----------------------------
(***************************************************************************)
(* How the backends of HTTPRoutes reach their pools.  Services,            *)
(* EndpointSlices and Nodes change; each kind's informer brings the        *)
(* changes to its cache in order and at its own pace; a predicate and a    *)
(* mapper, which looks at the caches, decide which routes to wake; the one *)
(* worker decides from the caches, then reads route, Services,             *)
(* EndpointSlices and Nodes live, one request at a time, and hands the     *)
(* members it found to the provider.  Nothing else wakes a route whose     *)
(* backend is not usable.                                                  *)
(* The routes of Names name the same programmed Gateway; lower numbers are *)
(* the older routes.  HTTPRouteReconciler has what is fixed here: Gateway, *)
(* class, bundle, deletion, provider failures.                             *)
(***************************************************************************)
EXTENDS Integers, Sequences, FiniteSets, TLC

(* Scenarios is a sequence of records of                                     *)
(*   names     the HTTPRoutes,                                               *)
(*   world     the objects at the start: [route, svc, slice, node],          *)
(*   refs      what a route may be edited to name: [backend, port],          *)
(*   services  what a Service may become: NoService, or a record of type,    *)
(*             policy and ports, port -> [http, nodePort],                   *)
(*   slices    what an EndpointSlice may become: NoSlice, or [svc, eps],     *)
(*   nodes     Node -> what it may become: NoNode or a record,               *)
(*   resync    whether the resync interval may run out,                      *)
(*   counted   whether a change of a Service's spec raises its generation,   *)
(*             which is the API server's business,                           *)
(* and a bound for each of                                                   *)
CONSTANTS Scenarios, Names, Services, Slices, Nodes
Bounded == {"route", "svc", "slice", "node", "troubles", "restarts", "relists"}
Kinds == {"route", "svc", "slice", "node"}

None == "none"
Statuses == {None, "pending", "rejected", "failed", "progressing", "programmed"}
Routes == [gen : Nat, backend : Services, port : Nat, bound : BOOLEAN, st : Statuses]

(* Older routes have the lower numbers; the objects are there by kind and name. *)
ASSUME BackendScenarios ==
    /\ Names \subseteq Nat \ {0} /\ None \notin Nodes
    /\ \A i \in DOMAIN Scenarios : LET s == Scenarios[i] IN
          /\ \A k \in Bounded : s[k] \in Nat
          /\ s.names \subseteq Names
          /\ s.world = [k \in Kinds |-> s.world[k]] /\ s.world.route \in [s.names -> Routes]
          /\ s.refs \subseteq [backend : Services, port : Nat]

VARIABLES live,     \* the objects in the API server, by kind
          cache,    \* the informers' copies
          coming,   \* kind -> its states the watch has yet to deliver
          queued,   \* names in the workqueue
          due,      \* names the workqueue adds when the resync interval is over
          rec,      \* the reconciliation under way
          pool,     \* name -> the members of its pool
          steady,   \* who has backed the route ever since rec's snapshot began (history)
          spent     \* environment steps, per kind, and their scenario

Scenario == Scenarios[spent.in]
Here == Scenario.names

vars == <<live, cache, coming, queued, due, rec, pool, steady, spent>>

NoService == [gen |-> 0, type |-> None, policy |-> None, ports |-> <<>>]
NoSlice == [svc |-> None, eps |-> {}]
NoRoute == [gen |-> 0, backend |-> None, port |-> 0, bound |-> FALSE, st |-> None]
NoNode == [addr |-> None, ready |-> None, unschedulable |-> FALSE, deleting |-> TRUE]
NoPool == {<<None, 0>>}
Idle == [pc |-> "idle", n |-> 0, r |-> NoRoute, for |-> None, plan |-> None,
         late |-> FALSE, svc |-> NoService, local |-> {}, members |-> {}]
Absent(kind) == [route |-> NoRoute, svc |-> NoService, slice |-> NoSlice, node |-> NoNode][kind]

-----------------------------------------------------------------------------
(* What the code makes of a Service, of EndpointSlices and of Nodes. *)

endpointReady(e) == ~e.terminating /\ e.ready
readyNode(x) == ~x.deleting /\ ~x.unschedulable /\ x.ready = "True"

(* "pending": the port may still appear.  "rejected": it cannot be used. *)
nodePortForBackend(s, port) ==
    IF port \notin DOMAIN s.ports THEN "pending"
    ELSE IF ~s.ports[port].http \/ s.ports[port].nodePort = 0 THEN "rejected" ELSE "ok"

(* evaluateRouteSlotWithReader *)
canReserve(svcs, r) ==
    LET s == svcs[r.backend] IN
    s = NoService \/ (s.type = "NodePort" /\ nodePortForBackend(s, r.port) # "rejected")

(* isSelectedRouteWithReader, once the route itself can reserve the slot. *)
isSelectedRoute(routes, svcs, n) ==
    \A m \in Here : m < n => ~canReserve(svcs, routes[m])

(* nodePortMembersWithReader: its two lists. *)
readyEndpoints(slices, s) ==
    {e \in UNION {slices[k].eps : k \in {j \in Slices : slices[j].svc = s}} : endpointReady(e)}
localNodes(eps) == {e.node : e \in eps} \ {None}

nodePortMembers(nodes, s, port, local) ==
    {<<nodes[x].addr, s.ports[port].nodePort>> :
        x \in {y \in Nodes : /\ readyNode(nodes[y]) /\ nodes[y].addr # None
                             /\ s.policy = "Local" => y \in local}}

-----------------------------------------------------------------------------
(* Which changes wake which routes.  A predicate compares the old and the   *)
(* new object of an update; creations and deletions always pass.  The       *)
(* handler maps the old and the new object of an update.                    *)

ServicePredicate(old, new) == old.gen # new.gen
EndpointSlicePredicate(old, new) ==
    LET ready(k) == {e \in k.eps : endpointReady(e)} IN
    \/ old.svc # new.svc
    \/ (ready(old) = {}) # (ready(new) = {})
    \/ localNodes(ready(old)) # localNodes(ready(new))
NodePredicate(old, new) == old # new    \* every field is part of nodeBackendState
HTTPRouteReconcilePredicate(old, new) == old.gen # new.gen \/ old.bound # new.bound
HTTPRoutePeerPredicate(old, new) == old.gen # new.gen

Changed(kind, old, new) ==
    \/ old = Absent(kind) \/ new = Absent(kind)
    \/ (kind = "svc" /\ ServicePredicate(old, new))
    \/ (kind = "slice" /\ EndpointSlicePredicate(old, new))
    \/ (kind = "node" /\ NodePredicate(old, new))

(* The Services a route is indexed by. *)
backendServiceKeys(r) == {r.backend} \ {None}

(* Mutant of enqueueHTTPRoutesForServiceKey: the competing routes sleep on. *)
enqueueHTTPRoutesForServiceKeyOnly(c, s) == {n \in Here : s \in backendServiceKeys(c.route[n])}

(* A route that names the Service, and all that compete for its Gateway. *)
enqueueHTTPRoutesForServiceKey(c, s) ==
    IF \E n \in Here : s \in backendServiceKeys(c.route[n]) THEN Here ELSE {}
enqueueHTTPRoutesForEndpointSlice(c, k) ==
    IF k.svc = None THEN {} ELSE enqueueHTTPRoutesForServiceKey(c, k.svc)
nodeHasReadyEndpoint(c, s, x) == x \in localNodes(readyEndpoints(c.slice, s))
enqueueHTTPRoutesForNode(c, x) ==
    {n \in Here : LET s == c.route[n].backend IN
        /\ c.svc[s].type = "NodePort"
        /\ c.svc[s].policy = "Local" => nodeHasReadyEndpoint(c, s, x)}

(* The routes woken when kind's cache goes from old to new, other caches as in c. *)
Woken(c, kind, old, new) ==
    LET moved == {i \in DOMAIN new : old[i] # new[i]} IN
    CASE kind = "route" ->
           {i \in moved : HTTPRouteReconcilePredicate(old[i], new[i])}
           \cup (IF \E i \in moved : HTTPRoutePeerPredicate(old[i], new[i]) THEN Here ELSE {})
      [] kind = "svc" -> UNION {enqueueHTTPRoutesForServiceKey(c, i) :
                                  i \in {j \in moved : Changed(kind, old[j], new[j])}}
      [] kind = "slice" -> UNION {enqueueHTTPRoutesForEndpointSlice(c, old[i])
                                  \cup enqueueHTTPRoutesForEndpointSlice(c, new[i]) :
                                    i \in {j \in moved : Changed(kind, old[j], new[j])}}
      [] kind = "node" -> UNION {enqueueHTTPRoutesForNode(c, i) :
                                   i \in {j \in moved : Changed(kind, old[j], new[j])}}

-----------------------------------------------------------------------------
(* What a route's members are, said once and for all objects at one moment; *)
(* the properties measure the code against it.                              *)
Fit(x) == x.ready = "True" /\ ~x.unschedulable /\ ~x.deleting /\ x.addr # None
Alive(w, s) == {e \in UNION {w.slice[k].eps : k \in {j \in Slices : w.slice[j].svc = s}} :
                  e.ready /\ ~e.terminating}
Usable(w, r) ==
    LET s == w.svc[r.backend] IN
    /\ s.type = "NodePort" /\ r.port \in DOMAIN s.ports
    /\ s.ports[r.port].http /\ s.ports[r.port].nodePort # 0
Claims(w, r) ==
    LET s == w.svc[r.backend] IN
    s = NoService \/ (s.type = "NodePort" /\ (r.port \in DOMAIN s.ports => Usable(w, r)))
(* Each Node that backs the route, its member, and the policy under which. *)
Backers(w, n) ==
    LET r == w.route[n]
        s == w.svc[r.backend]
        alive == Alive(w, r.backend) IN
    IF ~Usable(w, r) \/ alive = {} \/ \E m \in Here : m < n /\ Claims(w, w.route[m]) THEN {}
    ELSE {<<x, <<w.node[x].addr, s.ports[r.port].nodePort>>, s.policy>> :
            x \in {y \in Nodes : /\ Fit(w.node[y])
                                 /\ s.policy = "Local" => \E e \in alive : e.node = y}}
Members(backers) == {b[2] : b \in backers}
Backing(w, n) == Members(Backers(w, n))
Wanted(w, n) == IF Backing(w, n) = {} THEN NoPool ELSE Backing(w, n)

(* steady: the backers at every moment since the snapshot of the             *)
(* reconciliation under way began.                                           *)
Reading == {"select", "service", "slices", "nodes", "mutate"}
Remember ==
    steady' = IF rec'.pc \notin Reading THEN {}
              ELSE IF rec'.pc = "select" /\ rec.pc # "select" THEN Backers(live', rec'.n)
              ELSE steady \cap Backers(live', rec'.n)

-----------------------------------------------------------------------------
(* Every route has settled. *)
Init ==
    /\ \E i \in DOMAIN Scenarios : spent = [k \in Bounded \cup {"in"} |-> IF k = "in" THEN i ELSE 0]
    /\ live = Scenario.world
    /\ cache = live
    /\ coming = [k \in Kinds |-> <<>>]
    /\ queued = {}
    /\ rec = Idle
    /\ pool = [n \in Names |-> IF n \in Here THEN Wanted(live, n) ELSE NoPool]
    /\ due = {n \in Here : pool[n] # NoPool}
    /\ steady = {}

May(kind) == spent[kind] < Scenario[kind]
Spend(kind) == spent' = [spent EXCEPT ![kind] = @ + 1]

(* Route states that differ in status only have no event between them: of    *)
(* such a run the watch keeps the last.                                      *)
Unwritten(routes) == [n \in Here |-> [routes[n] EXCEPT !.st = None]]
Write(kind, i, new) ==
    /\ live' = [live EXCEPT ![kind][i] = new]
    /\ LET todo == coming[kind]
           last == todo[Len(todo)] IN
       coming' = IF live[kind][i] = new THEN coming
                 ELSE IF kind = "route" /\ todo # <<>> /\ Unwritten(last) = Unwritten(live'.route)
                 THEN [coming EXCEPT !.route[Len(todo)] = live'.route]
                 ELSE [coming EXCEPT ![kind] = Append(@, live'[kind])]
Still == UNCHANGED <<live, cache, coming, pool, due, spent>> /\ Remember

(* How a reconciliation goes on: to its next request or to its end, with the *)
(* key back in the queue or not.                                             *)
Go(pc) == rec' = [rec EXCEPT !.pc = pc] /\ UNCHANGED queued
Again == rec' = Idle /\ queued' = queued \cup {rec.n}
Stop == rec' = Idle /\ UNCHANGED queued
(* The route is not to be served: an ensure turns to the detachment, the     *)
(* cleanup's own snapshot agrees with it.                                    *)
Refuse(plan) ==
    IF rec.for = "ensure"
    THEN rec' = [rec EXCEPT !.pc = "check", !.plan = plan, !.svc = NoService, !.local = {}]
         /\ UNCHANGED queued
    ELSE rec' = [rec EXCEPT !.pc = "mutate", !.svc = NoService, !.local = {}] /\ UNCHANGED queued

(* reconcileNormal: buildCachedRouteDecision decides from the caches. *)
Begin(n) ==
    /\ rec.pc = "idle" /\ n \in queued
    /\ queued' = queued \ {n}
    /\ LET r == cache.route[n]
           chosen == canReserve(cache.svc, r) /\ isSelectedRoute(cache.route, cache.svc, n) IN
       rec' = [Idle EXCEPT !.pc = IF chosen THEN "select" ELSE "check", !.n = n, !.r = r,
                           !.for = "ensure", !.plan = IF chosen THEN None ELSE "rejected"]
    /\ Still

Same(a, b) == a.gen = b.gen

(* Mutant of CheckpointNeeded: the checkpoint is never reached. *)
CheckpointAlwaysNeeded == TRUE

(* routeCleanupStatusCheckpointNeeded: the status says so first, in an earlier *)
(* reconciliation, or still reports the failure of one.                        *)
CheckpointNeeded ==
    LET now == live.route[rec.n] IN
    now.st # rec.plan /\ ~(rec.r.st = "failed" /\ now.st = "failed")

(* setRouteStatusesAndDetach; detachRoute starts from the cached route. *)
Check ==
    /\ rec.pc = "check"
    /\ LET now == live.route[rec.n]
           copy == cache.route[rec.n] IN
       IF ~Same(now, rec.r) THEN Again /\ UNCHANGED <<live, coming>>
       ELSE IF CheckpointNeeded
       THEN Write("route", rec.n, [now EXCEPT !.st = rec.plan]) /\ Again
       ELSE IF ~Same(copy, rec.r) THEN Again /\ UNCHANGED <<live, coming>>
       ELSE IF copy.bound
       THEN /\ rec' = [rec EXCEPT !.pc = "select", !.r = copy, !.for = "cleanup",
                                  !.late = (now.st # rec.plan)]
            /\ UNCHANGED <<live, coming, queued>>
       ELSE Write("route", rec.n, [now EXCEPT !.st = rec.plan]) /\ Stop
    /\ UNCHANGED <<cache, pool, due, spent>> /\ Remember

-----------------------------------------------------------------------------
(* The live reads of buildRouteValidationSnapshot and of                     *)
(* buildRouteCleanupSnapshot: the route and its competitors, then one        *)
(* request each for what the members are made of.  A cleanup insists on the  *)
(* resource version it was decided for.                                      *)
Current == IF rec.for = "ensure" THEN Same(live.route[rec.n], rec.r)
           ELSE live.route[rec.n] = rec.r
ObserveRoute ==
    /\ rec.pc = "select"
    /\ LET r == live.route[rec.n] IN
       IF ~Current THEN Again
       ELSE IF canReserve(live.svc, r) /\ isSelectedRoute(live.route, live.svc, rec.n)
       THEN rec' = [rec EXCEPT !.pc = "service", !.r = r] /\ UNCHANGED queued
       ELSE Refuse("rejected")
    /\ Still

(* buildRouteSpecWithReader *)
ObserveService ==
    /\ rec.pc = "service"
    /\ LET s == live.svc[rec.r.backend] IN
       IF s = NoService THEN Refuse("pending")
       ELSE IF s.type # "NodePort" THEN Refuse("rejected")
       ELSE IF nodePortForBackend(s, rec.r.port) # "ok"
       THEN Refuse(nodePortForBackend(s, rec.r.port))
       ELSE rec' = [rec EXCEPT !.pc = "slices", !.svc = s] /\ UNCHANGED queued
    /\ Still
ObserveSlices ==
    /\ rec.pc = "slices"
    /\ LET ready == readyEndpoints(live.slice, rec.r.backend)
           local == localNodes(ready) IN
       IF ready = {} \/ (rec.svc.policy = "Local" /\ local = {}) THEN Refuse("pending")
       ELSE rec' = [rec EXCEPT !.pc = "nodes", !.local = local] /\ UNCHANGED queued
    /\ Still
(* Mutant of ObserveNodes: a cleanup goes on although there are members. *)
ObserveNodesTrusting ==
    /\ rec.pc = "nodes"
    /\ LET members == nodePortMembers(live.node, rec.svc, rec.r.port, rec.local) IN
       IF members = {} \/ rec.for = "cleanup" THEN Refuse("pending")
       ELSE rec' = [rec EXCEPT !.pc = "mutate", !.members = members, !.svc = NoService, !.local = {}]
            /\ UNCHANGED queued
    /\ Still

(* A route found to be wanted after all is not detached. *)
ObserveNodes ==
    /\ rec.pc = "nodes"
    /\ LET members == nodePortMembers(live.node, rec.svc, rec.r.port, rec.local) IN
       IF members = {} THEN Refuse("pending")
       ELSE IF rec.for = "cleanup" THEN Again
       ELSE rec' = [rec EXCEPT !.pc = "mutate", !.members = members, !.svc = NoService, !.local = {}]
            /\ UNCHANGED queued
    /\ Still

-----------------------------------------------------------------------------
(* The mutation.  sealRouteMutationSnapshot and sealRouteCleanupSnapshot read *)
(* the route once more; a new route is bound first.                           *)
SealFails ==
    /\ rec.pc = "mutate" /\ ~Current
    /\ Again
    /\ Still
Ensuring == rec.pc = "mutate" /\ rec.for = "ensure" /\ Current
Cleaning == rec.pc = "mutate" /\ rec.for = "cleanup" /\ Current
Report(st) == Write("route", rec.n, [live.route[rec.n] EXCEPT !.st = st])

BindRoute ==
    /\ Ensuring /\ ~rec.r.bound
    /\ Again
    /\ IF live.route[rec.n] = rec.r
       THEN Write("route", rec.n, [rec.r EXCEPT !.bound = TRUE])
       ELSE UNCHANGED <<live, coming>>
    /\ UNCHANGED <<cache, pool, due, spent>> /\ Remember

(* EnsureRoute refuses a load balancer that has another route's pool. *)
Conflict == \E m \in Names \ {rec.n} : pool[m] # NoPool
EnsureConflict ==
    /\ Ensuring /\ rec.r.bound /\ Conflict
    /\ Report("failed") /\ Again
    /\ UNCHANGED <<cache, pool, due, spent>> /\ Remember

(* The calls that bring the pool to the members; ProviderGraph has them one  *)
(* by one.  The next reconciliation finds the pool as it should be.          *)
EnsureProgress ==
    /\ Ensuring /\ rec.r.bound /\ ~Conflict /\ pool[rec.n] # rec.members
    /\ pool' = [pool EXCEPT ![rec.n] = rec.members]
    /\ Report("progressing") /\ Again
    /\ UNCHANGED <<cache, due, spent>> /\ Remember

(* Mutant of EnsureReady: a programmed route is not looked at again. *)
EnsureReadyForever ==
    /\ Ensuring /\ rec.r.bound /\ ~Conflict /\ pool[rec.n] = rec.members
    /\ Report("programmed") /\ Stop
    /\ UNCHANGED <<cache, pool, due, spent>> /\ Remember

(* A programmed route is looked at again after OpenStackResyncAfter. *)
EnsureReady ==
    /\ Ensuring /\ rec.r.bound /\ ~Conflict /\ pool[rec.n] = rec.members
    /\ Report("programmed") /\ Stop
    /\ due' = due \cup {rec.n}
    /\ UNCHANGED <<cache, pool, spent>> /\ Remember

(* DeleteRoute, then clearStoredRouteBinding. *)
Late(st) == IF rec.late THEN rec.plan ELSE st
DeleteRoute ==
    /\ Cleaning /\ pool[rec.n] # NoPool
    /\ pool' = [pool EXCEPT ![rec.n] = NoPool]
    /\ Report(Late(live.route[rec.n].st)) /\ Again
    /\ UNCHANGED <<cache, due, spent>> /\ Remember
ClearBinding ==
    /\ Cleaning /\ pool[rec.n] = NoPool
    /\ Write("route", rec.n, [live.route[rec.n] EXCEPT !.bound = FALSE, !.st = Late(@)])
    /\ Stop
    /\ UNCHANGED <<cache, pool, due, spent>> /\ Remember

(* A request fails: the key goes back to the queue. *)
Trouble ==
    /\ May("troubles") /\ rec.pc # "idle"
    /\ Spend("troubles") /\ Again
    /\ UNCHANGED <<live, cache, coming, pool, due>> /\ Remember

-----------------------------------------------------------------------------
(* The informers. *)
Take(kind, states) ==    \* the cache goes through the states, one by one
    /\ cache' = [cache EXCEPT ![kind] = states[Len(states)]]
    /\ queued' = queued \cup
         UNION {Woken([cache EXCEPT ![kind] = states[i]], kind,
                      IF i = 1 THEN cache[kind] ELSE states[i - 1], states[i]) :
                  i \in 1..Len(states)}
    /\ UNCHANGED <<live, due, rec, pool>>
Deliver(kind) ==
    /\ coming[kind] # <<>>
    /\ LET k == IF kind = "route" THEN Len(coming[kind]) ELSE 1 IN    \* routes in one go
          /\ Take(kind, SubSeq(coming[kind], 1, k))
          /\ coming' = [coming EXCEPT ![kind] = SubSeq(@, k + 1, Len(@))]
    /\ UNCHANGED spent /\ Remember

(* The watch is lost and its history is gone: what lies between is not seen. *)
Relist(kind) ==
    /\ May("relists") /\ Len(coming[kind]) > 1
    /\ Spend("relists")
    /\ Take(kind, <<live[kind]>>)
    /\ coming' = [coming EXCEPT ![kind] = <<>>]
    /\ Remember

(* The workqueue's delayed add; a detachment in between does not cancel it. *)
Resync(n) ==
    /\ n \in due /\ Scenario.resync
    /\ due' = due \ {n} /\ queued' = queued \cup {n}
    /\ UNCHANGED <<live, cache, coming, rec, pool, spent>> /\ Remember

Restart ==
    /\ May("restarts") /\ Spend("restarts")
    /\ cache' = live /\ coming' = [k \in Kinds |-> <<>>]
    /\ queued' = Here /\ due' = {} /\ rec' = Idle
    /\ UNCHANGED <<live, pool>> /\ Remember

-----------------------------------------------------------------------------
(* Users, the endpoint controller, the kubelets. *)
Change(kind, i, new) ==
    /\ new # live[kind][i]
    /\ Spend(kind) /\ Write(kind, i, new)
    /\ UNCHANGED <<cache, queued, due, rec, pool>> /\ Remember
EditRoute(n) ==
    /\ May("route")
    /\ \E ref \in Scenario.refs : LET r == live.route[n] IN
          /\ ref # [backend |-> r.backend, port |-> r.port]
          /\ Change("route", n, [r EXCEPT !.backend = ref.backend, !.port = ref.port,
                                          !.gen = @ + 1])
ChangeService(s) ==
    /\ May("svc")
    /\ \E new \in Scenario.services : LET old == live.svc[s] IN
          /\ [new EXCEPT !.gen = 0] # [old EXCEPT !.gen = 0]
          /\ Change("svc", s, IF new = NoService THEN NoService
                              ELSE [new EXCEPT !.gen = IF Scenario.counted THEN old.gen + 1 ELSE 1])
ChangeSlice(k) == May("slice") /\ \E new \in Scenario.slices : Change("slice", k, new)
ChangeNode(x) == May("node") /\ \E new \in Scenario.nodes[x] : Change("node", x, new)

Work == \/ Check \/ ObserveRoute \/ ObserveService \/ ObserveSlices \/ ObserveNodes
        \/ SealFails \/ BindRoute \/ EnsureConflict \/ EnsureProgress \/ EnsureReady
        \/ DeleteRoute \/ ClearBinding
Deliveries == \E kind \in Kinds : Deliver(kind)
Resyncs == \E n \in Here : Resync(n)
Next ==
    \/ \E n \in Here : Begin(n)
    \/ Work
    \/ Deliveries
    \/ \E kind \in Kinds : Relist(kind)
    \/ Resyncs
    \/ \E n \in Here : EditRoute(n)
    \/ \E s \in Services : ChangeService(s)
    \/ \E k \in Slices : ChangeSlice(k)
    \/ \E x \in Nodes : ChangeNode(x)
    \/ Trouble
    \/ Restart

Spec == Init /\ [][Next]_vars

(* The worker goes on with what it has begun; the workqueue is first in,     *)
(* first out; watches deliver.  The resync timer is given no fairness here.  *)
Fairness ==
    /\ WF_vars(Work)
    /\ \A n \in Names : SF_vars(Begin(n))
    /\ WF_vars(Deliveries)
FairSpec == Spec /\ Fairness

-----------------------------------------------------------------------------
(* Names, members and the reconciliation's fields have their types: what     *)
(* nodePortMembersWithReader hands to the provider are addresses and NodePorts. *)
TypeOK ==
    /\ queued \subseteq Names /\ due \subseteq Names
    /\ rec.pc \in Reading \cup {"idle", "check"} /\ rec.n \in Names \cup {0}
    /\ rec.plan \in {None, "pending", "rejected"}
    /\ \A n \in Here :
          /\ live.route[n].st \in Statuses
          /\ pool[n] = NoPool \/ \A a \in pool[n] : a[1] # None /\ a[2] \in Nat \ {0}

(* The watches, predicates and mappers lose no change: once every change has *)
(* been delivered, a route that is neither queued nor being reconciled has   *)
(* exactly the pool its live Service, EndpointSlices and Nodes call for, and *)
(* none if an older route takes the Gateway.  (Unless a watch skipped states *)
(* in a relist: then a change and its undoing leave no event.  And unless    *)
(* Services have no generation that grows: ServicePredicate sees nothing     *)
(* else of an update.)  (With TypeOK.)                                       *)
Asleep(n) == n \notin queued /\ rec.n # n /\ \A k \in Kinds : coming[k] = <<>>
NoLostWakeUp ==
    TypeOK /\ (spent.relists = 0 /\ Scenario.counted => \A n \in Here : Asleep(n) => pool[n] = Wanted(live, n))

(* Service, EndpointSlices and Nodes are read one after the other while they *)
(* change.  However they do, a mutation of a pool, a removal of the whole    *)
(* included, keeps each member that was right at every moment since the      *)
(* snapshot behind it began, for the same Node and under the same            *)
(* externalTrafficPolicy.  (A Service read while it was Local and Cluster by *)
(* the time the EndpointSlices are read may cost a member that was right all *)
(* along, until the change wakes the route.)                                 *)
SteadyMembersStay ==
    [][\A n \in Names : pool'[n] # pool[n] => Members(steady) \cap pool[n] \subseteq pool'[n]]_vars

(* When the cluster is quiet the routes settle, woken by events alone: pool  *)
(* and status are those of the live objects.                                 *)
Settled(n) ==
    /\ pool[n] = Wanted(live, n)
    /\ live.route[n].st = "programmed" <=> pool[n] # NoPool
Converges == Scenario.relists = 0 /\ Scenario.counted => <>[](\A n \in Here : Settled(n))

(* Where relists hide changes, or Services change without a generation, the  *)
(* periodic resync still repairs every route that has a pool.                *)
ResyncRepairs ==
    WF_vars(Resyncs)
    => <>[](\A n \in Here : pool[n] # NoPool => pool[n] = Wanted(live, n))
=============================================================================
