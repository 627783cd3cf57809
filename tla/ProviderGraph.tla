---------------------------- MODULE ProviderGraph ----------------------------
(***************************************************************************)
(* One Gateway's OpenStack graph with its two writers: the Gateway and the *)
(* HTTPRoute reconciler.  Each takes the graph lock (Coordinator), observes*)
(* the graph, plans, and sends at most one mutation before it lets go of   *)
(* the lock.  Around them Octavia settles, users edit the Gateway and the  *)
(* route, operators change OpenStack objects by hand, the process crashes, *)
(* and a request whose answer was lost may take effect much later.         *)
(***************************************************************************)
EXTENDS GatewayProvider

CONSTANTS Scenarios,                    \* what the environment may do: records of
                                        \* gateways and routes, the specs to ask for,
                                        \* and bounds edits, drifts, lates, crashes
          NoGateway, NoRoute,           \* nothing is asked for
          Requests                      \* <<path, host>> of HTTP requests

GatewaySpecs == UNION {x.gateways : x \in Scenarios}
RouteSpecs == UNION {x.routes : x \in Scenarios}

ASSUME SpecsAssumption ==
    /\ NoGateway \notin GatewaySpecs /\ NoRoute \notin RouteSpecs
    /\ \A x \in Scenarios : {x.edits, x.drifts, x.lates, x.crashes} \subseteq Nat

VARIABLES cloud,        \* the OpenStack objects
          gatewaySpec,  \* the Gateway's desired state, NoGateway while it is
                        \* deleted or replaced
          routeSpec,    \* the route's desired state
          past,         \* the desired states the route has had (history)
          bound,        \* the route's stored binding names this Gateway
          op,           \* the mutation a writer is about to send, if any
          result,       \* outcome of a writer's last reconciliation
          late,         \* requests given up by the client, still on the wire
          spent         \* environment steps taken, per kind, and their scenario

vars == <<cloud, gatewaySpec, routeSpec, past, bound, op, result, late, spent>>

Writers == {"gateway", "route"}
Idle == [do |-> "idle"]

Init ==
    /\ cloud = EmptyCloud
    /\ \E x \in Scenarios :
          /\ gatewaySpec \in x.gateways
          /\ routeSpec \in x.routes
          /\ spent = [in |-> x, edits |-> 0, drifts |-> 0, lates |-> 0, crashes |-> 0]
    /\ past = {routeSpec}
    /\ bound = FALSE
    /\ op = [w \in Writers |-> Idle]
    /\ result = [w \in Writers |-> "none"]
    /\ late = {}

Spend(kind) == spent[kind] < spent.in[kind] /\ spent' = [spent EXCEPT ![kind] = @ + 1]

-----------------------------------------------------------------------------
(* graph.Acquire: nobody else is between observing and having sent. *)
LockFree == \A w \in Writers : op[w] = Idle

Take(w, step) ==
    IF step \in Outcomes
    THEN result' = [result EXCEPT ![w] = step.do] /\ UNCHANGED op
    ELSE result' = [result EXCEPT ![w] = "progressing"] /\ op' = [op EXCEPT ![w] = step]

(* ensureGateway, or deleteGateway until the Gateway's finalizer is gone. *)
ReconcileGateway(extraFirst) ==
    /\ LockFree
    /\ IF gatewaySpec = NoGateway
       THEN result["gateway"] # "ready" /\ \E step \in {DeleteGateway(cloud, extraFirst)} : Take("gateway", step)
       ELSE \E step \in {EnsureGateway(cloud, gatewaySpec)} : Take("gateway", step)
    /\ UNCHANGED <<cloud, gatewaySpec, routeSpec, past, bound, late, spent>>

(* The binding is stored once the Gateway is Programmed, before any step. *)
BindRoute ==
    /\ LockFree
    /\ routeSpec # NoRoute /\ gatewaySpec # NoGateway /\ ~bound
    /\ result["gateway"] = "ready"
    /\ bound' = TRUE
    /\ UNCHANGED <<cloud, gatewaySpec, routeSpec, past, op, result, late, spent>>

(* Mutant of ReconcileRoute: a bound route, too, waits for a Programmed Gateway. *)
ReconcileRouteWaits ==
    /\ LockFree
    /\ routeSpec # NoRoute /\ gatewaySpec # NoGateway /\ bound
    /\ result["gateway"] = "ready"
    /\ \E step \in {EnsureRoute(cloud, routeSpec, gatewaySpec)} : Take("route", step)
    /\ UNCHANGED <<cloud, gatewaySpec, routeSpec, past, bound, late, spent>>

(* ensureRouteGraph: a bound route goes on while the Gateway is not Programmed. *)
ReconcileRoute ==
    /\ LockFree
    /\ routeSpec # NoRoute /\ gatewaySpec # NoGateway /\ bound
    /\ \E step \in {EnsureRoute(cloud, routeSpec, gatewaySpec)} : Take("route", step)
    /\ UNCHANGED <<cloud, gatewaySpec, routeSpec, past, bound, late, spent>>

(* deleteRoute, for a deleted route or one whose Gateway is gone. *)
CleanupRoute ==
    /\ LockFree
    /\ bound
    /\ routeSpec = NoRoute \/ (gatewaySpec = NoGateway /\ result["gateway"] = "ready")
    /\ \E step \in {DeleteRoute(cloud)} : Take("route", step)
    /\ bound' = (result'["route"] # "ready")
    /\ UNCHANGED <<cloud, gatewaySpec, routeSpec, past, late, spent>>

Sent(m) == IF Accepts(cloud, m) THEN Applied(cloud, m) ELSE cloud

(* The request reaches the service; the answer may or may not come back. *)
Execute(w) ==
    /\ op[w] # Idle
    /\ cloud' = Sent(op[w])
    /\ op' = [op EXCEPT ![w] = Idle]
    /\ UNCHANGED <<gatewaySpec, routeSpec, past, bound, result, late, spent>>

-----------------------------------------------------------------------------
(* The operation times out while the request is still on its way. *)
TimeOut(w) ==
    /\ op[w] # Idle
    /\ Spend("lates")
    /\ late' = late \cup {op[w]}
    /\ op' = [op EXCEPT ![w] = Idle]
    /\ UNCHANGED <<cloud, gatewaySpec, routeSpec, past, bound, result>>

ArriveLate ==
    \E m \in late :
        /\ late' = late \ {m}
        /\ cloud' = Sent(m)
        /\ UNCHANGED <<gatewaySpec, routeSpec, past, bound, op, result, spent>>

(* The process dies before it sends; all it knew is in Kubernetes and OpenStack. *)
Crash ==
    /\ ~LockFree
    /\ Spend("crashes")
    /\ op' = [w \in Writers |-> Idle]
    /\ UNCHANGED <<cloud, gatewaySpec, routeSpec, past, bound, result, late>>

Settle ==
    /\ cloud.lb \in {"PENDING", "DELETING"}
    /\ cloud' = Settled(cloud)
    /\ UNCHANGED <<gatewaySpec, routeSpec, past, bound, op, result, late, spent>>

(* Octavia gives up on an operation, or an operator changes an object. *)
Drift ==
    /\ Spend("drifts")
    /\ \/ cloud.lb \in {"PENDING", "DELETING"} /\ cloud' = [cloud EXCEPT !.lb = "ERROR"]
       \/ cloud.lb = "ACTIVE" /\ cloud' \in Drifts(cloud) \ {cloud}
    /\ UNCHANGED <<gatewaySpec, routeSpec, past, bound, op, result, late>>

(* The Gateway is deleted, or its listener port changes (the old graph goes first). *)
RemoveGateway ==
    /\ gatewaySpec # NoGateway
    /\ Spend("edits")
    /\ gatewaySpec' = NoGateway
    /\ result' = [result EXCEPT !["gateway"] = "none"]
    /\ UNCHANGED <<cloud, routeSpec, past, bound, op, late>>

ReplaceGateway ==
    /\ gatewaySpec = NoGateway /\ result["gateway"] = "ready"
    /\ gatewaySpec' \in spent.in.gateways
    /\ result' = [result EXCEPT !["gateway"] = "none"]
    /\ UNCHANGED <<cloud, routeSpec, past, bound, op, late, spent>>

(* The process restarts with another external network. *)
Reconfigure ==
    /\ gatewaySpec # NoGateway
    /\ Spend("edits")
    /\ gatewaySpec' \in {g \in spent.in.gateways : g.port = gatewaySpec.port /\ g.net # gatewaySpec.net}
    /\ op' = [w \in Writers |-> Idle]
    /\ UNCHANGED <<cloud, routeSpec, past, bound, result, late>>

(* The route changes; a new route starts when the old one is cleaned up. *)
EditRoute ==
    /\ Spend("edits")
    /\ routeSpec' \in (spent.in.routes \cup {NoRoute}) \ {routeSpec}
    /\ routeSpec = NoRoute => ~bound
    /\ past' = (past \cup {routeSpec'}) \ {NoRoute}
    /\ result' = [result EXCEPT !["route"] = "none"]
    /\ UNCHANGED <<cloud, gatewaySpec, bound, op, late>>

Next ==
    \/ \E extraFirst \in BOOLEAN : ReconcileGateway(extraFirst)
    \/ BindRoute \/ ReconcileRoute \/ CleanupRoute
    \/ \E w \in Writers : Execute(w) \/ TimeOut(w)
    \/ ArriveLate \/ Crash \/ Settle \/ Drift
    \/ RemoveGateway \/ ReplaceGateway \/ Reconfigure \/ EditRoute

Spec == Init /\ [][Next]_vars

(***************************************************************************)
(* Requeues keep both reconcilers going, the lock is starvation free       *)
(* (Coordinator, WaitEnds), and every asynchronous operation ends.         *)
(***************************************************************************)
Fairness ==
    /\ SF_vars(\E extraFirst \in BOOLEAN : ReconcileGateway(extraFirst))
    /\ SF_vars(BindRoute \/ ReconcileRoute \/ CleanupRoute)
    /\ \A w \in Writers : WF_vars(Execute(w))
    /\ WF_vars(Settle) /\ WF_vars(ArriveLate)

FairSpec == Spec /\ Fairness
-----------------------------------------------------------------------------
(***************************************************************************)
(* The reference: which requests a route asks for (Gateway API: Exact is   *)
(* equality, PathPrefix compares path elements) and which ones the cloud   *)
(* sends to the pool (Octavia: the first enabled policy by position all of *)
(* whose rules match).                                                     *)
(***************************************************************************)
Elements(path) ==
    LET starts == {i \in DOMAIN path : path[i] # "/" /\ (i = 1 \/ path[i - 1] = "/")}
        end(i) == Min({j \in i .. Len(path) + 1 : j > Len(path) \/ path[j] = "/"})
    IN  [n \in 1 .. Cardinality(starts) |->
            LET i == InOrder(starts)[n] IN SubSeq(path, i, end(i) - 1)]

Wanted(s) ==
    {q \in Requests :
        /\ s.host \in {"", q[2]}
        /\ IF s.type = "Exact" THEN q[1] = (IF s.path = <<>> THEN Slash ELSE s.path)
           ELSE IsPrefix(Elements(s.path), Elements(q[1]))}

RuleMatches(k, v, q) ==
    LET x == IF k = "path" THEN q[1] ELSE <<q[2]>>
    IN  \/ v = NoRule
        \/ v[1] = "EQUAL_TO" /\ x = v[2]
        \/ v[1] = "STARTS_WITH" /\ IsPrefix(v[2], x)

Served(c) ==
    {q \in Requests : \E r \in Roles :
        /\ c.policies[r].up /\ c.policies[r].target
        /\ \A k \in RuleRoles : RuleMatches(k, c.policies[r].rules[k], q)}

(* The pool is the route's: its members, all enabled, and its monitor. *)
PoolComplete(c, s) ==
    /\ c.pool = "ok" /\ c.monitor = s.health
    /\ c.members = [a \in Members |-> IF a \in s.members THEN "ok" ELSE "none"]

AttachedAsAsked(c, g) == c.fips = (IF g.net = "" THEN {} ELSE {g.net})
TrafficOn(c) == c.lb = "ACTIVE" /\ c.lbUp /\ c.listenerUp

-----------------------------------------------------------------------------
(* The state of the graph and of its writers is well formed. *)
TypeOK ==
    /\ cloud.lb \in {"none", "PENDING", "ACTIVE", "DELETING", "ERROR"}
    /\ cloud.fips \subseteq Nets
    /\ Range(cloud.order) = {r \in Roles : HasPolicy(cloud, r)}
    /\ Len(cloud.order) = Cardinality(Range(cloud.order))
    /\ cloud.lb = "none" => cloud = [EmptyCloud EXCEPT !.detached = cloud.detached,
                                                      !.extraLB = cloud.extraLB]
    /\ cloud.port = 0 => cloud.order = <<>> /\ ~cloud.listenerUp
    /\ gatewaySpec \in GatewaySpecs \cup {NoGateway}
    /\ routeSpec \in RouteSpecs \cup {NoRoute}
    /\ \E w \in Writers : op[w] = Idle

(* Nobody else has changed the objects so far, and no request is late. *)
Alone == spent.drifts = 0 /\ spent.lates = 0

(***************************************************************************)
(* With nobody else at the objects, every mutation the adapter plans is    *)
(* one the services accept when it arrives: never into a PENDING load      *)
(* balancer, never a pool that a policy still uses or a load balancer that *)
(* still has children, never an object that is already or no longer there. *)
(***************************************************************************)
NeverRefused == Alone => \A w \in Writers : op[w] # Idle => Accepts(cloud, op[w])

(***************************************************************************)
(* As long as the writers are alone, lost answers, crashes and retries     *)
(* never leave two load balancers, two pools or two Floating IPs, nor a    *)
(* Floating IP on no port: every creation follows a discovery under the    *)
(* lock.  (With TypeOK.)                                                   *)
(***************************************************************************)
NoDuplicates ==
    /\ TypeOK
    /\ Alone => /\ ~cloud.extraLB /\ ~cloud.extraPool /\ ~cloud.detached
                /\ Cardinality(cloud.fips) <= 1

(***************************************************************************)
(* As long as the writers are alone, no request is sent to a route's pool, *)
(* while the route is rewritten, that none of its specs asked for: the     *)
(* policies are disabled before their rules change (buildRouteEnsurePlan)  *)
(* and enabled when all rules are right.                                   *)
(***************************************************************************)
NoMixedTraffic ==
    Alone /\ gatewaySpec # NoGateway =>
        Served(cloud) = {} \/ \E s \in past : Served(cloud) \subseteq Wanted(s)

(***************************************************************************)
(* As long as the writers are alone, a policy starts to take requests only *)
(* when the pool behind it is complete for one of the route's specs:       *)
(* members, monitor and admin state come first in the plan.                *)
(***************************************************************************)
TrafficStartsComplete ==
    [][Alone' /\ (\E r \in Roles : ~cloud.policies[r].up /\ cloud'.policies[r].up)
            => \E s \in past : PoolComplete(cloud, s) /\ Served(cloud') \subseteq Wanted(s)]_vars

RouteDone ==
    IF routeSpec # NoRoute /\ gatewaySpec # NoGateway
    THEN /\ TrafficOn(cloud) /\ cloud.port = gatewaySpec.port
         /\ PoolComplete(cloud, routeSpec) /\ Served(cloud) = Wanted(routeSpec)
    ELSE ~HasRoute(cloud)
GatewayDone ==
    IF gatewaySpec # NoGateway
    THEN TrafficOn(cloud) /\ cloud.port = gatewaySpec.port /\ AttachedAsAsked(cloud, gatewaySpec)
    ELSE cloud.lb = "none"
BecomesReady(w) == result[w] # "ready" /\ result'[w] = "ready"

(***************************************************************************)
(* EnsureRoute answers Ready only when OpenStack routes exactly the        *)
(* requests the HTTPRoute asks for to exactly its members, through an      *)
(* enabled listener and load balancer; DeleteRoute answers Ready only when *)
(* nothing of the route is left.  EnsureGateway answers Ready only for an  *)
(* ACTIVE, enabled load balancer with an enabled listener on the port      *)
(* asked for and the Floating IP asked for; DeleteGateway only when no     *)
(* load balancer is left.                                                  *)
(***************************************************************************)
ReadyMeansDone ==
    [][/\ BecomesReady("route") => RouteDone
       /\ BecomesReady("gateway") => GatewayDone]_vars

(***************************************************************************)
(* A disabled listener or load balancer is enabled again only when no      *)
(* route object exists or when the route's pool and policies are the ones  *)
(* asked for, and with the Floating IP asked for: a hand-disabled entry    *)
(* point never starts to carry traffic to a stale graph.                   *)
(***************************************************************************)
RepairAfterValidation ==
    [][\A w \in Writers :
          op[w] = Idle /\ op'[w].do \in {"EnableListener", "EnableLB"} =>
            /\ AttachedAsAsked(cloud, gatewaySpec)
            /\ \/ ~HasRoute(cloud)
               \/ PoolComplete(cloud, routeSpec) /\ Served(cloud) = Wanted(routeSpec)]_vars

(***************************************************************************)
(* Once a second load balancer carries the Gateway's tags, or a pool of    *)
(* someone else hangs below it, no writer plans anything any more.         *)
(***************************************************************************)
ConflictFreezes ==
    [][cloud.extraLB \/ cloud.foreign => \A w \in Writers : op'[w] \in {op[w], Idle}]_vars

(* What only an operator can resolve. *)
Blocked ==
    \/ cloud.extraLB \/ cloud.extraPool \/ cloud.foreign \/ cloud.lb = "ERROR"
    \/ gatewaySpec # NoGateway /\ gatewaySpec.net # "" /\ ~(cloud.fips \subseteq {gatewaySpec.net})

Converged ==
    IF gatewaySpec = NoGateway THEN cloud.lb = "none" /\ result["gateway"] = "ready" /\ ~bound
    ELSE /\ TrafficOn(cloud) /\ AttachedAsAsked(cloud, gatewaySpec)
         /\ cloud.port = gatewaySpec.port /\ result["gateway"] = "ready"
         /\ IF routeSpec = NoRoute THEN ~HasRoute(cloud) /\ ~bound
            ELSE /\ result["route"] = "ready"
                 /\ PoolComplete(cloud, routeSpec) /\ Served(cloud) = Wanted(routeSpec)

(***************************************************************************)
(* When the users and the operators leave the graph alone, it reaches what *)
(* the users asked for and stays there, unless there is a conflict or a    *)
(* failed load balancer for an operator: the two writers never wait for    *)
(* each other forever, and no plan undoes another.                         *)
(***************************************************************************)
Converges == <>[](Blocked \/ Converged)

(***************************************************************************)
(* gateway_cleanup.go: cleanupGateway "converges a previously valid        *)
(* Gateway to no OpenStack resources before dropping this controller's     *)
(* finalizer".                                                             *)
(***************************************************************************)
CleanupLeavesNothing ==
    gatewaySpec = NoGateway /\ result["gateway"] = "ready" =>
        cloud.lb = "none" /\ cloud.fips = {} /\ ~cloud.detached
=============================================================================
