-------------------------- MODULE GatewayProvider --------------------------
(***************************************************************************)
(* EnsureGateway and DeleteGateway of internal/cloud/openstack/graph, in   *)
(* the form of RouteProvider: the step taken for an observed cloud.        *)
(***************************************************************************)
EXTENDS RouteProvider

(***************************************************************************)
(* The validated deletion plan: L7 rules and policies, then each pool      *)
(* behind its monitor and members, then the listener.  Pools go by ID, so  *)
(* a second pool may come before or after the first.                       *)
(***************************************************************************)
buildGatewayRouteDeletionPlan(c) ==
    Each(c.order, LAMBDA r : Each(RulesOf(c, r), LAMBDA k : DeleteRule(r, k))
                               \o DoPolicy("DeletePolicy", r))

buildGatewayPoolDeletionPlan(c, extraFirst) ==
    LET extra == IF c.extraPool THEN Do("DeleteExtraPool") ELSE <<>>
        main == (IF c.monitor # "none" THEN Do("DeleteMonitor") ELSE <<>>)
                  \o Each(InOrder({a \in Members : c.members[a] # "none"}),
                          LAMBDA a : DoMember("DeleteMember", a))
                  \o (IF c.pool # "none" THEN Do("DeletePool") ELSE <<>>)
    IN  IF extraFirst THEN extra \o main ELSE main \o extra

orderedSteps(c, extraFirst) ==
    buildGatewayRouteDeletionPlan(c)
      \o buildGatewayPoolDeletionPlan(c, extraFirst)
      \o (IF c.port # 0 THEN Do("DeleteListener") ELSE <<>>)

(* Mutant of hasRouteResources: route objects never hold the repair back. *)
hasRouteResourcesNever(c) == FALSE

(* The plan of the route objects is not empty. *)
hasRouteResources(c) == HasRoute(c)

-----------------------------------------------------------------------------
DeleteFIP(c) == [do |-> "DeleteFIP", net |-> CHOOSE n \in c.fips : TRUE]

(* ensureFloatingIP, or ensureNoFloatingIP when no network is configured. *)
ensureFloatingIP(c, net) ==
    IF net = "" THEN (IF c.fips = {} THEN Outcome("ready") ELSE DeleteFIP(c))
    ELSE IF c.fips = {} THEN [do |-> "CreateFIP", net |-> net]
    ELSE IF c.fips # {net} THEN Outcome("conflict")
    ELSE Outcome("ready")

ensureListener(c, port, allowAdminRepair) ==
    IF c.port = 0 THEN [do |-> "CreateListener", port |-> port]
    ELSE IF c.listenerUp THEN Outcome("ready")
    ELSE IF allowAdminRepair THEN Head(Do("EnableListener"))
    ELSE Outcome("progressing")

ensureLoadBalancer(c) ==
    IF c.extraLB THEN Outcome("conflict")
    ELSE IF c.lb = "none" THEN Head(Do("CreateLB"))
    ELSE IF observeLoadBalancerOnce(c) = "active" THEN Outcome("ready")
    ELSE Outcome(observeLoadBalancerOnce(c))

EnsureGateway(c, g) ==
    LET fip == ensureFloatingIP(c, g.net)
        listener == ensureListener(c, g.port, ~hasRouteResources(c))
    IN  IF ensureLoadBalancer(c) # Outcome("ready") THEN ensureLoadBalancer(c)
        ELSE IF c.foreign \/ c.port \notin {0, g.port} THEN Outcome("conflict")
        ELSE IF fip # Outcome("ready") THEN fip
        ELSE IF listener # Outcome("ready") THEN listener
        ELSE IF c.lbUp THEN Outcome("ready")
        ELSE IF hasRouteResources(c) THEN Outcome("progressing")
        ELSE Head(Do("EnableLB"))

(* Mutant of DeleteGateway: the load balancer goes before its Floating IP. *)
DeleteGatewayLBFirst(c, extraFirst) ==
    IF c.extraLB THEN Outcome("conflict")
    ELSE IF observeLoadBalancerOnce(c) = "absent" THEN Outcome("ready")
    ELSE IF observeLoadBalancerOnce(c) # "active" THEN Outcome(observeLoadBalancerOnce(c))
    ELSE IF c.foreign THEN Outcome("conflict")
    ELSE Head(orderedSteps(c, extraFirst) \o Do("DeleteLB"))

DeleteGateway(c, extraFirst) ==
    LET last == IF c.fips # {} THEN DeleteFIP(c) ELSE Head(Do("DeleteLB"))
    IN  IF c.extraLB THEN Outcome("conflict")
        ELSE IF observeLoadBalancerOnce(c) = "absent" THEN Outcome("ready")
        ELSE IF observeLoadBalancerOnce(c) # "active" THEN Outcome(observeLoadBalancerOnce(c))
        ELSE IF c.foreign THEN Outcome("conflict")
        ELSE Head(orderedSteps(c, extraFirst) \o <<last>>)
=============================================================================
