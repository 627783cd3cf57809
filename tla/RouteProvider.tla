--------------------------- MODULE RouteProvider ---------------------------
(***************************************************************************)
(* EnsureRoute and DeleteRoute of internal/cloud/openstack/graph, as pure  *)
(* functions from the cloud they observe to the one step they take: a      *)
(* mutation to send, or an outcome (ready, progressing, conflict, failed). *)
(* A route spec s has fields type, path (a sequence of characters), host,  *)
(* members and health; a Gateway spec g has fields port and net ("" for no *)
(* Floating IP).                                                           *)
(***************************************************************************)
EXTENDS OpenStack

Outcome(o) == [do |-> o]
Outcomes == {Outcome(o) : o \in {"ready", "progressing", "conflict", "failed"}}

Slash == <<"/">>
TrimRight(path) == SubSeq(path, 1, Max({0} \cup {i \in DOMAIN path : path[i] # "/"}))

(* Mutant of policiesFor: a prefix /a becomes STARTS_WITH /a, which /ab matches. *)
policiesForPlainPrefix(s) ==
    LET path == IF s.path = <<>> THEN Slash ELSE s.path
        one(r, p, v) == [role |-> r, pos |-> p, val |-> v]
    IN  IF s.type = "Exact" THEN <<one("exact", 1, <<"EQUAL_TO", path>>)>>
        ELSE <<one("prefix", 1, <<"STARTS_WITH", path>>)>>

(***************************************************************************)
(* Octavia has no element-wise prefix match, so a prefix /a becomes an     *)
(* EQUAL_TO /a policy and a STARTS_WITH /a/ policy.                        *)
(***************************************************************************)
policiesFor(s) ==
    LET path == IF s.path = <<>> THEN Slash ELSE s.path
        trimmed == TrimRight(path)
        one(r, p, v) == [role |-> r, pos |-> p, val |-> v]
    IN  IF s.type = "Exact"
        THEN <<one("exact", 1, <<"EQUAL_TO", path>>)>>
        ELSE IF trimmed = <<>>
        THEN <<one("prefix", 1, <<"STARTS_WITH", Slash>>)>>
        ELSE <<one("exact", 1, <<"EQUAL_TO", trimmed>>),
               one("prefix", 2, <<"STARTS_WITH", trimmed \o Slash>>)>>

rulesFor(p, host) ==
    <<[rule |-> "path", val |-> p.val]>>
      \o IF host = "" THEN <<>> ELSE <<[rule |-> "host", val |-> <<"EQUAL_TO", <<host>>>>]>>

-----------------------------------------------------------------------------
(* Mutant of observeLoadBalancerOnce: PENDING counts as ACTIVE. *)
observeLoadBalancerPending(c) == IF c.lb = "none" THEN "absent" ELSE "active"

(***************************************************************************)
(* observeRouteGateway: "found" when the listener may be used.  A Gateway  *)
(* spec is only compared when the caller has one (EnsureRoute); deletion   *)
(* does not require a listener.                                            *)
(***************************************************************************)
observeLoadBalancerOnce(c) ==
    CASE c.lb = "ACTIVE" -> "active"
      [] c.lb \in {"PENDING", "DELETING"} -> "progressing"
      [] c.lb = "ERROR" -> "failed"
      [] c.lb = "none" -> "absent"

observeRouteGateway(c, port, requireListener) ==
    IF c.extraLB THEN "conflict"
    ELSE IF observeLoadBalancerOnce(c) # "active" THEN observeLoadBalancerOnce(c)
    ELSE IF c.port = 0 THEN (IF requireListener THEN "progressing" ELSE "found")
    ELSE IF requireListener /\ c.port # port THEN "conflict"
    ELSE "found"

(* Mutant of routeGraphConflict: the owner of a pool is not looked at. *)
routeGraphConflictOwn(c) == c.extraPool

(* observeRouteGraph rejects a pool of someone else and a second pool. *)
routeGraphConflict(c) == c.foreign \/ c.extraPool

-----------------------------------------------------------------------------
Do(kind) == <<[do |-> kind]>>
DoMember(kind, a) == <<[do |-> kind, member |-> a]>>
DoPolicy(kind, r) == <<[do |-> kind, role |-> r]>>
DeleteRule(r, k) == <<[do |-> "DeleteRule", role |-> r, rule |-> k]>>

Each(seq, F(_)) == FlattenSeq([i \in DOMAIN seq |-> F(seq[i])])
InOrder(S) == SetToSortSeq(S, <)

(* Rules are visited by ID, which is not related to their role. *)
RulesOf(c, r) == SelectSeq(<<"path", "host">>, LAMBDA k : c.policies[r].rules[k] # NoRule)

poolPlan(c, s) ==
    LET here == {a \in Members : c.members[a] # "none"}
        kept == {a \in here \cap s.members : c.members[a] # "subnet"}
        observed(a) == IF a \notin kept THEN DoMember("DeleteMember", a)
                       ELSE IF c.members[a] = "down" THEN DoMember("UpdateMember", a)
                       ELSE <<>>
        monitor(kind) == <<[do |-> kind, health |-> s.health]>>
    IN  IF c.pool = "none" THEN Do("CreatePool")
        ELSE (IF c.pool = "drift" THEN Do("UpdatePool") ELSE <<>>)
               \o Each(InOrder(here), observed)
               \o Each(InOrder(s.members \ kept), LAMBDA a : DoMember("CreateMember", a))
               \o CASE c.monitor = "none" -> monitor("CreateMonitor")
                    [] c.monitor = s.health -> <<>>
                    [] OTHER -> monitor("UpdateMonitor")

buildRoutePolicyPlan(c, s) ==
    LET wantedRoles == {p.role : p \in Range(policiesFor(s))}
        unwanted(r) == IF r \in wantedRoles THEN <<>>
                       ELSE Each(RulesOf(c, r), LAMBDA k : DeleteRule(r, k))
                              \o DoPolicy("DeletePolicy", r)
        policy(kind, p) == <<[do |-> kind, role |-> p.role, pos |-> p.pos]>>
        rule(kind, p, w) == <<[do |-> kind, role |-> p.role, rule |-> w.rule, val |-> w.val]>>
        wantedRule(p, w) == LET v == c.policies[p.role].rules[w.rule]
                            IN  CASE v = NoRule -> rule("CreateRule", p, w)
                                  [] v = w.val -> <<>>
                                  [] OTHER -> rule("UpdateRule", p, w)
        stale(p) == SelectSeq(RulesOf(c, p.role), LAMBDA k :
                        \A w \in Range(rulesFor(p, s.host)) : w.rule # k)
        wanted(p) == IF ~HasPolicy(c, p.role) THEN policy("CreatePolicy", p)
                     ELSE (IF ~c.policies[p.role].target \/ Position(c, p.role) # p.pos
                           THEN policy("UpdatePolicy", p) ELSE <<>>)
                            \o Each(rulesFor(p, s.host), LAMBDA w : wantedRule(p, w))
                            \o Each(stale(p), LAMBDA k : DeleteRule(p.role, k))
    IN  Each(c.order, unwanted) \o Each(policiesFor(s), wanted)

(* Mutant of disablePlan: policies stay enabled while their rules change. *)
disablePlanNone(c) == <<>>

disablePlan(c) ==
    Each(SelectSeq(c.order, LAMBDA r : c.policies[r].up), LAMBDA r : DoPolicy("DisablePolicy", r))

(* Mutant of buildRouteEnsurePlan: policies are enabled before the pool is complete. *)
buildRouteEnsurePlanEager(c, s) ==
    LET policyPlan == buildRoutePolicyPlan(c, s)
        wanted == [i \in DOMAIN policiesFor(s) |-> policiesFor(s)[i].role]
        down == SelectSeq(wanted, LAMBDA r : HasPolicy(c, r) /\ ~c.policies[r].up)
        enablePlan == Each(down, LAMBDA r : DoPolicy("EnablePolicy", r))
    IN  IF policyPlan # <<>> THEN disablePlan(c) \o poolPlan(c, s) \o policyPlan
        ELSE enablePlan \o poolPlan(c, s)

buildRouteEnsurePlan(c, s) ==
    LET policyPlan == buildRoutePolicyPlan(c, s)
        wanted == [i \in DOMAIN policiesFor(s) |-> policiesFor(s)[i].role]
        down == SelectSeq(wanted, LAMBDA r : HasPolicy(c, r) /\ ~c.policies[r].up)
        enablePlan == Each(down, LAMBDA r : DoPolicy("EnablePolicy", r))
    IN  IF policyPlan # <<>> THEN disablePlan(c) \o poolPlan(c, s) \o policyPlan
        ELSE poolPlan(c, s) \o enablePlan

buildRouteDeletionPlan(c) ==
    disablePlan(c)
      \o Each(c.order, LAMBDA r : Each(RulesOf(c, r), LAMBDA k : DeleteRule(r, k)))
      \o Each(c.order, LAMBDA r : DoPolicy("DeletePolicy", r))
      \o (IF c.monitor # "none" THEN Do("DeleteMonitor") ELSE <<>>)
      \o Each(InOrder({a \in Members : c.members[a] # "none"}),
              LAMBDA a : DoMember("DeleteMember", a))
      \o (IF c.pool # "none" THEN Do("DeletePool") ELSE <<>>)

-----------------------------------------------------------------------------
gatewayFloatingIPReadyForTraffic(c, net) ==
    IF net = "" THEN (IF c.fips = {} THEN "ready" ELSE "progressing")
    ELSE IF c.fips = {} THEN "progressing"
    ELSE IF c.fips # {net} THEN "conflict"
    ELSE "ready"

repairRouteGatewayAdminState(c, g) ==
    IF c.listenerUp /\ c.lbUp THEN Outcome("ready")
    ELSE IF gatewayFloatingIPReadyForTraffic(c, g.net) # "ready"
    THEN Outcome(gatewayFloatingIPReadyForTraffic(c, g.net))
    ELSE IF ~c.listenerUp THEN Head(Do("EnableListener"))
    ELSE Head(Do("EnableLB"))

EnsureRoute(c, s, g) ==
    LET gateway == observeRouteGateway(c, g.port, TRUE)
    IN  IF gateway = "absent" THEN Outcome("progressing")
        ELSE IF gateway # "found" THEN Outcome(gateway)
        ELSE IF routeGraphConflict(c) THEN Outcome("conflict")
        ELSE Head(buildRouteEnsurePlan(c, s) \o <<repairRouteGatewayAdminState(c, g)>>)

DeleteRoute(c) ==
    LET gateway == observeRouteGateway(c, 0, FALSE)
    IN  IF gateway = "absent" THEN Outcome("ready")
        ELSE IF gateway # "found" THEN Outcome(gateway)
        ELSE IF routeGraphConflict(c) THEN Outcome("conflict")
        ELSE Head(buildRouteDeletionPlan(c) \o <<Outcome("ready")>>)
=============================================================================
