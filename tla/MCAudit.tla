------------------------------ MODULE MCAudit ------------------------------
(* Clouds the controller leaves behind, and steps others may take on them. *)
EXTENDS Audit

Id(type, g, n) == [type |-> type, home |-> g, n |-> n]
GatewayId(g, u) == [g |-> g, gu |-> u, r |-> "", ru |-> 0]
RouteId(g, u, r, v) == [g |-> g, gu |-> u, r |-> r, ru |-> v]

(* The n-th graph of a Gateway and of a route. *)
Base(i, n) ==
    LET lb == Id("LoadBalancer", i.g, n)
    IN  {Resource(lb, i, "LoadBalancer", None, None),
         Resource(Id("Listener", i.g, n), i, "Listener", lb, None)}
Address(i, n) == {Resource(Id("FloatingIP", i.g, n), i, "", Id("LoadBalancer", i.g, n), None)}
Branch(i, n) ==
    LET pool == Id("Pool", i.g, n)
        policy == Id("L7Policy", i.g, n)
    IN  {Resource(pool, i, "Pool", Id("LoadBalancer", i.g, n), None),
         Resource(Id("Member", i.g, n), i, "Member", pool, None),
         Resource(Id("HealthMonitor", i.g, n), i, "HealthMonitor", pool, None),
         Resource(policy, i, "l7-policy-exact", Id("Listener", i.g, n), pool),
         Resource(Id("L7Rule", i.g, n), i, "l7-rule-path", policy, None)}

Gateway(uid, last, binding) == [uid |-> uid, last |-> last, binding |-> binding]
Route(uid, last, binding, g, gu) ==
    [uid |-> uid, last |-> last, binding |-> binding, g |-> g, gu |-> gu]
Kube(gw1, gw2, rt) == [gateways |-> ("g1" :> gw1 @@ "g2" :> gw2), routes |-> ("r1" :> rt)]
Bounds(c, o, s) == [controller |-> c, operator |-> o, status |-> s]
Scenario(k, c, b, m) == [kube |-> k, cloud |-> c, bounds |-> b, meddled |-> m]

Bound == Gateway(1, 1, "ok")
Absent(last) == Gateway(0, last, "none")
Free(last) == Route(0, last, "none", "", 0)

TwoGateways ==
    Base(GatewayId("g1", 1), 1) \cup Address(GatewayId("g1", 1), 1)
      \cup Branch(RouteId("g1", 1, "r1", 1), 1) \cup Base(GatewayId("g2", 1), 1)
TwoBound == Kube(Bound, Bound, Route(1, 1, "ok", "g1", 1))

(* Graphs of deleted objects, below objects of the same name and of no name. *)
Leftovers == Base(GatewayId("g1", 1), 1) \cup Address(GatewayId("g1", 1), 1)
               \cup Branch(RouteId("g1", 1, "r1", 1), 1) \cup Base(GatewayId("g2", 1), 1)

MCScenarios ==
    {(* Two Gateways in service. *)
     Scenario(TwoBound, TwoGateways, Bounds(2, 0, 0), FALSE),
     Scenario(TwoBound, TwoGateways, Bounds(1, 1, 0), FALSE),
     Scenario(TwoBound, TwoGateways, Bounds(0, 1, 1), FALSE),
     (* A Gateway is deleted and created again; a route is attached to it. *)
     Scenario(Kube(Bound, Absent(1), Free(0)), Base(GatewayId("g1", 1), 1), Bounds(5, 0, 0), FALSE),
     Scenario(Kube(Bound, Bound, Route(1, 1, "none", "", 0)),
              Base(GatewayId("g1", 1), 1) \cup Base(GatewayId("g2", 1), 1), Bounds(4, 0, 0), FALSE),
     (* Finalizers were removed by hand: g1 and r1 are new objects, g2 is gone. *)
     Scenario(Kube(Gateway(2, 2, "ok"), Absent(1), Route(2, 2, "ok", "g1", 2)), Leftovers,
              Bounds(1, 1, 0), TRUE),
     Scenario(Kube(Gateway(1, 1, "bad"), Absent(1), Route(1, 1, "bad", "", 0)), Leftovers,
              Bounds(1, 1, 0), TRUE),
     (* A create request that was given up arrived late. *)
     Scenario(TwoBound, TwoGateways \cup Base(GatewayId("g1", 1), 2), Bounds(0, 1, 0), TRUE)}
MCGateways == {"g1", "g2"}
MCRoutes == {"r1"}
MCPolicyRoles == {"l7-policy-exact", "l7-policy-prefix"}
=============================================================================
