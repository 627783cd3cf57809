--------------------------- MODULE MCRouteBackends ---------------------------
(* Small clusters for RouteBackends. *)
EXTENDS RouteBackends

MCNames == 1..2
MCServices == {"a", "b"}
MCSlices == {"a1", "b1"}
MCNodes == {"x", "y"}

Ref(s) == [backend |-> s, port |-> 80]
Route(s, st) == [gen |-> 1, backend |-> s, port |-> 80, bound |-> (st = "programmed"),
                 st |-> st]
Port(p) == 80 :> [http |-> TRUE, nodePort |-> p]
Service(type, policy, ports) == [gen |-> 1, type |-> type, policy |-> policy, ports |-> ports]
Cluster == Service("NodePort", "Cluster", Port(30001))
Local == Service("NodePort", "Local", Port(30001))
Internal == Service("ClusterIP", "Cluster", Port(0))
Unallocated == Service("NodePort", "Cluster", Port(0))
Ready(x) == [node |-> x, ready |-> TRUE, terminating |-> FALSE]
Slice(s, eps) == [svc |-> s, eps |-> eps]
Node(addr) == [addr |-> addr, ready |-> "True", unschedulable |-> FALSE, deleting |-> FALSE]
Healthy == [x |-> Node("ip1"), y |-> Node("ip2")]
World(routes, sa, sb, ea, eb) ==
    [route |-> routes, svc |-> [a |-> sa, b |-> sb],
     slice |-> [a1 |-> Slice("a", ea), b1 |-> Slice("b", eb)], node |-> Healthy]
Nothing(w) == [names |-> DOMAIN w.route, world |-> w, refs |-> {}, services |-> {}, slices |-> {},
               nodes |-> [x \in MCNodes |-> {}], resync |-> FALSE, counted |-> TRUE] @@ [k \in Bounded |-> 0]

One(sa, ea) == World(<<Route("a", "programmed")>>, sa, NoService, ea, {})

(* A Local Service whose endpoints move while Nodes come and go. *)
Moves == [Nothing(One(Local, {Ready("x")})) EXCEPT
    !.slices = {Slice("a", {Ready("y")}), Slice("a", {Ready("x"), Ready("y")})},
    !.nodes = [x |-> {[Healthy.x EXCEPT !.ready = "False"], Healthy.x},
               y |-> {[Healthy.y EXCEPT !.unschedulable = TRUE], Healthy.y}]]
(* Every Node counts until the Service turns Local; one is replaced. *)
Policy == [Nothing(One(Cluster, {Ready("x"), Ready(None)})) EXCEPT
    !.services = {Cluster, Local, [Local EXCEPT !.ports = Port(30002)]},
    !.nodes = [x |-> {NoNode, [Healthy.x EXCEPT !.addr = "ip3"]},
               y |-> {[Healthy.y EXCEPT !.addr = None]}],
    !.slices = {Slice("a", {[Ready("y") EXCEPT !.terminating = TRUE], Ready("x")})},
    !.svc = 1, !.node = 1, !.slice = 1]
(* A Local Service turns Cluster while an endpoint leaves, or all of them. *)
Loosened == [Nothing(One(Local, {Ready("x"), Ready("y")})) EXCEPT
    !.services = {Cluster}, !.svc = 1, !.slice = 1,
    !.slices = {Slice("a", {Ready("y")}), Slice("a", {Ready(None)}), NoSlice}]
(* Two routes, one Gateway: the Service of the older one comes and goes. *)
Contest == [Nothing(World(<<Route("a", "programmed"), Route("b", "rejected")>>,
                          Cluster, [Cluster EXCEPT !.ports = Port(30002)],
                          {Ready("x")}, {Ready("y")})) EXCEPT
    !.services = {Cluster, Internal, NoService}, !.svc = 2]
(* Routes are edited to name the other's Service, once, or there and back. *)
Edits == [Contest EXCEPT !.services = {Unallocated}, !.refs = {Ref("b"), Ref("a")}]
(* A slice changes hands between the Services. *)
Relabel == [Nothing(World(<<Route("a", "programmed")>>, Cluster, Cluster, {Ready("x")}, {})) EXCEPT
    !.slices = {Slice("b", {Ready("x")}), Slice("a", {Ready("x")})},
    !.slice = 3, !.troubles = 1]
(* A watch skips states, and the controller restarts. *)
Skips == [Nothing(One(Local, {Ready("x")})) EXCEPT
    !.slices = {Slice("a", {Ready("x")}), Slice("a", {})},
    !.slice = 2, !.relists = 1, !.restarts = 1, !.resync = TRUE]
(* Services without a generation: a NodePort changes, or the type, and back. *)
Silent == [Nothing(One(Cluster, {Ready("x")})) EXCEPT
    !.services = {Cluster, [Local EXCEPT !.ports = Port(30002)], Internal},
    !.svc = 2, !.resync = TRUE, !.counted = FALSE]

MCScenarios ==
    <<[Moves EXCEPT !.slice = 2, !.node = 1],
      [Moves EXCEPT !.slices = {Slice("a", {Ready("y")})}, !.slice = 1, !.node = 2],
      Policy, Loosened, Contest, [Edits EXCEPT !.svc = 1, !.route = 1],
      [Edits EXCEPT !.svc = 0, !.route = 3], Relabel, Skips, Silent>>
=============================================================================
