----------------------------- MODULE OpenStack -----------------------------
(***************************************************************************)
(* The part of Octavia and Neutron that one Gateway uses, as seen through  *)
(* the OctaviaAPI and NeutronAPI calls of internal/cloud/openstack/graph.  *)
(* A cloud is one value: the load balancer found by the Gateway's tags and *)
(* what hangs below it.  Accepts and Applied are the services' answer to a *)
(* mutation, Drifts what an operator can do behind the controller's back.  *)
(***************************************************************************)
EXTENDS Integers, Sequences, FiniteSets, SequencesExt

CONSTANTS Members,      \* backend addresses (numbers: the code sorts them)
          Nets          \* external networks

Roles == {"exact", "prefix"}            \* l7-policy-exact, l7-policy-prefix
RuleRoles == {"path", "host"}           \* l7-rule-path, l7-rule-host

NoRule == <<"none", <<>>>>
DriftedRule == <<"drift", <<>>>>
NoPolicy == [here |-> FALSE, up |-> FALSE, target |-> FALSE,
             rules |-> [k \in RuleRoles |-> NoRule]]

(***************************************************************************)
(* lb        none, PENDING, ACTIVE, DELETING (PENDING_DELETE) or ERROR     *)
(* lbUp      admin state of the load balancer                              *)
(* extraLB   a second load balancer carries the Gateway's discovery tags   *)
(* port      port of the listener, 0 when there is none                    *)
(* fips      networks with a Floating IP of ours on the VIP port           *)
(* detached  a Floating IP of ours is on no port                           *)
(* pool      none, ok or drift; extraPool: a second pool of the same route *)
(* members   none, ok, down or subnet (right address, wrong subnet)        *)
(* monitor   none, drift or the path it checks                             *)
(* policies  per role: admin state, whether it redirects to the pool, rules*)
(* order     roles by L7 policy position                                   *)
(* foreign   a pool of the load balancer that does not carry our identity  *)
(***************************************************************************)
EmptyCloud ==
    [lb |-> "none", lbUp |-> FALSE, extraLB |-> FALSE,
     port |-> 0, listenerUp |-> FALSE,
     fips |-> {}, detached |-> FALSE,
     pool |-> "none", extraPool |-> FALSE,
     members |-> [a \in Members |-> "none"], monitor |-> "none",
     policies |-> [r \in Roles |-> NoPolicy], order |-> <<>>,
     foreign |-> FALSE]

HasPolicy(c, r) == c.policies[r].here
HasRoute(c) == c.pool # "none" \/ c.extraPool \/ \E r \in Roles : HasPolicy(c, r)
Position(c, r) == IF r \in Range(c.order)
                  THEN CHOOSE i \in DOMAIN c.order : c.order[i] = r ELSE 0

(* Octavia inserts at the wanted position, or at the end if it is beyond. *)
Placed(order, r, pos) ==
    LET rest == Remove(order, r)
    IN  InsertAt(rest, IF pos > Len(rest) + 1 THEN Len(rest) + 1 ELSE pos, r)

-----------------------------------------------------------------------------
Neutron == {"CreateFIP", "DeleteFIP"}

(* The object a mutation changes or deletes is not there: HTTP 404. *)
Gone(c, m) ==
    CASE m.do \in {"EnableLB", "DeleteLB"} -> c.lb = "none"
      [] m.do \in {"EnableListener", "DeleteListener"} -> c.port = 0
      [] m.do = "DeleteFIP" -> m.net \notin c.fips
      [] m.do \in {"UpdatePool", "DeletePool"} -> c.pool = "none"
      [] m.do = "DeleteExtraPool" -> ~c.extraPool
      [] m.do \in {"UpdateMember", "DeleteMember"} -> c.members[m.member] = "none"
      [] m.do \in {"UpdateMonitor", "DeleteMonitor"} -> c.monitor = "none"
      [] m.do \in {"UpdatePolicy", "DisablePolicy", "EnablePolicy", "DeletePolicy"}
            -> ~HasPolicy(c, m.role)
      [] m.do \in {"UpdateRule", "DeleteRule"} -> c.policies[m.role].rules[m.rule] = NoRule
      [] OTHER -> FALSE

(***************************************************************************)
(* Octavia refuses any change while the load balancer is not ACTIVE, a     *)
(* second listener on a port, a second member with an address, the         *)
(* deletion of a pool a policy redirects to, and the deletion without      *)
(* cascade of a load balancer that has children.  Neutron refuses a second *)
(* Floating IP from one network on a port.                                 *)
(***************************************************************************)
Accepts(c, m) ==
    /\ ~Gone(c, m)
    /\ m.do \notin {"CreateLB"} \cup Neutron => c.lb = "ACTIVE"
    /\ CASE m.do = "CreateFIP" -> c.lb # "none" /\ m.net \notin c.fips
         [] m.do = "DeleteLB" -> c.port = 0 /\ c.pool = "none" /\ ~c.extraPool /\ ~c.foreign
         [] m.do = "CreateListener" -> c.port = 0
         [] m.do = "CreateMember" -> c.pool # "none" /\ c.members[m.member] = "none"
         [] m.do = "CreateMonitor" -> c.pool # "none" /\ c.monitor = "none"
         [] m.do = "CreatePolicy" -> c.port # 0 /\ c.pool # "none" /\ ~HasPolicy(c, m.role)
         [] m.do = "CreateRule" -> HasPolicy(c, m.role) /\ c.policies[m.role].rules[m.rule] = NoRule
         [] m.do = "DeletePool" -> \A r \in Roles : ~c.policies[r].target
         [] OTHER -> TRUE

Changed(c, m) ==
    CASE m.do = "CreateLB" ->
            IF c.lb = "none" THEN [c EXCEPT !.lb = "PENDING", !.lbUp = TRUE]
            ELSE [c EXCEPT !.extraLB = TRUE]
      [] m.do = "EnableLB" -> [c EXCEPT !.lbUp = TRUE]
      [] m.do = "DeleteLB" -> [c EXCEPT !.lb = "DELETING"]
      [] m.do = "CreateListener" -> [c EXCEPT !.port = m.port, !.listenerUp = TRUE]
      [] m.do = "EnableListener" -> [c EXCEPT !.listenerUp = TRUE]
      [] m.do = "DeleteListener" ->
            [c EXCEPT !.port = 0, !.listenerUp = FALSE, !.order = <<>>,
                      !.policies = [r \in Roles |-> NoPolicy]]
      [] m.do = "CreateFIP" -> [c EXCEPT !.fips = @ \cup {m.net}]
      [] m.do = "DeleteFIP" -> [c EXCEPT !.fips = @ \ {m.net}]
      [] m.do = "CreatePool" ->
            IF c.pool = "none" THEN [c EXCEPT !.pool = "ok"]
            ELSE [c EXCEPT !.extraPool = TRUE]
      [] m.do = "UpdatePool" -> [c EXCEPT !.pool = "ok"]
      [] m.do = "DeletePool" ->
            [c EXCEPT !.pool = "none", !.monitor = "none",
                      !.members = [a \in Members |-> "none"]]
      [] m.do = "DeleteExtraPool" -> [c EXCEPT !.extraPool = FALSE]
      [] m.do \in {"CreateMember", "UpdateMember"} -> [c EXCEPT !.members[m.member] = "ok"]
      [] m.do = "DeleteMember" -> [c EXCEPT !.members[m.member] = "none"]
      [] m.do \in {"CreateMonitor", "UpdateMonitor"} -> [c EXCEPT !.monitor = m.health]
      [] m.do = "DeleteMonitor" -> [c EXCEPT !.monitor = "none"]
      [] m.do = "CreatePolicy" ->
            [c EXCEPT !.policies[m.role] = [NoPolicy EXCEPT !.here = TRUE, !.target = TRUE],
                      !.order = Placed(@, m.role, m.pos)]
      [] m.do = "UpdatePolicy" ->
            [c EXCEPT !.policies[m.role] = [@ EXCEPT !.target = TRUE, !.up = FALSE],
                      !.order = Placed(@, m.role, m.pos)]
      [] m.do = "DisablePolicy" -> [c EXCEPT !.policies[m.role].up = FALSE]
      [] m.do = "EnablePolicy" -> [c EXCEPT !.policies[m.role].up = TRUE]
      [] m.do = "DeletePolicy" ->
            [c EXCEPT !.policies[m.role] = NoPolicy, !.order = Remove(@, m.role)]
      [] m.do \in {"CreateRule", "UpdateRule"} ->
            [c EXCEPT !.policies[m.role].rules[m.rule] = m.val]
      [] m.do = "DeleteRule" -> [c EXCEPT !.policies[m.role].rules[m.rule] = NoRule]

(* An accepted Octavia mutation leaves the load balancer PENDING. *)
Applied(c, m) ==
    LET d == Changed(c, m)
    IN  IF d.lb = "ACTIVE" /\ m.do \notin Neutron THEN [d EXCEPT !.lb = "PENDING"] ELSE d

(* The end of an asynchronous operation. *)
Settled(c) ==
    IF c.lb = "PENDING" THEN [c EXCEPT !.lb = "ACTIVE"]
    ELSE [EmptyCloud EXCEPT !.detached = c.detached \/ c.fips # {}]

-----------------------------------------------------------------------------
(* What an operator can do to an ACTIVE graph, one request at a time.      *)
(* A cascading deletion of the load balancer detaches its Floating IPs.    *)
Drifts(c) ==
       {[c EXCEPT !.lbUp = FALSE], [c EXCEPT !.lb = "DELETING"],
        [c EXCEPT !.foreign = ~@]}
  \cup {[c EXCEPT !.fips = @ \ {n}, !.detached = d] : n \in c.fips, d \in {TRUE, c.detached}}
  \cup IF c.port = 0 THEN {}
       ELSE {[c EXCEPT !.listenerUp = FALSE], Changed(c, [do |-> "DeleteListener"])}
  \cup IF c.pool = "none" THEN {} ELSE {[c EXCEPT !.pool = "drift"]}
  \cup {[c EXCEPT !.members[a] = v] :
            a \in {b \in Members : c.members[b] # "none"}, v \in {"none", "down", "subnet"}}
  \cup IF c.monitor = "none" THEN {} ELSE {[c EXCEPT !.monitor = v] : v \in {"none", "drift"}}
  \cup UNION {{[c EXCEPT !.policies[r].up = ~@], [c EXCEPT !.policies[r].target = FALSE],
               Changed(c, [do |-> "DeletePolicy", role |-> r])}
              \cup {[c EXCEPT !.policies[r].rules[k] = v] :
                        k \in {j \in RuleRoles : c.policies[r].rules[j] # NoRule},
                        v \in {NoRule, DriftedRule}}
                  : r \in {q \in Roles : HasPolicy(c, q)}}
  \cup {[c EXCEPT !.order = Reverse(@)]}
=============================================================================
