------------------------------- MODULE Audit -------------------------------
(***************************************************************************)
(* The ownership audit command.  It lists Gateways, then HTTPRoutes, then  *)
(* every type of OpenStack resource, one request after another, while the  *)
(* controller, the cloud and operators go on changing what it reads.  The  *)
(* classification is in AuditInventory.                                    *)
(***************************************************************************)
EXTENDS AuditInventory

CONSTANTS Gateways, Routes,
          MaxUID,       \* UIDs an object name goes through
          PolicyRoles,  \* L7 policies of a route
          Scenarios     \* initial kube and cloud, and bounds on the steps of others

VARIABLES kube,    \* the Gateways and HTTPRoutes and the binding each carries
          cloud,   \* the set of resources of the project
          audit,   \* the command: next list, what it has read, the report
          past,    \* history of the audit, see Begin and Since
          spent    \* steps taken by others

vars == <<kube, cloud, audit, past, spent>>

Phases == <<"LoadBalancer", "Listener", "Pool", "L7Policy", "Member", "HealthMonitor",
            "L7Rule", "FloatingIP">>
UIDs == 1..MaxUID
Identities == [g : Gateways, gu : UIDs, r : {""}, ru : {0}]
                \cup [g : Gateways, gu : UIDs, r : Routes, ru : UIDs]
Dispositions == {"matched", "orphanCandidate", "staleUID", "ownershipConflict", "unresolved"}

NoReport == [assessment |-> "none", found |-> <<>>]
Idle == [pc |-> "idle", todo |-> {}, gateways |-> <<>>, records |-> {}, issues |-> 0,
         cands |-> <<>>, report |-> NoReport]

-----------------------------------------------------------------------------
(* Kubernetes.  A binding is none, ok or bad: incomplete, or of another    *)
(* cluster or project.  A route that is ok names a Gateway, g and gu.      *)
GatewayRecord(gateways, g) == [g |-> g, gu |-> gateways[g].uid, r |-> "", ru |-> 0]
RouteRecord(r) == [g |-> kube.routes[r].g, gu |-> kube.routes[r].gu,
                   r |-> r, ru |-> kube.routes[r].uid]

(* Mutant of CollectOwnershipSnapshot: an invalid binding is passed over. *)
CollectOwnershipSnapshotValid(gateways) ==
    [records |-> {GatewayRecord(gateways, g) : g \in {h \in Gateways : gateways[h].binding = "ok"}}
                   \cup {RouteRecord(r) : r \in {q \in Routes : kube.routes[q].binding = "ok"}},
     issues |-> 0]

CollectOwnershipSnapshot(gateways) ==
    LET gw(b) == {g \in Gateways : gateways[g].binding = b}
        rt(b) == {r \in Routes : kube.routes[r].binding = b}
    IN  [records |-> {GatewayRecord(gateways, g) : g \in gw("ok")} \cup {RouteRecord(r) : r \in rt("ok")},
         issues |-> Cardinality(gw("bad")) + Cardinality(rt("bad"))]

(* The object that identity i names exists and carries its binding, or one that
   cannot be read and so may be its own. *)
Claims(k, i) ==
    IF isRoute(i)
    THEN LET o == k.routes[i.r]
         IN  o.uid = i.ru /\ (o.binding = "bad" \/ (o.binding = "ok" /\ o.g = i.g /\ o.gu = i.gu))
    ELSE k.gateways[i.g].uid = i.gu /\ k.gateways[i.g].binding # "none"
Claimed(k) == {i \in Identities : Claims(k, i)}

Owner(x) == IF x.type = "FloatingIP" THEN [g |-> x.desc.g, gu |-> x.desc.gu, r |-> "", ru |-> 0]
            ELSE [g |-> x.tags.name, gu |-> x.tags.uid, r |-> x.tags.rname, ru |-> x.tags.ruid]

(* Everything that belongs to one Gateway. *)
View(k, c, g) == <<k.gateways[g],
                   {<<r, k.routes[r]>> : r \in {q \in Routes : k.routes[q].g = g}},
                   {x \in c : x.id.home = g}>>

-----------------------------------------------------------------------------
(* executeAudit *)
Start ==
    /\ audit.pc = "idle"
    /\ audit' = [audit EXCEPT !.pc = "gateways"]
    /\ past' = [past EXCEPT !.held = Claimed(kube), !.seen = Claimed(kube), !.steady = cloud]
    /\ UNCHANGED <<kube, cloud, spent>>

ListGateways ==
    /\ audit.pc = "gateways"
    /\ audit' = [audit EXCEPT !.pc = "routes", !.gateways = kube.gateways]
    /\ UNCHANGED <<kube, cloud, past, spent>>

ListRoutes ==
    /\ audit.pc = "routes"
    /\ LET snapshot == CollectOwnershipSnapshot(audit.gateways)
       IN  audit' = [audit EXCEPT !.pc = "LoadBalancer", !.todo = {None}, !.gateways = <<>>,
                                  !.records = snapshot.records, !.issues = snapshot.issues]
    /\ UNCHANGED <<kube, cloud, past, spent>>

HasFindings(report) == \/ report.assessment = "incomplete"
                       \/ \E id \in DOMAIN report.found : report.found[id] # "matched"

(* A collection below a parent that is gone answers 404. *)
NotFound(type, under) == type \in {"Member", "L7Rule"} /\ \A x \in cloud : x.id # under

(* One request of Scan.  The list by tag is sent first, then one per parent. *)
Scan(type, under) ==
    /\ audit.pc = type
    /\ under \in audit.todo /\ (None \in audit.todo => under = None)
    /\ ~NotFound(type, under)
    /\ \E cands \in {List(cloud, audit.cands, audit.records, type, under)} :
          LET left == audit.todo \ {under}
              after == {i \in DOMAIN Phases : \E j \in 1..(i - 1) : Phases[j] = type}
              next == {i \in after : Requests(cands, Phases[i]) # {}
                                       /\ \A j \in after : j < i => Requests(cands, Phases[j]) = {}}
          IN  \/ /\ left # {}
                 /\ audit' = [audit EXCEPT !.todo = left, !.cands = cands]
              \/ /\ left = {}
                 /\ \E i \in next :
                       audit' = [audit EXCEPT !.pc = Phases[i], !.todo = Requests(cands, Phases[i]),
                                              !.cands = cands]
              \/ /\ left = {} /\ next = {}
                 /\ audit' = [audit EXCEPT !.pc = "report", !.todo = {}, !.cands = cands]
    /\ UNCHANGED <<kube, cloud, past, spent>>

(* The records are in scope and name their object, every resource is found once. *)
BuildReport ==
    /\ audit.pc = "report"
    /\ audit' = [audit EXCEPT !.pc = "done",
                     !.report = [assessment |-> IF audit.issues > 0 THEN "incomplete" ELSE "complete",
                                 found |-> classifyAuditCandidates(audit.cands, audit.records)]]
    /\ UNCHANGED <<kube, cloud, past, spent>>

(* Any list may fail, and a 404 does: no report. *)
Fail ==
    /\ audit.pc \notin {"idle", "report", "done", "failed"}
    /\ audit' = [Idle EXCEPT !.pc = "failed"]
    /\ UNCHANGED <<kube, cloud, past, spent>>

-----------------------------------------------------------------------------
(* Others.  What they do is kept in past from the start of the audit:      *)
(*   touched  Gateways of which something changed                          *)
(*   held     identities claimed in every state, seen: in some state       *)
(*   steady   resources that were there in every state, unchanged          *)
(*   meddled  an operator acted, before the audit or during it             *)
Running == audit.pc \notin {"idle", "done", "failed"}

May(who) == audit.pc \notin {"report", "done", "failed"} /\ spent[who] < spent.in[who]

By(who) ==
    /\ spent' = [spent EXCEPT ![who] = @ + 1]
    /\ LET p == [past EXCEPT !.meddled = @ \/ who = "operator"]
       IN  past' = IF ~Running THEN p
                   ELSE [p EXCEPT !.touched = @ \cup {g \in Gateways :
                                         View(kube, cloud, g) # View(kube', cloud', g)},
                                  !.held = @ \cap Claimed(kube'), !.seen = @ \cup Claimed(kube'),
                                  !.steady = @ \cap cloud']
    /\ UNCHANGED audit

Fresh(type, g) ==
    LET ids == {x.id : x \in cloud \cup past.steady} \cup DOMAIN audit.cands
        n == CHOOSE m \in 1..(Cardinality(ids) + 1) :
                /\ [type |-> type, home |-> g, n |-> m] \notin ids
                /\ \A j \in 1..(m - 1) : [type |-> type, home |-> g, n |-> j] \in ids
    IN  [type |-> type, home |-> g, n |-> n]

Resource(id, i, role, parent, redirect) ==
    LET fip == id.type = "FloatingIP"
    IN  [type |-> id.type, id |-> id, parent |-> parent, redirect |-> redirect,
         tags |-> IF fip THEN RouteTags([g |-> "", gu |-> 0, r |-> "", ru |-> 0], "")
                  ELSE RouteTags(i, role),
         desc |-> IF fip THEN GatewayOf(i) ELSE NoDesc,
         project |-> "own", provider |-> IF id.type = "LoadBalancer" THEN "amphora" ELSE "",
         status |-> "ACTIVE"]

(* The load balancer (and below it, the objects of a type) the controller owns for i. *)
Owned(type, i) ==
    {x \in cloud : x.type = type /\ IF type \in {"LoadBalancer", "Listener"}
                                    THEN MatchesGateway(i, x.tags, x.tags.role)
                                    ELSE IF type = "FloatingIP" THEN x.desc = GatewayOf(i)
                                    ELSE MatchesRoute(i, x.tags, x.tags.role)}

(* What EnsureGateway and EnsureRoute create next for a bound identity. *)
Missing(i) ==
    LET new(type, role, parent, redirect) == Resource(Fresh(type, i.g), i, role, parent, redirect)
        ids(type) == {x.id : x \in Owned(type, i)}
        lacks(type, role, parent) == \A x \in Owned(type, i) : x.tags.role # role \/ x.parent # parent
    IN  IF ~isRoute(i)
        THEN (IF ids("LoadBalancer") = {} THEN {new("LoadBalancer", "LoadBalancer", None, None)} ELSE {})
               \cup {new(t, t, lb, None) : t \in {u \in {"Listener", "FloatingIP"} : ids(u) = {}},
                                           lb \in ids("LoadBalancer")}
        ELSE {new("Pool", "Pool", lb, None) : lb \in IF ids("Pool") = {} /\ ids("Listener") # {}
                                                     THEN ids("LoadBalancer") ELSE {}}
               \cup {new(t, t, p, None) : t \in {u \in {"Member", "HealthMonitor"} : ids(u) = {}},
                                          p \in ids("Pool")}
               \cup {new("L7Policy", q[1], q[2], q[3]) :
                        q \in {s \in PolicyRoles \X ids("Listener") \X ids("Pool") :
                                 lacks("L7Policy", s[1], s[2])}}
               \cup {new("L7Rule", "l7-rule-path", p, None) :
                        p \in {q \in ids("L7Policy") : lacks("L7Rule", "l7-rule-path", q)}}

ControllerCreates ==
    /\ May("controller")
    /\ \E i \in Claimed(kube) :
          /\ IF isRoute(i) THEN kube.routes[i.r].binding = "ok" ELSE kube.gateways[i.g].binding = "ok"
          /\ \E x \in Missing(i) : cloud' = cloud \cup {x}
    /\ kube' = kube
    /\ By("controller")

(* Octavia deletes what is below an object; Neutron frees the address of a port. *)
Without(x) ==
    LET below(S) == S \cup {y \in cloud : y.type # "FloatingIP" /\ \E z \in S : y.parent = z.id}
        gone == below(below(below({x})))
    IN  {IF y.type = "FloatingIP" /\ y.parent = x.id THEN [y EXCEPT !.parent = None] ELSE y :
            y \in cloud \ gone}

ControllerDeletes ==
    /\ May("controller")
    /\ \E x \in cloud :
          /\ Owner(x) \in Claimed(kube)
          /\ x.type \in {"LoadBalancer", "Listener", "L7Policy"} =>
                \A y \in cloud : y.parent # x.id
          /\ x.type = "Pool" => \A y \in cloud : y.redirect # x.id
          /\ cloud' = Without(x)
    /\ kube' = kube
    /\ By("controller")

StatusChanges ==
    /\ May("status")
    /\ \E x \in cloud :
          /\ x.status = "ACTIVE"
          /\ cloud' = (cloud \ {x}) \cup {[x EXCEPT !.status = "PENDING_UPDATE"]}
    /\ kube' = kube
    /\ By("status")

-----------------------------------------------------------------------------
NoGateway(o) == [o EXCEPT !.uid = 0, !.binding = "none"]
NoRoute(o) == [NoGateway(o) EXCEPT !.g = "", !.gu = 0]

(* A user creates an object under a name that is free; its UID is a new one. *)
UserCreates ==
    /\ May("controller")
    /\ \/ \E g \in Gateways :
             /\ kube.gateways[g].uid = 0 /\ kube.gateways[g].last < MaxUID
             /\ kube' = [kube EXCEPT !.gateways[g].uid = kube.gateways[g].last + 1,
                                     !.gateways[g].last = @ + 1]
       \/ \E r \in Routes :
             /\ kube.routes[r].uid = 0 /\ kube.routes[r].last < MaxUID
             /\ kube' = [kube EXCEPT !.routes[r].uid = kube.routes[r].last + 1,
                                     !.routes[r].last = @ + 1]
    /\ cloud' = cloud
    /\ By("controller")

(* The binding is stored before the first object, and removed after the last. *)
ControllerBinds ==
    /\ May("controller")
    /\ \/ \E g \in Gateways :
             /\ kube.gateways[g].uid # 0 /\ kube.gateways[g].binding = "none"
             /\ kube' = [kube EXCEPT !.gateways[g].binding = "ok"]
       \/ \E r \in Routes, g \in Gateways :
             /\ kube.routes[r].uid # 0 /\ kube.routes[r].binding = "none"
             /\ kube.gateways[g].binding = "ok"
             /\ kube' = [kube EXCEPT !.routes[r].binding = "ok", !.routes[r].g = g,
                                     !.routes[r].gu = kube.gateways[g].uid]
    /\ cloud' = cloud
    /\ By("controller")

ControllerUnbinds ==
    /\ May("controller")
    /\ \/ \E g \in Gateways :
             /\ kube.gateways[g].binding = "ok"
             /\ \A x \in cloud : GatewayOf(Owner(x)) # [g |-> g, gu |-> kube.gateways[g].uid]
             /\ kube' = [kube EXCEPT !.gateways[g] = NoGateway(@)]
       \/ \E r \in Routes :
             /\ kube.routes[r].binding = "ok"
             /\ \A x \in cloud : Owner(x) # RouteRecord(r)
             /\ kube' = [kube EXCEPT !.routes[r] = NoRoute(@)]
    /\ cloud' = cloud
    /\ By("controller")

(* An operator removes the finalizer of an object, or spoils its annotations. *)
OperatorUnbinds ==
    /\ May("operator")
    /\ \/ \E g \in {h \in Gateways : kube.gateways[h].binding # "none"} :
             kube' \in {[kube EXCEPT !.gateways[g] = NoGateway(@)],
                        [kube EXCEPT !.gateways[g].binding = "bad"]}
       \/ \E r \in {q \in Routes : kube.routes[q].binding # "none"} :
             kube' \in {[kube EXCEPT !.routes[r] = NoRoute(@)],
                        [kube EXCEPT !.routes[r] = [@ EXCEPT !.binding = "bad", !.g = "", !.gu = 0]]}
    /\ cloud' = cloud
    /\ By("operator")

(* What a tag edit, a detached address or an incomplete answer makes of a resource. *)
Spoiled(x) ==
    {[x EXCEPT !.project = p] : p \in {"", "other"}}
      \cup CASE x.type = "FloatingIP" -> {[x EXCEPT !.parent = None], [x EXCEPT !.desc = NoDesc]}
             [] OTHER -> {[x EXCEPT !.tags.scope = ""], [x EXCEPT !.tags.project = "other"],
                          [x EXCEPT !.tags.role = ""], [x EXCEPT !.tags.name = ""],
                          [x EXCEPT !.tags.uid = 0]}
      \cup (IF routeScoped(x.type) THEN {[x EXCEPT !.tags.ruid = 0]} ELSE {})
      \cup (IF x.type = "LoadBalancer" THEN {[x EXCEPT !.provider = p] : p \in {"", "other"}} ELSE {})
      \cup (IF x.type = "L7Policy" THEN {[x EXCEPT !.redirect = None]} ELSE {})

OperatorSpoils ==
    /\ May("operator")
    /\ \E x \in cloud :
          \/ cloud' = Without(x)
          \/ \E y \in Spoiled(x) : cloud' = (cloud \ {x}) \cup {y}
    /\ kube' = kube
    /\ By("operator")

-----------------------------------------------------------------------------
Init ==
    /\ \E s \in Scenarios :
          /\ kube = s.kube /\ cloud = s.cloud
          /\ spent = [controller |-> 0, operator |-> 0, status |-> 0, in |-> s.bounds]
          /\ past = [touched |-> {}, held |-> {}, seen |-> {}, steady |-> {}, meddled |-> s.meddled]
    /\ audit = Idle

Next ==
    \/ Start \/ ListGateways \/ ListRoutes \/ BuildReport \/ Fail
    \/ \E type \in Range(Phases), under \in audit.todo : Scan(type, under)
    \/ ControllerCreates \/ ControllerDeletes \/ ControllerBinds \/ ControllerUnbinds
    \/ UserCreates \/ StatusChanges \/ OperatorUnbinds \/ OperatorSpoils

Spec == Init /\ [][Next]_vars

-----------------------------------------------------------------------------
TypeOK ==
    /\ \A g \in Gateways : kube.gateways[g].binding \in {"none", "ok", "bad"}
    /\ \A x \in cloud : x.type = x.id.type /\ x.type \in Range(auditResourceOrder)
    /\ audit.pc \in {"idle", "gateways", "routes", "report", "done", "failed"} \cup Range(Phases)
    /\ audit.records \subseteq Identities
    /\ \A id \in DOMAIN audit.cands : audit.cands[id].x.id = id
    /\ audit.report.assessment \in {"none", "complete", "incomplete"}
    /\ Range(audit.report.found) \subseteq Dispositions

Done == audit.pc = "done"
Found(d) == {id \in DOMAIN audit.report.found : audit.report.found[id] \in d}

(***************************************************************************)
(* A complete report calls no resource an orphan, or stale, whose object   *)
(* carried its binding, readable or not, for as long as the audit ran.     *)
(***************************************************************************)
BoundIsNeverOrphan ==
    Done /\ audit.report.assessment = "complete" =>
        \A id \in Found({"orphanCandidate", "staleUID"}) : Owner(audit.cands[id].x) \notin past.held

(***************************************************************************)
(* A matched resource has an owner that carried the binding at some moment *)
(* of the audit, hangs below a matched parent (an L7 policy: and leads to  *)
(* a matched pool), and is the only one of its kind.  (With TypeOK.)       *)
(***************************************************************************)
MatchedIsProven ==
    LET x(id) == audit.cands[id].x
        above(id) == IF id.type = "L7Policy" THEN {x(id).parent, x(id).redirect} ELSE {x(id).parent}
        twins(a, b) == /\ a # b /\ a.type = b.type /\ a.type # "Member"
                       /\ Owner(x(a)) = Owner(x(b)) /\ x(a).tags.role = x(b).tags.role
                       /\ a.type = "L7Rule" => x(a).parent = x(b).parent
    IN  TypeOK /\ (Done => \A id \in Found({"matched"}) :
            /\ Owner(x(id)) \in past.seen
            /\ id.type # "LoadBalancer" => above(id) \subseteq Found({"matched"})
            /\ \A other \in DOMAIN audit.cands :
                  twins(id, other) => audit.report.found[other] = "ownershipConflict")

(* The audit of one instant: every list sees the same cloud. *)
Snapshot(k, c) ==
    LET records == {i \in Claimed(k) : IF isRoute(i) THEN k.routes[i.r].binding = "ok"
                                       ELSE k.gateways[i.g].binding = "ok"}
        phase(cands, type) ==
            FoldLeft(LAMBDA s, u : List(c, s, records, type, u), cands,
                     SetToSeq(Requests(cands, type)))
    IN  classifyAuditCandidates(FoldLeft(phase, <<>>, Phases), records)

(***************************************************************************)
(* Whatever happens to another Gateway between two lists, what the report  *)
(* says of a Gateway that nobody touched is what an audit of one instant   *)
(* would have said.                                                        *)
(***************************************************************************)
UntouchedIsExact ==
    Done => LET now == Snapshot(kube, cloud)
                of(f, g) == {<<id, f[id]>> : id \in {j \in DOMAIN f : j.home = g}}
            IN  \A g \in Gateways \ past.touched : of(audit.report.found, g) = of(now, g)

(***************************************************************************)
(* Nothing that keeps its scope tags through the audit is left out of the  *)
(* report, except what auditInventoryLimitations names: a member or rule   *)
(* is found below its parent, a Floating IP on a port or by its owner.     *)
(***************************************************************************)
NothingMissed ==
    LET reachable(x) == \E p \in past.steady : p.id = x.parent /\ InScope(p.tags) /\ p.project = "own"
    IN  Done => \A x \in past.steady :
            (CASE x.type \in {"Member", "L7Rule"} -> reachable(x)
               [] x.type = "FloatingIP" ->
                     reachable(x) \/ \E i \in past.held :
                        i \in audit.records /\ MatchesGatewayDescription(i, x.desc)
               [] OTHER -> InScope(x.tags)) => x.id \in DOMAIN audit.report.found

(***************************************************************************)
(* Where only the controller has acted, an audit during which nothing      *)
(* changes has no finding, however far the controller has come with        *)
(* creating or deleting a graph: the baseline the end-to-end runner wants. *)
(***************************************************************************)
CleanAtRest == Done /\ past.touched = {} /\ ~past.meddled => ~HasFindings(audit.report)
=============================================================================
