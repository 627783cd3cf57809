--------------------------- MODULE AuditInventory ---------------------------
(***************************************************************************)
(* The pure half of the ownership audit: how the lists of Octavia and      *)
(* Neutron become candidates (inventory/scanner.go), how candidates are    *)
(* classified (inventory/classification.go), and the identity they are     *)
(* compared by (identity/metadata.go).                                     *)
(*                                                                         *)
(* A resource is what a list reports of it:                                *)
(*   type, id   the id carries its type, as the key of a candidate does    *)
(*   tags       value of each identity tag; "" or 0 when the tag is        *)
(*              missing, duplicate or not decodable.  scope stands for     *)
(*              managed, cluster and controller, name for namespace/name   *)
(*   parent     load balancer, listener, pool, policy, or the load         *)
(*              balancer whose VIP port a Floating IP is on; None          *)
(*   redirect   pool of an L7 policy                                       *)
(*   desc       Gateway identity of a Floating IP's digest, or a NoDesc    *)
(*   project, provider, status                                             *)
(***************************************************************************)
EXTENDS Integers, Sequences, FiniteSets, SequencesExt, TLC

None == [type |-> "none", home |-> "", n |-> 0]       \* no resource
NoDesc == [g |-> "", gu |-> 0]                        \* not our prefix

auditResourceOrder == <<"LoadBalancer", "Listener", "Pool", "Member", "HealthMonitor",
                        "L7Policy", "L7Rule", "FloatingIP">>
routeScoped(type) == type \in {"Pool", "Member", "HealthMonitor", "L7Policy", "L7Rule"}

auditParentType(type) ==
    CASE type \in {"Listener", "Pool", "FloatingIP"} -> "LoadBalancer"
      [] type \in {"Member", "HealthMonitor"} -> "Pool"
      [] type = "L7Policy" -> "Listener"
      [] type = "L7Rule" -> "L7Policy"
      [] type = "LoadBalancer" -> "none"

Roles(type) ==
    CASE type = "L7Policy" -> {"l7-policy-exact", "l7-policy-prefix"}
      [] type = "L7Rule" -> {"l7-rule-path", "l7-rule-host"}
      [] OTHER -> {type}

-----------------------------------------------------------------------------
(* Identities: [g, gu] of a Gateway and, for a route, [r, ru]; r = "" if none. *)
isRoute(record) == record.r # ""
GatewayOf(record) == [g |-> record.g, gu |-> record.gu]

RouteTags(i, role) ==
    [scope |-> "own", project |-> "own", role |-> role,
     name |-> i.g, uid |-> i.gu, rname |-> i.r, ruid |-> i.ru]
InScope(tags) == tags.scope = "own"
MatchesGatewayDiscovery(i, tags, role) == InScope(tags) /\ tags.name = i.g /\ tags.role = role
MatchesGateway(i, tags, role) ==
    MatchesGatewayDiscovery(i, tags, role) /\ tags.uid = i.gu /\ tags.project = "own"
MatchesRouteDiscovery(i, tags, role) ==
    MatchesGatewayDiscovery(i, tags, role) /\ tags.rname = i.r
MatchesRoute(i, tags, role) ==
    MatchesGateway(i, tags, role) /\ tags.rname = i.r /\ tags.ruid = i.ru
MatchesGatewayDescription(i, desc) == desc = GatewayOf(i)

-----------------------------------------------------------------------------
(* Candidates: a resource with the parents it reported and was listed under. *)
Candidate(x, reported, observed) ==
    [x |-> x, reported |-> reported, observed |-> observed, changed |-> FALSE]
Known(id) == {id} \ {None}

Merged(old, k) ==
    [old EXCEPT !.changed = @ \/ [old.x EXCEPT !.parent = None] # [k.x EXCEPT !.parent = None],
                !.reported = @ \cup k.reported, !.observed = @ \cup k.observed]
Item(new, id) == CHOOSE k \in new : k.x.id = id

(* Mutant of add: one changed resource makes the whole set changed. *)
addTaints(cands, new) ==
    LET known == {k \in new : k.x.id \in DOMAIN cands}
        tainted == \E k \in known : Merged(cands[k.x.id], k).changed
        all == [id \in {k.x.id : k \in new} |->
                  IF id \in DOMAIN cands THEN Merged(cands[id], Item(new, id)) ELSE Item(new, id)] @@ cands
    IN  IF tainted THEN [id \in DOMAIN all |-> [all[id] EXCEPT !.changed = TRUE]] ELSE all

(* auditCandidateSet.add, for every item of one list. *)
add(cands, new) ==
    [id \in {k.x.id : k \in new} |->
        IF id \in DOMAIN cands THEN Merged(cands[id], Item(new, id)) ELSE Item(new, id)] @@ cands

scopedIDs(cands, type) ==
    {id \in DOMAIN cands : id.type = type /\ cands[id].x.project = "own"
                                          /\ InScope(cands[id].x.tags)}

(* The requests of one phase: None is the list by tag or of the project. *)
Requests(cands, type) ==
    CASE type \in {"LoadBalancer", "L7Policy", "FloatingIP"} -> {None}
      [] type \in {"Listener", "Pool"} -> {None} \cup scopedIDs(cands, "LoadBalancer")
      [] type = "HealthMonitor" -> {None} \cup scopedIDs(cands, "Pool")
      [] type = "Member" -> scopedIDs(cands, "Pool")
      [] type = "L7Rule" -> scopedIDs(cands, "L7Policy")

(* Mutant of collectAuditPolicies: only the policies of listeners in the inventory. *)
collectAuditDescendantPolicies(cloud, cands) ==
    {Candidate(x, Known(x.parent), {x.parent}) :
        x \in {y \in cloud : y.type = "L7Policy" /\ y.parent \in scopedIDs(cands, "Listener")}}

collectAuditPolicies(cloud, cands) ==
    LET descendant(x) == x.parent \in scopedIDs(cands, "Listener")
    IN  {Candidate(x, Known(x.parent), IF descendant(x) THEN {x.parent} ELSE {}) :
            x \in {y \in cloud : y.type = "L7Policy" /\ (InScope(y.tags) \/ descendant(y))}}

collectAuditFloatingIPs(cloud, cands, records) ==
    LET parents(x) == Known(x.parent) \cap scopedIDs(cands, "LoadBalancer")
        matches(x) == \E i \in records : MatchesGatewayDescription(i, x.desc)
    IN  {Candidate(x, parents(x), {}) :
            x \in {y \in cloud : y.type = "FloatingIP" /\ (parents(y) # {} \/ matches(y))}}

(* listAuditListeners, listAuditPools, listAuditMonitors, the load balancers,
   and the members and rules, which have no list of their own. *)
listAudit(cloud, type, under) ==
    {Candidate(x, IF type = "L7Rule" THEN {} ELSE Known(x.parent), Known(under)) :
        x \in {y \in cloud : y.type = type
                               /\ IF under = None THEN InScope(y.tags) ELSE y.parent = under}}

List(cloud, cands, records, type, under) ==
    add(cands, CASE type = "L7Policy" -> collectAuditPolicies(cloud, cands)
                 [] type = "FloatingIP" -> collectAuditFloatingIPs(cloud, cands, records)
                 [] OTHER -> listAudit(cloud, type, under))

-----------------------------------------------------------------------------
Contradicts(k) == \/ Cardinality(k.reported) > 1 \/ Cardinality(k.observed) > 1
                  \/ k.reported # {} /\ k.observed # {} /\ k.reported # k.observed

auditCandidateParent(k) ==
    IF Contradicts(k) THEN None
    ELSE CHOOSE id \in (k.reported \cup k.observed) \cup {None} :
            k.reported \cup k.observed = Known(id)

(* auditCandidateRole and validateAuditIdentityTags *)
ValidTags(x) ==
    /\ x.tags.role \in Roles(x.type)
    /\ x.tags.project # "" /\ x.tags.name # "" /\ x.tags.uid # 0
    /\ routeScoped(x.type) => x.tags.rname # "" /\ x.tags.ruid # 0

(* auditTagValuesEqual *)
TagsEqual(a, b, withRoute) ==
    /\ {a.scope, b.scope} = {"own"}
    /\ a.project = b.project /\ a.project # "" /\ a.name = b.name /\ a.name # ""
    /\ a.uid = b.uid /\ a.uid # 0
    /\ withRoute => a.rname = b.rname /\ a.rname # "" /\ a.ruid = b.ruid /\ a.ruid # 0

onlyAuditUIDsDiffer(tags, i, role) ==
    LET expected == RouteTags(i, role)
    IN  tags # expected /\ [tags EXCEPT !.uid = i.gu, !.ruid = i.ru] = expected

matchingAuditRecords(records, tags, type) ==
    LET own == {i \in records : isRoute(i) = routeScoped(type)}
        exact(i) == IF routeScoped(type) THEN MatchesRoute(i, tags, tags.role)
                    ELSE MatchesGateway(i, tags, tags.role)
        near(i) == IF routeScoped(type) THEN MatchesRouteDiscovery(i, tags, tags.role)
                   ELSE MatchesGatewayDiscovery(i, tags, tags.role)
    IN  [exact |-> {i \in own : exact(i)},
         discovery |-> {i \in own : near(i) /\ ~exact(i)},
         routeGateway |-> IF routeScoped(type) THEN {}
                          ELSE {i \in records : isRoute(i) /\ MatchesGateway(i, tags, tags.role)}]

classifyAuditFloatingIP(cands, k, records) ==
    LET mine == {i \in records : MatchesGatewayDescription(i, k.x.desc)}
        exact == {i \in mine : ~isRoute(i)}
        parent == auditCandidateParent(k)
        lbMatches == parent \in DOMAIN cands
                       /\ \E i \in mine : MatchesGateway(i, cands[parent].x.tags, "LoadBalancer")
    IN  CASE k.x.desc = NoDesc -> "ownershipConflict"
          [] k.x.desc # NoDesc /\ exact # {} ->
                IF parent = None \/ parent \notin DOMAIN cands THEN "unresolved"
                ELSE IF lbMatches THEN "matched" ELSE "ownershipConflict"
          [] k.x.desc # NoDesc /\ exact = {} ->
                IF mine # {} /\ parent # None /\ ~lbMatches
                THEN "ownershipConflict" ELSE "unresolved"

(* The end of classifyAuditCandidate: the identity is valid, its bindings decide. *)
classifyByBinding(cands, k, records) ==
    LET m == matchingAuditRecords(records, k.x.tags, k.x.type)
    IN  IF m.exact # {}
        THEN IF Cardinality(m.exact) > 1 THEN "ownershipConflict"
             ELSE IF k.x.type # "LoadBalancer" /\ auditCandidateParent(k) \notin DOMAIN cands
             THEN "unresolved" ELSE "matched"
        ELSE IF m.routeGateway # {} THEN "unresolved"
        ELSE IF m.discovery = {} THEN "orphanCandidate"
        ELSE IF \A i \in m.discovery : Cardinality(m.discovery) = 1
                                         /\ onlyAuditUIDsDiffer(k.x.tags, i, k.x.tags.role)
        THEN "staleUID" ELSE "ownershipConflict"

classifyAuditCandidate(cands, k, records) ==
    LET x == k.x
        parent == auditCandidateParent(k)
        here == parent \in DOMAIN cands
        withRoute == x.type \in {"Member", "HealthMonitor", "L7Rule"}
    IN  IF k.changed \/ x.project = "" THEN "unresolved"
        ELSE IF x.project # "own" \/ Contradicts(k) THEN "ownershipConflict"
        ELSE IF x.type = "FloatingIP" THEN classifyAuditFloatingIP(cands, k, records)
        ELSE IF ~InScope(x.tags) \/ ~ValidTags(x) \/ x.tags.project # "own"
        THEN "ownershipConflict"
        ELSE IF x.type = "LoadBalancer" /\ x.provider = "" THEN "unresolved"
        ELSE IF x.type = "LoadBalancer" /\ x.provider # "amphora" THEN "ownershipConflict"
        ELSE IF x.type \in {"Listener", "Pool", "HealthMonitor"} /\ here /\ k.observed = {}
        THEN "unresolved"
        ELSE IF here /\ ~TagsEqual(x.tags, cands[parent].x.tags, withRoute)
        THEN "ownershipConflict"
        ELSE IF x.type = "L7Policy" /\ x.redirect \notin DOMAIN cands THEN "unresolved"
        ELSE IF x.type = "L7Policy" /\ ~TagsEqual(x.tags, cands[x.redirect].x.tags, TRUE)
        THEN "ownershipConflict"
        ELSE classifyByBinding(cands, k, records)

-----------------------------------------------------------------------------
(* Mutant of stableTags: the role is not part of a key. *)
stableTagsNoRole(x) == <<x.tags.name>> \o IF routeScoped(x.type) THEN <<x.tags.rname>> ELSE <<>>

stableTags(x) ==
    <<x.tags.name, x.tags.role>> \o IF routeScoped(x.type) THEN <<x.tags.rname>> ELSE <<>>

(* <<>> for a resource that is not counted. *)
auditCardinalityKey(k) ==
    CASE k.x.type = "Member" -> <<>>
      [] k.x.type = "FloatingIP" -> <<k.x.type, k.x.desc>>
      [] OTHER -> IF ~InScope(k.x.tags) \/ "" \in Range(stableTags(k.x)) THEN <<>>
                  ELSE <<k.x.type>> \o stableTags(k.x)
                         \o IF k.x.type = "L7Rule" THEN <<auditCandidateParent(k)>> ELSE <<>>

markDuplicateAuditIdentities(cands, found) ==
    LET keys == {<<id, auditCardinalityKey(cands[id])>> : id \in DOMAIN cands}
        twins(a, b) == a[1] # b[1] /\ a[2] = b[2] /\ a[2] # <<>>
        counted(a) == found[a[1]] # "ownershipConflict"
        twice == {a[1] : a \in {c \in keys : \E b \in keys : twins(c, b) /\ counted(c) /\ counted(b)}}
    IN  [id \in DOMAIN cands |-> IF id \in twice THEN "ownershipConflict" ELSE found[id]]

(* Mutant of propagateAuditParentFindings: every finding at once, not parents first. *)
propagateAuditParentFindingsOnce(cands, found) ==
    [id \in DOMAIN found |->
        LET p == auditCandidateParent(cands[id])
        IN  IF found[id] # "matched" \/ p \notin DOMAIN found \/ found[p] = "matched" THEN found[id]
            ELSE IF found[p] = "ownershipConflict" THEN found[p] ELSE "unresolved"]

(* A pass in auditResourceOrder: parents come before children, pools before policies. *)
RECURSIVE Propagated(_, _, _)
Propagated(cands, found, id) ==
    LET above == <<auditCandidateParent(cands[id])>>
                   \o IF id.type = "L7Policy" THEN <<cands[id].x.redirect>> ELSE <<>>
        verdicts == [i \in DOMAIN above |-> IF above[i] \in DOMAIN cands
                                            THEN Propagated(cands, found, above[i]) ELSE "matched"]
        unmatched == SelectSeq(verdicts, LAMBDA v : v # "matched")
    IN  IF found[id] # "matched" THEN found[id]
        ELSE IF unmatched = <<>> THEN "matched"
        ELSE IF Head(unmatched) = "ownershipConflict" THEN "ownershipConflict"
        ELSE "unresolved"

propagateAuditParentFindings(cands, found) ==
    [id \in DOMAIN found |-> Propagated(cands, found, id)]

(* The disposition of every candidate; order and wording are left out. *)
classifyAuditCandidates(cands, records) ==
    LET found == [id \in DOMAIN cands |-> classifyAuditCandidate(cands, cands[id], records)]
    IN  propagateAuditParentFindings(cands, markDuplicateAuditIdentities(cands, found))
=============================================================================
