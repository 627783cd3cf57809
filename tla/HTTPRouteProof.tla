--------------------------- MODULE HTTPRouteProof ---------------------------
(***************************************************************************)
(* The safety of the HTTPRoute reconciler for any names of routes and      *)
(* Gateways, any listeners and any bounds on what its surroundings do: the *)
(* surroundings' steps and the worker's writes and provider calls preserve *)
(* the invariant of HTTPRouteReadsProof, and its theorems follow.          *)
(***************************************************************************)
EXTENDS HTTPRouteReadsProof

USE ZenonT(30)

-----------------------------------------------------------------------------
(* The world after a write to a live route. *)
LEMMA CacheFallsBehind ==
  ASSUME World, NEW n \in Names, NEW r \in Routes, WriteRoute(n, r)
  PROVE  /\ cache' \in Caches /\ cache'.route = cache.route /\ cache'.gw = cache.gw
         /\ cache'.cls = cache.cls /\ cache'.svc = cache.svc
         /\ cache'.fresh \subseteq cache.fresh /\ (n \in cache'.fresh => r = route[n])
         /\ route' \in [Names -> Routes] /\ route'[n] = r
         /\ \A m \in Names \ {n} : route'[m] = route[m]
<1>1. cache \in Caches /\ route \in [Names -> Routes]
  BY DEF World, Types
<1> USE <1>1
<1>2. CASE r = route[n]
  BY <1>2 DEF WriteRoute
<1>3. CASE r # route[n]
  <2>1. cache' = [cache EXCEPT !.fresh = cache.fresh \ {n}]
    BY <1>3 DEF WriteRoute
  <2>2. /\ cache' \in Caches /\ cache'.route = cache.route /\ cache'.gw = cache.gw
        /\ cache'.cls = cache.cls /\ cache'.svc = cache.svc
        /\ cache'.fresh = cache.fresh \ {n}
    BY <2>1 DEF Caches
  <2> QED
    BY <1>3, <2>2 DEF WriteRoute
<1> QED
  BY <1>2, <1>3

(* The parts of the invariant that a write to one route may disturb. *)
WrittenTo(n, r) == route'[n] = r /\ \A m \in Names \ {n} : route'[m] = route[m]

LEMMA RouteWritten ==
  ASSUME World, NEW n \in Names, NEW r \in Routes, WriteRoute(n, r),
         UNCHANGED <<gw, cls, svc, bundle, lb, parts>>, queued' \subseteq Names,
         spent' \in Counters, spent'.in = spent.in, spent'.made = spent.made,
         spent.routes <= spent'.routes, spent'.routes <= spent'.in.routes,
         r.uid <= spent'.routes, r.uid = 0 => r = NoRoute, r.st.gen <= r.gen,
         r.uid \in {0, route[n].uid} \/ r.uid > spent.routes, Later(n),
         \/ r.ann \in {NoUID, route[n].ann}
         \/ /\ r.ann \in UIDs /\ KnownGateway(r.ann) /\ r.ann[1] = r.parent
            /\ \A g \in Gateways : Reached(r.ann, cache.gw[g]),
         \A u \in UIDs, x \in RouteUIDs : x = route[n].uid /\ parts[u][x] # "none" =>
            r.uid = x /\ r.fin = u /\ r.ann \in {u, NoUID}
  PROVE  World'
<1>IdentitiesKept. ASSUME Identities, NEW w \in Names, NEW s \in Routes, WrittenTo(w, s),
                          \A m \in Names : route[m] \in Routes /\ cache.route[m] \in Routes,
                          cache'.route = cache.route, cache'.gw = cache.gw, gw' = gw,
                          spent.routes \in Nat, spent'.routes \in Nat,
                          spent'.in = spent.in, spent'.made = spent.made, spent.routes <= spent'.routes,
                          s.uid <= spent'.routes, s.uid = 0 => s = NoRoute, s.st.gen <= s.gen,
                          s.uid \in {0, route[w].uid} \/ s.uid > spent.routes
                   PROVE  Identities'
  <2> USE <1>IdentitiesKept
  <2>1. ASSUME NEW m \in Names PROVE KnownRoute(route[m])' /\ KnownRoute(cache.route[m])'
    <3>1. KnownRoute(route[m]) /\ KnownRoute(cache.route[m])
      BY DEF Identities
    <3>2. route[m].uid \in Nat /\ cache.route[m].uid \in Nat
      BY RouteFields
    <3>3. KnownRoute(cache.route[m])'
      BY <3>1, <3>2, SMTT(30) DEF KnownRoute
    <3>4. KnownRoute(route[m])'
      <4>1. CASE m = w
        BY <4>1 DEF KnownRoute, WrittenTo
      <4>2. CASE m # w
        BY <3>1, <3>2, <4>2, SMTT(30) DEF KnownRoute, WrittenTo
      <4> QED
        BY <4>1, <4>2
    <3> QED
      BY <3>3, <3>4
  <2>2. ASSUME NEW k \in Names, NEW m \in Names, route'[k].uid = route'[m].uid, route'[k].uid # 0
        PROVE  k = m
    <3>1. \A i \in Names : route[i].uid <= spent.routes /\ route[i].uid \in Nat
      BY RouteFields DEF Identities, KnownRoute
    <3>2. \A i, j \in Names : route[i].uid = route[j].uid /\ route[i].uid # 0 => i = j
      BY DEF Identities
    <3>3. s.uid \in Nat
      BY RouteFields
    <3> QED
      BY <2>2, <3>1, <3>2, <3>3, SMTT(30) DEF WrittenTo
  <2>3. ASSUME NEW g \in Gateways
        PROVE  /\ gw'[g] = NoGateway \/ (g \in spent'.in.parents /\ gw'[g].uid = <<g, spent'.made[g]>>)
               /\ cache'.gw[g] = NoGateway \/ cache'.gw[g].uid[1] = g
               /\ KnownGateway(cache.gw[g].uid)'
    BY DEF Identities, KnownGateway
  <2> QED
    BY <2>1, <2>2, <2>3 DEF Identities
<1>CopiedKept. ASSUME NEW w \in Names, NEW s \in Routes, route'[w] = s, cache'.route = cache.route,
                      cache'.fresh \subseteq cache.fresh, w \in cache'.fresh => s = route[w],
                      route[w] \in Routes, cache.route[w] \in Routes, spent.routes \in Nat,
                      KnownRoute(cache.route[w]), Copied(w), Later(w),
                      s.uid = 0 => s = NoRoute,
                      s.ann \in {NoUID, route[w].ann} \/ s.ann[1] = s.parent
               PROVE  Copied(w)'
  <2> USE <1>CopiedKept
  <2> DEFINE c == cache.route[w]
             q == route[w]
  <2>1. /\ c.uid \in Nat /\ c.gen \in Nat /\ q.gen \in Nat /\ s.gen \in Nat /\ s.uid \in Nat
        /\ c.uid <= spent.routes /\ (c.uid = 0 => c = NoRoute)
    BY RouteFields DEF KnownRoute
  <2> USE <2>1
  <2>2. c.uid = q.uid =>
          /\ c.gen <= q.gen /\ (c.deleting => q.deleting)
          /\ c.gen = q.gen => /\ c.parent = q.parent /\ c.shape = q.shape
                              /\ c.second = q.second
                              /\ q.ann \in {c.ann, NoUID} \/ q.ann[1] = q.parent
    BY DEF Copied
  <2>3. w \in cache'.fresh => c = s
    BY DEF Copied
  <2> USE <2>3
  <2>4. CASE s = NoRoute
    <3>1. c.uid = s.uid => c = s
      BY <2>4, Absences
    <3>2. s.gen <= s.gen
      BY Order
    <3> QED
      BY <3>1, <3>2 DEF Copied
  <2>5. CASE s.uid > spent.routes
    <3>1. c.uid # s.uid
      BY <2>5, Order
    <3> QED
      BY <3>1 DEF Copied
  <2>6. CASE /\ s.uid = q.uid /\ s.gen >= q.gen /\ (q.deleting => s.deleting)
             /\ s.gen = q.gen => /\ s.parent = q.parent /\ s.shape = q.shape
                                 /\ s.second = q.second
    <3>1. q.gen <= s.gen
      BY <2>6, Order
    <3>2. c.gen <= q.gen => c.gen <= s.gen /\ (c.gen = s.gen => c.gen = q.gen)
      BY <3>1, SMTT(30)
    <3>3. c.uid = s.uid => c.gen <= s.gen /\ (c.deleting => s.deleting)
      BY <2>2, <2>6, <3>2
    <3>4. c.uid = s.uid /\ c.gen = s.gen =>
            /\ c.parent = s.parent /\ c.shape = s.shape /\ c.second = s.second
            /\ s.ann \in {c.ann, NoUID} \/ s.ann[1] = s.parent
      BY <2>2, <2>6, <3>2
    <3> QED
      BY <3>3, <3>4 DEF Copied
  <2> QED
    BY <2>4, <2>5, <2>6 DEF Later
<1>BindingsKept. ASSUME BindingsKnown, NEW w \in Names, NEW s \in Routes, WrittenTo(w, s),
                        cache'.route = cache.route, cache'.gw = cache.gw,
                        spent'.in = spent.in, spent'.made = spent.made,
                        \/ s.ann \in {NoUID, route[w].ann}
                        \/ KnownGateway(s.ann) /\ \A g \in Gateways : Reached(s.ann, cache.gw[g])
                 PROVE  BindingsKnown'
  <2> USE <1>BindingsKept
  <2>1. \A m \in Names : \A a \in {route[m].ann, cache.route[m].ann} :
            KnownGateway(a) /\ \A g \in Gateways : Reached(a, cache.gw[g])
    BY DEF BindingsKnown
  <2>2. KnownGateway(NoUID) /\ \A g \in Gateways : Reached(NoUID, cache.gw[g])
    BY DEF KnownGateway, Reached
  <2>3. \A m \in Names : \A a \in {route'[m].ann, cache'.route[m].ann} :
            KnownGateway(a) /\ \A g \in Gateways : Reached(a, cache.gw[g])
    BY <2>1, <2>2, SMTT(30) DEF WrittenTo
  <2>4. ASSUME NEW m \in Names, NEW a \in {route'[m].ann, cache'.route[m].ann}
        PROVE  /\ a # NoUID => a[1] \in spent'.in.parents /\ a[2] <= spent'.made[a[1]]
               /\ \A g \in Gateways : Reached(a, cache'.gw[g])
    <3>1. KnownGateway(a) /\ \A g \in Gateways : Reached(a, cache.gw[g])
      BY <2>3
    <3> QED
      BY <3>1 DEF KnownGateway
  <2> QED
    BY <2>4 DEF BindingsKnown, KnownGateway, Reached
<1>BoundKept. ASSUME Bound, NEW w \in Names, NEW s \in Routes, WrittenTo(w, s), UNCHANGED <<gw, lb, parts>>,
                     \A u \in UIDs, x \in RouteUIDs : x = route[w].uid /\ parts[u][x] # "none" =>
                        s.uid = x /\ s.fin = u /\ s.ann \in {u, NoUID}
              PROVE  Bound'
  <2> USE <1>BoundKept
  <2>1. ASSUME NEW u \in UIDs, NEW x \in RouteUIDs, parts[u][x] # "none"
        PROVE  \E m \in Names : /\ route'[m].uid = x /\ route'[m].fin = u
                                /\ route'[m].ann \in {u, NoUID}
    <3>1. PICK m \in Names : /\ route[m].uid = x /\ route[m].fin = u
                             /\ route[m].ann \in {u, NoUID}
      BY <2>1, SMTT(30) DEF Bound
    <3>2. route'[m].uid = x /\ route'[m].fin = u /\ route'[m].ann \in {u, NoUID}
      BY <2>1, <3>1, SMTT(30) DEF WrittenTo
    <3> QED
      BY <3>2
  <2>2. \A u \in UIDs : /\ lb[u] # "none" => gw[u[1]].uid = u /\ gw[u[1]].ann # 0
                       /\ \A x \in RouteUIDs : parts[u][x] # "none" => lb[u] # "none"
    BY Order DEF Bound
  <2> QED
    BY <2>1, <2>2, SMTT(30) DEF Bound
<1>1. /\ cache' \in Caches /\ cache'.route = cache.route /\ cache'.gw = cache.gw
      /\ cache'.fresh \subseteq cache.fresh /\ (n \in cache'.fresh => r = route[n])
      /\ route' \in [Names -> Routes] /\ route'[n] = r /\ WrittenTo(n, r)
  BY CacheFallsBehind DEF WrittenTo
<1> USE <1>1
<1>2. /\ \A m \in Names : route[m] \in Routes /\ cache.route[m] \in Routes
      /\ spent.routes \in Nat /\ spent'.routes \in Nat
  BY Typed DEF World, Counters
<1>3. Types'
  BY DEF World, Types
<1>4. /\ Identities /\ (\A m \in Names : Copied(m)) /\ BindingsKnown /\ Bound /\ OneRoute
      /\ gw' = gw /\ lb' = lb /\ parts' = parts
  BY DEF World
<1> USE <1>4
<1>5. Identities'
  BY <1>2, <1>IdentitiesKept
<1>6. ASSUME NEW m \in Names PROVE Copied(m)'
  <2>1. CASE m # n
    <3>1. route'[m] = route[m] /\ Copied(m)
      BY <2>1 DEF WrittenTo
    <3> QED
      BY <3>1 DEF Copied
  <2>2. CASE m = n
    <3>1. KnownRoute(cache.route[n]) /\ Copied(n)
      BY DEF Identities
    <3> QED
      BY <1>2, <2>2, <3>1, <1>CopiedKept
  <2> QED
    BY <2>1, <2>2
<1>7. BindingsKnown'
  BY <1>BindingsKept
<1>8. Bound'
  BY <1>BoundKept
<1>9. OneRoute'
  BY SMTT(30) DEF OneRoute
<1> QED
  BY <1>3, <1>5, <1>6, <1>7, <1>8, <1>9 DEF World

(* The same where nothing they are about changes. *)
LEMMA IdentitiesStay ==
  ASSUME Identities, route' = route, gw' = gw, cache'.route = cache.route, cache'.gw = cache.gw,
         spent'.routes = spent.routes, spent'.in = spent.in, spent'.made = spent.made
  PROVE  Identities'
<1>1. \A n \in Names : KnownRoute(route[n])' /\ KnownRoute(cache.route[n])'
  BY DEF Identities, KnownRoute
<1>2. \A g \in Gateways : KnownGateway(cache.gw[g].uid)'
  BY DEF Identities, KnownGateway
<1> QED
  BY <1>1, <1>2 DEF Identities

LEMMA BindingsStay ==
  ASSUME BindingsKnown, spent'.in = spent.in, spent'.made = spent.made,
         \A n \in Names : /\ route'[n].ann \in {route[n].ann, cache.route[n].ann}
                          /\ cache'.route[n].ann \in {route[n].ann, cache.route[n].ann},
         cache'.gw = cache.gw
  PROVE  BindingsKnown'
<1>1. \A n \in Names : \A a \in {route'[n].ann, cache'.route[n].ann} :
          KnownGateway(a) /\ \A g \in Gateways : Reached(a, cache.gw[g])
  BY DEF BindingsKnown
<1> QED
  BY <1>1 DEF BindingsKnown, KnownGateway

LEMMA CopiedStays ==
  ASSUME NEW n \in Names, Copied(n), route'[n] = route[n], cache'.route[n] = cache.route[n],
         n \in cache'.fresh => n \in cache.fresh
  PROVE  Copied(n)'
BY DEF Copied

LEMMA Spending ==
  ASSUME Types, NEW k \in Bounded, Spend(k)
  PROVE  /\ spent' \in Counters /\ spent'.in = spent.in /\ spent'.made = spent.made
         /\ spent.routes <= spent'.routes /\ spent'.routes <= spent'.in.routes
         /\ k = "routes" => spent'.routes = spent.routes + 1
         /\ k # "routes" => spent'.routes = spent.routes
<1>1. /\ spent \in Counters /\ spent.routes \in Nat /\ spent.in.routes \in Nat
      /\ spent.routes <= spent.in.routes
  BY Typed DEF Types
<1> USE <1>1
<1>2. CASE k = "routes"
  BY <1>2, SMTT(30) DEF Spend, Counters
<1>3. CASE k # "routes"
  <2>1. spent' \in Counters /\ spent'.in = spent.in /\ spent'.made = spent.made
        /\ spent'.routes = spent.routes
    BY <1>3, Order DEF Spend, Counters, Bounded
  <2> QED
    BY <1>3, <2>1, Order
<1> QED
  BY <1>2, <1>3

(* The load balancers come and go; a teardown takes the routes' parts first. *)
PartSet(u, x, v) == parts' = [parts EXCEPT ![u][x] = v]

LEMMA PartsStep ==
  ASSUME Types, NEW u \in UIDs, NEW x \in RouteUIDs, NEW v \in PartStates, PartSet(u, x, v)
  PROVE  /\ parts' \in [UIDs -> [RouteUIDs -> PartStates]] /\ parts'[u][x] = v
         /\ \A w \in UIDs, y \in RouteUIDs : w # u \/ y # x => parts'[w][y] = parts[w][y]
BY DEF Types, PartSet

LEMMA Sizes ==
  \A v \in PartStates : Grown(v) \in PartStates /\ Shrunk(v) \in PartStates /\ Grown(v) # "none"
BY DEF PartStates, Grown, Shrunk

-----------------------------------------------------------------------------
GatewayLater(g) ==
    \/ gw'[g].uid = NoUID \/ gw'[g].uid[2] > spent.made[g]
    \/ /\ gw'[g].uid = gw[g].uid /\ gw'[g].gen >= gw[g].gen
       /\ gw[g].deleting => gw'[g].deleting
       /\ gw'[g].gen = gw[g].gen => gw'[g].kind = gw[g].kind

(* So was a Gateway that is still the one observed. *)
LEMMA ParentStays ==
  ASSUME IInv, rec.pc \in Observing \ {"e2"}, \A g \in Gateways : GatewayLater(g),
         \A g \in Gateways : gw'[g] \in GatewayObjects
  PROVE  LET g == rec.g.uid[1] IN
         /\ rec.o.uid = gw'[g].uid =>
               /\ rec.o.gen <= gw'[g].gen
               /\ rec.o.gen = gw'[g].gen => rec.o.kind = gw'[g].kind
         /\ Same(gw'[g], rec.o) => Same(gw[g], rec.o)
<1> DEFINE g == rec.g.uid[1]
           q == gw[g]
           p == gw'[g]
<1>1. /\ rec.o.uid = rec.g.uid /\ ~rec.o.deleting
      /\ rec.o.uid = q.uid => /\ rec.o.gen <= q.gen
                              /\ rec.o.gen = q.gen => rec.o.kind = q.kind
  BY DEF IInv, Underway, Seals, Parent, Same
<1> USE <1>1
<1>2. rec.g.uid \in UIDs /\ g \in spent.in.parents /\ rec.g.uid[2] <= spent.made[g]
  BY UIDFacts DEF IInv, Underway, Aim, Aims, KnownGateway, Observing
<1>3. g \in Gateways /\ rec.g.uid[2] \in Nat /\ spent.made[g] \in Nat /\ rec.g.uid # NoUID
  BY <1>2, UIDFacts, Typed DEF IInv, World
<1> USE <1>3
<1>4. /\ rec.o.gen \in Nat /\ p.gen \in Nat /\ q.gen \in Nat /\ rec.o.deleting \in BOOLEAN
      /\ p.deleting \in BOOLEAN /\ q.deleting \in BOOLEAN
  BY ScopeFields, Typed, GatewayFields DEF IInv, World, Underway
<1>5. rec.o.uid = p.uid =>
        /\ p.uid = q.uid /\ p.gen >= q.gen /\ (q.deleting => p.deleting)
        /\ p.gen = q.gen => p.kind = q.kind
  <2>1. CASE p.uid = NoUID
    BY <2>1
  <2>2. CASE p.uid[2] > spent.made[g]
    <3> HIDE DEF p, q
    <3>1. rec.o.uid = p.uid => p.uid[2] = rec.g.uid[2]
      OBVIOUS
    <3> HIDE DEF g
    <3> QED
      BY <1>2, <2>2, <3>1, SMTT(30)
  <2> QED
    BY <2>1, <2>2 DEF GatewayLater
<1> HIDE DEF g, p, q
<1>6. /\ rec.o.uid = p.uid => rec.o.gen <= p.gen /\ (rec.o.gen = p.gen => rec.o.kind = p.kind)
      /\ Same(p, rec.o) => Same(q, rec.o)
  BY <1>4, <1>5, Order DEF Same
<1> QED
  BY <1>6 DEF g, p, q

(* What may happen to a reconciliation between two of its steps: the live    *)
(* objects and the caches go on, its observations grow old, resources are    *)
(* torn down under it, and its history grows.                                *)
Waits ==
    /\ rec' \in Scopes /\ rec'.pc = rec.pc /\ rec'.n = rec.n /\ rec'.r = rec.r
    /\ rec'.g = rec.g /\ rec'.o = rec.o /\ rec'.u = rec.u /\ rec'.mode = rec.mode
    /\ rec'.plan = rec.plan /\ rec'.binding = rec.binding /\ rec'.rivals = rec.rivals
    /\ rec'.fresh => rec.fresh /\ route'[rec.n] = route[rec.n]

OthersWrite(n) ==
    /\ Later(n) /\ route'[n].ann \in {route[n].ann, NoUID}
    /\ route'[n].uid = route[n].uid =>
          route'[n].fin = route[n].fin /\ route'[n].st = route[n].st
    /\ route'[n].uid # route[n].uid => route[n].fin = NoUID /\ route'[n].st = NoStatus

CachesLater ==
    /\ \A n \in Names :
          \/ cache'.route[n] = cache.route[n]
          \/ cache'.route[n] = route[n] /\ route'[n] = route[n]
    /\ \A g \in Gateways : cache'.gw[g] \in {cache.gw[g], gw[g]}

CountsGrow ==
    /\ spent'.in = spent.in /\ spent'.routes \in Nat /\ spent.routes <= spent'.routes
    /\ \A g \in spent.in.parents : spent'.made[g] \in Nat /\ spent.made[g] <= spent'.made[g]

PartsShrink ==
    \A u \in UIDs, x \in RouteUIDs : parts[u][x] = "none" => parts'[u][x] = "none"

LEMMA Stays ==
  ASSUME IInv, Waits, Types', Remember, CountsGrow, PartsShrink, CachesLater,
         rec.pc # "idle" => OthersWrite(rec.n), \A g \in Gateways : GatewayLater(g)
  PROVE  Underway'
<1>0. /\ spent'.routes \in Nat /\ spent.routes \in Nat /\ rec' \in Scopes
      /\ rec.r \in Routes /\ rec.r.uid \in Nat /\ rec.r.uid <= spent.routes
      /\ spent.routes <= spent'.routes
  BY Typed, ScopeFields, RouteFields DEF IInv, World, Underway, Revisions, Waits, CountsGrow
<1>1. CASE rec.pc = "idle"
  <2>1. rec'.pc = "idle" /\ rec'.mode = "none" /\ ~rec'.fresh /\ rec'.r = rec.r
    BY <1>1 DEF IInv, Underway, Modes, Resting, Revisions, Waits, Cleaning, Ensuring, Observing
  <2>2. rec'.r.uid <= spent'.routes /\ rec'.fresh = FALSE /\ rec'.pc \in Resting
    BY <1>0, <2>1, ScopeFields, Order DEF Resting, Scopes
  <2> QED
    BY <1>0, <2>1, <2>2, Rests
<1>2. CASE rec.pc # "idle"
  <2> DEFINE n == rec.n
             q == route[n]
             p == route'[n]
             c == cache.route[n]
             d == cache'.route[n]
  <2>1. rec.n \in Names
    BY <1>2 DEF IInv, Underway, Revisions
  <2>2. p \in Routes /\ q \in Routes /\ c \in Routes /\ d \in Routes
    <3>1. \A m \in Names : route'[m] \in Routes /\ cache'.route[m] \in Routes
      BY Typed DEF Types, Caches
    <3> QED
      BY <2>1, <3>1, Typed DEF IInv, World
  <2>3. OthersWrite(n) /\ Later(n) /\ (d = c \/ (d = q /\ p = q))
    BY <1>2, <2>1 DEF OthersWrite, CachesLater
  <2>4. /\ rec.r.uid = p.uid => /\ rec.r.uid = q.uid /\ rec.r.gen <= p.gen
                                /\ rec.r.deleting => p.deleting
        /\ Same(p, rec.r) => /\ Same(q, rec.r) /\ p.parent = q.parent /\ p.shape = q.shape
                             /\ p.second = q.second
    BY <1>2, <2>2, <2>3, RevisionStays
  <2>5. Stored = q /\ Stored' = p
    BY DEF Stored, Waits
  <2> USE <2>5
  <2>6. p.ann \in {q.ann, NoUID}
    BY <2>3 DEF OthersWrite
  <2> HIDE DEF n, q, p, c, d
  <2>7. Revisions'
    <3>1. /\ rec'.n \in Names /\ rec'.r.uid # 0 /\ rec'.r.uid <= spent'.routes
          /\ rec'.fresh => rec'.pc \in (Cleaning \ {"delete"}) \cup Observing
      BY <1>0, <1>2, <2>1, SMTT(30) DEF IInv, Underway, Revisions, Waits
    <3>2. rec'.fresh => p = q
      BY DEF Waits, p, q, n
    <3>3. rec'.pc \in Cleaning \cup Observing /\ Same(p, rec'.r) =>
            p.parent = rec'.r.parent /\ p.shape = rec'.r.shape /\ p.second = rec'.r.second
      BY <2>4 DEF IInv, Underway, Revisions, Waits
    <3>4. rec'.fresh => /\ Same(p, rec'.r)
                        /\ rec'.pc \in Observing => p.fin = rec'.r.fin /\ p.ann = rec'.r.ann
      BY <3>2 DEF IInv, Underway, Revisions, Waits
    <3>5. rec'.r = rec.r
      BY DEF Waits
    <3> QED
      BY <2>4, <3>1, <3>3, <3>4, <3>5 DEF Revisions
  <2>8. Aim'
    <3> SUFFICES ASSUME Aims' PROVE Aim'
      BY DEF Aim
    <3>1. /\ rec.g.uid \in UIDs /\ KnownGateway(rec.g.uid) /\ ~rec.r.deleting
          /\ \A g \in Gateways : Reached(rec.g.uid, cache.gw[g])
          /\ Same(q, rec.r) => q.parent = rec.g.uid[1]
          /\ rec.pc \in Observing => rec.r.parent = rec.g.uid[1]
      BY DEF IInv, Underway, Aim, Aims, Waits
    <3> USE <3>1
    <3>2. rec.g.uid[2] \in Nat /\ rec.g.uid[1] \in spent.in.parents
      BY UIDFacts DEF KnownGateway
    <3>3. KnownGateway(rec.g.uid)'
      <4>1. spent.made[rec.g.uid[1]] \in Nat
        BY <3>2, Typed DEF IInv, World
      <4> QED
        BY <3>2, <4>1, SMTT(30) DEF KnownGateway, CountsGrow, Waits
    <3>4. ASSUME NEW g \in Gateways PROVE Reached(rec.g.uid, cache'.gw[g])
      <4>1. CASE cache'.gw[g] = cache.gw[g]
        BY <4>1
      <4>2. CASE cache'.gw[g] = gw[g]
        <5>1. gw[g].uid = NoUID \/ gw[g].uid = <<g, spent.made[g]>>
          BY Absences DEF IInv, World, Identities
        <5> QED
          BY <4>2, <5>1, SMTT(30) DEF Reached, KnownGateway
      <4> QED
        BY <4>1, <4>2 DEF CachesLater
    <3> QED
      BY <2>4, <3>3, <3>4 DEF Aim, Waits, Reached
  <2>9. Modes'
    <3>1. rec.pc = "clear" /\ rec.u # NoUID => parts'[rec.u][rec.r.uid] = "none"
      <4>1. rec.r.uid \in RouteUIDs
        BY <1>0, <1>2, Typed, SMTT(30) DEF IInv, World, Underway, Revisions
      <4> QED
        BY <4>1, ScopeFields, UIDFacts DEF IInv, Underway, Modes, Kept, PartsShrink
    <3> QED
      BY <3>1 DEF IInv, Underway, Modes, Kept, Waits
  <2>10. Seals'
    <3>1. \A g \in Gateways : gw'[g] \in GatewayObjects
      BY DEF Types
    <3>2. rec.pc \in Observing \ {"e2"} =>
            /\ rec.o.uid = Parent'.uid =>
                  /\ rec.o.gen <= Parent'.gen
                  /\ rec.o.gen = Parent'.gen => rec.o.kind = Parent'.kind
            /\ Same(Parent', rec.o) => Same(Parent, rec.o)
      BY <3>1, ParentStays DEF Parent, Waits
    <3>3. rec.pc \in {"s3", "s4", "mutate"} /\ ~rec.binding =>
            p.uid = rec.r.uid /\ p.fin = rec.o.uid /\ p.ann \in {rec.o.uid, NoUID}
      <4> SUFFICES ASSUME rec.pc \in {"s3", "s4", "mutate"}, ~rec.binding
                   PROVE  p.uid = rec.r.uid /\ p.fin = rec.o.uid /\ p.ann \in {rec.o.uid, NoUID}
        OBVIOUS
      <4>1. /\ q.uid = rec.r.uid /\ q.fin = rec.o.uid /\ q.ann \in {rec.o.uid, NoUID}
            /\ rec.o.uid = rec.g.uid /\ rec.g.uid \in UIDs
        BY DEF IInv, Underway, Seals, Same, Observing, Ensuring, Aim, Aims
      <4>2. q.fin # NoUID
        BY <4>1, UIDFacts
      <4> QED
        BY <2>3, <2>6, <4>1, <4>2 DEF OthersWrite, p, q
    <3>4. /\ rec'.pc = rec.pc /\ rec'.r = rec.r /\ rec'.g = rec.g /\ rec'.o = rec.o
          /\ rec'.binding = rec.binding
      BY DEF Waits
    <3>5. Seals
      BY DEF IInv, Underway
    <3> QED
      BY <3>2, <3>3, <3>4, <3>5 DEF Seals
  <2>11. Withdrawn'
    <3>1. Unpromised(q) => Unpromised(p)
      <4>1. /\ q.st.gen <= q.gen /\ q.st.gen \in Nat /\ q.gen \in Nat /\ p.gen \in Nat
            /\ q.uid <= spent.routes /\ q.uid \in Nat /\ p.uid \in Nat
        BY <1>0, <2>1, <2>2, RouteFields DEF IInv, World, Identities, KnownRoute, q, n
      <4>2. CASE p.uid # q.uid
        BY <2>3, <4>2, Absences DEF OthersWrite, Unpromised, p, q
      <4>3. CASE p.uid = q.uid
        <5>1. p.st = q.st
          BY <2>3, <4>3 DEF OthersWrite, p, q
        <5>2. CASE p = NoRoute
          BY <5>2, Absences DEF Unpromised
        <5>3. CASE p.uid > spent.routes
          BY <1>0, <4>1, <4>3, <5>3, Order
        <5>4. CASE p.gen >= q.gen /\ (q.deleting => p.deleting)
          BY <4>1, <5>1, <5>4, Order DEF Unpromised
        <5> QED
          BY <2>3, <5>2, <5>3, <5>4 DEF Later, p, q
      <4> QED
        BY <4>2, <4>3
    <3>2. Kept => Kept' \/ rec.pc \notin Cleaning
      <4>1. rec.r.uid \in RouteUIDs
        BY <1>0, <1>2, Typed, SMTT(30) DEF IInv, World, Underway, Revisions
      <4> QED
        BY <4>1, SMTT(30) DEF IInv, Underway, Modes, Kept, PartsShrink, Waits
    <3>0. /\ rec'.n = rec.n /\ rec'.r = rec.r /\ rec'.g = rec.g
          /\ cache.route[rec.n] = c /\ cache'.route[rec.n] = d
      BY DEF Waits, c, d, n
    <3>3. Settled => Settled'
      BY <2>3, <2>4, <2>6, <3>0 DEF Settled
    <3>4. Left => Left'
      BY <2>3, <2>4, <2>6, <3>0, Order DEF Left
    <3>5. Reached(Stored.ann, rec.g) /\ Reached(cache.route[rec.n].ann, rec.g) =>
            Reached(Stored.ann, rec.g)' /\ Reached(cache.route[rec.n].ann, rec.g)'
      BY <2>3, <2>6 DEF Reached, Waits, c, d, n
    <3>6. Unpromised(Stored) => Unpromised(Stored)'
      BY <3>1 DEF Unpromised
    <3>7. Withdrawn /\ rec'.pc = rec.pc /\ rec'.mode = rec.mode /\ rec'.r = rec.r
      BY DEF IInv, Underway, Waits
    <3> QED
      BY <3>2, <3>3, <3>4, <3>5, <3>6, <3>7 DEF Withdrawn, Cleaning
  <2>12. History'
    <3>0. rec.pc \in Cleaning \cup Ensuring => seen \subseteq seen'
      BY SeenGrows DEF Waits
    <3>1. /\ Others' = Others
          /\ rec.pc \in Cleaning \cup Ensuring =>
               /\ seen \subseteq seen' /\ (Displaced => Displaced')
               /\ (Clear({}) => Clear({})') /\ (Clear(rec.rivals) => Clear(rec.rivals)')
      BY <3>0, HistoryGrows DEF Waits, Others
    <3>2. rec.pc \in Observing \ {"e2"} /\ Same(Parent', rec.o) => Same(Parent, rec.o)
      <4>1. \A g \in Gateways : gw'[g] \in GatewayObjects
        BY DEF Types
      <4> QED
        BY <4>1, ParentStays DEF Parent, Waits
    <3>3. Same(Stored', rec.r) => Same(Stored, rec.r)
      BY <2>4
    <3>4. rec'.pc = rec.pc /\ rec'.r = rec.r /\ rec'.o = rec.o /\ rec'.u = rec.u
          /\ rec'.rivals = rec.rivals /\ (rec'.fresh => rec.fresh)
      BY DEF Waits
    <3>5. History
      BY DEF IInv, Underway
    <3>6. CASE rec.pc \in Ensuring
      BY <3>1, <3>2, <3>3, <3>4, <3>5, <3>6 DEF History, Ensuring, Observing
    <3>7. CASE rec.pc \notin Ensuring
      BY <3>1, <3>4, <3>5, <3>7 DEF History, Cleaning, Ensuring
    <3> QED
      BY <3>6, <3>7
  <2> QED
    BY <1>0, <2>7, <2>8, <2>9, <2>10, <2>11, <2>12 DEF Underway
<1> QED
  BY <1>1, <1>2

LEMMA Unwritten ==
  ASSUME NEW n, route[n] \in Routes, route'[n] = route[n]
  PROVE  OthersWrite(n)
<1>1. route[n].gen \in Nat
  BY RouteFields
<1> QED
  BY <1>1, Order DEF OthersWrite, Later

LEMMA GatewaysUnwritten ==
  ASSUME Types, gw' = gw
  PROVE  \A g \in Gateways : GatewayLater(g)
<1>1. \A g \in Gateways : gw[g].gen \in Nat
  BY Typed, GatewayFields
<1> QED
  BY <1>1, Order DEF GatewayLater

LEMMA Counting ==
  ASSUME Types, spent' \in Counters, spent'.in = spent.in, spent.routes <= spent'.routes,
         spent'.made = spent.made
  PROVE  CountsGrow
<1>1. spent'.routes \in Nat
  BY DEF Counters
<1>2. \A g \in spent.in.parents : spent.made[g] \in Nat
  BY Typed
<1> QED
  BY <1>1, <1>2, Order DEF CountsGrow

(* Users and their routes. *)
LEMMA UserSteps ==
  /\ IInv
  /\ \E n \in Names : \/ CreateRoute(n) \/ EditRoute(n) \/ DeleteRouteObject(n)
                     \/ LoseAnnotations(n)
  => IInv'
<1>UserStep. ASSUME IInv, NEW n \in Names, NEW r \in Routes, UserWrites(n, r),
                    spent' \in Counters, spent'.in = spent.in, spent'.made = spent.made,
                    spent.routes <= spent'.routes, spent'.routes <= spent'.in.routes,
                    r.uid <= spent'.routes, r.uid = 0 => r = NoRoute, r.st.gen <= r.gen,
                    \/ r = NoRoute /\ route[n].fin = NoUID
                    \/ /\ r.uid > spent.routes /\ r.ann = NoUID /\ r.st = NoStatus
                       /\ route[n].fin = NoUID
                    \/ /\ r.uid = route[n].uid /\ r.gen >= route[n].gen
                       /\ route[n].deleting => r.deleting
                       /\ r.gen = route[n].gen => /\ r.parent = route[n].parent
                                                  /\ r.shape = route[n].shape
                                                  /\ r.second = route[n].second
                       /\ r.fin = route[n].fin /\ r.ann \in {route[n].ann, NoUID} /\ r.st = route[n].st
             PROVE  IInv'
  <2> USE <1>UserStep
  <2>1. /\ WriteRoute(n, r) /\ Remember /\ UNCHANGED <<gw, cls, svc, bundle, queued, lb, parts>>
        /\ rec' = IF rec.n = n THEN [rec EXCEPT !.fresh = FALSE] ELSE rec
    BY DEF UserWrites
  <2> USE <2>1
  <2>2. /\ cache' \in Caches /\ cache'.route = cache.route /\ cache'.gw = cache.gw
        /\ route' \in [Names -> Routes] /\ route'[n] = r
        /\ \A m \in Names \ {n} : route'[m] = route[m]
    BY CacheFallsBehind DEF IInv
  <2> USE <2>2
  <2>3. Types /\ \A m \in Names : route[m] \in Routes
    BY Typed DEF IInv, World
  <2>4. OthersWrite(n)
    <3>1. /\ route[n].uid <= spent.routes /\ (route[n].uid = 0 => route[n] = NoRoute)
          /\ route[n].uid \in Nat /\ spent.routes \in Nat /\ r.uid \in Nat
      BY <2>3, RouteFields, Typed DEF IInv, World, Identities, KnownRoute
    <3>2. CASE r = NoRoute /\ route[n].fin = NoUID
      BY <3>1, <3>2, Absences DEF OthersWrite, Later
    <3>3. CASE /\ r.uid > spent.routes /\ r.ann = NoUID /\ r.st = NoStatus
               /\ route[n].fin = NoUID
      BY <3>1, <3>3, Order DEF OthersWrite, Later
    <3> QED
      BY <3>2, <3>3 DEF OthersWrite, Later
  <2>5. World'
    <3>1. \A u \in UIDs, x \in RouteUIDs : x = route[n].uid /\ parts[u][x] # "none" =>
              r.uid = x /\ r.fin = u /\ r.ann \in {u, NoUID}
      <4> SUFFICES ASSUME NEW u \in UIDs, NEW x \in RouteUIDs, x = route[n].uid,
                          parts[u][x] # "none"
                   PROVE  r.uid = x /\ r.fin = u /\ r.ann \in {u, NoUID}
        OBVIOUS
      <4>1. PICK m \in Names : /\ route[m].uid = x /\ route[m].fin = u
                               /\ route[m].ann \in {u, NoUID}
        BY DEF IInv, World, Bound
      <4> USE <4>1
      <4>2. m = n
        BY Sets, SMTT(30) DEF IInv, World, Identities
      <4>3. route[n].fin # NoUID
        BY <4>2, UIDFacts
      <4> QED
        BY <4>2, <4>3
    <3>2. /\ r.uid \in {0, route[n].uid} \/ r.uid > spent.routes
          /\ r.ann \in {NoUID, route[n].ann} /\ Later(n)
      BY <2>4, Absences DEF OthersWrite
    <3>3. queued' \subseteq Names /\ World
      BY DEF IInv, World, Types
    <3> QED
      BY <3>1, <3>2, <3>3, RouteWritten
  <2>6. Underway'
    <3>1. rec \in Scopes /\ Types'
      BY <2>5 DEF IInv, World, Underway
    <3> USE <3>1
    <3>2. Waits
      <4>1. CASE rec.n = n
        <5>1. rec' = [rec EXCEPT !.fresh = FALSE]
          BY <4>1
        <5>2. rec' \in Scopes /\ rec'.fresh = FALSE
          BY <5>1 DEF Scopes
        <5> QED
          BY <5>1, <5>2 DEF Waits, Scopes
      <4>2. CASE rec.n # n
        <5>1. rec' = rec /\ (rec.fresh => rec.n \in Names)
          BY <4>2 DEF IInv, Underway, Revisions, Cleaning, Observing, Ensuring
        <5> QED
          BY <4>2, <5>1 DEF Waits
      <4> QED
        BY <4>1, <4>2
    <3>3. rec.pc # "idle" => OthersWrite(rec.n)
      <4>1. rec.pc # "idle" => rec.n \in Names
        BY DEF IInv, Underway, Revisions
      <4> QED
        BY <2>3, <2>4, <4>1, Unwritten
    <3>4. CountsGrow /\ PartsShrink /\ CachesLater
      BY <2>3, Counting DEF PartsShrink, CachesLater
    <3>5. \A g \in Gateways : GatewayLater(g)
      BY <2>3, GatewaysUnwritten
    <3> QED
      BY <3>2, <3>3, <3>4, <3>5, Stays
  <2> QED
    BY <2>5, <2>6 DEF IInv
<1>CreateRouteStep. ASSUME IInv, NEW n \in Names, CreateRoute(n)
                    PROVE  IInv'
  <2> USE <1>CreateRouteStep
  <2>1. Types /\ route[n] = NoRoute /\ Spend("routes") /\ "routes" \in Bounded
    BY DEF IInv, World, CreateRoute, Bounded
  <2>2. /\ spent' \in Counters /\ spent'.in = spent.in /\ spent'.made = spent.made
        /\ spent.routes <= spent'.routes /\ spent'.routes <= spent'.in.routes
        /\ spent'.routes = spent.routes + 1 /\ spent.routes \in Nat
    BY <2>1, Spending, Typed
  <2>3. PICK p \in spent.in.parents, s \in spent.in.shapes, t \in Seconds :
          UserWrites(n, [NoRoute EXCEPT !.uid = spent'.routes, !.second = t, !.gen = 1,
                                        !.parent = p, !.shape = s])
    BY DEF CreateRoute
  <2> DEFINE r == [NoRoute EXCEPT !.uid = spent'.routes, !.second = t, !.gen = 1,
                                  !.parent = p, !.shape = s]
  <2>4. t \in Nat /\ p \in Parents /\ s \in Shapes /\ spent'.routes \in Nat
    BY <2>1, <2>2, Sets, Typed, ScenariosAssumption, SMTT(30) DEF Seconds, Parents, Shapes
  <2>5. /\ r \in Routes /\ r.uid = spent'.routes /\ r.ann = NoRoute.ann /\ r.st = NoRoute.st
        /\ r.gen = 1
    BY <2>4, Absences DEF Routes
  <2> HIDE DEF r
  <2>6. /\ r.ann = NoUID /\ r.st = NoStatus /\ r.st.gen <= r.gen /\ route[n].fin = NoUID
        /\ r.uid > spent.routes /\ r.uid # 0 /\ r.uid <= spent'.routes
    BY <2>1, <2>2, <2>5, Absences, SMTT(30)
  <2>7. UserWrites(n, r)
    BY <2>3 DEF r
  <2> QED
    BY <2>2, <2>5, <2>6, <2>7, <1>UserStep
<1>EditRouteStep. ASSUME IInv, NEW n \in Names, EditRoute(n)
                  PROVE  IInv'
  <2> USE <1>EditRouteStep
  <2>1. Types /\ route[n] # NoRoute /\ Spend("edits") /\ "edits" \in Bounded
    BY DEF IInv, World, EditRoute, Bounded
  <2> USE <2>1
  <2>2. /\ spent' \in Counters /\ spent'.in = spent.in /\ spent'.made = spent.made
        /\ spent.routes <= spent'.routes /\ spent'.routes <= spent'.in.routes
        /\ spent'.routes = spent.routes /\ route[n] \in Routes
    BY Spending, Typed
  <2> USE <2>2
  <2>3. PICK p \in spent.in.parents \cup {0}, s \in spent.in.shapes :
          UserWrites(n, [route[n] EXCEPT !.gen = @ + 1, !.parent = p, !.shape = s])
    BY DEF EditRoute
  <2> DEFINE r == [route[n] EXCEPT !.gen = @ + 1, !.parent = p, !.shape = s]
  <2>4. p \in Parents /\ s \in Shapes /\ route[n].gen \in Nat /\ route[n].gen + 1 \in Nat
    BY RouteFields, Typed, ScenariosAssumption, Order DEF Parents, Shapes
  <2>5. /\ r \in Routes /\ r.uid = route[n].uid /\ r.gen = route[n].gen + 1
        /\ r.deleting = route[n].deleting /\ r.fin = route[n].fin /\ r.ann = route[n].ann
        /\ r.st = route[n].st
    BY <2>4 DEF Routes
  <2> HIDE DEF r
  <2>6. /\ route[n].uid <= spent'.routes /\ route[n].uid # 0 /\ route[n].st.gen <= route[n].gen
        /\ route[n].st.gen \in Nat
    BY RouteFields DEF IInv, World, Identities, KnownRoute
  <2>7. UserWrites(n, r)
    BY <2>3 DEF r
  <2>8. /\ r.uid <= spent'.routes /\ r.uid # 0 /\ r.st.gen <= r.gen /\ r.gen >= route[n].gen
        /\ r.gen # route[n].gen
    BY <2>4, <2>5, <2>6, SMTT(30)
  <2> QED
    BY <2>5, <2>7, <2>8, <1>UserStep
<1>DeleteRouteStep. ASSUME IInv, NEW n \in Names, DeleteRouteObject(n)
                    PROVE  IInv'
  <2> USE <1>DeleteRouteStep
  <2>1. Types /\ route[n] # NoRoute /\ Spend("edits") /\ "edits" \in Bounded
    BY DEF IInv, World, DeleteRouteObject, Bounded
  <2>2. /\ spent' \in Counters /\ spent'.in = spent.in /\ spent'.made = spent.made
        /\ spent.routes <= spent'.routes /\ spent'.routes <= spent'.in.routes
        /\ spent'.routes = spent.routes /\ route[n] \in Routes /\ spent.routes \in Nat
    BY <2>1, Spending, Typed
  <2> USE <2>2
  <2>3. CASE route[n].fin = NoUID
    <3>1. UserWrites(n, NoRoute)
      BY <2>3 DEF DeleteRouteObject
    <3>2. NoRoute \in Routes /\ NoRoute.uid <= spent'.routes /\ NoRoute.st.gen <= NoRoute.gen
      BY Absences, Order
    <3> QED
      BY <2>3, <3>1, <3>2, <1>UserStep
  <2>4. CASE route[n].fin # NoUID
    <3> DEFINE r == [route[n] EXCEPT !.deleting = TRUE]
    <3>1. UserWrites(n, r)
      BY <2>4 DEF DeleteRouteObject
    <3>2. /\ r \in Routes /\ r.uid = route[n].uid /\ r.gen = route[n].gen /\ r.deleting
          /\ r.fin = route[n].fin /\ r.ann = route[n].ann /\ r.st = route[n].st
          /\ r.parent = route[n].parent /\ r.shape = route[n].shape
          /\ r.second = route[n].second
      BY DEF Routes
    <3> HIDE DEF r
    <3>3. /\ r.uid <= spent'.routes /\ r.uid # 0 /\ r.st.gen <= r.gen /\ r.gen >= route[n].gen
      <4>1. route[n].gen \in Nat
        BY RouteFields
      <4> QED
        BY <2>1, <3>2, <4>1, SMTT(30) DEF IInv, World, Identities, KnownRoute
    <3> QED
      BY <3>1, <3>2, <3>3, <1>UserStep
  <2> QED
    BY <2>3, <2>4
<1>LoseAnnotationsStep. ASSUME IInv, NEW n \in Names, LoseAnnotations(n)
                        PROVE  IInv'
  <2> USE <1>LoseAnnotationsStep
  <2>1. Types /\ Present(route[n]) /\ Spend("tampers") /\ "tampers" \in Bounded
    BY DEF IInv, World, LoseAnnotations, Bounded
  <2>2. /\ spent' \in Counters /\ spent'.in = spent.in /\ spent'.made = spent.made
        /\ spent.routes <= spent'.routes /\ spent'.routes <= spent'.in.routes
        /\ spent'.routes = spent.routes /\ route[n] \in Routes
    BY <2>1, Spending, Typed
  <2> USE <2>2
  <2> DEFINE r == [route[n] EXCEPT !.ann = NoUID]
  <2>3. UserWrites(n, r)
    BY DEF LoseAnnotations
  <2>4. /\ r \in Routes /\ r.uid = route[n].uid /\ r.gen = route[n].gen
        /\ r.deleting = route[n].deleting /\ r.fin = route[n].fin /\ r.ann = NoUID
        /\ r.st = route[n].st /\ r.parent = route[n].parent /\ r.shape = route[n].shape
        /\ r.second = route[n].second
    BY DEF Routes, Bindings
  <2> HIDE DEF r
  <2>5. /\ r.uid <= spent'.routes /\ r.uid # 0 /\ r.st.gen <= r.gen /\ r.gen >= route[n].gen
    <3>1. route[n].gen \in Nat /\ route[n] # NoRoute
      BY <2>1, RouteFields, Absences DEF Present
    <3> QED
      BY <2>4, <3>1, Order DEF IInv, World, Identities, KnownRoute
  <2> QED
    BY <2>3, <2>4, <2>5, <1>UserStep
<1> QED
  BY <1>CreateRouteStep, <1>EditRouteStep, <1>DeleteRouteStep, <1>LoseAnnotationsStep

(* Writes to a live Gateway, by users and by its own reconciler. *)
LEMMA GatewaySteps ==
  /\ IInv
  /\ \E g \in Gateways : \/ GatewayBinds(g) \/ GatewayReports(g) \/ GatewayReportsVersion(g)
                        \/ GatewayUnbinds(g) \/ EditGateway(g) \/ DeleteGatewayObject(g)
                        \/ CreateGateway(g)
  => IInv'
<1>GatewayWritten. ASSUME IInv, NEW g \in Gateways, NEW new \in GatewayObjects, WriteGateway(g, new),
                          spent' \in Counters, spent'.in = spent.in, spent'.routes = spent.routes,
                          spent'.made \in [spent.in.parents -> 1..spent.in.made],
                          \A h \in spent.in.parents : spent.made[h] <= spent'.made[h],
                          \A h \in spent.in.parents \ {g} : spent.made[h] = spent'.made[h],
                          new = NoGateway \/ (g \in spent.in.parents /\ new.uid = <<g, spent'.made[g]>>),
                          \/ new = NoGateway \/ new.uid[2] > spent.made[g]
                          \/ /\ new.uid = gw[g].uid /\ new.gen >= gw[g].gen /\ (gw[g].deleting => new.deleting)
                             /\ new.gen = gw[g].gen => new.kind = gw[g].kind,
                          \A u \in UIDs : lb[u] # "none" /\ u[1] = g => new.uid = u /\ new.ann # 0
                   PROVE  IInv'
  <2> USE <1>GatewayWritten
  <2>1. /\ gw' = [gw EXCEPT ![g] = new] /\ Remember
        /\ UNCHANGED <<route, cls, svc, bundle, cache, queued, rec, lb, parts>>
    BY DEF WriteGateway
  <2> USE <2>1
  <2>2. /\ gw' \in [Gateways -> GatewayObjects] /\ gw'[g] = new
        /\ \A h \in Gateways \ {g} : gw'[h] = gw[h]
    BY DEF IInv, World, Types
  <2>3. Types /\ Types'
    BY <2>2 DEF IInv, World, Types
  <2> USE <2>3
  <2>4. \A h \in spent.in.parents : spent.made[h] \in Nat /\ spent'.made[h] \in Nat
    <3>1. spent.in.made \in Nat
      BY Typed, Sets
    <3>2. \A h \in spent.in.parents : spent.made[h] \in Nat
      BY Typed
    <3>3. \A h \in spent.in.parents : spent'.made[h] \in 1..spent.in.made
      OBVIOUS
    <3> QED
      BY <3>1, <3>2, <3>3, SMTT(30)
  <2>5. ASSUME NEW u \in Bindings, KnownGateway(u) PROVE KnownGateway(u)'
    <3>1. u[2] \in Nat
      BY UIDFacts
    <3> QED
      BY <2>4, <2>5, <3>1, SMTT(30) DEF KnownGateway
  <2>6. Identities'
    <3>1. ASSUME NEW h \in Gateways
          PROVE  /\ \/ gw'[h] = NoGateway
                    \/ h \in spent'.in.parents /\ gw'[h].uid = <<h, spent'.made[h]>>
                 /\ cache'.gw[h] = NoGateway \/ cache'.gw[h].uid[1] = h
                 /\ KnownGateway(cache.gw[h].uid)'
      <4>1. /\ gw[h] = NoGateway \/ (h \in spent.in.parents /\ gw[h].uid = <<h, spent.made[h]>>)
            /\ cache.gw[h] = NoGateway \/ cache.gw[h].uid[1] = h
            /\ KnownGateway(cache.gw[h].uid) /\ cache.gw[h].uid \in Bindings
        BY Typed, GatewayFields DEF IInv, World, Identities
      <4>2. KnownGateway(cache.gw[h].uid)'
        BY <2>5, <4>1 DEF KnownGateway
      <4> QED
        BY <2>2, <4>1, <4>2
    <3>2. /\ \A n \in Names : KnownRoute(route[n])' /\ KnownRoute(cache.route[n])'
          /\ \A m, n \in Names : route'[m].uid = route'[n].uid /\ route'[m].uid # 0 => m = n
      BY DEF IInv, World, Identities, KnownRoute
    <3> QED
      BY <3>1, <3>2 DEF Identities
  <2>7. BindingsKnown'
    <3>1. ASSUME NEW n \in Names, NEW a \in {route[n].ann, cache.route[n].ann}
          PROVE  KnownGateway(a)' /\ \A h \in Gateways : Reached(a, cache.gw[h])
      <4>1. a \in Bindings
        BY Typed, RouteFields, SMTT(30)
      <4>2. KnownGateway(a) /\ \A h \in Gateways : Reached(a, cache.gw[h])
        BY DEF IInv, World, BindingsKnown
      <4> QED
        BY <2>5, <4>1, <4>2
    <3>2. route' = route /\ cache' = cache
      OBVIOUS
    <3> QED
      BY <3>1, <3>2 DEF BindingsKnown, KnownGateway
  <2>8. Bound' /\ (\A n \in Names : Copied(n)') /\ OneRoute'
    <3>0. /\ (\A n \in Names : Copied(n)) /\ OneRoute /\ route' = route /\ cache' = cache
          /\ parts' = parts
      BY DEF IInv, World
    <3>1. (\A n \in Names : Copied(n)') /\ OneRoute'
      BY <3>0, CopiedStays, SMTT(30) DEF OneRoute
    <3>2. ASSUME NEW u \in UIDs, lb[u] # "none" PROVE gw'[u[1]].uid = u /\ gw'[u[1]].ann # 0
      BY <2>2, <3>2, UIDFacts, Order DEF IInv, World, Bound
    <3> QED
      BY <3>1, <3>2, SMTT(30) DEF IInv, World, Bound
  <2>9. Underway'
    <3>1. rec \in Scopes /\ (rec.pc # "idle" => rec.n \in Names)
      BY DEF IInv, Underway, Revisions
    <3>2. Waits
      BY <3>1 DEF Waits
    <3>3. CountsGrow /\ PartsShrink /\ CachesLater
      <4>1. spent.routes \in Nat
        BY Typed
      <4> QED
        BY <2>4, <4>1, Order DEF CountsGrow, PartsShrink, CachesLater
    <3>4. rec.pc # "idle" => OthersWrite(rec.n)
      BY <3>1, Typed, Unwritten
    <3>5. ASSUME NEW h \in Gateways PROVE GatewayLater(h)
      <4>1. gw[h].gen \in Nat
        BY Typed, GatewayFields
      <4> QED
        BY <2>2, <4>1, Absences, Order DEF GatewayLater
    <3> QED
      BY <3>2, <3>3, <3>4, <3>5, Stays
  <2> QED
    BY <2>6, <2>7, <2>8, <2>9 DEF IInv, World
(* A write that keeps the identity, the spec and a non-zero stored port. *)
<1>GatewayKept. ASSUME IInv, NEW g \in Gateways, NEW new \in GatewayObjects, WriteGateway(g, new),
                       spent' \in Counters, spent'.in = spent.in, spent'.routes = spent.routes,
                       spent'.made = spent.made, gw[g] # NoGateway, new.uid = gw[g].uid,
                       new.gen >= gw[g].gen, gw[g].deleting => new.deleting,
                       new.gen = gw[g].gen => new.kind = gw[g].kind,
                       new.ann # 0 \/ new.ann = gw[g].ann \/ lb[gw[g].uid] = "none"
                PROVE  IInv'
  <2> USE <1>GatewayKept
  <2>1. Types /\ g \in spent.in.parents /\ gw[g].uid = <<g, spent.made[g]>>
    BY DEF IInv, World, Identities
  <2> USE <2>1
  <2>2. spent'.made \in [spent.in.parents -> 1..spent.in.made]
    BY DEF Types
  <2>3. \A h \in spent.in.parents : spent.made[h] <= spent'.made[h]
    <3>1. \A h \in spent.in.parents : spent.made[h] \in Nat
      BY Typed
    <3> QED
      BY <3>1, Order
  <2>4. \A u \in UIDs : lb[u] # "none" /\ u[1] = g => new.uid = u /\ new.ann # 0
    BY SMTT(30) DEF IInv, World, Bound
  <2> QED
    BY <2>2, <2>3, <2>4, <1>GatewayWritten, SMTT(30)
<1>GatewayBindsStep. ASSUME IInv, NEW g \in Gateways, GatewayBinds(g)
                     PROVE  IInv'
  <2> USE <1>GatewayBindsStep
  <2> DEFINE new == [gw[g] EXCEPT !.ann = gw[g].port]
  <2>1. /\ Types /\ gw[g] # NoGateway /\ gw[g].ann = 0 /\ WriteGateway(g, new) /\ spent' = spent
    BY DEF IInv, World, GatewayBinds, Serving, Live
  <2> USE <2>1
  <2>2. gw[g] \in GatewayObjects /\ gw[g].port \in Nat /\ gw[g].gen \in Nat /\ spent \in Counters
    BY Typed, GatewayFields DEF Types
  <2>3. /\ new \in GatewayObjects /\ new.uid = gw[g].uid /\ new.gen = gw[g].gen
        /\ new.deleting = gw[g].deleting /\ new.kind = gw[g].kind
    BY <2>2 DEF GatewayObjects
  <2>4. lb[gw[g].uid] = "none" \/ gw[g].uid \notin UIDs
    <3>1. gw[g].uid = <<g, spent.made[g]>>
      BY DEF IInv, World, Identities
    <3> QED
      BY <3>1, SMTT(30) DEF IInv, World, Bound
  <2>5. gw[g].uid \in UIDs
    <3>1. g \in spent.in.parents /\ gw[g].uid = <<g, spent.made[g]>>
      BY DEF IInv, World, Identities
    <3> QED
      BY <3>1, Typed
  <2> HIDE DEF new
  <2> QED
    BY <2>2, <2>3, <2>4, <2>5, <1>GatewayKept, Order
(* What the Gateway reconciler's status writers leave alone. *)
<1>GatewayReportsStep. ASSUME IInv, NEW g \in Gateways, GatewayReports(g) \/ GatewayReportsVersion(g)
                       PROVE  IInv'
  <2> USE <1>GatewayReportsStep
  <2>1. /\ Types /\ gw[g] # NoGateway /\ spent' = spent
        /\ \E v \in BOOLEAN, p \in {"none", "True", "False", "Unknown"} \X Nat :
              WriteGateway(g, [gw[g] EXCEPT !.prog = p, !.ver = v])
    <3>0. Types /\ spent' = spent
      BY DEF IInv, World, GatewayReports, GatewayReportsVersion
    <3> USE <3>0
    <3>1. gw[g].gen \in Nat /\ gw[g].prog \in {"none", "True", "False", "Unknown"} \X Nat
      BY Typed, GatewayFields
    <3>2. CASE GatewayReports(g)
      <4> DEFINE st == IF Serving(g) /\ lb[gw[g].uid] = "up" THEN "True" ELSE "False"
      <4>1. <<st, gw[g].gen>> \in {"none", "True", "False", "Unknown"} \X Nat
        BY <3>1
      <4>2. /\ gw[g] # NoGateway
            /\ WriteGateway(g, [gw[g] EXCEPT !.prog = <<st, gw[g].gen>>, !.ver = FALSE])
        BY <3>2 DEF GatewayReports, Live
      <4> HIDE DEF st
      <4> QED
        BY <4>1, <4>2
    <3>3. CASE GatewayReportsVersion(g)
      <4> DEFINE p == IF gw[g].prog[2] = gw[g].gen THEN gw[g].prog ELSE <<"Unknown", gw[g].gen>>
      <4>1. p \in {"none", "True", "False", "Unknown"} \X Nat
        BY <3>1
      <4>2. gw[g] # NoGateway /\ WriteGateway(g, [gw[g] EXCEPT !.ver = TRUE, !.prog = p])
        BY <3>3 DEF GatewayReportsVersion
      <4> HIDE DEF p
      <4>3. [gw[g] EXCEPT !.ver = TRUE, !.prog = p] = [gw[g] EXCEPT !.prog = p, !.ver = TRUE]
        BY <4>1, Typed DEF GatewayObjects
      <4> QED
        BY <4>1, <4>2, <4>3
    <3> QED
      BY <3>2, <3>3
  <2> USE <2>1
  <2>2. gw[g] \in GatewayObjects /\ gw[g].gen \in Nat /\ spent \in Counters
    BY Typed, GatewayFields DEF Types
  <2>3. PICK v \in BOOLEAN, p \in {"none", "True", "False", "Unknown"} \X Nat :
          WriteGateway(g, [gw[g] EXCEPT !.prog = p, !.ver = v])
    OBVIOUS
  <2> DEFINE new == [gw[g] EXCEPT !.prog = p, !.ver = v]
  <2>4. /\ new \in GatewayObjects /\ new.uid = gw[g].uid /\ new.gen = gw[g].gen
        /\ new.deleting = gw[g].deleting /\ new.kind = gw[g].kind /\ new.ann = gw[g].ann
    BY <2>2 DEF GatewayObjects
  <2>5. WriteGateway(g, new)
    BY <2>3
  <2> HIDE DEF new
  <2> QED
    BY <2>2, <2>4, <2>5, <1>GatewayKept, Order
(* A Gateway that goes has no load balancer. *)
<1>GatewayGone. ASSUME IInv, NEW g \in Gateways, WriteGateway(g, NoGateway), gw[g].ann = 0 \/ lb[gw[g].uid] = "none",
                       spent' \in Counters, spent'.in = spent.in, spent'.routes = spent.routes,
                       spent'.made = spent.made
                PROVE  IInv'
  <2> USE <1>GatewayGone
  <2>1. Types /\ NoGateway \in GatewayObjects
    BY Absences DEF IInv, World
  <2> USE <2>1
  <2>2. spent'.made \in [spent.in.parents -> 1..spent.in.made]
    BY DEF Types
  <2>3. \A h \in spent.in.parents : spent.made[h] <= spent'.made[h]
    <3>1. \A h \in spent.in.parents : spent.made[h] \in Nat
      BY Typed
    <3> QED
      BY <3>1, Order
  <2>4. \A u \in UIDs : u[1] = g => lb[u] = "none"
    BY DEF IInv, World, Bound
  <2> QED
    BY <2>2, <2>3, <2>4, <1>GatewayWritten
<1>GatewayUnbindsStep. ASSUME IInv, NEW g \in Gateways, GatewayUnbinds(g)
                       PROVE  IInv'
  <2> USE <1>GatewayUnbindsStep
  <2>1. Types /\ gw[g].ann # 0 /\ lb[gw[g].uid] = "none" /\ spent' = spent
    BY DEF IInv, World, GatewayUnbinds, Condemned
  <2> USE <2>1
  <2>2. gw[g] \in GatewayObjects /\ gw[g].gen \in Nat /\ spent \in Counters /\ gw[g] # NoGateway
    BY Typed, GatewayFields, Absences DEF Types
  <2> USE <2>2
  <2>3. CASE gw[g].deleting
    BY <2>3, <1>GatewayGone DEF GatewayUnbinds
  <2>4. CASE ~gw[g].deleting
    <3> DEFINE new == [gw[g] EXCEPT !.ann = 0]
    <3>1. WriteGateway(g, new)
      BY <2>4 DEF GatewayUnbinds
    <3>2. /\ new \in GatewayObjects /\ new.uid = gw[g].uid /\ new.gen = gw[g].gen
          /\ new.deleting = gw[g].deleting /\ new.kind = gw[g].kind
      BY DEF GatewayObjects
    <3> HIDE DEF new
    <3> QED
      BY <3>1, <3>2, <1>GatewayKept, Order
  <2> QED
    BY <2>3, <2>4
<1>EditGatewayStep. ASSUME IInv, NEW g \in Gateways, EditGateway(g)
                    PROVE  IInv'
  <2> USE <1>EditGatewayStep
  <2>1. Types /\ gw[g] # NoGateway /\ Spend("gateways") /\ "gateways" \in Bounded
    BY DEF IInv, World, EditGateway, Bounded
  <2> USE <2>1
  <2>2. /\ spent' \in Counters /\ spent'.in = spent.in /\ spent'.made = spent.made
        /\ spent'.routes = spent.routes
    BY Spending
  <2>3. PICK s \in spent.in.listeners :
          WriteGateway(g, [gw[g] EXCEPT !.gen = @ + 1, !.port = s.port, !.kind = s.kind])
    BY DEF EditGateway
  <2>4. /\ gw[g] \in GatewayObjects /\ gw[g].gen \in Nat /\ gw[g].gen + 1 \in Nat
        /\ s.port \in Nat /\ s.kind \in {"ok", "invalid", "refuses"}
    BY Typed, GatewayFields, ScenariosAssumption, Order
  <2> DEFINE new == [gw[g] EXCEPT !.gen = @ + 1, !.port = s.port, !.kind = s.kind]
  <2>5. /\ new \in GatewayObjects /\ new.uid = gw[g].uid /\ new.gen = gw[g].gen + 1
        /\ new.deleting = gw[g].deleting /\ new.ann = gw[g].ann
    BY <2>4 DEF GatewayObjects
  <2>6. WriteGateway(g, new)
    BY <2>3
  <2> HIDE DEF new
  <2>7. new.gen >= gw[g].gen /\ new.gen # gw[g].gen
    BY <2>4, <2>5, SMTT(30)
  <2> QED
    BY <2>2, <2>5, <2>6, <2>7, <1>GatewayKept
<1>DeleteGatewayStep. ASSUME IInv, NEW g \in Gateways, DeleteGatewayObject(g)
                      PROVE  IInv'
  <2> USE <1>DeleteGatewayStep
  <2>1. Types /\ gw[g] # NoGateway /\ Spend("gateways") /\ "gateways" \in Bounded
    BY DEF IInv, World, DeleteGatewayObject, Bounded
  <2>2. /\ spent' \in Counters /\ spent'.in = spent.in /\ spent'.made = spent.made
        /\ spent'.routes = spent.routes /\ gw[g] \in GatewayObjects /\ gw[g].gen \in Nat
    BY <2>1, Spending, Typed, GatewayFields
  <2> USE <2>2
  <2>3. CASE gw[g].ann = 0
    BY <2>3, <1>GatewayGone DEF DeleteGatewayObject
  <2>4. CASE gw[g].ann # 0
    <3> DEFINE new == [gw[g] EXCEPT !.deleting = TRUE]
    <3>1. WriteGateway(g, new)
      BY <2>4 DEF DeleteGatewayObject
    <3>2. /\ new \in GatewayObjects /\ new.uid = gw[g].uid /\ new.gen = gw[g].gen
          /\ new.deleting /\ new.kind = gw[g].kind /\ new.ann = gw[g].ann
      BY DEF GatewayObjects
    <3> HIDE DEF new
    <3> QED
      BY <2>1, <3>1, <3>2, <1>GatewayKept, Order
  <2> QED
    BY <2>3, <2>4
<1>CreateGatewayStep. ASSUME IInv, NEW g \in Gateways, CreateGateway(g)
                      PROVE  IInv'
  <2> USE <1>CreateGatewayStep
  <2>1. /\ Types /\ g \in spent.in.parents /\ gw[g] = NoGateway /\ spent.made[g] < spent.in.made
        /\ spent' = [spent EXCEPT !.made[g] = @ + 1] /\ spent \in Counters
    BY DEF IInv, World, CreateGateway, Types
  <2>2. /\ spent.in \in Scenarios /\ spent.in.made \in Nat /\ spent.routes \in Nat
        /\ \A h \in spent.in.parents : spent.made[h] \in Nat \ {0}
        /\ spent.made \in [spent.in.parents -> 1..spent.in.made]
    BY <2>1, Typed, Sets DEF Types
  <2> DEFINE made == [spent.made EXCEPT ![g] = @ + 1]
  <2>3. /\ made \in [spent.in.parents -> 1..spent.in.made] /\ made[g] = spent.made[g] + 1
        /\ \A h \in spent.in.parents \ {g} : made[h] = spent.made[h]
    BY <2>1, <2>2, SMTT(30)
  <2>4. spent' = [spent EXCEPT !.made = made]
    BY <2>1 DEF Counters
  <2>5. made \in UNION {[x.parents -> 1..x.made] : x \in Scenarios}
    BY <2>2, <2>3
  <2> HIDE DEF made
  <2>6. /\ spent' \in Counters /\ spent'.in = spent.in /\ spent'.routes = spent.routes
        /\ spent'.made = made
    BY <2>1, <2>4, <2>5 DEF Counters
  <2>7. PICK s \in spent.in.listeners : WriteGateway(g, NewGateway(<<g, made[g]>>, s))
    BY <2>6 DEF CreateGateway
  <2>8. s.port \in Nat /\ s.kind \in {"ok", "invalid", "refuses"}
    BY <2>2, ScenariosAssumption
  <2> DEFINE u == <<g, made[g]>>
             new == NewGateway(u, s)
  <2>9. u \in UIDs /\ u[1] = g /\ u[2] = made[g]
    BY <2>1, <2>2, <2>3, Sets
  <2>10. WriteGateway(g, new)
    BY <2>7
  <2> HIDE DEF u
  <2>11. new \in GatewayObjects /\ new.uid = u
    BY <2>8, <2>9, Absences DEF NewGateway, GatewayObjects, Bindings
  <2> HIDE DEF new
  <2>12. new.uid = <<g, made[g]>> /\ new.uid[2] > spent.made[g]
    BY <2>1, <2>2, <2>3, <2>9, <2>11, SMTT(30) DEF u
  <2>13. \A h \in spent.in.parents : spent.made[h] <= made[h]
    BY <2>1, <2>2, <2>3, SMTT(30)
  <2>14. \A v \in UIDs : v[1] = g => lb[v] = "none"
    BY <2>1, Absences DEF IInv, World, Bound
  <2> QED
    BY <2>1, <2>3, <2>6, <2>10, <2>11, <2>12, <2>13, <2>14, <1>GatewayWritten
<1> QED
  BY <1>GatewayBindsStep, <1>GatewayReportsStep, <1>GatewayUnbindsStep, <1>EditGatewayStep,
     <1>DeleteGatewayStep, <1>CreateGatewayStep

(* Steps that leave the live routes and Gateways, and their copies, alone. *)
LEMMA OtherSteps ==
  /\ IInv
  /\ \/ SyncClass \/ ReconcileClass \/ EditClass \/ ChangeBundle
     \/ \E n \in Names : SyncService(n) \/ EditService(n)
     \/ \E g \in Gateways : GatewayBuilds(g) \/ GatewayTearsDown(g)
     \/ \E u \in UIDs : Drift(u)
  => IInv'
<1>Surroundings. ASSUME IInv, UNCHANGED <<route, gw, rec>>, Remember, cls' \in Classes,
                        svc' \in [Names -> Services], bundle' \in BOOLEAN, queued' \subseteq Names,
                        cache' \in Caches, cache'.route = cache.route, cache'.gw = cache.gw,
                        cache'.fresh = cache.fresh, spent' \in Counters, spent'.in = spent.in,
                        spent'.routes = spent.routes, spent'.made = spent.made,
                        lb' \in [UIDs -> LBStates], parts' \in [UIDs -> [RouteUIDs -> PartStates]], PartsShrink,
                        \A u \in UIDs : lb'[u] # "none" =>
                           lb[u] # "none" \/ (gw[u[1]].uid = u /\ gw[u[1]].ann # 0),
                        \A u \in UIDs, x \in RouteUIDs : parts'[u][x] # "none" => lb'[u] # "none"
                 PROVE  IInv'
  <2> USE <1>Surroundings
  <2>1. Types /\ Types'
    BY DEF IInv, World, Types
  <2> USE <2>1
  <2>0. /\ Identities /\ BindingsKnown /\ (\A n \in Names : Copied(n))
        /\ route' = route /\ gw' = gw
    BY DEF IInv, World
  <2>2. Identities' /\ BindingsKnown'
    BY <2>0, IdentitiesStay, BindingsStay
  <2>3. \A n \in Names : Copied(n)'
    BY <2>0, CopiedStays
  <2>4. Bound'
    <3>1. ASSUME NEW u \in UIDs PROVE lb'[u] # "none" => gw[u[1]].uid = u /\ gw[u[1]].ann # 0
      BY DEF IInv, World, Bound
    <3>2. ASSUME NEW u \in UIDs, NEW x \in RouteUIDs, parts'[u][x] # "none"
          PROVE  /\ lb'[u] # "none"
                 /\ \E n \in Names : /\ route[n].uid = x /\ route[n].fin = u
                                     /\ route[n].ann \in {u, NoUID}
      BY <3>2, SMTT(30) DEF IInv, World, Bound, PartsShrink
    <3> QED
      BY <3>1, <3>2, Order DEF Bound
  <2>5. OneRoute'
    BY DEF IInv, World, OneRoute, PartsShrink
  <2>6. Underway'
    <3>1. Waits /\ (rec.pc # "idle" => rec.n \in Names)
      BY DEF IInv, Underway, Revisions, Waits
    <3>2. CountsGrow /\ CachesLater
      <4>1. spent.routes \in Nat
        BY Typed
      <4> QED
        BY <4>1, Counting, Order DEF CachesLater
    <3>3. rec.pc # "idle" => OthersWrite(rec.n)
      BY <3>1, Typed, Unwritten
    <3>4. \A g \in Gateways : GatewayLater(g)
      BY GatewaysUnwritten
    <3> QED
      BY <3>1, <3>2, <3>3, <3>4, Stays
  <2> QED
    BY <2>2, <2>3, <2>4, <2>5, <2>6 DEF IInv, World
(* ... and OpenStack too. *)
<1>Elsewhere. ASSUME IInv, UNCHANGED <<route, gw, rec, lb, parts>>, Remember, cls' \in Classes,
                     svc' \in [Names -> Services], bundle' \in BOOLEAN, queued' \subseteq Names,
                     cache' \in Caches, cache'.route = cache.route, cache'.gw = cache.gw,
                     cache'.fresh = cache.fresh, spent' \in Counters, spent'.in = spent.in,
                     spent'.routes = spent.routes, spent'.made = spent.made
              PROVE  IInv'
  <2> USE <1>Elsewhere
  <2>1. lb' \in [UIDs -> LBStates] /\ parts' \in [UIDs -> [RouteUIDs -> PartStates]]
    BY DEF IInv, World, Types
  <2>2. PartsShrink /\ \A u \in UIDs, x \in RouteUIDs : parts'[u][x] # "none" => lb'[u] # "none"
    BY DEF PartsShrink, IInv, World, Bound
  <2> QED
    BY <2>1, <2>2, <1>Surroundings
<1>ClassSteps. ASSUME IInv, SyncClass \/ ReconcileClass \/ EditClass \/ ChangeBundle
               PROVE  IInv'
  <2> USE <1>ClassSteps
  <2>0. /\ Types /\ cls \in Classes /\ cache \in Caches /\ spent \in Counters /\ bundle \in BOOLEAN
        /\ svc \in [Names -> Services] /\ queued \subseteq Names
    BY DEF IInv, World, Types
  <2> USE <2>0
  <2>1. CASE SyncClass
    <3>1. /\ cache' = [cache EXCEPT !.cls = cls] /\ Remember
          /\ UNCHANGED <<route, gw, cls, svc, bundle, queued, rec, lb, parts, spent>>
      BY <2>1 DEF SyncClass
    <3>2. /\ cache' \in Caches /\ cache'.route = cache.route /\ cache'.gw = cache.gw
          /\ cache'.fresh = cache.fresh
      BY <3>1 DEF Caches
    <3> QED
      BY <3>1, <3>2, <1>Elsewhere
  <2>2. CASE ReconcileClass
    <3>1. /\ cls' = [cls EXCEPT !.supported = bundle] /\ Remember
          /\ UNCHANGED <<route, gw, svc, bundle, cache, queued, rec, lb, parts, spent>>
      BY <2>2 DEF ReconcileClass, WriteClass
    <3>2. cls' \in Classes
      BY <3>1 DEF Classes
    <3> QED
      BY <3>1, <3>2, <1>Elsewhere
  <2>3. CASE EditClass
    <3>1. PICK o, p \in BOOLEAN : WriteClass([ours |-> o, params |-> p, supported |-> FALSE])
      BY <2>3 DEF EditClass
    <3>2. /\ cls' = [ours |-> o, params |-> p, supported |-> FALSE] /\ Remember
          /\ UNCHANGED <<route, gw, svc, bundle, cache, queued, rec, lb, parts>>
      BY <3>1 DEF WriteClass
    <3>3. cls' \in Classes
      BY <3>2 DEF Classes
    <3>4. /\ spent' \in Counters /\ spent'.in = spent.in /\ spent'.made = spent.made
          /\ spent'.routes = spent.routes
      BY <2>3, Spending DEF EditClass, Bounded
    <3> QED
      BY <3>2, <3>3, <3>4, <1>Elsewhere
  <2>4. CASE ChangeBundle
    <3>1. /\ bundle' = ~bundle /\ Remember
          /\ UNCHANGED <<route, gw, cls, svc, cache, queued, rec, lb, parts>>
      BY <2>4 DEF ChangeBundle
    <3>2. /\ spent' \in Counters /\ spent'.in = spent.in /\ spent'.made = spent.made
          /\ spent'.routes = spent.routes
      BY <2>4, Spending DEF ChangeBundle, Bounded
    <3>3. bundle' \in BOOLEAN
      BY <3>1
    <3> QED
      BY <3>1, <3>2, <3>3, <1>Elsewhere
  <2> QED
    BY <2>1, <2>2, <2>3, <2>4
<1>ServiceSteps. ASSUME IInv, NEW n \in Names, SyncService(n) \/ EditService(n)
                 PROVE  IInv'
  <2> USE <1>ServiceSteps
  <2>0. /\ Types /\ cls \in Classes /\ cache \in Caches /\ spent \in Counters /\ bundle \in BOOLEAN
        /\ svc \in [Names -> Services] /\ queued \subseteq Names /\ spent.in \in Scenarios
    BY Typed DEF IInv, World, Types
  <2> USE <2>0
  <2>1. CASE SyncService(n)
    <3>1. /\ cache' = [cache EXCEPT !.svc[n] = svc[n]] /\ Remember /\ queued' \subseteq Names
          /\ UNCHANGED <<route, gw, cls, svc, bundle, rec, lb, parts, spent>>
      BY <2>1 DEF SyncService, Naming
    <3> DEFINE s == [cache.svc EXCEPT ![n] = svc[n]]
    <3>2. s \in [Names -> Services] /\ cache' = [cache EXCEPT !.svc = s]
      BY <3>1, Typed DEF Caches
    <3> HIDE DEF s
    <3>3. /\ cache' \in Caches /\ cache'.route = cache.route /\ cache'.gw = cache.gw
          /\ cache'.fresh = cache.fresh
      BY <3>2 DEF Caches
    <3> QED
      BY <3>1, <3>3, <1>Elsewhere
  <2>2. CASE EditService(n)
    <3> USE <2>2
    <3>1. /\ n \in spent.in.names
          /\ \E s \in spent.in.services[n] : svc' = [svc EXCEPT ![n] = s]
      BY DEF EditService
    <3>2. UNCHANGED <<route, gw, cls, bundle, cache, queued, rec, lb, parts>> /\ Remember
      BY DEF EditService
    <3>3. svc' \in [Names -> Services]
      <4>1. spent.in.services[n] \subseteq Services
        BY <3>1, ScenariosAssumption DEF Services
      <4> QED
        BY <3>1, <4>1
    <3>4. /\ spent' \in Counters /\ spent'.in = spent.in /\ spent'.made = spent.made
          /\ spent'.routes = spent.routes
      BY Spending DEF EditService, Bounded
    <3> QED
      BY <3>2, <3>3, <3>4, <1>Elsewhere
  <2> QED
    BY <2>1, <2>2
<1>LoadBalancerSteps. ASSUME IInv, (\E g \in Gateways : GatewayBuilds(g)) \/ (\E u \in UIDs : Drift(u))
                      PROVE  IInv'
  <2> USE <1>LoadBalancerSteps
  <2>0. /\ Types /\ cls \in Classes /\ cache \in Caches /\ spent \in Counters /\ bundle \in BOOLEAN
        /\ svc \in [Names -> Services] /\ queued \subseteq Names /\ lb \in [UIDs -> LBStates]
        /\ parts \in [UIDs -> [RouteUIDs -> PartStates]]
    BY DEF IInv, World, Types
  <2> USE <2>0
  <2>1. /\ UNCHANGED <<route, gw, cls, svc, bundle, cache, queued, rec, parts>> /\ Remember
        /\ spent' \in Counters /\ spent'.in = spent.in /\ spent'.made = spent.made
        /\ spent'.routes = spent.routes
        /\ \E u \in UIDs : /\ lb' = [lb EXCEPT ![u] = "up"] \/ lb' = [lb EXCEPT ![u] = "down"]
                           /\ lb[u] # "none" \/ (gw[u[1]].uid = u /\ gw[u[1]].ann # 0)
    <3>1. ASSUME NEW g \in Gateways, GatewayBuilds(g)
          PROVE  /\ UNCHANGED <<route, gw, cls, svc, bundle, cache, queued, rec, parts, spent>>
                 /\ Remember
                 /\ \E u \in UIDs : /\ lb' = [lb EXCEPT ![u] = "up"]
                                    /\ gw[u[1]].uid = u /\ gw[u[1]].ann # 0
      <4>1. gw[g] # NoGateway /\ gw[g].ann # 0 /\ lb' = [lb EXCEPT ![gw[g].uid] = "up"]
        BY <3>1 DEF GatewayBuilds, Serving, Live
      <4>2. gw[g].uid = <<g, spent.made[g]>> /\ g \in spent.in.parents
        BY <4>1 DEF IInv, World, Identities
      <4>3. gw[g].uid \in UIDs /\ gw[g].uid[1] = g
        BY <4>2, Typed, SMTT(30)
      <4> QED
        BY <3>1, <4>1, <4>3 DEF GatewayBuilds
    <3>2. ASSUME NEW u \in UIDs, Drift(u)
          PROVE  /\ UNCHANGED <<route, gw, cls, svc, bundle, cache, queued, rec, parts>> /\ Remember
                 /\ spent' \in Counters /\ spent'.in = spent.in /\ spent'.made = spent.made
                 /\ spent'.routes = spent.routes
                 /\ lb' = [lb EXCEPT ![u] = "down"] /\ lb[u] # "none"
      BY <3>2, Spending DEF Drift, Bounded
    <3> QED
      BY <3>1, <3>2
  <2> USE <2>1
  <2>2. PICK u \in UIDs : /\ lb' = [lb EXCEPT ![u] = "up"] \/ lb' = [lb EXCEPT ![u] = "down"]
                          /\ lb[u] # "none" \/ (gw[u[1]].uid = u /\ gw[u[1]].ann # 0)
    OBVIOUS
  <2>3. /\ lb' \in [UIDs -> LBStates] /\ lb'[u] # "none"
        /\ \A w \in UIDs : w # u => lb'[w] = lb[w]
    BY <2>2 DEF LBStates
  <2>4. /\ PartsShrink
        /\ \A w \in UIDs : lb'[w] # "none" =>
              lb[w] # "none" \/ (gw[w[1]].uid = w /\ gw[w[1]].ann # 0)
        /\ \A w \in UIDs, x \in RouteUIDs : parts'[w][x] # "none" => lb'[w] # "none"
    BY <2>2, <2>3, Order DEF PartsShrink, IInv, World, Bound
  <2> QED
    BY <2>3, <2>4, <1>Surroundings
<1>GatewayTearsDownStep. ASSUME IInv, NEW g \in Gateways, GatewayTearsDown(g)
                         PROVE  IInv'
  <2> USE <1>GatewayTearsDownStep
  <2>0. /\ Types /\ cls \in Classes /\ cache \in Caches /\ spent \in Counters /\ bundle \in BOOLEAN
        /\ svc \in [Names -> Services] /\ queued \subseteq Names /\ lb \in [UIDs -> LBStates]
        /\ parts \in [UIDs -> [RouteUIDs -> PartStates]]
    BY DEF IInv, World, Types
  <2> USE <2>0
  <2>1. /\ UNCHANGED <<route, gw, cls, svc, bundle, cache, queued, rec, spent>> /\ Remember
        /\ gw[g].ann # 0
    BY DEF GatewayTearsDown, Condemned
  <2> USE <2>1
  <2> DEFINE u == gw[g].uid
  <2>2. u \in UIDs
    BY Absences, Typed DEF IInv, World, Identities
  <2>3. CASE \E x \in RouteUIDs : parts[u][x] # "none" /\ parts' = [parts EXCEPT ![u][x] = Shrunk(@)]
             /\ UNCHANGED lb
    <3> USE <2>3
    <3>1. PICK x \in RouteUIDs : parts[u][x] # "none"
                                 /\ parts' = [parts EXCEPT ![u][x] = Shrunk(parts[u][x])]
      OBVIOUS
    <3> HIDE DEF u
    <3>2. parts[u][x] \in PartStates /\ Shrunk(parts[u][x]) \in PartStates
      BY <2>2, Sizes
    <3>3. /\ parts' \in [UIDs -> [RouteUIDs -> PartStates]]
          /\ \A w \in UIDs, y \in RouteUIDs : w # u \/ y # x => parts'[w][y] = parts[w][y]
      BY <2>2, <3>1, <3>2, PartsStep, SMTT(30) DEF PartSet
    <3>4. /\ PartsShrink
          /\ \A w \in UIDs, y \in RouteUIDs : parts'[w][y] # "none" => lb'[w] # "none"
      BY <3>1, <3>3, SMTT(30) DEF PartsShrink, IInv, World, Bound
    <3> QED
      BY <3>3, <3>4, <1>Surroundings
  <2>4. CASE ~HasParts(u) /\ lb[u] # "none" /\ lb' = [lb EXCEPT ![u] = "none"] /\ UNCHANGED parts
    <3> USE <2>4
    <3> HIDE DEF u
    <3>1. lb' \in [UIDs -> LBStates] /\ \A w \in UIDs : w # u => lb'[w] = lb[w]
      BY DEF LBStates
    <3>2. /\ PartsShrink
          /\ \A w \in UIDs : lb'[w] # "none" => lb[w] # "none"
          /\ \A w \in UIDs, y \in RouteUIDs : parts'[w][y] # "none" => lb'[w] # "none"
      BY <3>1, Order DEF PartsShrink, HasParts, IInv, World, Bound
    <3> QED
      BY <3>1, <3>2, <1>Surroundings
  <2> QED
    BY <2>3, <2>4 DEF GatewayTearsDown
<1> QED
  BY <1>ClassSteps, <1>ServiceSteps, <1>LoadBalancerSteps, <1>GatewayTearsDownStep

(* The caches follow. *)
LEMMA CacheSteps ==
  /\ IInv
  /\ \/ (\E n \in Names : SyncRoute(n)) \/ (\E g \in Gateways : SyncGateway(g)) \/ Crash
  => IInv'
<1>SyncRouteStep. ASSUME IInv, NEW n \in Names, SyncRoute(n)
                  PROVE  IInv'
  <2> USE <1>SyncRouteStep
  <2>0. /\ Types /\ World /\ cache \in Caches
    BY DEF IInv, World, Types
  <2>1. /\ cache' = [cache EXCEPT !.route[n] = route[n], !.fresh = @ \cup {n}] /\ Remember
        /\ UNCHANGED <<route, gw, cls, svc, bundle, rec, lb, parts, spent>>
        /\ queued' \subseteq Names
    BY <2>0 DEF SyncRoute, Naming, Types
  <2> DEFINE f == [cache.route EXCEPT ![n] = route[n]]
  <2>2. f \in [Names -> Routes] /\ f[n] = route[n] /\ \A m \in Names \ {n} : f[m] = cache.route[m]
    BY <2>0, Typed
  <2>3. cache' = [cache EXCEPT !.route = f, !.fresh = cache.fresh \cup {n}]
    BY <2>0, <2>1 DEF Caches
  <2> HIDE DEF f
  <2>4. /\ cache' \in Caches /\ cache'.route = f /\ cache'.gw = cache.gw
        /\ cache'.fresh = cache.fresh \cup {n}
    BY <2>0, <2>2, <2>3 DEF Caches
  <2>5. /\ cache'.route[n] = route[n] /\ \A m \in Names \ {n} : cache'.route[m] = cache.route[m]
    BY <2>2, <2>4
  <2>6. Types'
    BY <2>0, <2>1, <2>4 DEF Types
  <2>7. Identities'
    <3>1. Identities /\ route' = route /\ gw' = gw /\ spent' = spent /\ cache'.gw = cache.gw
      BY <2>0, <2>1, <2>4 DEF World
    <3>2. \A m \in Names : KnownRoute(route[m]) /\ KnownRoute(cache'.route[m])
      BY <2>5, <3>1 DEF Identities
    <3>3. \A m \in Names : KnownRoute(route[m])' /\ KnownRoute(cache.route[m])'
      BY <3>1, <3>2 DEF KnownRoute
    <3>4. \A g \in Gateways : KnownGateway(cache.gw[g].uid)'
      BY <3>1 DEF Identities, KnownGateway
    <3> QED
      BY <3>1, <3>3, <3>4 DEF Identities
  <2>8. ASSUME NEW m \in Names PROVE Copied(m)'
    <3>1. CASE m = n
      <4>1. route[n].gen \in Nat
        BY <2>0, Typed, RouteFields
      <4> QED
        BY <2>1, <2>5, <3>1, <4>1, Order DEF Copied
    <3>2. CASE m # n
      <4>1. /\ Copied(m) /\ route'[m] = route[m] /\ cache'.route[m] = cache.route[m]
            /\ m \in cache'.fresh => m \in cache.fresh
        BY <2>0, <2>1, <2>4, <2>5, <3>2 DEF World
      <4> QED
        BY <4>1, CopiedStays
    <3> QED
      BY <3>1, <3>2
  <2>9. BindingsKnown'
    <3>1. /\ \A m \in Names : /\ route'[m].ann \in {route[m].ann, cache.route[m].ann}
                              /\ cache'.route[m].ann \in {route[m].ann, cache.route[m].ann}
          /\ spent' = spent /\ cache'.gw = cache.gw /\ BindingsKnown
      BY <2>0, <2>1, <2>4, <2>5 DEF World
    <3> QED
      BY <3>1, BindingsStay
  <2>10. Bound' /\ OneRoute'
    BY <2>0, <2>1, SMTT(30) DEF World, Bound, OneRoute
  <2>11. Underway'
    <3>1. Waits /\ (rec.pc # "idle" => rec.n \in Names)
      BY <2>1 DEF IInv, Underway, Revisions, Waits
    <3>2. CountsGrow /\ CachesLater /\ PartsShrink
      <4>1. spent \in Counters /\ spent.routes \in Nat
        BY <2>0, Typed DEF Types
      <4> QED
        BY <2>0, <2>1, <2>4, <2>5, <4>1, Counting, Order DEF CachesLater, PartsShrink
    <3>3. rec.pc # "idle" => OthersWrite(rec.n)
      BY <2>0, <2>1, <3>1, Typed, Unwritten
    <3>4. \A g \in Gateways : GatewayLater(g)
      BY <2>0, <2>1, GatewaysUnwritten
    <3> QED
      BY <2>1, <2>6, <3>1, <3>2, <3>3, <3>4, Stays
  <2> QED
    BY <2>6, <2>7, <2>8, <2>9, <2>10, <2>11 DEF IInv, World
<1>LiveGateways. ASSUME World, NEW g \in Gateways
                 PROVE  /\ KnownGateway(gw[g].uid) /\ (gw[g] = NoGateway \/ gw[g].uid[1] = g)
                        /\ \A a \in Bindings : KnownGateway(a) => Reached(a, gw[g])
  <2> USE <1>LiveGateways
  <2>0. Types
    BY DEF World
  <2>1. CASE gw[g] = NoGateway
    BY <2>1, Absences DEF KnownGateway, Reached
  <2>2. CASE g \in spent.in.parents /\ gw[g].uid = <<g, spent.made[g]>>
    <3> USE <2>2
    <3>1. gw[g].uid[1] = g /\ gw[g].uid[2] = spent.made[g]
      BY SMTT(30)
    <3>2. spent.made[g] \in Nat
      BY <2>0, Typed
    <3> QED
      BY <3>1, <3>2, UIDFacts, Order DEF KnownGateway, Reached
  <2> QED
    BY <2>1, <2>2 DEF World, Identities
<1>SyncGatewayStep. ASSUME IInv, NEW g \in Gateways, SyncGateway(g)
                    PROVE  IInv'
  <2> USE <1>SyncGatewayStep
  <2>0. /\ Types /\ World /\ cache \in Caches
    BY DEF IInv, World, Types
  <2> USE <2>0
  <2>1. /\ cache' = [cache EXCEPT !.gw[g] = gw[g]] /\ Remember
        /\ UNCHANGED <<route, gw, cls, svc, bundle, rec, lb, parts, spent>>
        /\ queued' \subseteq Names
    BY DEF SyncGateway, Types
  <2> USE <2>1
  <2> DEFINE f == [cache.gw EXCEPT ![g] = gw[g]]
  <2>2. f \in [Gateways -> GatewayObjects] /\ f[g] = gw[g]
        /\ \A h \in Gateways \ {g} : f[h] = cache.gw[h]
    BY Typed
  <2>3. cache' = [cache EXCEPT !.gw = f]
    BY DEF Caches
  <2> HIDE DEF f
  <2>4. /\ cache' \in Caches /\ cache'.route = cache.route /\ cache'.gw = f
        /\ cache'.fresh = cache.fresh
    BY <2>2, <2>3 DEF Caches
  <2> USE <2>4
  <2>5. /\ cache'.gw[g] = gw[g] /\ \A h \in Gateways \ {g} : cache'.gw[h] = cache.gw[h]
    BY <2>2
  <2>6. Types'
    BY DEF Types
  <2>7. Identities'
    <3>1. \A h \in Gateways : /\ cache'.gw[h] = NoGateway \/ cache'.gw[h].uid[1] = h
                              /\ KnownGateway(cache'.gw[h].uid)
      BY <2>5, <1>LiveGateways, SMTT(30) DEF World, Identities
    <3> QED
      BY <3>1 DEF World, Identities, KnownRoute, KnownGateway
  <2>8. \A m \in Names : Copied(m)'
    BY SMTT(30) DEF World, Copied
  <2>9. BindingsKnown'
    <3>1. \A n \in Names : /\ route[n].ann \in Bindings /\ cache.route[n].ann \in Bindings
                           /\ KnownGateway(route[n].ann) /\ KnownGateway(cache.route[n].ann)
      BY Typed, RouteFields DEF World, BindingsKnown
    <3>2. \A n \in Names, h \in Gateways : \A a \in {route[n].ann, cache.route[n].ann} :
             Reached(a, cache'.gw[h])
      BY <2>5, <3>1, <1>LiveGateways DEF World, BindingsKnown
    <3>3. route' = route /\ cache'.route = cache.route /\ spent' = spent
      OBVIOUS
    <3> QED
      BY <3>1, <3>2, <3>3 DEF BindingsKnown, KnownGateway
  <2>10. Bound' /\ OneRoute'
    BY SMTT(30) DEF World, Bound, OneRoute
  <2>11. Underway'
    <3>1. Waits /\ (rec.pc # "idle" => rec.n \in Names)
      BY DEF IInv, Underway, Revisions, Waits
    <3>2. CountsGrow /\ CachesLater /\ PartsShrink
      <4>1. spent \in Counters /\ spent.routes \in Nat
        BY Typed DEF Types
      <4> QED
        BY <2>5, <4>1, Counting, Order DEF CachesLater, PartsShrink
    <3>3. rec.pc # "idle" => OthersWrite(rec.n)
      BY <3>1, Typed, Unwritten
    <3>4. \A h \in Gateways : GatewayLater(h)
      BY GatewaysUnwritten
    <3> QED
      BY <2>6, <3>1, <3>2, <3>3, <3>4, Stays
  <2> QED
    BY <2>6, <2>7, <2>8, <2>9, <2>10, <2>11 DEF IInv, World
(* A restart forgets the reconciliation and lists everything again. *)
<1>CrashStep. ASSUME IInv, Crash
              PROVE  IInv'
  <2> USE <1>CrashStep
  <2>0. Types /\ World
    BY DEF IInv, World
  <2> USE <2>0
  <2>1. /\ rec' = Idle /\ queued' \subseteq Names
        /\ cache' = [route |-> route, gw |-> gw, cls |-> cls, svc |-> svc, fresh |-> Names]
        /\ UNCHANGED <<route, gw, cls, svc, bundle, lb, parts>>
        /\ spent' \in Counters /\ spent'.in = spent.in /\ spent'.made = spent.made
        /\ spent'.routes = spent.routes
    BY Spending DEF Crash, Bounded
  <2> USE <2>1
  <2>2. cache' \in Caches /\ cache'.route = route /\ cache'.gw = gw /\ cache'.fresh = Names
    BY DEF Caches, Types
  <2> USE <2>2
  <2>3. Types'
    BY DEF Types
  <2>4. Identities'
    <3>1. \A g \in Gateways : /\ gw[g] = NoGateway \/ gw[g].uid[1] = g
                              /\ KnownGateway(gw[g].uid)
      BY <1>LiveGateways
    <3> QED
      BY <3>1 DEF World, Identities, KnownRoute, KnownGateway
  <2>5. \A n \in Names : Copied(n)'
    <3>1. \A n \in Names : route[n].gen \in Nat
      BY Typed, RouteFields
    <3> QED
      BY <3>1, Order DEF Copied
  <2>6. BindingsKnown'
    <3>1. \A n \in Names : KnownGateway(route[n].ann) /\ route[n].ann \in Bindings
      BY Typed, RouteFields DEF World, BindingsKnown
    <3>2. \A n \in Names, g \in Gateways : Reached(route[n].ann, gw[g])
      BY <3>1, <1>LiveGateways
    <3> QED
      BY <3>1, <3>2 DEF BindingsKnown, KnownGateway
  <2>7. Bound' /\ OneRoute'
    BY SMTT(30) DEF World, Bound, OneRoute
  <2>8. Underway'
    BY Typed, Ends
  <2> QED
    BY <2>3, <2>4, <2>5, <2>6, <2>7, <2>8 DEF IInv, World
<1> QED
  BY <1>SyncRouteStep, <1>SyncGatewayStep, <1>CrashStep

-----------------------------------------------------------------------------
(* The provider's calls. *)
LEMMA PartsWritten ==
  ASSUME World, UNCHANGED <<route, gw, cls, svc, bundle, cache>>, queued' \subseteq Names,
         spent' \in Counters, spent'.in = spent.in, spent'.routes = spent.routes,
         spent'.made = spent.made, lb' \in [UIDs -> LBStates],
         \A u \in UIDs : lb'[u] # "none" <=> lb[u] # "none",
         parts' \in [UIDs -> [RouteUIDs -> PartStates]],
         \A u \in UIDs, x \in RouteUIDs : parts'[u][x] # "none" /\ parts[u][x] = "none" =>
            /\ lb[u] # "none"
            /\ \E n \in Names : /\ route[n].uid = x /\ route[n].fin = u
                                /\ route[n].ann \in {u, NoUID}
            /\ \A y \in RouteUIDs \ {x} : parts'[u][y] = "none"
  PROVE  World'
<1>1. Types'
  BY DEF World, Types
<1>0. /\ Identities /\ BindingsKnown /\ (\A n \in Names : Copied(n))
      /\ route' = route /\ gw' = gw /\ cache' = cache
  BY DEF World
<1> USE <1>0
<1>2. Identities'
  BY IdentitiesStay
<1>3. BindingsKnown'
  BY BindingsStay
<1>4. \A n \in Names : Copied(n)'
  BY CopiedStays
<1>5. Bound'
  <2>1. \A u \in UIDs : lb'[u] # "none" => gw[u[1]].uid = u /\ gw[u[1]].ann # 0
    BY DEF World, Bound
  <2>2. \A u \in UIDs, x \in RouteUIDs : parts'[u][x] # "none" =>
           /\ lb'[u] # "none"
           /\ \E n \in Names : /\ route[n].uid = x /\ route[n].fin = u
                               /\ route[n].ann \in {u, NoUID}
    BY SMTT(30) DEF World, Bound
  <2> QED
    BY <2>1, <2>2, SMTT(30) DEF Bound
<1>6. OneRoute'
  BY SMTT(30) DEF World, OneRoute
<1> QED
  BY <1>1, <1>2, <1>3, <1>4, <1>5, <1>6 DEF World

LEMMA FailuresAreTyped ==
  \A f \in Failures \cup {OwnershipConflict} :
      f.advance \in BOOLEAN /\ f.requeue \in BOOLEAN /\ f.reported \in BOOLEAN
<1> SUFFICES ASSUME NEW c PROVE LET f == ProviderFailurePolicyFor(c) IN
                /\ f.advance \in BOOLEAN /\ f.requeue \in BOOLEAN /\ f.reported \in BOOLEAN
  BY DEF Failures, OwnershipConflict
<1> QED
  BY SMTT(30) DEF ProviderFailurePolicyFor

LEMMA FailurePlans ==
  ASSUME NEW f \in Failures \cup {OwnershipConflict}, NEW p \in Parents,
         NEW kind \in {"failure", "deleting"}
  PROVE  FailurePlan(kind, p, f) \in Plans
BY FailuresAreTyped DEF FailurePlan, Plans, Progs

LEMMA FailedReturns ==
  ASSUME IInv, rec.pc # "idle", Holds, NEW f \in Failures \cup {OwnershipConflict},
         NEW p \in Parents, Failed(p, f)
  PROVE  Underway' /\ queued' = queued
<1>1. rec.n \in Names /\ route[rec.n] \in Routes /\ spent.routes \in Nat
  BY Typed DEF IInv, World, Underway, Revisions
<1>2. route[rec.n].gen \in Nat
  BY <1>1, RouteFields
<1>3. /\ Later(rec.n) /\ route'[rec.n] \in Routes /\ spent'.routes \in Nat
      /\ spent.routes <= spent'.routes
  BY <1>1, <1>2, Order DEF Holds, Later
<1>4. CASE Return(FailurePlan("failure", p, f), f.requeue)
  <2>1. FailurePlan("failure", p, f) \in Plans /\ f.requeue \in BOOLEAN
    BY FailurePlans, FailuresAreTyped
  <2> QED
    BY <1>3, <1>4, <2>1, Returned DEF Return
<1>5. CASE Return(NoPlan, TRUE)
  BY <1>3, <1>5, Returned, Absences DEF Return
<1> QED
  BY <1>4, <1>5 DEF Failed

(* DeleteRoute and its answers. *)
LEMMA DeleteSteps ==
  /\ IInv
  /\ DeleteProgress \/ DeleteReady \/ DeleteConflict \/ DeleteFailure
  => IInv'
<1>PartsRemoved. ASSUME World, UNCHANGED <<route, gw, cls, svc, bundle, cache, lb>>, queued' \subseteq Names,
                        spent' \in Counters, spent'.in = spent.in, spent'.routes = spent.routes,
                        spent'.made = spent.made, NEW u \in UIDs, NEW x \in RouteUIDs,
                        parts' = parts \/ parts' = [parts EXCEPT ![u][x] = Shrunk(@)]
                 PROVE  World'
  <2> USE <1>PartsRemoved
  <2>1. Types /\ lb \in [UIDs -> LBStates] /\ parts \in [UIDs -> [RouteUIDs -> PartStates]]
    BY DEF World, Types
  <2> USE <2>1
  <2>2. Shrunk(parts[u][x]) \in PartStates /\ Shrunk("none") = "none"
    BY Sizes DEF Shrunk
  <2>3. /\ parts' \in [UIDs -> [RouteUIDs -> PartStates]]
        /\ \A w \in UIDs, y \in RouteUIDs : parts'[w][y] # "none" => parts[w][y] # "none"
    <3>1. CASE parts' = parts
      BY <3>1
    <3>2. CASE parts' = [parts EXCEPT ![u][x] = Shrunk(parts[u][x])]
      BY <2>2, <3>2, PartsStep, SMTT(30) DEF PartSet
    <3> QED
      BY <3>1, <3>2
  <2> QED
    BY <2>3, PartsWritten
(* After the provider was called for a deletion. *)
<1>DeleteCalled. ASSUME IInv, rec.pc = "delete", Holds, rec' \in Scopes, rec'.pc \in {"progress", "diag"},
                        rec'.n = rec.n, rec'.r = rec.r, rec'.g = rec.g, rec'.mode = rec.mode,
                        rec'.fresh = rec.fresh
                 PROVE  Underway'
  <2> USE <1>DeleteCalled
  <2>1. /\ rec'.pc \notin Cleaning /\ rec'.pc \notin Ensuring /\ rec'.pc \notin Observing
        /\ rec'.pc \notin Resting /\ rec.pc # "idle"
    BY DEF Cleaning, Ensuring, Observing, Resting
  <2> USE <2>1
  <2>2. rec'.fresh = FALSE
    <3>1. rec.fresh => rec.pc \in (Cleaning \ {"delete"}) \cup Observing
      BY DEF IInv, Underway, Revisions
    <3>2. rec.fresh \in BOOLEAN
      BY ScopeFields DEF IInv, Underway
    <3> QED
      BY <3>1, <3>2 DEF Cleaning, Observing, Ensuring
  <2>3. Revisions'
    <3>1. /\ rec'.n \in Names /\ rec'.r.uid # 0 /\ rec'.r.uid <= spent'.routes
          /\ rec'.r.uid = route'[rec'.n].uid =>
                rec'.r.gen <= route'[rec'.n].gen /\ (rec'.r.deleting => route'[rec'.n].deleting)
      BY Continues DEF Same
    <3> QED
      BY <2>2, <3>1 DEF Revisions, Stored
  <2>4. Aim'
    <3>1. CASE rec.mode = "prev"
      BY <3>1, AimKept DEF Aims, Same
    <3>2. CASE rec.mode # "prev"
      BY <3>2 DEF Aim, Aims
    <3> QED
      BY <3>1, <3>2
  <2>5. Modes' /\ Seals'
    BY DEF Modes, Seals, Ensuring
  <2>6. Withdrawn' /\ History'
    BY DEF Withdrawn, History
  <2> QED
    BY <2>3, <2>4, <2>5, <2>6 DEF Underway
<1>DeleteFails. ASSUME IInv, rec.pc = "delete", Holds, NEW f \in Failures \cup {OwnershipConflict},
                       DeleteFailed(f)
                PROVE  Underway' /\ queued' = queued
  <2> USE <1>DeleteFails
  <2>1. /\ rec \in Scopes /\ rec.plan \in Plans /\ rec.r \in Routes /\ rec.pc # "idle"
        /\ rec.mode \in {"final", "status", "prev"}
    BY ScopeFields DEF IInv, Underway, Modes, Cleaning
  <2> USE <2>1
  <2>2. rec.plan.parent \in Parents /\ rec.r.parent \in Parents /\ f.reported \in BOOLEAN
    BY RouteFields, FailuresAreTyped DEF Plans
  <2> USE <2>2
  <2>3. CASE ~f.reported \/ rec.mode = "prev"
    <3>1. Failed(rec.plan.parent, f)
      BY <2>3 DEF DeleteFailed
    <3> QED
      BY <3>1, FailedReturns
  <2>4. ASSUME NEW q \in Plans, rec' = [rec EXCEPT !.pc = "diag", !.plan = q], queued' = queued
        PROVE  Underway' /\ queued' = queued
    <3>1. /\ rec' \in Scopes /\ rec'.pc = "diag" /\ rec'.n = rec.n /\ rec'.r = rec.r
          /\ rec'.g = rec.g /\ rec'.mode = rec.mode /\ rec'.fresh = rec.fresh
      BY <2>4 DEF Scopes, Places
    <3> QED
      BY <2>4, <3>1, <1>DeleteCalled
  <2>5. CASE f.reported /\ rec.mode = "status"
    <3> DEFINE q == IF rec.plan.parent = 0 THEN rec.plan
                    ELSE FailurePlan("failure", rec.plan.parent, f)
    <3>1. rec' = [rec EXCEPT !.pc = "diag", !.plan = q] /\ queued' = queued
      BY <2>5 DEF DeleteFailed
    <3>2. q \in Plans
      BY FailurePlans
    <3> HIDE DEF q
    <3> QED
      BY <2>4, <3>1, <3>2
  <2>6. CASE f.reported /\ rec.mode = "final"
    <3> DEFINE q == IF rec.r.parent = rec.u[1] THEN FailurePlan("deleting", rec.r.parent, f)
                    ELSE NoPlan
    <3>1. rec' = [rec EXCEPT !.pc = "diag", !.plan = q] /\ queued' = queued
      BY <2>6 DEF DeleteFailed
    <3>2. q \in Plans
      BY FailurePlans, Absences
    <3> HIDE DEF q
    <3> QED
      BY <2>4, <3>1, <3>2
  <2> QED
    BY <2>3, <2>5, <2>6
<1>DeletingFacts. ASSUME IInv, rec.pc = "delete"
                  PROVE  /\ rec.u \in UIDs /\ rec.r.uid \in RouteUIDs /\ rec.pc # "idle" /\ World /\ Types
                         /\ queued \subseteq Names /\ spent \in Counters
  <2> USE <1>DeletingFacts
  <2>1. rec.u \in UIDs /\ Types /\ rec.r.uid # 0 /\ rec.r.uid <= spent.routes /\ rec.r \in Routes
    BY ScopeFields DEF IInv, World, Underway, Modes, Cleaning, Revisions
  <2>2. rec.r.uid \in RouteUIDs
    BY <2>1, Typed, RouteFields, SMTT(30)
  <2> QED
    BY <2>1, <2>2 DEF IInv, Types
<1>DeleteStep. ASSUME IInv, DeleteProgress \/ DeleteReady \/ DeleteConflict
               PROVE  IInv'
  <2> USE <1>DeleteStep
  <2>1. rec.pc = "delete"
    BY DEF DeleteProgress, DeleteReady, DeleteConflict
  <2> USE <2>1
  <2>2. CASE DeleteReady
    <3>1. Reads /\ Go("clear") /\ Kept
      BY <2>2, QuietReads DEF DeleteReady, Part, Kept
    <3> QED
      BY <3>1, Clears
  <2>3. CASE DeleteConflict
    <3>1. Reads /\ DeleteFailed(OwnershipConflict)
      BY <2>3, QuietReads DEF DeleteConflict
    <3>2. Underway' /\ queued' = queued
      BY <3>1, <1>DeleteFails, ReadsHolds
    <3> QED
      BY <3>1, <3>2, ReadsWorld, <1>DeletingFacts DEF IInv
  <2>4. CASE DeleteProgress
    <3>1. /\ parts' = [parts EXCEPT ![rec.u][rec.r.uid] = Shrunk(@)] /\ Go("progress")
          /\ UNCHANGED <<route, gw, cls, svc, bundle, cache, lb, spent>>
      BY <2>4 DEF DeleteProgress
    <3> USE <3>1
    <3>2. Holds /\ queued' = queued
      BY DEF Holds, Go
    <3>3. rec \in Scopes
      BY DEF IInv, Underway
    <3>4. /\ rec' \in Scopes /\ rec'.pc = "progress" /\ rec'.n = rec.n /\ rec'.r = rec.r
          /\ rec'.g = rec.g /\ rec'.mode = rec.mode /\ rec'.fresh = rec.fresh
      BY <3>3 DEF Go, Scopes, Places
    <3>5. Underway'
      BY <3>2, <3>4, <1>DeleteCalled
    <3>6. World'
      BY <3>2, <1>PartsRemoved, <1>DeletingFacts
    <3> QED
      BY <3>5, <3>6 DEF IInv
  <2> QED
    BY <2>2, <2>3, <2>4
<1>DeleteFailureStep. ASSUME IInv, DeleteFailure
                      PROVE  IInv'
  <2> USE <1>DeleteFailureStep
  <2>1. /\ rec.pc = "delete" /\ Spend("failures")
        /\ parts' = parts \/ parts' = [parts EXCEPT ![rec.u][rec.r.uid] = Shrunk(@)]
        /\ UNCHANGED <<route, gw, cls, svc, bundle, cache, lb>>
    BY DEF DeleteFailure
  <2> USE <2>1
  <2>2. PICK f \in spent.in.errors : DeleteFailed(f)
    BY DEF DeleteFailure
  <2>3. Types /\ World
    BY DEF IInv, World
  <2> USE <2>3
  <2>4. /\ spent' \in Counters /\ spent'.in = spent.in /\ spent'.made = spent.made
        /\ spent'.routes = spent.routes
    BY Spending DEF Bounded
  <2>5. f \in Failures
    BY Typed, ScenariosAssumption
  <2>6. Holds
    BY <2>4 DEF Holds
  <2>7. Underway' /\ queued' = queued
    BY <2>2, <2>5, <2>6, <1>DeleteFails
  <2>8. World'
    BY <2>4, <2>7, <1>PartsRemoved, <1>DeletingFacts
  <2> QED
    BY <2>7, <2>8 DEF IInv
<1> QED
  BY <1>DeleteStep, <1>DeleteFailureStep

LEMMA MutatingFacts ==
  ASSUME IInv, rec.pc = "mutate"
  PROVE  /\ rec.pc \in Observing /\ rec.pc # "idle" /\ rec.r.uid \in RouteUIDs /\ World /\ Types
         /\ queued \subseteq Names /\ spent \in Counters /\ rec.o.uid = rec.g.uid
         /\ rec.o.uid \in UIDs /\ KnownGateway(rec.o.uid) /\ Aims
         /\ \A g \in Gateways : Reached(rec.o.uid, cache.gw[g])
<1>1. rec.pc \in Observing /\ rec.pc \in Observing \ {"e2"} /\ Aims
  BY DEF Observing, Ensuring, Aims
<1> USE <1>1
<1>2. Types /\ rec.r.uid # 0 /\ rec.r.uid <= spent.routes /\ rec.r \in Routes
  BY ScopeFields DEF IInv, World, Underway, Revisions
<1>3. rec.r.uid \in RouteUIDs
  BY <1>2, Typed, RouteFields, SMTT(30)
<1>4. rec.o.uid = rec.g.uid
  BY DEF IInv, Underway, Seals, Same
<1>5. /\ rec.g.uid \in UIDs /\ KnownGateway(rec.g.uid)
      /\ \A g \in Gateways : Reached(rec.g.uid, cache.gw[g])
  BY DEF IInv, Underway, Aim
<1> QED
  BY <1>2, <1>3, <1>4, <1>5 DEF IInv, Types

PartsGrow == parts' = [parts EXCEPT ![rec.o.uid][rec.r.uid] = Grown(@)]

(* EnsureRoute and its answers. *)
LEMMA EnsureSteps ==
  /\ IInv
  /\ \/ EnsureWait \/ EnsureProgress \/ EnsureRepair \/ EnsureReady
     \/ EnsureConflict \/ EnsureFailure
  => IInv'
<1>AttachmentFacts. ASSUME IInv, EnsureCall
                    PROVE  /\ rec.pc = "mutate" /\ rec.n \in Names /\ rec.r.parent \in Parents
                           /\ route[rec.n].uid = rec.r.uid /\ route[rec.n].fin = rec.o.uid
                           /\ route[rec.n].ann \in {rec.o.uid, NoUID}
  <2> USE <1>AttachmentFacts
  <2>1. rec.pc = "mutate" /\ ~rec.binding
    BY DEF EnsureCall
  <2>2. rec.n \in Names /\ rec.r.parent \in Parents
    BY <2>1, MutatingFacts, ObservingFacts
  <2> QED
    BY <2>1, <2>2 DEF IInv, Underway, Seals, Stored
<1>PartsAdded. ASSUME IInv, EnsureCall, lb[rec.o.uid] # "none", ~Conflict(rec.o.uid), PartsGrow,
                      UNCHANGED <<route, gw, cls, svc, bundle, cache, lb>>, queued' \subseteq Names,
                      spent' \in Counters, spent'.in = spent.in, spent'.routes = spent.routes,
                      spent'.made = spent.made
               PROVE  World'
  <2> USE <1>PartsAdded
  <2> DEFINE u == rec.o.uid
             x == rec.r.uid
             n == rec.n
  <2>1. /\ u \in UIDs /\ x \in RouteUIDs /\ n \in Names /\ route[n].uid = x /\ route[n].fin = u
        /\ route[n].ann \in {u, NoUID} /\ World /\ Types
    BY <1>AttachmentFacts, MutatingFacts
  <2> USE <2>1
  <2>2. lb \in [UIDs -> LBStates] /\ parts \in [UIDs -> [RouteUIDs -> PartStates]]
    BY DEF Types
  <2>3. Grown(parts[u][x]) \in PartStates
    BY <2>2, Sizes
  <2>4. /\ parts' \in [UIDs -> [RouteUIDs -> PartStates]]
        /\ \A w \in UIDs, y \in RouteUIDs : w # u \/ y # x => parts'[w][y] = parts[w][y]
    <3> DEFINE v == Grown(parts[u][x])
    <3>1. PartSet(u, x, v) /\ v \in PartStates
      BY <2>3 DEF PartsGrow, PartSet
    <3> HIDE DEF u, x, n, v
    <3> QED
      BY <3>1, PartsStep, SMTT(30)
  <2> USE <2>4
  <2>5. \A y \in RouteUIDs \ {x} : parts[u][y] = "none"
    BY DEF Conflict
  <2> HIDE DEF u, x, n
  <2>6. \A w \in UIDs, y \in RouteUIDs : parts'[w][y] # "none" /\ parts[w][y] = "none" =>
           w = u /\ y = x
    OBVIOUS
  <2>7. \A y \in RouteUIDs \ {x} : parts'[u][y] = "none"
    BY <2>5
  <2>8. \A w \in UIDs, y \in RouteUIDs : parts'[w][y] # "none" /\ parts[w][y] = "none" =>
           /\ lb[w] # "none"
           /\ \E m \in Names : route[m].uid = y /\ route[m].fin = w /\ route[m].ann \in {w, NoUID}
           /\ \A z \in RouteUIDs \ {y} : parts'[w][z] = "none"
    BY <2>6, <2>7, SMTT(30) DEF u
  <2> QED
    BY <2>2, <2>8, PartsWritten
<1>EnsureStep. ASSUME IInv, EnsureWait \/ EnsureProgress \/ EnsureRepair \/ EnsureReady \/ EnsureConflict
               PROVE  IInv'
  <2> USE <1>EnsureStep
  <2>1. EnsureCall
    BY DEF EnsureWait, EnsureProgress, EnsureRepair, EnsureReady, EnsureConflict
  <2>2. /\ rec.pc = "mutate" /\ rec.pc # "idle" /\ rec.r.parent \in Parents /\ World /\ Types
        /\ rec.o.uid \in UIDs /\ queued \subseteq Names /\ spent \in Counters
        /\ lb \in [UIDs -> LBStates] /\ parts \in [UIDs -> [RouteUIDs -> PartStates]]
    BY <2>1, <1>AttachmentFacts, MutatingFacts DEF Types
  <2> USE <2>2
  <2>3. Replace(rec.r.parent, "pending") \in Plans /\ Replace(rec.r.parent, "True") \in Plans
    BY ReplacePlan DEF Progs
  <2>4. CASE EnsureWait \/ EnsureReady
    BY <2>3, <2>4, QuietReads, ReadsAndReturns DEF EnsureWait, EnsureReady
  <2>5. CASE EnsureConflict
    <3>1. Reads /\ Failed(rec.r.parent, OwnershipConflict)
      BY <2>5, QuietReads DEF EnsureConflict
    <3>2. Underway' /\ queued' = queued
      BY <3>1, FailedReturns, ReadsHolds
    <3> QED
      BY <3>1, <3>2, ReadsWorld DEF IInv
  <2>6. CASE EnsureProgress \/ EnsureRepair
    <3>1. /\ UNCHANGED <<route, gw, cls, svc, bundle, cache, spent>>
          /\ Return(Replace(rec.r.parent, "pending"), TRUE)
      BY <2>6 DEF EnsureProgress, EnsureRepair
    <3> USE <3>1
    <3>2. /\ rec.n \in Names /\ route'[rec.n] = route[rec.n] /\ route[rec.n] \in Routes
          /\ spent'.routes = spent.routes /\ spent.routes \in Nat /\ queued' = queued
      BY <2>1, <1>AttachmentFacts, Typed DEF Return
    <3> USE <3>2
    <3>3. Later(rec.n) /\ spent.routes <= spent'.routes
      BY RouteFields, Order DEF Later
    <3>4. Underway'
      BY <2>3, <3>3, Returned
    <3>5. CASE EnsureProgress
      <4>1. World'
        BY <2>1, <3>5, <1>PartsAdded DEF EnsureProgress, PartsGrow
      <4> QED
        BY <3>4, <4>1 DEF IInv
    <3>6. CASE EnsureRepair
      <4>1. lb[rec.o.uid] = "down" /\ lb' = [lb EXCEPT ![rec.o.uid] = "up"] /\ parts' = parts
        BY <3>6 DEF EnsureRepair
      <4>2. lb' \in [UIDs -> LBStates] /\ \A u \in UIDs : lb'[u] # "none" <=> lb[u] # "none"
        BY <4>1 DEF LBStates
      <4>3. World'
        BY <4>1, <4>2, PartsWritten
      <4> QED
        BY <3>4, <4>3 DEF IInv
    <3> QED
      BY <2>6, <3>5, <3>6
  <2> QED
    BY <2>4, <2>5, <2>6
<1>EnsureFailureStep. ASSUME IInv, EnsureFailure
                      PROVE  IInv'
  <2> USE <1>EnsureFailureStep
  <2>1. /\ EnsureCall /\ Spend("failures") /\ UNCHANGED <<route, gw, cls, svc, bundle, cache, lb>>
        /\ \/ parts' = parts
           \/ lb[rec.o.uid] # "none" /\ ~Conflict(rec.o.uid) /\ PartsGrow
    BY DEF EnsureFailure, PartsGrow
  <2> USE <2>1
  <2>2. PICK f \in spent.in.errors : Failed(rec.r.parent, f)
    BY DEF EnsureFailure
  <2>3. /\ rec.pc # "idle" /\ rec.r.parent \in Parents /\ World /\ Types
        /\ queued \subseteq Names
        /\ lb \in [UIDs -> LBStates] /\ parts \in [UIDs -> [RouteUIDs -> PartStates]]
    BY <1>AttachmentFacts, MutatingFacts DEF Types
  <2> USE <2>3
  <2>4. /\ spent' \in Counters /\ spent'.in = spent.in /\ spent'.made = spent.made
        /\ spent'.routes = spent.routes
    BY Spending DEF Bounded
  <2> USE <2>4
  <2>5. f \in Failures
    BY Typed, ScenariosAssumption
  <2>6. Holds
    BY DEF Holds
  <2>7. Underway' /\ queued' = queued
    BY <2>2, <2>5, <2>6, FailedReturns
  <2> USE <2>7
  <2>8. CASE parts' = parts
    <3>1. World'
      BY <2>8, PartsWritten
    <3> QED
      BY <3>1 DEF IInv
  <2>9. CASE parts' # parts
    <3>1. World'
      BY <2>9, <1>PartsAdded
    <3> QED
      BY <3>1 DEF IInv
  <2> QED
    BY <2>8, <2>9
<1> QED
  BY <1>EnsureStep, <1>EnsureFailureStep

-----------------------------------------------------------------------------
(* The worker's writes. *)
LEMMA WorkerWrites ==
  ASSUME IInv, NEW n \in Names, NEW r \in Routes, WriteRoute(n, r), route[n] # NoRoute,
         UNCHANGED <<gw, cls, svc, bundle, lb, parts, spent>>, queued' \subseteq Names,
         Same(r, route[n]), r.parent = route[n].parent, r.shape = route[n].shape,
         r.second = route[n].second, r.st.gen <= r.gen,
         \/ r.ann \in {NoUID, route[n].ann}
         \/ /\ r.ann \in UIDs /\ KnownGateway(r.ann) /\ r.ann[1] = r.parent
            /\ \A g \in Gateways : Reached(r.ann, cache.gw[g]),
         \A u \in UIDs, x \in RouteUIDs : x = route[n].uid /\ parts[u][x] # "none" =>
            r.fin = u /\ r.ann \in {u, NoUID}
  PROVE  World' /\ Later(n) /\ route'[n] = r /\ cache'.gw = cache.gw
<1>1. /\ Types /\ World /\ spent \in Counters /\ route[n] \in Routes /\ KnownRoute(route[n])
      /\ spent.routes <= spent.in.routes /\ spent.routes \in Nat
  BY Typed DEF IInv, World, Types, Identities
<1> USE <1>1
<1>2. /\ r.uid = route[n].uid /\ r.gen = route[n].gen /\ r.deleting = route[n].deleting
      /\ r.gen \in Nat /\ r.uid # 0 /\ r.uid <= spent.routes
  BY RouteFields DEF Same, KnownRoute
<1>3. cache'.gw = cache.gw /\ route'[n] = r
  BY CacheFallsBehind
<1>4. Later(n)
  BY <1>2, <1>3, Order DEF Later
<1>5. /\ spent' = spent /\ spent.routes <= spent'.routes /\ spent'.routes <= spent'.in.routes
      /\ spent' \in Counters /\ r.uid <= spent'.routes
  BY <1>2, Order
<1>6. World'
  BY <1>2, <1>4, <1>5, RouteWritten
<1> QED
  BY <1>3, <1>4, <1>6

LEMMA PartsOfRoute ==
  ASSUME World, NEW n \in Names, NEW u \in UIDs, NEW x \in RouteUIDs, route[n].uid = x,
         parts[u][x] # "none"
  PROVE  route[n].fin = u /\ route[n].ann \in {u, NoUID}
<1>1. PICK m \in Names : /\ route[m].uid = x /\ route[m].fin = u
                         /\ route[m].ann \in {u, NoUID}
  BY DEF World, Bound
<1>2. x # 0
  BY Sets
<1>3. m = n
  BY <1>1, <1>2 DEF World, Identities
<1> QED
  BY <1>1, <1>3

(* The binding is written and cleared, and a failed cleanup noted. *)
LEMMA BindingSteps == IInv /\ (PatchCleanupFailure \/ ClearBinding \/ BindRoute) => IInv'
<1>PatchCleanupFailureStep. ASSUME IInv, PatchCleanupFailure
                            PROVE  IInv'
  <2> USE <1>PatchCleanupFailureStep
  <2> DEFINE d == (rec.pc = "diag")
             r == [route[rec.n] EXCEPT !.diag = d]
  <2>1. /\ rec.pc \in {"diag", "progress"} /\ rec.pc # "idle"
        /\ UNCHANGED <<gw, cls, svc, bundle, lb, parts, spent>>
    BY DEF PatchCleanupFailure
  <2> USE <2>1
  <2>2. CASE Again /\ UNCHANGED <<route, cache>>
    <3>1. Reads
      BY <2>2 DEF Reads
    <3> QED
      BY <2>2, <3>1, ReadsAndEnds
  <2>3. CASE Same(route[rec.n], rec.r) /\ WriteRoute(rec.n, r) /\ Return(rec.plan, TRUE)
    <3> USE <2>3
    <3>1. /\ rec.n \in Names /\ route[rec.n] \in Routes /\ rec.r.uid # 0 /\ rec.plan \in Plans
          /\ World /\ KnownRoute(route[rec.n]) /\ spent.routes \in Nat
      <4>1. rec.n \in Names /\ World /\ Types
        BY DEF IInv, World, Underway, Revisions
      <4>2. rec.r.uid # 0 /\ rec.plan \in Plans
        BY ScopeFields DEF IInv, Underway, Revisions
      <4> QED
        BY <4>1, <4>2, Typed DEF World, Identities
    <3> USE <3>1
    <3>2. /\ r \in Routes /\ Same(r, route[rec.n]) /\ r.parent = route[rec.n].parent
          /\ r.shape = route[rec.n].shape /\ r.second = route[rec.n].second
          /\ r.st = route[rec.n].st /\ r.ann = route[rec.n].ann /\ r.fin = route[rec.n].fin
          /\ r.gen = route[rec.n].gen
      <4>1. d \in BOOLEAN
        OBVIOUS
      <4> HIDE DEF d
      <4> QED
        BY <4>1 DEF Routes, Same
    <3> USE <3>2
    <3> HIDE DEF r
    <3>3. route[rec.n] # NoRoute /\ r.st.gen <= r.gen
      BY Absences DEF Same, KnownRoute
    <3>4. queued' \subseteq Names
      BY ReadsQueue DEF Return
    <3>5. \A u \in UIDs, x \in RouteUIDs : x = route[rec.n].uid /\ parts[u][x] # "none" =>
             r.fin = u /\ r.ann \in {u, NoUID}
      BY PartsOfRoute
    <3>6. World' /\ Later(rec.n) /\ route'[rec.n] = r
      BY <3>3, <3>4, <3>5, WorkerWrites
    <3>7. spent'.routes \in Nat /\ spent.routes <= spent'.routes
      BY Order
    <3>8. Underway'
      BY <3>6, <3>7, Returned
    <3> QED
      BY <3>6, <3>8 DEF IInv
  <2> QED
    BY <2>2, <2>3 DEF PatchCleanupFailure
<1>NothingBound. ASSUME IInv, rec.pc = "clear", Same(route[rec.n], rec.r), ~Broken(route[rec.n]),
                        route[rec.n].ann = rec.u, NEW u \in UIDs, NEW x \in RouteUIDs, x = route[rec.n].uid
                 PROVE  parts[u][x] = "none"
  <2> USE <1>NothingBound
  <2>1. SUFFICES ASSUME parts[u][x] # "none" PROVE FALSE
    OBVIOUS
  <2>2. rec.n \in Names /\ World
    BY DEF IInv, Underway, Revisions
  <2>3. route[rec.n].fin = u
    BY <2>1, <2>2, PartsOfRoute
  <2>4. u # NoUID
    BY UIDFacts
  <2>5. rec.u = u
    BY <2>3, <2>4 DEF Broken
  <2>6. Kept
    BY <2>4, <2>5 DEF IInv, Underway, Modes
  <2>7. rec.r.uid = x
    BY DEF Same
  <2> QED
    BY <2>1, <2>5, <2>6, <2>7 DEF Kept
<1>ClearBindingStep. ASSUME IInv, ClearBinding
                     PROVE  IInv'
  <2> USE <1>ClearBindingStep
  <2> DEFINE live == route[rec.n]
             q == [live EXCEPT !.fin = NoUID, !.ann = NoUID, !.diag = FALSE]
  <2>1. /\ rec.pc = "clear" /\ rec.pc # "idle"
        /\ UNCHANGED <<gw, cls, svc, bundle, lb, parts, spent>>
    BY DEF ClearBinding
  <2> USE <2>1
  <2>2. /\ rec.n \in Names /\ World /\ Types /\ live \in Routes /\ spent.routes \in Nat
        /\ rec.r.uid # 0 /\ KnownRoute(live)
    <3>1. rec.n \in Names /\ World /\ Types /\ rec.r.uid # 0
      BY DEF IInv, World, Underway, Revisions
    <3> QED
      BY <3>1, Typed DEF World, Identities
  <2> USE <2>2
  <2>3. CASE Again /\ UNCHANGED <<route, cache>>
    <3>1. Reads
      BY <2>3 DEF Reads
    <3> QED
      BY <2>3, <3>1, ReadsAndEnds
  <2>4. CASE Finish /\ UNCHANGED <<route, cache>>
    <3>1. Reads
      BY <2>4 DEF Reads
    <3>2. Underway' /\ queued' \subseteq Names
      BY <2>4, <3>1, Unread, Finishes
    <3> QED
      BY <3>1, <3>2, ReadsWorld DEF IInv
  <2>5. ASSUME Same(live, rec.r), ~Broken(live), live.ann = rec.u, Finish,
               WriteRoute(rec.n, NoRoute) \/ WriteRoute(rec.n, q)
        PROVE  IInv'
    <3> USE <2>5
    <3>1. \A u \in UIDs, x \in RouteUIDs : x = live.uid => parts[u][x] = "none"
      BY <1>NothingBound
    <3>2. live # NoRoute /\ live.st.gen <= live.gen
      BY Absences DEF Same, KnownRoute
    <3>3. q \in Routes /\ Same(q, live) /\ q.parent = live.parent /\ q.shape = live.shape
          /\ q.second = live.second /\ q.st = live.st /\ q.gen = live.gen /\ q.ann = NoUID
      <4>1. NoUID \in Bindings
        BY DEF Bindings
      <4> HIDE DEF live
      <4> QED
        BY <4>1 DEF Routes, Same
    <3> USE <3>3
    <3> HIDE DEF q
    <3>4. CASE WriteRoute(rec.n, NoRoute)
      <4>1. route'[rec.n] = NoRoute /\ NoRoute \in Routes /\ cache'.gw = cache.gw
        BY <3>4, CacheFallsBehind, Absences
      <4> USE <4>1
      <4>2. Later(rec.n)
        BY DEF Later
      <4>3. Underway' /\ queued' \subseteq Names
        BY <4>2, Finishes
      <4>4. World'
        <5>1. spent \in Counters /\ spent.routes <= spent.in.routes
          BY DEF Types
        <5>2. /\ NoRoute.uid = 0 /\ NoRoute.ann = NoUID
              /\ NoRoute.uid <= spent.routes /\ NoRoute.st.gen <= NoRoute.gen
          BY Absences, Order
        <5>3. /\ spent' = spent /\ spent' \in Counters /\ spent.routes <= spent'.routes
              /\ spent'.routes <= spent'.in.routes /\ NoRoute.uid <= spent'.routes
          BY <5>1, <5>2, Order
        <5>4. \A u \in UIDs, x \in RouteUIDs : x = live.uid /\ parts[u][x] # "none" =>
                NoRoute.uid = x /\ NoRoute.fin = u /\ NoRoute.ann \in {u, NoUID}
          BY <3>1
        <5> QED
          BY <3>4, <4>2, <4>3, <5>2, <5>3, <5>4, RouteWritten
      <4> QED
        BY <4>3, <4>4 DEF IInv
    <3>5. CASE WriteRoute(rec.n, q)
      <4>1. route'[rec.n] = q /\ cache'.gw = cache.gw
        BY <3>5, CacheFallsBehind
      <4>2. Later(rec.n)
        <5>1. live.gen \in Nat
          BY RouteFields
        <5> QED
          BY <4>1, <5>1, Order DEF Later, Same
      <4>3. Underway' /\ queued' \subseteq Names
        BY <4>1, <4>2, Finishes
      <4>4. World'
        BY <3>1, <3>2, <3>5, <4>3, WorkerWrites
      <4> QED
        BY <4>3, <4>4 DEF IInv
    <3> QED
      BY <3>4, <3>5
  <2> QED
    BY <2>3, <2>4, <2>5 DEF ClearBinding
<1>BindRouteStep. ASSUME IInv, BindRoute
                  PROVE  IInv'
  <2> USE <1>BindRouteStep
  <2> DEFINE live == route[rec.n]
             q == [live EXCEPT !.ann = rec.o.uid, !.fin = rec.o.uid, !.diag = FALSE]
  <2>1. /\ rec.pc = "mutate" /\ rec.pc # "idle" /\ rec.binding
        /\ UNCHANGED <<gw, cls, svc, bundle, lb, parts, spent>>
    BY DEF BindRoute
  <2> USE <2>1
  <2>2. CASE Ensure /\ UNCHANGED <<route, cache>>
    <3> USE <2>2
    <3>1. Reads /\ Aims
      BY MutatingFacts DEF Reads
    <3>2. Underway'
      BY <3>1, Unread, EnsureStarts
    <3>3. queued' \subseteq Names
      BY ReadsQueue DEF Ensure
    <3> QED
      BY <3>1, <3>2, <3>3, ReadsWorld DEF IInv
  <2>3. ASSUME rec.fresh, WriteRoute(rec.n, q), Again
        PROVE  IInv'
    <3> USE <2>3
    <3>1. /\ rec.n \in Names /\ live \in Routes /\ World /\ Types /\ rec.pc \in Observing
          /\ rec.o.uid \in UIDs /\ rec.o.uid = rec.g.uid /\ rec.r.parent = rec.g.uid[1]
          /\ KnownGateway(rec.o.uid) /\ \A g \in Gateways : Reached(rec.o.uid, cache.gw[g])
      BY MutatingFacts, ObservingFacts
    <3> USE <3>1
    <3>2. /\ Same(live, rec.r) /\ live.parent = rec.r.parent /\ live.fin = rec.r.fin
          /\ live.ann = rec.r.ann /\ rec.r.uid # 0
      BY DEF IInv, Underway, Revisions, Stored
    <3> USE <3>2
    <3>3. /\ q \in Routes /\ Same(q, live) /\ q.parent = live.parent /\ q.shape = live.shape
          /\ q.second = live.second /\ q.st = live.st /\ q.gen = live.gen
          /\ q.ann = rec.o.uid /\ q.fin = rec.o.uid
      <4>1. rec.o.uid \in Bindings
        BY DEF Bindings
      <4> HIDE DEF live
      <4> QED
        BY <4>1 DEF Routes, Same
    <3> USE <3>3
    <3> HIDE DEF q
    <3>4. live # NoRoute /\ q.st.gen <= q.gen
      <4>1. KnownRoute(live)
        BY DEF World, Identities
      <4> QED
        BY <4>1, Absences DEF Same, KnownRoute
    <3>5. ASSUME NEW u \in UIDs, NEW x \in RouteUIDs, x = live.uid, parts[u][x] # "none"
          PROVE  u = rec.o.uid
      <4>1. rec.r.fin = u /\ u # NoUID
        BY <3>5, PartsOfRoute, UIDFacts, SMTT(30)
      <4>2. ~Broken(rec.r) /\ (Present(rec.r) => rec.r.ann = rec.o.uid)
        BY DEF IInv, Underway, Seals
      <4> QED
        BY <4>1, <4>2 DEF Broken, Present
    <3>6. rec' = Idle /\ queued' \subseteq Names
      BY ReadsQueue DEF Again
    <3>7. World'
      <4>1. /\ q.ann \in UIDs /\ KnownGateway(q.ann) /\ q.ann[1] = q.parent
            /\ \A g \in Gateways : Reached(q.ann, cache.gw[g])
        OBVIOUS
      <4>2. \A u \in UIDs, x \in RouteUIDs : x = live.uid /\ parts[u][x] # "none" =>
               q.fin = u /\ q.ann \in {u, NoUID}
        BY <3>5
      <4> QED
        BY <3>4, <3>6, <4>1, <4>2, WorkerWrites
    <3>8. Underway'
      BY <3>6, Ends, Typed
    <3> QED
      BY <3>7, <3>8 DEF IInv
  <2> QED
    BY <2>2, <2>3 DEF BindRoute
<1> QED
  BY <1>PatchCleanupFailureStep, <1>ClearBindingStep, <1>BindRouteStep

LEMMA PatchHTTPRouteStep ==
  ASSUME IInv, PatchHTTPRoute
  PROVE  IInv'
(* A status never claims a generation ahead of the route's. *)
<1>AppliedStatus. ASSUME NEW plan \in Plans, NEW r \in Routes, r.st.gen <= r.gen
                  PROVE  Applied(plan, r) \in Statuses /\ Applied(plan, r).gen <= r.gen
  <2> USE <1>AppliedStatus
  <2> DEFINE old == IF r.st.parent = plan.parent THEN r.st ELSE NoStatus
             new == [parent |-> plan.parent, prog |-> plan.prog, gen |-> r.gen]
  <2>1. /\ plan.parent \in Parents /\ plan.prog \in Progs /\ plan.advance \in BOOLEAN
        /\ plan.kind \in {"none", "replace", "failure", "deleting", "version"}
    BY DEF Plans
  <2>2. r.gen \in Nat /\ r.st \in Statuses /\ r.st.gen \in Nat
    BY RouteFields
  <2> USE <2>2
  <2>3. old \in Statuses /\ old.gen \in Nat /\ old.gen <= r.gen
    BY Absences, SMTT(30) DEF Statuses
  <2>4. new \in Statuses /\ new.gen = r.gen
    BY <2>1 DEF Statuses
  <2> USE <2>4
  <2>5. NoStatus \in Statuses /\ NoStatus.gen <= r.gen
    BY Absences, Order
  <2>6. LET s == [new EXCEPT !.gen = IF plan.advance THEN @ ELSE old.gen] IN
           s \in Statuses /\ s.gen <= r.gen
    <3> HIDE DEF old, new
    <3>1. (IF plan.advance THEN new.gen ELSE old.gen) \in Nat
          /\ (IF plan.advance THEN new.gen ELSE old.gen) <= r.gen
      BY <2>3, Order
    <3> QED
      BY <3>1 DEF Statuses
  <2>7. CASE plan.kind = "none"
    BY <2>7 DEF Applied
  <2>8. CASE plan.kind = "replace"
    BY <2>5, <2>8, Order DEF Applied
  <2>9. CASE plan.kind = "failure"
    BY <2>6, <2>9 DEF Applied
  <2>10. CASE plan.kind = "deleting"
    BY <2>6, <2>10 DEF Applied
  <2>11. CASE plan.kind = "version"
    BY <2>3, <2>11, Order DEF Applied
  <2> QED
    BY <2>1, <2>7, <2>8, <2>9, <2>10, <2>11
<1> DEFINE live == route[rec.n]
           s == Applied(rec.plan, live)
           q == [live EXCEPT !.st = s]
<1>1. /\ rec.pc = "patch" /\ rec.pc # "idle" /\ rec' = Idle
      /\ UNCHANGED <<gw, cls, svc, bundle, lb, parts, spent>>
      /\ queued' \in {queued, queued \cup {rec.n}}
      /\ UNCHANGED <<route, cache>> \/ (live # NoRoute /\ WriteRoute(rec.n, q))
  BY DEF PatchHTTPRoute
<1> USE <1>1
<1>2. /\ rec.n \in Names /\ World /\ Types /\ live \in Routes /\ KnownRoute(live)
      /\ rec.plan \in Plans /\ spent.routes \in Nat
  <2>1. rec.n \in Names /\ World /\ Types /\ rec \in Scopes
    BY DEF IInv, World, Underway, Revisions
  <2> QED
    BY <2>1, Typed, ScopeFields DEF World, Identities
<1> USE <1>2
<1>3. queued' \subseteq Names
  BY ReadsQueue
<1>4. Underway'
  BY Ends
<1>5. CASE UNCHANGED <<route, cache>>
  <2>1. World'
    BY <1>3, <1>5, QuietWorld
  <2> QED
    BY <1>4, <2>1 DEF IInv
<1>6. CASE live # NoRoute /\ WriteRoute(rec.n, q)
  <2>1. s \in Statuses /\ s.gen <= live.gen
    BY <1>AppliedStatus DEF KnownRoute
  <2> HIDE DEF s
  <2>2. /\ q \in Routes /\ Same(q, live) /\ q.parent = live.parent /\ q.shape = live.shape
        /\ q.second = live.second /\ q.st = s /\ q.gen = live.gen
        /\ q.ann = live.ann /\ q.fin = live.fin
    <3> HIDE DEF live
    <3> QED
      BY <2>1 DEF Routes, Same
  <2> HIDE DEF q
  <2>3. \A u \in UIDs, x \in RouteUIDs : x = live.uid /\ parts[u][x] # "none" =>
           q.fin = u /\ q.ann \in {u, NoUID}
    BY <2>2, PartsOfRoute
  <2>4. World'
    BY <1>3, <1>6, <2>1, <2>2, <2>3, WorkerWrites
  <2> QED
    BY <1>4, <2>4 DEF IInv
<1> QED
  BY <1>5, <1>6

-----------------------------------------------------------------------------
LEMMA NextIInv == IInv /\ [Next]_vars => IInv'
<1> SUFFICES ASSUME IInv, [Next]_vars PROVE IInv'
  OBVIOUS
<1>1. CASE Starting
  BY <1>1, StartingStep
<1>2. CASE Continuing
  BY <1>2, DetachSteps, CleanupSteps, DeleteSteps, BindingSteps, ObserveSteps, EnsureSteps,
     RefuseSteps, PatchHTTPRouteStep
  DEF Continuing
<1>3. CASE Environment
  BY <1>3, EnsureSteps, DeleteSteps, UserSteps, GatewaySteps, OtherSteps, CacheSteps
  DEF Environment
<1>4. CASE SyncClass \/ ReconcileClass
  BY <1>4, OtherSteps
<1>5. CASE \E n \in Names : SyncRoute(n) \/ SyncService(n)
  BY <1>5, OtherSteps, CacheSteps
<1>6. CASE \E g \in Gateways : SyncGateway(g) \/ GatewayActs(g)
  BY <1>6, GatewaySteps, OtherSteps, CacheSteps DEF GatewayActs
<1>7. CASE UNCHANGED vars
  BY <1>7, StutterIInv
<1> QED
  BY <1>1, <1>2, <1>3, <1>4, <1>5, <1>6, <1>7 DEF Next

LEMMA InvariantHolds == Spec => []IInv
BY InitIInv, NextIInv, PTL DEF Spec

-----------------------------------------------------------------------------
(* Whatever exists in OpenStack for a route can be found and removed again:  *)
(* a route of that UID exists, its finalizer names that very Gateway, its    *)
(* annotations too unless a user removed them, and the Gateway of that UID   *)
(* is there and bound (bindRouteFromSnapshot before EnsureRoute, the clearing *)
(* of the binding after DeleteRoute reported Ready, with crashes, edits and  *)
(* recreations in between).                                                  *)
THEOREM RouteBoundRoute == Spec => []BoundRoute
<1>1. ASSUME IInv PROVE BoundRoute
  <2>1. Types /\ World
    BY <1>1 DEF IInv, World
  <2> USE <2>1
  <2>2. ASSUME NEW n \in Names
        PROVE  LET r == route[n] IN
               /\ r.uid \in RouteUIDs \cup {0} /\ r.parent \in Gateways \cup {0}
               /\ r.st.parent \in Gateways \cup {0} /\ {r.ann, r.fin} \subseteq UIDs \cup {NoUID}
               /\ Present(r) => r.ann[2] <= spent.made[r.ann[1]]
    <3>1. route[n] \in Routes /\ spent.routes \in Nat /\ 1..spent.routes \subseteq RouteUIDs
      BY Typed
    <3>2. /\ route[n].uid \in Nat /\ route[n].parent \in Parents /\ route[n].st.parent \in Parents
          /\ route[n].ann \in Bindings /\ route[n].fin \in Bindings
      BY <3>1, RouteFields
    <3>3. route[n].uid <= spent.routes /\ KnownGateway(route[n].ann)
      BY DEF World, Identities, KnownRoute, BindingsKnown
    <3>4. route[n].uid \in RouteUIDs \cup {0}
      BY <3>1, <3>2, <3>3, SMTT(30)
    <3> QED
      BY <3>2, <3>3, <3>4 DEF Parents, Bindings, Present, KnownGateway
  <2>3. ASSUME NEW g \in Gateways PROVE gw[g].uid \in {u \in UIDs : u[1] = g} \cup {NoUID}
    <3>1. gw[g] = NoGateway \/ (g \in spent.in.parents /\ gw[g].uid = <<g, spent.made[g]>>)
      BY DEF World, Identities
    <3>2. g \in spent.in.parents => <<g, spent.made[g]>> \in UIDs
      BY Typed
    <3> QED
      BY <3>1, <3>2, Absences, SMTT(30)
  <2>4. TypeOK
    <3>1. rec.pc \in Places /\ cache.fresh \subseteq Names
      BY <1>1, Typed, ScopeFields DEF IInv, Underway
    <3>2. /\ parts \in [UIDs -> [RouteUIDs -> PartStates]] /\ lb \in [UIDs -> LBStates]
          /\ queued \subseteq Names
      BY DEF Types
    <3> QED
      BY <2>2, <2>3, <3>1, <3>2 DEF TypeOK, Places, PartStates, LBStates
  <2> QED
    BY <2>4, Order DEF BoundRoute, World, Bound
<1> QED
  BY <1>1, InvariantHolds, PTL

(* At most one route has resources below a Gateway UID, whoever was selected *)
(* when (the ownership check of EnsureRoute and DeleteRoute).                *)
THEOREM RouteOneRoute == Spec => []OneRoute
<1>1. IInv => OneRoute
  BY DEF IInv, World
<1> QED
  BY <1>1, InvariantHolds, PTL

(* A binding is written, and a route's resources are created, only after a  *)
(* moment of the snapshot at which the live route and Gateway were the ones *)
(* decided on and fit together, with a usable Service, and, for every other *)
(* route, a moment at which it left the slot to this one.  These moments    *)
(* may differ: each Service and the list of routes are separate reads       *)
(* (observeRouteMutationSnapshot and sealRouteMutationSnapshot).            *)
THEOREM RouteEnsureAuthorized == Spec => EnsureAuthorized
<1>1. IInv => [BindRoute \/ EnsureProgress =>
                 <<"usable", 0>> \in seen /\ \A m \in Others : <<"yields", m>> \in seen]_vars
  BY DEF IInv, Underway, History, Clear, BindRoute, EnsureProgress, EnsureCall
<1> QED
  BY <1>1, InvariantHolds, PTL DEF EnsureAuthorized

(* Resources of a route are deleted only after a moment of the snapshot at  *)
(* which the live objects did not want them there, or two moments at which  *)
(* one other route was the older one and had a Service that can hold the    *)
(* slot (buildRouteCleanupSnapshot decides again from live reads, of which  *)
(* the list of routes and each Service are separate ones).                  *)
THEOREM RouteDetachAuthorized == Spec => DetachAuthorized
<1>1. IInv => [DeleteProgress =>
                 \/ <<"unwanted", 0>> \in seen
                 \/ \E m \in Others : {<<"older", m>>, <<"reserves", m>>} \subseteq seen]_vars
  BY DEF IInv, Underway, History, Displaced, DeleteProgress
<1> QED
  BY <1>1, InvariantHolds, PTL DEF DetachAuthorized

(* A live route that says Programmed for its current generation is not torn  *)
(* down by the route reconciler before that status has been withdrawn        *)
(* (routeCleanupStatusCheckpointNeeded).                                     *)
THEOREM RouteWithdrawnFirst == Spec => WithdrawnFirst
<1> DEFINE A == DeleteProgress => LET r == route[rec.n] IN
                   r.deleting \/ ~(r.st.prog = "True" /\ r.st.gen = r.gen)
<1>1. IInv => [A]_vars
  <2> SUFFICES ASSUME IInv, DeleteProgress PROVE Unpromised(route[rec.n])
    BY DEF Unpromised
  <2>1. rec.pc = "delete" /\ rec.pc \in Cleaning \ {"c1"} /\ ~Kept
    BY DEF DeleteProgress, Cleaning, Part, Kept
  <2> QED
    BY <2>1 DEF IInv, Underway, Withdrawn, Stored
<1> QED
  BY <1>1, InvariantHolds, PTL DEF WithdrawnFirst

(* Under an unsupported CRD bundle the route reconciler changes no resources *)
(* but those of deleted routes, of routes that no longer name a managed      *)
(* Gateway, and of routes whose own Gateway is being deleted.                *)
THEOREM RouteBundleFence == Spec => BundleFence
<1>1. IInv => [DeleteProgress \/ EnsureProgress \/ EnsureRepair =>
                 <<"bundle", 0>> \in seen \/ <<"exempt", 0>> \in seen]_vars
  BY DEF IInv, Underway, History, DeleteProgress, EnsureProgress, EnsureRepair, EnsureCall
<1> QED
  BY <1>1, InvariantHolds, PTL DEF BundleFence
=============================================================================
