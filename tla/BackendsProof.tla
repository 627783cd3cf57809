---------------------------- MODULE BackendsProof ----------------------------
(***************************************************************************)
(* Members are not lost to the order in which a reconciliation reads       *)
(* Service, EndpointSlices and Nodes: for any routes, Services, slices,    *)
(* Nodes and scenarios.                                                    *)
(***************************************************************************)
EXTENDS RouteBackends, TLAPS

(* Zenon is the prover unless a step names another: SMT where it is arithmetic. *)
USE ZenonT(30)

(* The invariant.  Of the data only what tells revisions of a route apart    *)
(* has a type; the rest has its shape.                                       *)
RouteShape(r) ==
    /\ r = [gen |-> r.gen, backend |-> r.backend, port |-> r.port, bound |-> r.bound, st |-> r.st]
    /\ r.gen \in Nat
Shapes ==
    /\ spent = [k \in Bounded \cup {"in"} |-> spent[k]] /\ spent.in \in DOMAIN Scenarios
    /\ live = [k \in Kinds |-> live[k]]
    /\ live.route = [n \in Here |-> live.route[n]] /\ \A n \in Here : RouteShape(live.route[n])
    /\ pool = [n \in Names |-> pool[n]]
    /\ rec = [pc |-> rec.pc, n |-> rec.n, r |-> rec.r, for |-> rec.for, plan |-> rec.plan,
              late |-> rec.late, svc |-> rec.svc, local |-> rec.local, members |-> rec.members]
    /\ rec.pc # "idle" => rec.n \in Here

Stored == live.route[rec.n]

(* A generation of a route has one backend. *)
Revision ==
    rec.pc \in Reading \ {"select"} =>
        /\ rec.r.gen \in Nat /\ rec.r.gen <= Stored.gen
        /\ Same(Stored, rec.r) => Stored.backend = rec.r.backend /\ Stored.port = rec.r.port

Steady == rec.pc \in Reading => steady \subseteq Backers(live, rec.n)

(* What has been read so far agrees with every backer that has stayed. *)
Agrees(b) ==
    /\ rec.pc \in {"slices", "nodes"} =>
          b[2][2] = rec.svc.ports[rec.r.port].nodePort /\ b[3] = rec.svc.policy
    /\ rec.pc = "nodes" /\ rec.svc.policy = "Local" => b[1] \in rec.local
    /\ rec.pc = "mutate" => rec.for # "cleanup" /\ b[2] \in rec.members
Snapshot == rec.pc \in Reading /\ Same(Stored, rec.r) => \A b \in steady : Agrees(b)

IInv == Shapes /\ Revision /\ Steady /\ Snapshot

-----------------------------------------------------------------------------
(* What it takes to back a route. *)
LEMMA BackerFacts ==
  ASSUME NEW n, NEW b \in Backers(live, n)
  PROVE  LET r == live.route[n]
             s == live.svc[r.backend]
             alive == Alive(live, r.backend) IN
         /\ Usable(live, r) /\ alive # {} /\ \A m \in Here : m < n => ~Claims(live, live.route[m])
         /\ b[1] \in Nodes /\ Fit(live.node[b[1]])
         /\ b[2] = <<live.node[b[1]].addr, s.ports[r.port].nodePort>> /\ b[3] = s.policy
         /\ s.policy = "Local" => \E e \in alive : e.node = b[1]
<1> DEFINE r == live.route[n]
           s == live.svc[r.backend]
           alive == Alive(live, r.backend)
           fit == {y \in Nodes : /\ Fit(live.node[y])
                                 /\ s.policy = "Local" => \E e \in alive : e.node = y}
           member(x) == <<live.node[x].addr, s.ports[r.port].nodePort>>
<1>1. /\ Usable(live, r) /\ alive # {} /\ ~\E m \in Here : m < n /\ Claims(live, live.route[m])
      /\ b \in {<<x, member(x), s.policy>> : x \in fit}
  BY DEF Backers
<1>2. PICK x \in fit : b = <<x, member(x), s.policy>>
  BY <1>1
<1>3. b[1] = x /\ b[2] = member(x) /\ b[3] = s.policy
  BY <1>2
<1> QED
  BY <1>1, <1>2, <1>3

(* The code's reading of Services, EndpointSlices and Nodes is theirs. *)
LEMMA Readings ==
  /\ \A w, r : Usable(w, r) => /\ w.svc[r.backend].type = "NodePort"
                               /\ nodePortForBackend(w.svc[r.backend], r.port) = "ok"
  /\ \A w, r : Claims(w, r) <=> canReserve(w.svc, r)
  /\ \A w, s : Alive(w, s) = readyEndpoints(w.slice, s)
  /\ \A x : Fit(x) <=> readyNode(x) /\ x.addr # None
<1>1. \A w, r : Usable(w, r) => /\ w.svc[r.backend].type = "NodePort"
                                /\ nodePortForBackend(w.svc[r.backend], r.port) = "ok"
  BY DEF Usable, nodePortForBackend
<1>2. \A w, r : Claims(w, r) <=> canReserve(w.svc, r)
  BY DEF Claims, canReserve, Usable, nodePortForBackend
<1>3. \A w, s : Alive(w, s) = readyEndpoints(w.slice, s)
  BY DEF Alive, readyEndpoints, endpointReady
<1>4. \A x : Fit(x) <=> readyNode(x) /\ x.addr # None
  BY DEF Fit, readyNode
<1> QED
  BY <1>1, <1>2, <1>3, <1>4

(* The history follows the live objects and never grows within a snapshot. *)
LEMMA History ==
  ASSUME Remember, spent'.in = spent.in
  PROVE  /\ Steady'
         /\ rec'.pc \in Reading /\ (rec'.pc = "select" => rec.pc = "select") =>
               steady' \subseteq steady
<1>1. Backers(live', rec'.n) = Backers(live, rec.n)'
  BY DEF Backers, Here, Scenario, Alive, Usable, Claims, Fit
<1> QED
  BY <1>1 DEF Remember, Steady

-----------------------------------------------------------------------------
(* Writes to the API server. *)
LEMMA Spending ==
  ASSUME Shapes, NEW kind \in Bounded, Spend(kind)
  PROVE  spent'.in = spent.in /\ spent' = [k \in Bounded \cup {"in"} |-> spent'[k]]
<1>1. "in" \notin Bounded
  BY DEF Bounded
<1> QED
  BY <1>1 DEF Shapes, Spend

LEMMA Placed ==
  ASSUME spent'.in = spent.in
  PROVE  Here' = Here
BY DEF Here, Scenario

(* Route n is written: a new generation, or the same one with the same backend. *)
Later(old, new) ==
    /\ RouteShape(new)
    /\ new.gen > old.gen \/ (new.gen = old.gen /\ new.backend = old.backend /\ new.port = old.port)
Onwards ==
    /\ spent'.in = spent.in /\ spent' = [k \in Bounded \cup {"in"} |-> spent'[k]]
    /\ live' = [k \in Kinds |-> live'[k]] /\ live'.route = [n \in Here |-> live'.route[n]]
    /\ \A n \in Here : Later(live.route[n], live'.route[n])
    /\ pool' = [n \in Names |-> pool'[n]]

LEMMA LaterStays ==
  ASSUME NEW r, RouteShape(r)
  PROVE  Later(r, r)
BY DEF Later

LEMMA RouteWritten ==
  ASSUME Shapes, NEW n \in Here, NEW new, Later(live.route[n], new), Write("route", n, new)
  PROVE  /\ live' = [k \in Kinds |-> live'[k]] /\ live'.route = [m \in Here |-> live'.route[m]]
         /\ \A m \in Here : Later(live.route[m], live'.route[m])
<1>1. live' = [live EXCEPT !["route"] = [live["route"] EXCEPT ![n] = new]]
  BY DEF Write
<1>2. "route" \in Kinds
  BY DEF Kinds
<1>3. /\ live' = [k \in Kinds |-> live'[k]]
      /\ live'.route = [live.route EXCEPT ![n] = new]
  BY <1>1, <1>2 DEF Shapes
<1>4. /\ live'.route = [m \in Here |-> live'.route[m]] /\ live'.route[n] = new
      /\ \A m \in Here : m # n => live'.route[m] = live.route[m]
  BY <1>3 DEF Shapes
<1> QED
  BY <1>3, <1>4, LaterStays DEF Shapes

LEMMA OtherWritten ==
  ASSUME Shapes, NEW kind \in Kinds \ {"route"}, NEW i, NEW new, Write(kind, i, new)
  PROVE  live' = [k \in Kinds |-> live'[k]] /\ live'.route = live.route
<1>1. live' = [live EXCEPT ![kind] = [live[kind] EXCEPT ![i] = new]]
  BY DEF Write
<1>2. "route" \in Kinds
  BY DEF Kinds
<1> QED
  BY <1>1, <1>2 DEF Shapes

LEMMA RoutesStay ==
  ASSUME Shapes, live'.route = live.route
  PROVE  /\ live'.route = [m \in Here |-> live'.route[m]]
         /\ \A m \in Here : Later(live.route[m], live'.route[m])
<1>1. live.route = [m \in Here |-> live.route[m]] /\ \A m \in Here : RouteShape(live.route[m])
  BY DEF Shapes
<1>2. \A m \in Here : Later(live.route[m], live.route[m])
  BY <1>1, LaterStays
<1>3. [m \in Here |-> live'.route[m]] = [m \in Here |-> live.route[m]]
  OBVIOUS
<1>4. live'.route = [m \in Here |-> live'.route[m]]
  BY <1>1, <1>3
<1> QED
  BY <1>2, <1>4

(* Status and binding are not part of a generation. *)
LEMMA Reports ==
  ASSUME NEW r, RouteShape(r), NEW x, NEW y
  PROVE  /\ Later(r, [r EXCEPT !.st = x]) /\ Later(r, [r EXCEPT !.bound = x])
         /\ Later(r, [r EXCEPT !.bound = x, !.st = y])
<1> DEFINE g == r.gen
           p == r.port
           s == r.backend
           u == r.bound
           v == r.st
           record(a, b) == [gen |-> g, backend |-> s, port |-> p, bound |-> a, st |-> b]
<1>1. r = record(u, v) /\ g \in Nat
  BY DEF RouteShape
<1> HIDE DEF g, p, s, u, v
<1>2. ASSUME NEW a, NEW b PROVE Later(r, record(a, b))
  BY <1>1 DEF RouteShape, Later
<1> QED
  <2>1. [r EXCEPT !.st = x] = record(u, x)
    BY <1>1, SMTT(30)
  <2>2. [r EXCEPT !.bound = x] = record(x, v)
    BY <1>1, SMTT(30)
  <2>3. [r EXCEPT !.bound = x, !.st = y] = record(x, y)
    <3>1. [r EXCEPT !.bound = x, !.st = y] = [[r EXCEPT !.bound = x] EXCEPT !.st = y]
      OBVIOUS
    <3>2. [record(x, v) EXCEPT !.st = y] = record(x, y)
      BY SMTT(30)
    <3> QED
      BY <2>2, <3>1, <3>2
  <2> QED
    BY <1>2, <2>1, <2>2, <2>3, SMTT(30)

-----------------------------------------------------------------------------
(* What a step may leave behind: the reconciliation has ended, ... *)
LEMMA Ends ==
  ASSUME Shapes, Onwards, Remember, rec' = Idle
  PROVE  IInv'
<1>1. Shapes'
  <2>1. Here' = Here
    BY Placed DEF Onwards
  <2>2. \A n \in Here : RouteShape(live'.route[n])
    BY DEF Onwards, Later
  <2> QED
    BY <2>1, <2>2 DEF Shapes, Onwards, Idle
<1>2. Steady'
  BY History DEF Onwards
<1>3. Revision'
  BY DEF Revision, Idle, Reading
<1>4. Snapshot'
  <2>1. \A b : Agrees(b)'
    BY DEF Agrees, Idle
  <2> QED
    BY <2>1 DEF Snapshot
<1> QED
  BY <1>1, <1>2, <1>3, <1>4 DEF IInv

(* ... or it waits while the world goes on, ... *)
LEMMA Waits ==
  ASSUME IInv, Onwards, Remember, rec' = rec
  PROVE  IInv'
<1>1. Here' = Here /\ (rec.pc # "idle" => rec.n \in Here) /\ Shapes
  BY Placed DEF Onwards, IInv, Shapes
<1>2. Shapes'
  <2>1. \A n \in Here : RouteShape(live'.route[n])
    BY DEF Onwards, Later
  <2> QED
    BY <1>1, <2>1 DEF Shapes, Onwards
<1>3. Steady'
  BY History DEF Onwards
<1>4. CASE rec.pc \in Reading
  <2>1. rec.n \in Here
    BY <1>1, <1>4 DEF Reading
  <2> DEFINE old == Stored
             new == live'.route[rec.n]
  <2>2. RouteShape(old) /\ Later(old, new) /\ Stored' = new
    BY <1>1, <2>1 DEF Shapes, Onwards, Stored
  <2>3. steady' \subseteq steady
    BY <1>4, History DEF Onwards
  <2>4. old.gen \in Nat /\ new.gen \in Nat
    BY <2>2 DEF RouteShape, Later
  <2> HIDE DEF old, new
  <2>5. Revision'
    BY <2>2, <2>4, SMTT(30) DEF IInv, Revision, Later, Same, old
  <2>6. CASE rec.pc = "select"
    <3>1. \A b : Agrees(b)'
      BY <2>6 DEF Agrees
    <3> QED
      BY <1>2, <1>3, <2>5, <3>1 DEF IInv, Snapshot
  <2>7. CASE rec.pc # "select"
    <3>1. Same(new, rec.r) => Same(old, rec.r)
      BY <1>4, <2>2, <2>4, <2>7, SMTT(30) DEF IInv, Revision, Later, Same, old
    <3>2. \A b : Agrees(b) => Agrees(b)'
      BY DEF Agrees
    <3>3. Snapshot'
      BY <2>2, <2>3, <3>1, <3>2 DEF IInv, Snapshot, old
    <3> QED
      BY <1>2, <1>3, <2>5, <3>3 DEF IInv
  <2> QED
    BY <2>6, <2>7
<1>5. CASE rec.pc \notin Reading
  <2>1. Revision' /\ \A b : Agrees(b)'
    BY <1>5 DEF Revision, Agrees, Reading
  <2> QED
    BY <1>2, <1>3, <2>1 DEF IInv, Snapshot
<1> QED
  BY <1>4, <1>5

(* ... or it goes on: with the decision it has taken, ... *)
Goes ==
    /\ UNCHANGED <<live, pool, spent>> /\ Remember
    /\ rec' = [pc |-> rec'.pc, n |-> rec'.n, r |-> rec'.r, for |-> rec'.for, plan |-> rec'.plan,
               late |-> rec'.late, svc |-> rec'.svc, local |-> rec'.local,
               members |-> rec'.members]
    /\ rec'.n \in Here
LEMMA GoesOn ==
  ASSUME Shapes, Goes
  PROVE  Shapes' /\ Steady' /\ live' = live
<1>1. Here' = Here
  BY Placed DEF Goes
<1>2. Steady'
  BY History DEF Goes
<1>3. Shapes'
  BY <1>1 DEF Shapes, Goes
<1> QED
  BY <1>2, <1>3 DEF Goes

LEMMA Starts ==
  ASSUME Shapes, Goes, rec'.pc \in {"select", "check"}
  PROVE  IInv'
<1>1. Revision'
  BY DEF Revision, Reading
<1>2. \A b : Agrees(b)'
  BY DEF Agrees
<1> QED
  BY <1>1, <1>2, GoesOn DEF IInv, Snapshot

(* ... or with one more request of its snapshot. *)
LEMMA Reads ==
  ASSUME IInv, Goes, rec.pc \in Reading, rec'.pc \in Reading \ {"select"}, rec'.n = rec.n,
         rec'.r = Stored \/ (rec'.r = rec.r /\ rec.pc # "select"),
         Same(Stored, rec'.r) => \A b \in steady : Agrees(b)'
  PROVE  IInv'
<1>1. Shapes /\ Shapes' /\ Steady' /\ live' = live
  BY GoesOn DEF IInv
<1>2. Stored' = Stored
  BY <1>1 DEF Stored
<1>3. rec.n \in Here /\ RouteShape(Stored)
  BY <1>1 DEF Shapes, Goes, Stored
<1>4. Revision'
  BY <1>2, <1>3, SMTT(30) DEF Revision, IInv, RouteShape, Same
<1>5. steady' \subseteq steady
  <2>1. spent'.in = spent.in /\ rec'.pc \in Reading /\ rec'.pc # "select" /\ Remember
    BY DEF Goes
  <2> QED
    BY <2>1, History
<1>6. Snapshot'
  BY <1>2, <1>5 DEF Snapshot
<1> QED
  BY <1>1, <1>4, <1>6 DEF IInv

(* A snapshot that refuses the route has no backer that stayed. *)
LEMMA Refuses ==
  ASSUME IInv, NEW plan, Refuse(plan), Still, rec.pc \in Reading,
         rec.pc = "select" => Current,
         Same(Stored, rec.r) => steady = {}
  PROVE  IInv'
<1>1. Shapes /\ rec.n \in Here
  BY DEF IInv, Shapes, Reading
<1>2. CASE rec.for = "ensure"
  <2>1. rec' = [rec EXCEPT !.pc = "check", !.plan = plan, !.svc = NoService, !.local = {}]
    BY <1>2 DEF Refuse
  <2>2. Goes /\ rec'.pc = "check"
    BY <1>1, <2>1 DEF Goes, Still, Shapes
  <2> QED
    BY <1>1, <2>2, Starts
<1>3. CASE rec.for # "ensure"
  <2>1. rec' = [rec EXCEPT !.pc = "mutate", !.svc = NoService, !.local = {}]
    BY <1>3 DEF Refuse
  <2>2. Goes /\ rec'.pc = "mutate" /\ rec'.n = rec.n /\ rec'.r = rec.r
    BY <1>1, <2>1 DEF Goes, Still, Shapes
  <2>3. rec'.r = Stored \/ (rec'.r = rec.r /\ rec.pc # "select")
    BY <1>3, <2>2 DEF Current, Stored
  <2>4. Same(Stored, rec'.r) => \A b \in steady : Agrees(b)'
    BY <2>2
  <2> QED
    BY <2>2, <2>3, <2>4, Reads DEF Reading
<1> QED
  BY <1>2, <1>3

(* What the backers that stayed say of a snapshot whose route is current. *)
LEMMA Stayed ==
  ASSUME IInv, rec.pc \in Reading, NEW b \in steady, Same(Stored, rec.r),
         rec.pc = "select" => Stored = rec.r
  PROVE  LET s == live.svc[rec.r.backend]
             ready == readyEndpoints(live.slice, rec.r.backend) IN
         /\ Agrees(b) /\ Usable(live, Stored) /\ s.type = "NodePort"
         /\ nodePortForBackend(s, rec.r.port) = "ok" /\ ready # {}
         /\ \A m \in Here : m < rec.n => ~canReserve(live.svc, live.route[m])
         /\ b[1] \in Nodes /\ readyNode(live.node[b[1]]) /\ live.node[b[1]].addr # None
         /\ b[2] = <<live.node[b[1]].addr, s.ports[rec.r.port].nodePort>> /\ b[3] = s.policy
         /\ s.policy = "Local" => b[1] \in {e.node : e \in ready}
<1>1. b \in Backers(live, rec.n) /\ Agrees(b)
  BY DEF IInv, Steady, Snapshot
<1>2. Stored.backend = rec.r.backend /\ Stored.port = rec.r.port
  BY DEF IInv, Revision
<1> DEFINE s == live.svc[rec.r.backend]
           alive == Alive(live, rec.r.backend)
<1>3. /\ Usable(live, Stored) /\ alive # {}
      /\ \A m \in Here : m < rec.n => ~Claims(live, live.route[m])
      /\ b[1] \in Nodes /\ Fit(live.node[b[1]])
      /\ b[2] = <<live.node[b[1]].addr, s.ports[rec.r.port].nodePort>> /\ b[3] = s.policy
      /\ s.policy = "Local" => \E e \in alive : e.node = b[1]
  <2> DEFINE at(x) == /\ Usable(live, x) /\ Alive(live, x.backend) # {}
                      /\ \A m \in Here : m < rec.n => ~Claims(live, live.route[m])
                      /\ b[1] \in Nodes /\ Fit(live.node[b[1]])
                      /\ b[2] = <<live.node[b[1]].addr, live.svc[x.backend].ports[x.port].nodePort>>
                      /\ b[3] = live.svc[x.backend].policy
                      /\ live.svc[x.backend].policy = "Local" =>
                            \E e \in Alive(live, x.backend) : e.node = b[1]
  <2>1. at(Stored)
    BY <1>1, BackerFacts DEF Stored
  <2> QED
    BY <1>2, <2>1
<1>4. s.type = "NodePort" /\ nodePortForBackend(s, rec.r.port) = "ok"
  <2>1. /\ live.svc[Stored.backend].type = "NodePort"
        /\ nodePortForBackend(live.svc[Stored.backend], Stored.port) = "ok"
    BY <1>3, Readings
  <2> QED
    BY <1>2, <2>1
<1>5. alive = readyEndpoints(live.slice, rec.r.backend)
  BY Readings
<1>6. readyNode(live.node[b[1]]) /\ live.node[b[1]].addr # None
  BY <1>3, Readings
<1>7. \A m \in Here : m < rec.n => ~canReserve(live.svc, live.route[m])
  BY <1>3, Readings
<1> HIDE DEF s, alive
<1> QED
  BY <1>1, <1>3, <1>4, <1>5, <1>6, <1>7 DEF s, alive

-----------------------------------------------------------------------------
(* One step per action. *)
LEMMA InitIInv ==
  ASSUME Init
  PROVE  IInv
<1>1. PICK i \in DOMAIN Scenarios : spent = [k \in Bounded \cup {"in"} |-> IF k = "in" THEN i ELSE 0]
  BY DEF Init
<1>2. spent = [k \in Bounded \cup {"in"} |-> spent[k]] /\ spent.in = i
  BY <1>1
<1> DEFINE s == Scenarios[i]
<1>3. live = s.world /\ Here = s.names
  BY <1>2 DEF Init, Scenario, Here
<1>4. s.world = [k \in Kinds |-> s.world[k]] /\ s.world.route \in [s.names -> Routes]
  BY BackendScenarios
<1>5. live = [k \in Kinds |-> live[k]] /\ live.route \in [Here -> Routes]
  BY <1>3, <1>4
<1>6. ASSUME NEW n \in Here PROVE RouteShape(live.route[n])
  <2>1. live.route[n] \in Routes
    BY <1>5
  <2> QED
    BY <2>1 DEF Routes, RouteShape
<1>7. pool = [n \in Names |-> pool[n]] /\ rec = Idle
  BY DEF Init
<1>8. Shapes
  BY <1>2, <1>5, <1>6, <1>7 DEF Shapes, Idle
<1>9. rec.pc \notin Reading
  BY <1>7 DEF Idle, Reading
<1> QED
  BY <1>8, <1>9 DEF IInv, Revision, Steady, Snapshot

(* A step that writes nothing leaves the routes as they are. *)
LEMMA Unmoved ==
  ASSUME Shapes, live' = live, pool' = pool, spent' = spent
  PROVE  Onwards
BY RoutesStay DEF Onwards, Shapes

(* A step that writes the route under reconciliation. *)
LEMMA Moved ==
  ASSUME Shapes, NEW n \in Here, NEW new, Later(live.route[n], new), Write("route", n, new),
         pool' = [m \in Names |-> pool'[m]], spent' = spent
  PROVE  Onwards
<1>1. spent = [k \in Bounded \cup {"in"} |-> spent[k]]
  BY DEF Shapes
<1> QED
  BY <1>1, RouteWritten DEF Onwards

LEMMA BeginStep ==
  ASSUME IInv, NEW n \in Here, Begin(n)
  PROVE  IInv'
<1>1. PICK pc \in {"select", "check"} : \E plan :
        rec' = [Idle EXCEPT !.pc = pc, !.n = n, !.r = cache.route[n], !.for = "ensure",
                            !.plan = plan]
  BY DEF Begin
<1>2. PICK plan :
        rec' = [pc |-> pc, n |-> n, r |-> cache.route[n], for |-> "ensure", plan |-> plan,
                late |-> FALSE, svc |-> NoService, local |-> {}, members |-> {}]
  BY <1>1 DEF Idle
<1>3. Goes /\ rec'.pc \in {"select", "check"}
  BY <1>2 DEF Goes, Begin, Still
<1> QED
  BY <1>3, Starts DEF IInv

LEMMA CheckStep ==
  ASSUME IInv, Check
  PROVE  IInv'
<1> DEFINE now == live.route[rec.n]
           copy == cache.route[rec.n]
           new == [now EXCEPT !.st = rec.plan]
<1>1. Shapes /\ rec.n \in Here /\ RouteShape(now)
  BY DEF IInv, Shapes, Check
<1>2. UNCHANGED <<pool, spent>> /\ Remember
  BY DEF Check
<1>3. Later(now, new)
  BY <1>1, Reports
<1>4. \/ rec' = Idle /\ live' = live
      \/ rec' = Idle /\ Write("route", rec.n, new)
      \/ /\ rec' = [rec EXCEPT !.pc = "select", !.r = copy, !.for = "cleanup",
                               !.late = (now.st # rec.plan)]
         /\ live' = live
  BY DEF Check, Again, Stop
<1>5. CASE rec' = Idle /\ live' = live
  BY <1>1, <1>2, <1>5, Unmoved, Ends
<1>6. CASE rec' = Idle /\ Write("route", rec.n, new)
  <2>1. pool' = [m \in Names |-> pool'[m]]
    BY <1>1, <1>2 DEF Shapes
  <2>2. Onwards
    BY <1>1, <1>2, <1>3, <1>6, <2>1, Moved
  <2> QED
    BY <1>1, <1>2, <1>6, <2>2, Ends
<1>7. CASE /\ rec' = [rec EXCEPT !.pc = "select", !.r = copy, !.for = "cleanup",
                                 !.late = (now.st # rec.plan)]
           /\ live' = live
  <2>1. Goes /\ rec'.pc = "select"
    BY <1>1, <1>2, <1>7 DEF Goes, Shapes
  <2> QED
    BY <1>1, <2>1, Starts
<1> QED
  BY <1>4, <1>5, <1>6, <1>7

LEMMA ObserveRouteStep ==
  ASSUME IInv, ObserveRoute
  PROVE  IInv'
<1>1. Shapes /\ rec.n \in Here /\ rec.pc = "select" /\ rec.pc \in Reading /\ Still
  BY DEF IInv, Shapes, ObserveRoute, Reading
<1>2. CASE ~Current
  <2>1. rec' = Idle /\ live' = live /\ pool' = pool /\ spent' = spent /\ Remember
    BY <1>2 DEF ObserveRoute, Again, Still
  <2> QED
    BY <1>1, <2>1, Unmoved, Ends
<1> DEFINE chosen == /\ canReserve(live.svc, Stored)
                     /\ isSelectedRoute(live.route, live.svc, rec.n)
<1>3. CASE Current /\ chosen
  <2>1. rec' = [rec EXCEPT !.pc = "service", !.r = Stored]
    BY <1>3 DEF ObserveRoute, Stored
  <2>2. Goes /\ rec'.pc = "service" /\ rec'.n = rec.n /\ rec'.r = Stored
    BY <1>1, <2>1 DEF Goes, Still, Shapes
  <2>3. \A b : Agrees(b)'
    BY <2>2 DEF Agrees
  <2> QED
    BY <1>1, <2>2, <2>3, Reads DEF Reading
<1>4. CASE Current /\ ~chosen
  <2>1. Refuse("rejected")
    BY <1>4 DEF ObserveRoute, Stored
  <2>2. ASSUME steady # {} PROVE chosen
    <3>1. PICK b \in steady : b \in Backers(live, rec.n)
      BY <1>1, <2>2 DEF IInv, Steady
    <3>2. /\ Usable(live, Stored)
          /\ \A m \in Here : m < rec.n => ~Claims(live, live.route[m])
      BY <3>1, BackerFacts DEF Stored
    <3>3. Claims(live, Stored)
      BY <3>2 DEF Claims, Usable
    <3> QED
      BY <3>2, <3>3, Readings DEF isSelectedRoute
  <2> QED
    BY <1>1, <1>4, <2>1, <2>2, Refuses
<1> QED
  BY <1>2, <1>3, <1>4

LEMMA ObserveServiceStep ==
  ASSUME IInv, ObserveService
  PROVE  IInv'
<1> DEFINE s == live.svc[rec.r.backend]
           port == nodePortForBackend(s, rec.r.port)
<1>1. Shapes /\ rec.n \in Here /\ rec.pc = "service" /\ rec.pc \in Reading /\ Still
  BY DEF IInv, Shapes, ObserveService, Reading
<1>2. \/ \E plan : Refuse(plan) /\ (s.type # "NodePort" \/ port # "ok")
      \/ rec' = [rec EXCEPT !.pc = "slices", !.svc = s]
  BY SMTT(30) DEF ObserveService, NoService, None
<1>3. CASE \E plan : Refuse(plan) /\ (s.type # "NodePort" \/ port # "ok")
  <2>1. ASSUME Same(Stored, rec.r) PROVE steady = {}
    BY <1>1, <1>3, <2>1, Stayed
  <2> QED
    BY <1>1, <1>3, <2>1, Refuses
<1>4. CASE rec' = [rec EXCEPT !.pc = "slices", !.svc = s]
  <2>1. /\ Goes /\ rec'.pc = "slices" /\ rec'.n = rec.n /\ rec'.r = rec.r /\ rec'.svc = s
    BY <1>1, <1>4 DEF Goes, Still, Shapes
  <2>2. ASSUME Same(Stored, rec.r), NEW b \in steady PROVE Agrees(b)'
    <3>1. b[2] = <<live.node[b[1]].addr, s.ports[rec.r.port].nodePort>> /\ b[3] = s.policy
      BY <1>1, <2>2, Stayed
    <3> HIDE DEF s
    <3>2. b[2][2] = s.ports[rec.r.port].nodePort
      BY <3>1, SMTT(30)
    <3> QED
      BY <2>1, <3>1, <3>2 DEF Agrees
  <2> QED
    BY <1>1, <2>1, <2>2, Reads DEF Reading
<1> QED
  BY <1>2, <1>3, <1>4

LEMMA ObserveSlicesStep ==
  ASSUME IInv, ObserveSlices
  PROVE  IInv'
<1> DEFINE ready == readyEndpoints(live.slice, rec.r.backend)
           local == localNodes(ready)
<1>1. Shapes /\ rec.n \in Here /\ rec.pc = "slices" /\ rec.pc \in Reading /\ Still
  BY DEF IInv, Shapes, ObserveSlices, Reading
<1>2. ASSUME Same(Stored, rec.r), NEW b \in steady
      PROVE  /\ ready # {} /\ (rec.svc.policy = "Local" => b[1] \in local)
             /\ b[2][2] = rec.svc.ports[rec.r.port].nodePort /\ b[3] = rec.svc.policy
  <2> DEFINE s == live.svc[rec.r.backend]
  <2>1. /\ Agrees(b) /\ ready # {} /\ b[1] \in Nodes /\ b[3] = s.policy
        /\ s.policy = "Local" => b[1] \in {e.node : e \in ready}
    BY <1>1, <1>2, Stayed
  <2>2. b[2][2] = rec.svc.ports[rec.r.port].nodePort /\ b[3] = rec.svc.policy
    BY <1>1, <2>1 DEF Agrees
  <2>3. b[1] # None
    BY <2>1, BackendScenarios
  <2> HIDE DEF ready, s
  <2> QED
    BY <2>1, <2>2, <2>3 DEF localNodes
<1>3. CASE ready = {} \/ (rec.svc.policy = "Local" /\ local = {})
  <2>1. Refuse("pending")
    BY <1>3 DEF ObserveSlices
  <2>2. Same(Stored, rec.r) => steady = {}
    BY <1>2, <1>3
  <2> QED
    BY <1>1, <2>1, <2>2, Refuses
<1>4. CASE ~(ready = {} \/ (rec.svc.policy = "Local" /\ local = {}))
  <2>1. rec' = [rec EXCEPT !.pc = "nodes", !.local = local]
    BY <1>4 DEF ObserveSlices
  <2> HIDE DEF local
  <2>2. /\ Goes /\ rec'.pc = "nodes" /\ rec'.n = rec.n /\ rec'.r = rec.r /\ rec'.svc = rec.svc
        /\ rec'.local = local
    BY <1>1, <2>1 DEF Goes, Still, Shapes
  <2>3. ASSUME Same(Stored, rec.r), NEW b \in steady PROVE Agrees(b)'
    BY <1>2, <2>2, <2>3 DEF Agrees
  <2> QED
    BY <1>1, <2>2, <2>3, Reads DEF Reading
<1> QED
  BY <1>3, <1>4

LEMMA ObserveNodesStep ==
  ASSUME IInv, ObserveNodes
  PROVE  IInv'
<1> DEFINE members == nodePortMembers(live.node, rec.svc, rec.r.port, rec.local)
<1>1. Shapes /\ rec.n \in Here /\ rec.pc = "nodes" /\ rec.pc \in Reading /\ Still
  BY DEF IInv, Shapes, ObserveNodes, Reading
<1>2. ASSUME Same(Stored, rec.r), NEW b \in steady PROVE b[2] \in members
  <2> DEFINE s == live.svc[rec.r.backend]
  <2>1. /\ Agrees(b) /\ b[1] \in Nodes /\ readyNode(live.node[b[1]])
        /\ live.node[b[1]].addr # None
        /\ b[2] = <<live.node[b[1]].addr, s.ports[rec.r.port].nodePort>>
    BY <1>1, <1>2, Stayed
  <2> HIDE DEF s
  <2>2. /\ b[2][2] = rec.svc.ports[rec.r.port].nodePort
        /\ rec.svc.policy = "Local" => b[1] \in rec.local
    BY <1>1, <2>1 DEF Agrees
  <2> QED
    <3>1. b[2] = <<live.node[b[1]].addr, rec.svc.ports[rec.r.port].nodePort>>
      BY <2>1, <2>2, SMTT(30)
    <3> QED
      BY <2>1, <2>2, <3>1 DEF nodePortMembers
<1> HIDE DEF members
<1>3. CASE members = {}
  BY <1>1, <1>2, <1>3, Refuses DEF ObserveNodes, members
<1>4. CASE members # {} /\ rec.for = "cleanup"
  <2>1. rec' = Idle /\ live' = live /\ pool' = pool /\ spent' = spent /\ Remember
    BY <1>4 DEF ObserveNodes, Again, Still, members
  <2> QED
    BY <1>1, <2>1, Unmoved, Ends
<1>5. CASE members # {} /\ rec.for # "cleanup"
  <2>1. rec' = [rec EXCEPT !.pc = "mutate", !.members = members, !.svc = NoService, !.local = {}]
    BY <1>5 DEF ObserveNodes, members
  <2>2. /\ Goes /\ rec'.pc = "mutate" /\ rec'.n = rec.n /\ rec'.r = rec.r /\ rec'.for = rec.for
        /\ rec'.members = members
    BY <1>1, <2>1 DEF Goes, Still, Shapes
  <2>3. ASSUME Same(Stored, rec.r), NEW b \in steady PROVE Agrees(b)'
    BY <1>2, <1>5, <2>2, <2>3 DEF Agrees
  <2> QED
    BY <1>1, <2>2, <2>3, Reads DEF Reading
<1> QED
  BY <1>3, <1>4, <1>5

(* The steps that end a reconciliation. *)
LEMMA EndingStep ==
  ASSUME IInv, SealFails \/ Trouble \/ Restart
  PROVE  IInv'
<1>1. Shapes
  BY DEF IInv
<1>2. rec' = Idle /\ live' = live /\ pool' = pool /\ Remember
  BY DEF SealFails, Trouble, Restart, Again, Still
<1>3. spent'.in = spent.in /\ spent' = [k \in Bounded \cup {"in"} |-> spent'[k]]
  <2>1. spent' = spent \/ Spend("troubles") \/ Spend("restarts")
    BY DEF SealFails, Trouble, Restart, Still
  <2> QED
    BY <1>1, <2>1, Spending DEF Shapes, Bounded
<1>4. Onwards
  BY <1>1, <1>2, <1>3, RoutesStay DEF Onwards, Shapes
<1> QED
  BY <1>1, <1>2, <1>4, Ends

LEMMA MutationStep ==
  ASSUME IInv, \/ BindRoute \/ EnsureConflict \/ EnsureProgress \/ EnsureReady
               \/ DeleteRoute \/ ClearBinding
  PROVE  IInv'
<1>1. Shapes /\ rec.pc = "mutate" /\ rec.n \in Here /\ RouteShape(Stored)
  <2>1. rec.pc = "mutate"
    BY DEF BindRoute, EnsureConflict, EnsureProgress, EnsureReady, DeleteRoute, ClearBinding,
           Ensuring, Cleaning
  <2> QED
    BY <2>1 DEF IInv, Shapes, Stored
<1>2. rec' = Idle /\ Remember /\ spent' = spent
  BY DEF BindRoute, EnsureConflict, EnsureProgress, EnsureReady, DeleteRoute, ClearBinding,
         Again, Stop
<1>3. pool' = [m \in Names |-> pool'[m]]
  <2>1. pool = [m \in Names |-> pool[m]]
    BY <1>1 DEF Shapes
  <2>2. pool' = pool \/ \E x : pool' = [pool EXCEPT ![rec.n] = x]
    BY DEF BindRoute, EnsureConflict, EnsureProgress, EnsureReady, DeleteRoute, ClearBinding
  <2> QED
    BY <2>1, <2>2
<1>4. \/ live' = live /\ pool' = pool
      \/ \E new : Later(live.route[rec.n], new) /\ Write("route", rec.n, new)
  <2>1. CASE BindRoute
    <3>1. Later(live.route[rec.n], [live.route[rec.n] EXCEPT !.bound = TRUE])
      BY <1>1, Reports DEF Stored
    <3> QED
      BY <2>1, <3>1 DEF BindRoute
  <2>2. CASE EnsureConflict \/ EnsureProgress \/ EnsureReady \/ DeleteRoute
    <3>1. PICK st : Report(st)
      BY <2>2 DEF EnsureConflict, EnsureProgress, EnsureReady, DeleteRoute
    <3>2. Later(live.route[rec.n], [live.route[rec.n] EXCEPT !.st = st])
      BY <1>1, Reports DEF Stored
    <3> QED
      BY <3>1, <3>2 DEF Report
  <2>3. CASE ClearBinding
    <3> DEFINE x == Late(live.route[rec.n].st)
    <3>1. Write("route", rec.n, [live.route[rec.n] EXCEPT !.bound = FALSE, !.st = x])
      BY <2>3 DEF ClearBinding
    <3>2. Later(live.route[rec.n], [live.route[rec.n] EXCEPT !.bound = FALSE, !.st = x])
      BY <1>1, Reports DEF Stored
    <3> QED
      BY <3>1, <3>2
  <2> QED
    BY <2>1, <2>2, <2>3
<1>5. Onwards
  BY <1>1, <1>2, <1>3, <1>4, Unmoved, Moved
<1> QED
  BY <1>1, <1>2, <1>5, Ends

(* The informers and the workqueue. *)
LEMMA DeliveryStep ==
  ASSUME IInv, \/ \E kind \in Kinds : Deliver(kind) \/ Relist(kind)
               \/ \E n \in Here : Resync(n)
  PROVE  IInv'
<1>1. Shapes
  BY DEF IInv
<1>2. rec' = rec /\ live' = live /\ pool' = pool /\ Remember
  BY DEF Deliver, Relist, Resync, Take
<1>3. spent'.in = spent.in /\ spent' = [k \in Bounded \cup {"in"} |-> spent'[k]]
  <2>1. spent' = spent \/ Spend("relists")
    BY DEF Deliver, Relist, Resync
  <2> QED
    BY <1>1, <2>1, Spending DEF Shapes, Bounded
<1>4. Onwards
  BY <1>1, <1>2, <1>3, RoutesStay DEF Onwards, Shapes
<1> QED
  BY <1>2, <1>4, Waits

(* The world: a route's backend changes with its generation, ... *)
LEMMA EditStep ==
  ASSUME IInv, NEW n \in Here, EditRoute(n)
  PROVE  IInv'
<1> DEFINE r == live.route[n]
<1>1. PICK ref \in Scenario.refs :
        Change("route", n, [r EXCEPT !.backend = ref.backend, !.port = ref.port, !.gen = @ + 1])
  BY DEF EditRoute
<1> DEFINE new == [r EXCEPT !.backend = ref.backend, !.port = ref.port, !.gen = @ + 1]
<1>2. Shapes /\ RouteShape(r)
  BY DEF IInv, Shapes
<1>3. Later(r, new)
  <2> DEFINE g == r.gen
             u == r.bound
             v == r.st
             a == ref.backend
             p == ref.port
             s == r.backend
             q == r.port
  <2>1. r = [gen |-> g, backend |-> s, port |-> q, bound |-> u, st |-> v] /\ g \in Nat
    BY <1>2 DEF RouteShape
  <2>2. new = [[[r EXCEPT !.backend = a] EXCEPT !.port = p] EXCEPT !.gen = g + 1]
    OBVIOUS
  <2> HIDE DEF g, u, v, a, p, s, q, new
  <2>3. [r EXCEPT !.backend = a] = [gen |-> g, backend |-> a, port |-> q, bound |-> u, st |-> v]
    BY <2>1, SMTT(30)
  <2>4. [[gen |-> g, backend |-> a, port |-> q, bound |-> u, st |-> v] EXCEPT !.port = p]
        = [gen |-> g, backend |-> a, port |-> p, bound |-> u, st |-> v]
    BY SMTT(30)
  <2>5. new = [gen |-> g + 1, backend |-> a, port |-> p, bound |-> u, st |-> v]
    BY <2>2, <2>3, <2>4
  <2> QED
    BY <2>1, <2>5, SMTT(30) DEF Later, RouteShape, g
<1>4. /\ Spend("route") /\ Write("route", n, new) /\ rec' = rec /\ pool' = pool /\ Remember
  BY <1>1 DEF Change
<1> HIDE DEF new
<1>5. spent'.in = spent.in /\ spent' = [k \in Bounded \cup {"in"} |-> spent'[k]]
  BY <1>2, <1>4, Spending DEF Bounded
<1>6. Onwards
  BY <1>2, <1>3, <1>4, <1>5, RouteWritten DEF Onwards, Shapes
<1> QED
  BY <1>4, <1>6, Waits

(* ... and Services, EndpointSlices and Nodes change without the route. *)
LEMMA ChangeStep ==
  ASSUME IInv, NEW kind \in Kinds \ {"route"}, NEW i, NEW new, Change(kind, i, new)
  PROVE  IInv'
<1>1. Shapes
  BY DEF IInv
<1>2. Spend(kind) /\ Write(kind, i, new) /\ rec' = rec /\ pool' = pool /\ Remember
  BY DEF Change
<1>3. spent'.in = spent.in /\ spent' = [k \in Bounded \cup {"in"} |-> spent'[k]]
  <2>1. kind \in Bounded
    BY DEF Kinds, Bounded
  <2> QED
    BY <1>1, <1>2, <2>1, Spending
<1>4. live' = [k \in Kinds |-> live'[k]] /\ live'.route = live.route
  BY <1>1, <1>2, OtherWritten
<1>5. Onwards
  BY <1>1, <1>2, <1>3, <1>4, RoutesStay DEF Onwards, Shapes
<1> QED
  BY <1>2, <1>5, Waits

LEMMA NextIInv ==
  ASSUME IInv, [Next]_vars
  PROVE  IInv'
<1>1. CASE UNCHANGED vars
  <2>1. Here' = Here /\ Backers(live, rec.n)' = Backers(live, rec.n)
    BY <1>1, SMTT(30) DEF vars, Here, Scenario, Backers, Alive, Usable, Claims, Fit
  <2>2. Shapes' /\ Revision' /\ Steady'
    BY <1>1, <2>1 DEF vars, IInv, Shapes, Revision, Steady, Stored
  <2>3. \A b : Agrees(b)' <=> Agrees(b)
    BY <1>1 DEF vars, Agrees
  <2> QED
    BY <1>1, <2>2, <2>3 DEF vars, IInv, Snapshot, Stored
<1>2. CASE \E n \in Here : Begin(n)
  BY <1>2, BeginStep
<1>3. CASE Work
  BY <1>3, CheckStep, ObserveRouteStep, ObserveServiceStep, ObserveSlicesStep, ObserveNodesStep,
     EndingStep, MutationStep DEF Work
<1>4. CASE Deliveries \/ (\E kind \in Kinds : Relist(kind)) \/ Resyncs
  BY <1>4, DeliveryStep DEF Deliveries, Resyncs
<1>5. CASE \E n \in Here : EditRoute(n)
  BY <1>5, EditStep
<1>6. CASE \/ \E s \in Services : ChangeService(s)
           \/ \E k \in Slices : ChangeSlice(k)
           \/ \E x \in Nodes : ChangeNode(x)
  <2>1. \E kind \in Kinds \ {"route"} : \E i, new : Change(kind, i, new)
    BY <1>6 DEF ChangeService, ChangeSlice, ChangeNode, Kinds
  <2> QED
    BY <2>1, ChangeStep
<1>7. CASE Trouble \/ Restart
  BY <1>7, EndingStep
<1> QED
  BY <1>1, <1>2, <1>3, <1>4, <1>5, <1>6, <1>7 DEF Next

(* Only a mutation changes a pool, and it has the backers that stayed. *)
LEMMA PoolKept ==
  ASSUME IInv, [Next]_vars, NEW n \in Names, pool'[n] # pool[n]
  PROVE  Members(steady) \cap pool[n] \subseteq pool'[n]
<1>1. EnsureProgress \/ DeleteRoute
  <2>1. pool' # pool
    OBVIOUS
  <2> QED
    BY <2>1 DEF Next, vars, Begin, Work, Check, ObserveRoute, ObserveService, ObserveSlices,
       ObserveNodes, SealFails, BindRoute, EnsureConflict, EnsureReady, ClearBinding, Still,
       Deliveries, Deliver, Relist, Take, Resyncs, Resync, EditRoute, ChangeService, ChangeSlice,
       ChangeNode, Change, Trouble, Restart
<1>2. rec.pc = "mutate" /\ Current /\ pool = [m \in Names |-> pool[m]] /\ rec.pc \in Reading
  BY <1>1 DEF EnsureProgress, DeleteRoute, Ensuring, Cleaning, IInv, Shapes, Reading
<1>3. \A b \in steady : rec.for # "cleanup" /\ b[2] \in rec.members
  <2>1. Same(Stored, rec.r)
    BY <1>2 DEF Current, Same, Stored
  <2> QED
    BY <1>2, <2>1 DEF IInv, Snapshot, Agrees
<1>4. CASE EnsureProgress
  <2>1. pool' = [pool EXCEPT ![rec.n] = rec.members]
    BY <1>4 DEF EnsureProgress
  <2>2. pool'[n] = rec.members
    BY <1>2, <2>1
  <2> QED
    BY <1>3, <2>2 DEF Members
<1>5. CASE DeleteRoute
  <2>1. rec.for = "cleanup"
    BY <1>5 DEF DeleteRoute, Cleaning
  <2> QED
    BY <1>3, <2>1 DEF Members
<1> QED
  BY <1>1, <1>4, <1>5

(* The order in which buildRouteValidationSnapshot and                       *)
(* buildRouteCleanupSnapshot read Service, EndpointSlices and Nodes costs no *)
(* member that was right all the while, however the objects change between   *)
(* the reads: neither EnsureRoute nor DeleteRoute removes one.               *)
THEOREM BackendsSteady == Spec => SteadyMembersStay
<1>1. IInv /\ [Next]_vars =>
        [\A n \in Names : pool'[n] # pool[n] => Members(steady) \cap pool[n] \subseteq pool'[n]]_vars
  BY PoolKept
<1>2. Spec => []IInv
  <2>1. Init => IInv
    BY InitIInv
  <2>2. IInv /\ [Next]_vars => IInv'
    BY NextIInv
  <2> QED
    BY <2>1, <2>2, PTL DEF Spec
<1> QED
  BY <1>1, <1>2, PTL DEF Spec, SteadyMembersStay
=============================================================================
