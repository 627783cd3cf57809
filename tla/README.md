# TLA+ model of gateway-api-openstack

The controller builds, for each Gateway of its GatewayClass, one Octavia load balancer with a
listener and an optional Floating IP, and for the one HTTPRoute selected for that Gateway a pool
with members, a monitor and L7 policies. This directory models the parts of it that change state,
checks them with TLC on small instances, and proves with TLAPS, for every value of the constants,
the safety of the lock, of the three reconcilers, of the probe's state file and of the order in
which backends are read.

Paths below are relative to `src/`; `controller/` is `internal/controller/`, `graph/` is
`internal/cloud/openstack/graph/`.

## 1. The system and how its parts interact

| Part | State it owns | Who else touches it |
|---|---|---|
| Graph coordinator (`controller/graph/coordinator.go`) | one lock per Gateway UID, reference counted | Gateway and HTTPRoute reconcilers, around every provider call |
| Provider, Gateway graph (`graph/gateway.go`, `delete.go`, `gateway_deletion_plan.go`) | load balancer, listener, Floating IP | Octavia, operators |
| Provider, route graph (`graph/route.go`, `route_graph.go`) | pool, members, monitor, L7 policies and rules; admin state of listener and load balancer | the Gateway half, which deletes all of it with the Gateway |
| Gateway reconciler (`controller/gateway`) | finalizer, three binding annotations and conditions of a Gateway | users, the class and CRDs it reads, its informer cache |
| HTTPRoute reconciler (`controller/httproute`) | finalizer, binding annotations, cleanup-failure record and parent status of a route | users, the Gateway's status, Services, other routes |
| GatewayClass reconciler (`controller/gatewayclass`) | `gateway-exists` finalizer, `Accepted`, `SupportedVersion` | Gateways naming it, CRDs |
| Backends of routes (`httproute_backend.go`, `httproute_watch.go`, `predicates.go`) | the members of a pool | Services, EndpointSlices and Nodes, each with a watch and a cache of its own |
| Ownership audit (`cmd/openstack-gateway-audit`, `internal/cloud/openstack/inventory`) | nothing: it reads | everything it lists goes on changing |
| Capability probe (`internal/probe`) | its OpenStack objects and the state file | nobody: a command of its own |

The reconcilers communicate only through Kubernetes objects, each seen through a cache that lags,
and through OpenStack, under the lock. A reconciliation decides from the cache, takes the lock,
rebuilds its decision from live reads (the *snapshot*), reads again what it depends on (the
*seal*), sends at most one mutation, releases, and patches metadata and status with an optimistic
lock. It is started again by a watch that passes a predicate, or by a requeue.

Not modelled, and why:

- `httproute_model.go`: the translation of matches and filters. A route's shape is one bit to the
  reconciler, and its paths are the specifications `ProviderGraph` is given.
- the encoding of identity tags and digests: string hashing. `AuditInventory` compares the decoded
  values.
- configuration parsing and manager setup: no state that changes. A restart with another external
  network is an action of `ProviderGraph`.
- OpenStack clients, metrics and events: delay and counters on which no control depends.
- the wording and order of the audit report, the reasons and messages of conditions.
- the end-to-end test runner: a harness, not part of the controller.

## 2. Modules

| Module | Models | State and actions |
|---|---|---|
| `KeyedMutex` | what the coordinator promises | each reconcile's status and key; Request, Grant, GiveUp, Release |
| `Coordinator` | `coordinator.go` | the map, each entry's channel and count, each call's position. `Retain`, the two arms of the select (`SelectDone`, `SelectReady`), the second context check (`CheckGranted`), `PutBack`, `Release`, `DropReference` |
| `OpenStack` | external: Octavia and Neutron as the adapter uses them | one Gateway's objects as a record; which mutations are accepted and what they do |
| `RouteProvider` | `graph/route.go`, `route_graph.go`, part of `delete.go` | pure: observed cloud to the one step `EnsureRoute` or `DeleteRoute` takes |
| `GatewayProvider` | `graph/gateway.go`, `delete.go`, `gateway_deletion_plan.go` | the same for `EnsureGateway` and `DeleteGateway` |
| `ProviderGraph` | both writers on one graph | observe and plan under the lock, then `Execute`; around them settling, edits, drift, late requests, crashes |
| `GatewayReconciler` | `controller/gateway` | one Gateway name over several UIDs; one action per API request between which others may act |
| `HTTPRouteReconciler` | `controller/httproute` | routes, Gateways, class, Services, caches, queue; one action per request: the route, its Gateway, class and bundle, its Service, the list of routes, each older competitor's Service, its Service again, and the seal |
| `GatewayClassReconciler` | `controller/gatewayclass`, `gateway_api_version.go`, `predicates.go` | one class name over several UIDs |
| `ProviderErrors` | `apierrors/classify.go`, `cloud/errors.go`, `provider_outcomes.go` | pure: what failed to its category, the category to what is reported, whether the generation advances and whether it is retried. Both reconcilers take their failures from it |
| `RouteBackends` | `httproute_backend.go`, `httproute_selection.go`, `httproute_watch.go`, predicates and indexes of `controller/` | Services, EndpointSlices, Nodes and routes: live, cached and on their way; work queue and resync timers; the worker, one read at a time; the pools |
| `AuditInventory` | `inventory/scanner.go`, `classification.go`, `identity/metadata.go` | pure: lists to candidates, candidates and bindings to dispositions |
| `Audit` | `executeAudit` of the command, `ownershipaudit/collector.go`, `Scan` | one action per list; between them the controller binds, creates, deletes and unbinds, operators and Octavia change objects |
| `Probe` | `internal/probe`, `octavia/wait.go` | cloud objects, state file, the process; the file is claimed (`Run`) before it is written (`CreateState`) |
| `CoordinatorProof`, `GatewayClassProof`, `ProbeProof`, `GatewayProof`, `HTTPRouteReadsProof`, `HTTPRouteProof`, `BackendsProof` | | the theorems of section 6 about `Coordinator`, `GatewayClassReconciler`, `Probe`, `GatewayReconciler`, `HTTPRouteReconciler` and `RouteBackends` |

`MC*` modules give the constants their values. `PROJECT.json` maps each definition to its lines.

Abstractions shared by the modules:

- The objects below one load balancer carry one flag for "not ours" instead of tags and projects.
- In `ProviderGraph` the observation of a call is one step: the lock keeps the other writer out,
  and Octavia's own changes in between are covered because the mutation is a later step.
- In the reconciler modules the provider is the answer it may give (progress, ready, failure);
  `ProviderGraph` is where those answers come from. A Gateway graph is none, partial or built.
- `GatewayReconciler` sees the class through a cache and the GatewayClass reconciler as the step
  that publishes its conditions. `HTTPRouteReconciler` sees the Gateway reconciler as the steps
  GatewayBinds, GatewayBuilds, GatewayReports, GatewayTearsDown and GatewayUnbinds.
- An error without a category is returned as it is: nothing is reported or recorded, and the work
  queue retries. `ProviderErrors` assumes of gophercloud that its reauthentication errors do not
  unwrap, which is why `Classify` looks into them itself.
- `RouteBackends` keeps Gateway, class, bundle and deletion fixed; a provider call is one step
  (`ProviderGraph` has its parts). Deciding from the caches is one step, and so is reading the
  route with its competitors (`HTTPRouteReconciler` takes these reads apart); Service,
  EndpointSlices and Nodes are read by a request each. A deletion always finishes: the conflict
  with another route's pool (`route_graph.go:164`) is in the provider and reconciler modules. An
  informer's update and the mappers it calls are one step, as they are in one handler.
- In `Audit` a list is one step. Each resource has the tags, parents, project, provider and status
  a list reports; a Floating IP has the digest in its description.
- `HTTPRouteReconciler` has a Service as usable, missing or of the wrong kind; its EndpointSlices
  and Nodes are read in the same step as its last read, and a request each in `RouteBackends`. The
  first decision, from the cache, is one step: what the cache says is one possible past. Of the
  competitors those the route precedes are read too, and change nothing.
- Routes have one parent; two routes of one age are ordered by name, as in `routePrecedes`.
- `seen` (history) collects what was true at some moment of the current snapshot. The fences are
  stated with it: the code cannot promise more than what its reads saw. Where the seal reads again
  what a decision rests on, that is one moment; of Services and competing routes, which the seal
  does not read again, it is a moment for each (section 4).

## 3. Runs

The environment of every reconciler module except the class, of `ProviderGraph` and of `Audit` is
a constant set of *scenarios*: each says which specifications occur and how many steps of each kind (edits,
drifts, failures, crashes, ...) the environment may take. `Init` picks one and `spent.in` keeps it,
so one run answers one question in several environments instead of one environment with everything
in it. The scenarios are in the `MC*` modules.

| Run | Question | Bounds |
|---|---|---|
| `coordinator` | refinement of `KeyedMutex`, no lost or doubled entry, every Acquire ends | 3 calls, 2 UIDs, 3 cells: holder, waiter and newcomer on one UID while another is busy |
| `graph_safety` | plans are accepted, traffic is never mixed, Ready means served and built, repair only after validation, a foreign or second object freezes the graph | `Edits`: 3 Gateway specs, 3 route specs, 2 members, 3 edits, 1 crash. `Drifting`: 2 drifts, 1 edit. `Late`: 2 create requests that arrive late, 1 edit |
| `graph_live` | the graph converges unless an operator is needed | 1 edit, 1 drift |
| `gateway` | no graph without binding; Programmed=True is honest; building and cleanup are authorised by live reads; the bundle fence; no lost wake-up | `Edits`: 2 UIDs, 2 ports, 2 edits, 1 lost annotation, 1 failure of any policy. `Crashes`: 2 UIDs, 1 edit, 1 failure, 1 crash. `Handoff`: 1 edit, 2 class edits, a class name that does not exist. `Bundle`: 1 edit, 1 class edit, 1 bundle change, the missing class. `Upgrade`: 2 ports, 1 edit, 1 bundle change, the missing class |
| `route_attach` | a route moves without leaving objects behind; two routes and one Gateway | `Moves`: 2 Gateways, 1 edit. `Recreated`: 1 Gateway, 2 incarnations. `Refusing`: a listener that refuses it. `Tampered`: lost annotations. `Selection`: 2 routes, 1 edit. `Rivalry`: 2 routes created in any order, one with a Service of the wrong kind and one without any, 2 changes of these |
| `route_detach` | the binding outlives failures; nothing wanted is deleted; the bundle fence | `Faults`: 1 failure of every policy, 3 states of the Service, 1 change of it, a route that becomes unusable. `Wavering`: a timeout with 2 changes of the Service. `Crashes`: 1 crash, 1 timeout, 1 change of the Service. `Handoff`: 1 edit, 1 class edit. `Upgrade`: 1 bundle change with an edit. `Displaced`: 2 routes, the Service of one becomes of the wrong kind. `Rebuilt`: 2 edits of the Gateway, a listener that is invalid |
| `route_live` | no lost wake-up; a disabled load balancer is enabled by whichever of route and Gateway the other waits for | `Turns`: 1 route, 2 Gateways, 1 edit. `Disabled`: 1 edit and 1 drift. `Repair`: 1 change of the Service, 1 failed call, 1 drift. `Returning`: 2 changes of the Service with 1 failed call, or with 1 drift. Class and bundle stay |
| `class` | verdicts belong to one class and generation; they and the finalizer follow what is installed | 2 Gateways, 2 classes of the name, 1 edit, 2 references, 1 bundle change, 1 lost condition, 1 failure |
| `backends` | no change of a backend is lost between watch, predicate, mapper and queue; no member that stays right is taken out; routes settle; the resync repairs what no event tells | 2 routes of one Gateway, 2 Services, 2 slices, 2 Nodes. `Moves`: 3 changes of slices and Nodes. `Policy`: a change each of Service, slice, Node. `Loosened`: a Local Service turns Cluster while one endpoint leaves, or all. `Contest`: 2 changes of the competitors' Services. `Edits`: an edit and a Service change, or 3 edits. `Relabel`: a slice changes hands, 1 failed call. `Skips`: 1 relist, 1 restart. `Silent`: Services without a generation |
| `audit` | what the report may be trusted with although its lists are not of one instant | 2 Gateways, 1 route, 2 UIDs each; up to 5 steps of the controller, 1 of an operator and 1 of Octavia, in 8 initial clouds: in service, being built, left behind by removed finalizers, unreadable bindings, a late duplicate |
| `probe` | the state file names every object saved; cleanup ends | 2 members, 2 runs, 2 crashes, 2 failures |

The properties of each run are in its `.cfg` and stated, with the code they are about, above their
definitions; the type invariant of a module is a conjunct of one of its invariants (of `Coordinator`
it is proved, as is `OneEntryPerUID`). The bounds count environment steps only; reconciliations are unbounded. Each hazard
needs one or two such steps (an edit under a stale cache, a handoff and back, a crash and a retry),
and the bounds allow those and little more; longer sequences of edits are not covered. Every
property has a mutant of the code in `PROJECT.json` that breaks it under the same bounds.

`CHECK_DEADLOCK FALSE` is set where the system may stop: nothing is queued and all environment
steps are spent. The coordinator run checks deadlock.

One run shows a disagreement between the code and what is written about it: `graph_cleanup`.
`gateway_cleanup.go:36` says that cleanup "converges a previously valid Gateway to no OpenStack
resources"; with the load balancer deleted by hand, `DeleteGateway` is Ready at `delete.go:93` and
the Floating IP stays.

Further places where the models reach a state that a reader of the docs may not expect; they are
hazards with a note in `PROJECT.json` and no property claims otherwise:

- a bound route with a recorded cleanup failure must rebind before it ensures
  (`httproute_snapshot.go:305`), rebinding requires Programmed=True of the Gateway, and the Gateway
  may be waiting for the route to enable the load balancer; `architecture.md:260` describes the
  repair without this case, and `RepairHappens` excepts it;
- `ServicePredicate` passes an update of a Service only when its `metadata.generation` changes
  (`predicates.go:219`). Where the API server does not maintain one, a programmed route follows a
  changed NodePort at the next resync, and a route without a pool at the next other event;
- a relist may hide a change and its undoing; a route without a pool has no timer to look again;
- resources bound after the audit listed the bindings are reported as orphan candidates, and a pool
  or policy deleted before its members or rules are listed ends the audit with an error;
- a bound Gateway that names a missing class ends at `gateway_version_status.go:43` without a
  requeue, and CRDs wake it only through a GatewayClass;
- a route that met an unsupported class is not requeued (`httproute_version_status.go:89`) and
  watches neither classes nor CRDs;
- a bound, deleted route without objects conflicts with the pool of the route now served
  (`route_graph.go:164`) and is retried until that one leaves;
- the finalizer of a class is removed on the strength of a cached list of Gateways
  (`gatewayclass_controller.go:194`);
- an ID whose save failed is in no file (`probe/runner.go:169`);
- a probe that dies between the creation of its state file and the first write (`probe/state.go:72`)
  leaves a file that no cleanup can decode and no run overwrites.

## 4. What the passing runs assume

- `Recorded` and `CleanupEnds` except objects whose save failed or never happened, and a create
  that failed created nothing. A new run of the probe has nothing to do with what an earlier run
  lost, so `Run` forgets it. `CleanupEnds` also allows a state file that was claimed and never
  written to stay: `LoadState` refuses it for ever, and by then nothing has been created.
- `EnsureAuthorized` and `DetachAuthorized` of routes do not say that a decision was right at any
  one moment, because the code does not see to it. A route whose own Service is missing may find
  the older competitor's Service of the wrong kind; if that one becomes usable and then its own is
  created, it is bound although it never was usable and first in line at once. A competitor that is
  listed and deleted before its Service can hold the slot may cost a route its resources. Claimed
  is, for the one, a moment at which the route itself fits and for each other route a moment at
  which it leaves the slot; for the other, a moment at which the route itself is not wanted or two
  at which one and the same route is older and can hold the slot. In both cases the change that
  came in between is an event for both routes (`RouteBackends` has the watches), and `OneRoute`
  holds throughout. `Rivalry` reaches the first of these cases. The second takes two changes of a
  Service and a deletion between two routes, too many states for a run: of `route_detach` only the
  theorem covers it.
- `ProgrammedHonest` is not claimed for a Gateway under deletion, nor after its class went to
  another controller, which no longer lets this one write.
- `NeverRefused`, `NoDuplicates`, `NoMixedTraffic` and `TrafficStartsComplete` are claimed as long
  as the controller is the only one to change the graph (`Alone`: no drift, no late request). With
  late requests duplicates do arise, and `ConflictFreezes` says what happens then.
- `Converges` of the Gateway is not claimed once annotations were lost, and of routes not once a
  Service changed: those wake-ups are what `RouteBackends` is about. There it is claimed of events
  alone, with no resync, where no relist hides a change and Services have a generation that grows;
  `ResyncRepairs` has the other cases, for routes that have a pool.
- `SteadyMembersStay` is about each member and not about the pool as a whole: the reads behind a
  pool are not of one instant, so the pool may match no single state of the cluster. A member
  counts as steady while one Node backs it under one `externalTrafficPolicy`: a Service read as
  Local that turns Cluster before the EndpointSlices are read, while the Node's endpoint leaves,
  costs a member that was right throughout, until the change of the Service wakes the route.
- `BoundIsNeverOrphan` is about complete reports and bindings that last as long as the audit;
  `NothingMissed` about what the limitations printed with every report do not name; `CleanAtRest`
  about clouds only the controller has acted on.
- `Converges` of the graph excludes what only an operator resolves (`Blocked`). For routes it
  demands service only when the Gateway serves, and nothing while the bundle is unsupported.

## 5. Fairness

- `Coordinator`: every step of a call is weakly fair; `SelectReady` strongly, since the Go runtime
  serves the receivers of a channel in order. Holders release, as both reconcilers do in a defer.
- `ProviderGraph`: strong fairness of each writer, because the lock is starvation free
  (`WaitEnds`) and every unfinished outcome is requeued; weak for sending, settling and arrival.
- Other reconcilers: weak fairness of the running reconciliation and of every watch. A reconciliation
  *starts* only if the key is queued, so a missing requeue is not repaired by fairness. Failures,
  crashes and users are never fair. `HTTPRouteReconciler` takes queued keys with strong fairness
  (a work queue is first in, first out).
- `RouteBackends`: the worker goes on, the watches deliver, queued keys are taken in turn (strong
  fairness). The resync timer is fair only as a premise of `ResyncRepairs`.
- `Probe`: Octavia finishes, the process goes on, and the operator repeats `cleanup` while there
  is a state file.

## 6. Proofs

Each proof module has an inductive invariant `IInv`, one lemma per action (or per group of actions
that end in the same way), lemmas about the operators those need, and at its end the theorems that
follow from `IInv`. TLC has checked each `IInv` on the states of the corresponding runs. The
assumptions are the named `ASSUME`s of the modules, which the runs evaluate; they say what kind of
values scenarios and bounds are, never how many there are.

| Module | Theorems (property of which run) | Holds for |
|---|---|---|
| `CoordinatorProof` | `TypeCorrect`, `MutexCorrect`, `EntriesCorrect` (`coordinator`: `NoLeakedEntry`), `CoordinatorImplementsLock` (`coordinator`: `LockSpec`) | any finite set of calls, any UIDs and cells (`WorkersFinite`, `NilIsNoEntry`) |
| `GatewayClassProof` | `ClassVerdictsAgree`, `ClassForeignUntouched` (`class`) | any Gateways and bounds (`BoundsAssumption`) |
| `ProbeProof` | `ProbeRecords` (`probe`: `Recorded`) | any non-empty sequence of members, any number of runs, failures and crashes (`MembersAssumption`) |
| `GatewayProof` | `GatewayBoundGraph`, `GatewayProgrammedHonest`, `GatewayEnsureAuthorized`, `GatewayCleanupAuthorized`, `GatewayBundleFence` (`gateway`) | any ports, UIDs and scenarios (`BoundsAssumption`) |
| `HTTPRouteProof`, on `HTTPRouteReadsProof` | `RouteBoundRoute`, `RouteOneRoute`, `RouteEnsureAuthorized`, `RouteDetachAuthorized`, `RouteWithdrawnFirst`, `RouteBundleFence` (`route_attach`, `route_detach`) | any routes, Gateways, incarnations, listeners and scenarios (`ScenariosAssumption`) |
| `BackendsProof` | `BackendsSteady` (`backends`: `SteadyMembersStay`) | any routes, Services, EndpointSlices, Nodes and scenarios (`BackendScenarios`) |

Why the invariants are what they are:

- **Coordinator.** Mutual exclusion depends on there being one entry per UID, that on the counts
  being exact, and on a token being either in the channel or with exactly one call. `IInv` adds: a
  call has an entry exactly between retain and its last release (`EntryWhileRetained`), no cell
  serves two UIDs (`EntriesInjective`), at most one call has an entry's token (`OneTokenPerEntry`)
  and then the channel is empty (`PutNeverBlocks`). Retaining a found entry and a new one are
  separate lemmas, because only the second changes the map. Cardinality facts come from
  `FiniteSetTheorems`.
- **GatewayClass.** That two conditions agree is kept by an edit only because no verdict is of a
  later generation than the object (`NoFutureVerdict`). That a patch writes a class of ours follows
  from the resource version (`FreshCopies`) and from what the scope was built from (`ScopeIsOurs`);
  a class under deletion is there because of a finalizer (`HeldWhileDeleting`).
- **Probe.** That the file is removed only after everything it names is gone needs the order of
  creation and deletion: whatever is left hangs from the load balancer (`Rooted`), a run has created
  exactly what it remembers and every object after its parents (`RunState`), and a cleanup reaches
  the end of its list only when the load balancer, the last of it, is gone (`CleanupState`). What
  `createOrder` and `deleteOrder` contain is proved from `SequenceTheorems`, for any members.
- **Gateway.** `World` says of the objects: a graph has the live object of its UID, with finalizer
  and binding (`Bound`); Programmed=True for the current generation has its graph (`Promised`);
  every copy, cached or in a reconciliation, is an earlier state of the live object (`Older`: within
  a generation the spec is fixed and the stored port only goes to that of the spec or away).
  `Underway` says of the reconciliation: what each optimistic lock pins down (`Locks`), what the
  snapshot has established that nobody else can undo (`Snapshot`: a finalizer once seen holds the
  object in place), why no promise stands in the way of a cleanup (`Reasons`), and what the history
  holds at each point (`History`), from which the three fences follow.
- **HTTPRoute.** The same two halves. `World` adds that UIDs of routes and Gateways are never used
  twice (`Identities`), and that no binding, live or cached, is to an incarnation of a Gateway the
  cache has yet to see (`BindingsKnown`): this is why a route bound to an older incarnation is
  recognised as having moved. `Underway` adds which Gateway a reconciliation aims at (`Aim`), what
  the seal has found of the parent and of the binding (`Seals`), and why a teardown contradicts no
  status (`Withdrawn`): the promise has been withdrawn, or nothing is left below the old binding.
  `History` follows the selection read by read: which of the other routes have been seen to leave
  the slot (`Clear`), as long as the route is still the one that was read, or which has been seen to
  take it (`Displaced`).
  The long part of the proof is that the steps of others, any edit, recreation, handoff, tampering
  or step of the Gateway reconciler at any point of a reconciliation, keep all of this. The
  invariant and the worker's reads are in `HTTPRouteReadsProof`; what others do, the worker's writes
  and the theorems are in `HTTPRouteProof`.
- **Backends.** Reads happen one after the other, so what was read need not hold any more. `IInv`
  says that it agrees with every backer that has stayed since the snapshot began (`Snapshot`), as
  long as the route's generation is the one decided on, which the seal checks last; a generation has
  one backend (`Revision`); and who stayed is still a backer (`Steady`). A snapshot that refuses the
  route therefore has no backer that stayed, so a detachment removes no steady member.

## 7. Only model-checked

- All liveness (`WaitEnds`, `Converges`, `RepairHappens`, `ResyncRepairs`, `CleanupEnds`): beyond
  the prover.
- `NoLostWakeUp`: it depends on how the events still on their way relate every intermediate state
  of four caches to what a reconciliation read; the strengthening is not written.
- The provider graph: its plans are sequences assembled by folds, and facts about those need
  induction over data.
- The audit: its classification is a fixed point over candidates, defined recursively.
- `RouteProvider`, `GatewayProvider` and `ProviderErrors` as functions: TLC evaluates them on the
  inputs the runs reach. Of `ProviderErrors` the proofs use that no failure is reported as success.

## 8. Plan

1. A composition of the class, Gateway and route reconcilers over one provider graph, replacing the
   steps they assume of one another, and a refinement of the Gateway steps in
   `HTTPRouteReconciler` by `GatewayReconciler`.
2. Multiple parents of a route; the translation of `httproute_model.go`.
3. Proofs: the provider graph, with each plan as the choice of its first step instead of a sequence,
   beginning with `NoDuplicates` and `ConflictFreezes`; `NoLostWakeUp`.
