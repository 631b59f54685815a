# TLA+ model of the resource brokering system

The repository lets clusters lend each other capacity. Every *provider* cluster
runs an agent that advertises what it has available to a central *broker*; a
*requester* cluster asks the broker for a reservation, the broker picks a
provider and locks the resources in the provider's advertisement, and the two
agents act on the instructions that follow (enforce the reservation, set up a
Liqo peering). This directory holds TLA+ modules for that system, TLC instances
that check them, and proofs that TLAPS checks.

## Inventory

| Component | State | Operations | What makes it correct |
|---|---|---|---|
| Resource arithmetic (`resource-broker/internal/resource/calculator.go`) | none | `CanReserve`, `AddReservation`, `RemoveReservation` | Available + Reserved is unchanged by a lock and by a release |
| Reservation HTTP handlers (`api/handlers/reservation.go`) | a local variable per request | `PostReservation` (create, finalizer, lock, status), `PostPeeringKubeconfig`, `GetReservation` | a reservation answered with 201 holds its resources, once |
| Reservation controller (`controller/reservation_controller.go`) | work queue, one worker and its copy of an object | deletion, finalizer, validation, selection, lock, status, activation, expiry, release | every lock is released exactly once; every reservation is settled in the end |
| Advertisement handlers (`api/handlers/advertisement.go`) | none | create, merge of a report with the broker's fields, provider instructions | a report never frees what is locked |
| ClusterAdvertisement controller | none | staleness, score, conditions | stale clusters attract no reservations |
| Decision engine (`internal/broker`) and evaluation handler | NetworkBonds (latencies), forecasts, exchange rates | filter, score, rank by policy, record a measured latency | ranked clusters can hold the request; only a cluster the requester was connected to counts as one of known latency |
| Kubernetes API server and informers | objects with versions, caches | update with conflict, finalizers, watches | (external) |
| Provider agent: advertisement controller, metrics collector | metrics, the last report | collect, publish every 30 s | what is offered fits on the nodes beside pods and holds |
| Provider agent: instruction poller, provider instructions | ProviderInstruction objects | poll, create, upload kubeconfig, enforce, expire | a hold is delivered before it counts, has a deadline no later than the reservation's, and is given up then |
| Requester agent: resource requests | ResourceRequest objects | evaluate, reserve, create an instruction, re-evaluate, switch | a status that is backed; reservations that are accounted for; switches that have a reason and keep the interval |
| Requester agent: reservation instructions | ReservationInstruction objects | fetch the credential, peer, deliver, expire, tear down | a recorded peering exists and is torn down before its instruction goes |
| Agent: HTTP transport | none | requests with retries | (retries repeat POSTs; answers are lost) |
| Authentication and routing, legacy Kubernetes transport, location and carbon clients, mock services, test harness | | | |

The components interact through Kubernetes objects. In the broker process the
handlers and the controllers share the `Reservation` and `ClusterAdvertisement`
objects, which they read from the manager's informer cache and update with
optimistic concurrency; agents reach the handlers over HTTP; users reach the
objects with kubectl. The hard part is that nothing spans two objects: a lock
and the status that records it, or a release and the phase that ends it, are
separate updates that can be interleaved, fail, be repeated and be based on an
outdated copy. The agents add a network that loses requests and answers, calls
to an external tool (`liqoctl`) whose success may go unrecorded, and three
objects (request, reservation, instruction) whose ends nothing ties together.
`PROJECT.json` lists these hazards line by line.

## Modules

| Module | Models |
|---|---|
| `ResourceCalculator` | `internal/resource/calculator.go`: quantities as functions from kinds (CPU, memory) to integers, without a floor at zero |
| `ResourceLedger` | abstract specification: per cluster, what was reported and what is held; holds, releases and reports are atomic |
| `Broker` | the reservation core: handlers, Reservation controller, the writers of advertisements, cache, users, crashes |
| `CollectorMetrics` | `internal/metrics/collector.go`: what an agent reports, from nodes, pods and enforced instructions |
| `ProviderAgent` | the provider's agent and what it sees of the broker: report, poller, ProviderInstruction controller |
| `Evaluation` | `PostEvaluation` and the ranking under the standard and the latency policy, with the NetworkBonds |
| `ResourceRequests` | the ResourceRequest controller, its transport, and the broker as it answers; extends `Evaluation` |
| `ReservationInstructions` | the ReservationInstruction controller and `liqoctl` |
| `MCBroker`, `MCProviderAgent`, `MCResourceRequests`, `MCReservationInstructions` | the constants of the TLC instances |
| `Broker_proof` | type correctness and what resourceVersions stand for, proved |
| `BrokerSafety_proof` | what the phase of a Reservation says about its resources, in spite of faults and without them, proved |
| `BrokerLedger_proof` | `Broker` implements `ResourceLedger`, its books add up, and without faults nothing is booked twice, proved |
| `SumTheorems` | lemmas on sums over finite sets, and on the largest value of a function |
| `ProviderAgent_proof` | what an enforced instruction says about the broker, and that offers fit, proved |
| `ResourceRequests_proof` | what the status of a request says about the broker, proved |
| `RequestGuarantees_proof` | what a request costs, when it switches and to whom, proved |
| `ReservationInstructions_proof` | what an instruction says about the peering, proved |

`Broker` has the reservation core in full detail. The modules of the agents put a
simpler broker in its place, which is free where the detailed one has reasons: in
`ProviderAgent` locks, status updates, releases and ends are steps of their own that
come in any order the objects allow, and a lock may be released late, twice or never
(`BrokerLock`, `BrokerReserve`, `BrokerRelease`, `BrokerEnd`); `ResourceRequests`
grants or refuses; `ReservationInstructions` leaves grants and uploads open. `ResourceRequests` and `ReservationInstructions` meet in the
ReservationInstruction object: the first creates and deletes it, the second lets
it end, each at any moment the other allows.

### How Broker corresponds to the code

*Objects.* `adv` and `rsv` are what the API server stores, `advCache` and
`rsvCache` the informer cache that every `Get` and `List` of handlers and
controllers is answered from (`mgr.GetClient()` in `cmd/main.go`). An object
carries its resourceVersion `rv`; an update is accepted only if the copy it was
made from has the current one (`CurrentAdv`, `CurrentRsv`). `PutRsv` keeps the
version of a Reservation that is written back unchanged; `LastUpdateTime`, which
has a resolution of a second, is not modelled. `SyncAdvertisement` and
`SyncReservation` deliver the newest version; an informer that skips none of the
versions in between is covered, because a sync may happen after each of them.

*Steps.* One step is one call that reads or writes shared state.

* A `RetryOnConflict` iteration gets an object, changes it and updates it. It is
  one step (`Lock`, `HttpWriteStatus`, `PostAdvertisement`): if the update is
  accepted, the object did not change between the read and the write, so the
  iteration is equivalent to one that happens at the moment of the write. An
  iteration that ends in a conflict changes nothing; running out of them is a
  disjunct of the action (`http' = "fail"`, `Requeue`).
* `PostReservation` has the steps create, finalizer, lock, status; `http[r]` is
  the call it makes next. Each of its calls after the creation may fail, by a
  conflict or otherwise (`HttpCallFails`): without the finalizer the handler goes on
  to lock, without the lock it marks the Reservation Failed, and a status that it
  cannot write it leaves. A lock may be stored and its answer lost
  (`HttpLockAnswerLost`): the handler takes it for an error.
* The worker takes a key (`StartReconcile`), copies the Reservation from the
  cache to `wobj` and carries it through the rest of `Reconcile`; `wpc` is the
  call it makes next, `wgoal` the phase it is about to write (or `"gone"`). The
  release and the status update or finalizer removal after it are separate
  steps, with anything in between. An error (`WorkerCallFails`), a conflict
  and `RequeueAfter` put the key back in the queue: the delay is any time.
* `SignalRequester`, `DeleteReservation`, `CreateReservation` are what users and
  requesters do to the objects; nothing in the repository sets the
  `RequesterActive` and `RequesterReleased` conditions, which
  `api/v1alpha1/reservation_types.go` describes as signals of the requester.
* `Crash` restarts the broker process between any two calls: handlers are gone,
  caches are listed anew, every Reservation is queued.

*Left open.* Which candidate the decision engine prefers, when an advertisement
is stale, and when time passes (`Tick`) are nondeterministic, so everything
shown holds for every policy and every timing. *Left out:* GPU and storage
(never locked), messages, timestamps, costs.

*History variables.* `locks` and `unlocks` count, per reservation, the accepted
locks and releases. No action reads them.

### How ProviderAgent corresponds to the code

*State.* `rsv` and `adv` are the reservations and the advertisement at the broker;
`instr` and `icache` the ProviderInstructions in the provider's API server and its
informer cache, from which controller and collector read; `ready` and `scheduled`
the nodes and pods. `answers` holds the entries of lists that the publisher
(`processProviderInstructions`) or the poller (`processInstructions`) has received
and not yet acted on. An entry keeps the deadline it was sent with, so a list that
is old when it is processed is among the behaviours; the two functions do the same
with an entry and are one action.

*Steps.* `Collect` measures (`CollectClusterResources`), `PublishAdvertisement` is
an attempt of `doWithRetry`: the report may arrive and its answer be lost, the
client may give up while the report is still under way (`LateReport`). The
ProviderInstruction worker takes a key (`StartReconcile`), uploads a kubeconfig,
and marks the instruction enforced or expired with the version of its first Get.
`BrokerRenew` is the second status update of `PostReservation`, which sets a later
expiry than the controller did, also for a reservation that has ended meanwhile. The
broker's other steps are `BrokerLock`, `BrokerReserve` (the status after a lock, whenever
it comes), `BrokerRelease` (before the reservation ends, of an outdated copy afterwards,
repeated, or never) and `BrokerEnd`; what is locked when a reservation ends is
therefore anything from what it asked for to less than nothing, within `MaxBooked`.

### How Evaluation and ResourceRequests correspond to the code

*State.* `bonds` are the NetworkBonds of the requester, `creating` the goroutines
that will create more; a bond's time stamp is new or more than thirty days old.
`req` and `qcache` are the ResourceRequest and its cached copy, `recent` the
versions whose status is younger than the re-evaluation interval (an update of the
status sets `LastUpdateTime`, so a copy carries its age with its version). `rsv`
are the reservations the broker granted for the request, `instr` the instructions.

*Steps.* The worker's calls are `StartRequest` (Get), `UpdateStatus`,
`EvaluateProviders`, `RequestReservation` (one attempt per step),
`CreateReservationInstruction` and `DeleteOldInstruction`. Of a ranking the
requester uses the first cluster only, so a ranking is the set of clusters that can
come first. At each evaluation the requester measures one of the values in `Latency`,
or nothing, in which case the handler stores the estimate as the actual latency. Its
update of the bond may fail, and the view it ranks by is the newest state or the one
before its own update, since it reads through a cache; neither is a fault. `Elsewhere`
are the latencies that bonds of other requesters may show for the same regions. Scores
are integers (thousandths and milliseconds); what is requested is one unit. Deleting
an instruction only marks it, if it has its finalizer (`Delete`, `"deleting"`); the
teardown ends at any later time (`TeardownEnds`), beside the new instruction.

### How ReservationInstructions corresponds to the code

`NextCall` is the order in which `Reconcile` looks at deletion, finalizer, expiry,
delivery and credential. `liqoctl peer` and `liqoctl unpeer` succeed, fail, or fail
after their work (a timeout kills them); `peered` is what is really there,
`interrupted` a history variable for peerings whose success was not recorded in
`Delivered`: `liqoctl` was killed, the agent died, or the status update was a
conflict. Deletion is a mark while the finalizer is there. `KubeconfigsDir` says
whether this cluster's kubeconfig is where `liqoctl` is given it; if not, every attempt
fails before `liqoctl` is run.

## What the runs check

| Run | Instance | Shows |
|---|---|---|
| `faults` | one reservation posted over HTTP; clock to 2, expiry after 1, two writes by others, one outdated read, one crash, one failed call or lost answer | `TypeOK`, `LedgerIdentity`, `SettledWasReleased`, `RepeatsAreAccountedFor`, `RemovedWasReleased`, `ImplementsLedger` |
| `contention` | one reservation over HTTP and one with kubectl in a cluster of capacity for one or both, republished once, refreshed once; the requester registers | `LedgerIdentity`, `ReservedWasLocked`, `ImplementsLedger` |
| `quiet` | two valid reservations and an invalid one created as objects, with and without a target; clock to 2, nobody writes them while the worker is on them (`ForeignOverlap = FALSE`), no outdated reads, no crash, no failed call | `Balanced`, `NoDoubleBooking` |
| `live` | one reservation over HTTP with a deletion, an expiry, a conflict, an outdated read and a failed call, under `FairSpec` | `DeletionCompletes`, `ExpiryIsHonoured`, `RequestsAreAnswered`, `ReservedGetsFinalizer` |
| `provider` | one reservation on the cluster and one on another, a node or a pod that comes or goes once; clock to 2, with and without a duration; one restart, late renewal or late report, under `FairSpec` | `TypeOK`, `EnforcedWasDelivered`, `HoldEndsByDeadline`, `OfferFits`, `HeldUntilExpiry`, `ReservationIsServed`, `ExpiredIsGivenUp`, `CapacityReturns` |
| `requests` | three providers (one nearer than estimated at most times and farther than the next at others, one of the same region, one without a location and with room for one), both policies, two attempts per POST, two reservations; one fault and one change, under `FairSpec` | `TypeOK`, `ReservedIsBacked`, `ActualMeansConnected`, `GrantsAreAccountedFor`, `OneInstruction`, `SwitchIsAnImprovement`, `NoEarlySwitch`, `RequestIsDecided` |
| `instructions` | two instructions, on one provider or on two, without and with an expiry; one restart or deletion by others, under `FairSpec` | `TypeOK`, `PeeringIsRecorded`, `DeliveredIsPeered`, `TeardownBeforeRemoval`, `ExpiredIsDeleted`, `CredentialIsUsed` |
| `terminal` | one reservation over HTTP | violates `TerminalStates` |
| `deletion` | one reservation created as an object, one deletion | violates `DeletedHoldsNothing` |
| `doublebooking` | three equal reservations in a cluster that fits one, two writes by others | violates `NoDoubleBooking` |
| `formula` | one reservation, everything shared, no faults | violates `AvailableFormula` |
| `unrecorded` | the instance of `instructions` without faults | violates `ExpiredLeavesNoPeering` |

The first two runs say what holds in spite of every fault: the books are
right (`LedgerIdentity`: Reserved is the sum of all locks less all releases, so
no update was lost), nothing is locked beyond what is available
(`ImplementsLedger`), `Reserved` means that resources were locked, `Active` and
`Released` mean that they were released, and a Reserved object loses its finalizer
only after a release. What does not hold in spite of faults is that a lock or a
release happens once: `RepeatsAreAccountedFor` bounds how often each is repeated by
the number of interruptions, and shows that nothing but an interruption (and, once
each, the handler beside the worker) repeats them.

The handler logs a failure to add the finalizer and goes on, so that a Reservation may
be Reserved without one. Until the worker adds it (`ReservedGetsFinalizer`), a deletion
removes the object at once and its resources stay locked; `RemovedWasReleased` therefore
speaks of objects that have the finalizer.

`quiet` says when the books also agree with the phases; the violations show that
the conditions of `quiet` are needed:

* **terminal** — the handler's last update overwrites a phase that the controller
  has made terminal (`reservation_controller.go:130` calls Failed and Released
  terminal states).
* **deletion** — a Reservation deleted between lock and status update is removed
  without a release (`reservation_controller.go:78`: "Release resources before
  deletion"); its resources are locked for good.
* **doublebooking** — a Reserved reservation is deleted and its resources released
  (`reservation_controller.go:431`); another write comes before its finalizer is
  removed (line 86), the removal is a conflict, and the repeated reconciliation
  releases again. Available becomes larger than what the agent reported, and two
  further reservations are both Reserved in a cluster that fits one
  (`resource-broker/README.md:58`: "preventing double-booking").

The other violations are of what the documentation and the comments say of the agents:

* **formula** — `README.md:67` says "Available = Allocatable - Allocated -
  Reserved". The agent subtracts what it enforces from its report
  (`collector.go:110`) and the broker subtracts Reserved from the report
  (`advertisement.go:131`): from the enforcement until the release the same
  reservation is counted twice.
* **unrecorded** — the controller's comment on an expired instruction is "Delete the
  instruction to trigger the finalizer and teardown" (line 95), but the finalizer tears
  down only what is Delivered (line 61): if `liqoctl` was killed after its work, the
  peering stays when the instruction is gone.

Two more divergences are modelled as the code does them and need no run, because one
definition shows each:

* `networkbond_types.go:34` calls ActualLatency "the actual measured RTT latency". When
  the gateway cannot be read, the handler stores the estimate there
  (`evaluation.go:93-95`, `Reported`), which may come from another cluster of the region,
  and the ranking takes it for measured from then on. What does hold is
  `ActualMeansConnected`: only a provider that the requester had a reservation on gets an
  actual latency.
* `resource-agent/README.md:133` says that without `--kubeconfigs-dir` "Liqo peering is
  skipped and instructions are marked as delivered immediately". The controller looks for
  the file all the same (`reservationinstruction_controller.go:224`) and retries the error
  for ever (`ExecuteLiqoPeering` with `KubeconfigsDir = FALSE`).

What the runs of the agents say, beyond their names:

* `provider`: the two lists, restarts and outdated copies cannot give a hold a
  deadline later than the broker's, or none if the broker has one, nor end it before its
  own deadline. The broker may end the reservation earlier, by activation or deletion,
  of which the provider is not told. `OfferFits` assumes pods without restartable init
  containers (sidecars), see below.
* `provider` also: the capacity comes back (`CapacityReturns`) if every reservation has a
  duration and if the broker in the end has released what it locked, no more and no
  less. Both conditions are needed: a hold without a duration is for ever, and `deletion`
  and `doublebooking` show that the broker may release too little or too much.
* `requests`: `SwitchIsAnImprovement` speaks of providers that are still eligible,
  because the requester's own reservation may make its provider look full at the next
  evaluation, and of latencies as the bonds show them before or after the report. It
  does not say that a request settles: measurements change, and so may the choice.
* `requests` also: a switch does not release the old reservation, a lost answer makes
  the transport reserve again, a restart or an old copy makes the controller
  reserve again. `GrantsAreAccountedFor` says that nothing else does: reservations
  are at most one more than switches and faults. `OneInstruction` counts the
  instructions that have not been told to end; the peering of an old one may stand
  beside the new one for as long as its teardown fails.
* `instructions`: a peering without a Delivered instruction goes back to a success of
  `liqoctl` that was not recorded. A Delivered instruction has its peering, with one
  exception that `DeliveredIsPeered` states: several on one provider share the peering,
  and the first of them that is deleted tears it down under the others.
  `CredentialIsUsed` assumes that the Reservation stays readable at the broker: if it is
  deleted after the upload, the requester asks for it for ever, or until the instruction
  expires.

*Bounds.* In the broker's instances the counters `reports`, `touches`, `userWrites`,
`staleStarts`, `crashes` and `errors`, and the clock, are limited by `MaxReports`,
`MaxTouches`, `MaxUserWrites`, `MaxStaleStarts`, `MaxCrashes`, `MaxErrors` and
`MaxTime`. One fault of each kind between any two calls is enough to repeat or to
lose each of them once, and two writes by others are a condition and a deletion, or a
condition and a conflict; `doublebooking` needs a deletion and a kubeconfig. One
provider is where reservations compete; the requester's own cluster is there because
it registers, and because a client may name it. The sizes of r1 and r2 are such that
a cluster fits either, both or only r1; the three of `doublebooking` are equal, hence
interchangeable (`SYMMETRY`), and the third is there because the one that is released
twice is gone when the other two are Reserved. Runs stop when the bounds are used up,
which is why they do not check for deadlock; `live` shows that nothing gets stuck
before.

In the agents' instances `MaxFaults` is one: a restart, a lost answer or an
outdated read between any two calls. Two outdated reads make the controller switch
before the interval has passed; `NoEarlySwitch` allows for that, and its theorem covers
any number. Two reservations are a first one and one that replaces it, or that a lost
answer adds. `Latency` has two values for one provider, on either side
of what the next one has. `Elsewhere` is empty in the instance: bonds of other requesters
only add to the values that a new bond's estimate is taken from, of which the region gives
several already, and the theorems hold for any of them.
A clock of 2 lets a reservation of duration 1 be granted at once or late and
expire. `MaxBooked` limits how far repeated locks or releases take the broker's
Reserved from nil, to one reservation in either direction; what the agent does depends
on Reserved only through the report it is taken off. `provider` shares a fixed amount,
`formula` everything; no run instantiates sharing by percentage, but the proof of
`OfferFits` covers it.

*Fairness.* In the broker `FairSpec` assumes that the worker finishes what it has started
(weak fairness of `Reconcile`; each call returns), that a key in the work queue
is taken in the end even though others and outdated reads compete with it
(strong fairness of `StartReconcile`: the work queue is first-in first-out), that
watches deliver (weak fairness of the syncs) and that handlers run. Nothing is
assumed of users, agents or the clock. `ProviderAgent` assumes that the agent's
processes and the clock run, that publishing and uploading succeed in the end if
they are tried again and again (strong fairness of the attempts that succeed) and
that the broker lets expired reservations go (`ExpiryIsHonoured` of `live`); it assumes
nothing of locks and releases.
`ResourceRequests` assumes that worker and watch run, nothing more: its retries are
bounded by the code. `ReservationInstructions` assumes that the work queue starves
no key and that neither `liqoctl` nor the broker's answers fail for ever: the code
retries them without bound, and waits for nothing else. Without the cluster's kubeconfig
`liqoctl` is never run, and what is assumed of it says nothing; the runs have the
kubeconfig, the theorems hold with and without it.

## What is proved

TLAPS proves every invariant and every action property of the passing runs but
`RepeatsAreAccountedFor`, for every value of the constants that satisfies the `ASSUME`s of the modules. Those are typing,
the finiteness of the sets that are summed over (`FinitenessAssumption` and its
likes; no other set is assumed to be finite), and what the
code checks before the model begins (`HttpRequestsAssumption`).

For `Broker` (any clusters, any finite set of reservations, any quantities and
bounds):

* `TypeCorrect`: `Spec => []TypeOK`. `TypeOK` is not inductive: that the worker
  acts on a reservation needs `WorkerInv` (it has one in its hands unless it is
  idle, and its goal is a phase unless it removes the finalizer).
* `LedgerImplemented`: `Spec => ImplementsLedger`. The argument has three parts.
  `VersionInv`: a cached or carried copy is never newer than the object, and a
  copy with the current version *is* the object; it is preserved because each
  accepted write increases the version (`AdvStep`, `RsvStep`) and copies only
  come from the store or the cache (`CacheStep`, `WorkerStep`). `ReservedInv`: an
  advertisement whose Reserved is nil holds nothing. With both, the guard that a
  lock evaluated on its copy is true of the current advertisement
  (`LockIsHold`), and each write maps to one entry of the ledger
  (`ReleaseIsRelease`, `PostIsReport`) or to none (`ReconcileIsStutter`).
* `ReservedIsBacked`, `SettledIsReleased` and `RemovalReleases`: `Spec` implies
  `[]ReservedWasLocked`, `[]SettledWasReleased` and `RemovedWasReleased`, failed calls of
  the handler and the worker included. None of them is inductive, since
  what is written is made from copies and from what a handler or the worker did
  before. The invariant is `SafetyInv`, under `VersionInv`: `CopiesInv` (what the
  phase of an object says is true of the object, its cached copy and the worker's
  copy; it stays true of an outdated copy because the counts only grow and a known
  cluster stays known), `ObjectInv` (the first version of an object exists and has no
  finalizer, and only a handler gives an object without one a phase), `HttpInv` (what a
  handler has done before its next call) and `GoalInv` (what the worker's goal
  presupposes: a lock for Reserved, a release for Active, Released and the removal
  of a Reserved object). Every write of a Reservation is shown to be `Sound`
  (`StepsWriteSoundly`), and the four parts follow (`NextObjectInv`,
  `NextCopiesInv`, `NextHttpInv`, `NextGoalInv`).
* `ReservedAddsUp`: `Spec => []LedgerIdentity`, with every fault. `TargetsInv`: the
  target of a Reservation is set once, nothing was locked before that, and an older
  copy names the same target or none, so that a lock and its release are booked in
  the same cluster. Every step is a `Booking`: one lock, one release, or neither
  (`NextBooks`). `IdentityInv` then says that Reserved is the sum of the shares
  of *all* reservations, those without a target having none; a booking changes one
  summand. `SharesAddUp` reduces that sum to the one of `LedgerIdentity`.
* `QuietIsBalanced`: under `Quiet` (no HTTP request, no write by others while the
  worker is on an object, no outdated read, no crash, no failed call: the conditions of
  the run `quiet`), `Spec => []Balanced`. `QuietInv` ties `locks - unlocks` to the worker's
  next call: 0 before a lock, 1 between the lock and its status, 0 between a release
  and the write that follows; and the worker's copy *is* the object (`Working`),
  so that no update conflicts after a lock or release.
* `NothingIsBookedTwice`: under `Quiet`, if the agents go on reporting one
  quantity without a negative kind, `Spec => []NoDoubleBooking`. `RoomInv`:
  Available is not negative and Available + Reserved is the report; with
  `LedgerIdentity` and `Balanced`, what stands in a cluster is at most Reserved
  (`StandingHasShare`, `StandingFits`). The hypotheses are needed: run
  `doublebooking` violates the property without `Quiet`, and an agent may report
  less than it did.

For `ProviderAgent` (any reservations, nodes, pods and ways of sharing), under the
invariant `AgentInv`:

* `TypeCorrect`, `EnforcedAfterDelivery`, `HoldsAreBounded` and `HoldsLast`:
  `TypeOK`, `EnforcedWasDelivered`, `HoldEndsByDeadline`, `HeldUntilExpiry`.
  The deadline of a hold is copied from a list that may be old, so the bound needs
  `ListedByBroker`: every entry under way names a reservation of this cluster that
  the broker has granted, and a deadline that is `NoLater` than its present one, where no
  deadline is later than any; it stays true because the broker only makes deadlines
  later, and `NoLater` is transitive (`NoLaterChains`). That Enforced follows a
  delivery needs `WorkerInv` (past the upload, the broker has the kubeconfig), and
  that a status update does not revive an old version needs `OlderCopy`: a copy with
  the current version is the object.
* `OffersFit`: `OfferFits`, from `TypeOK` alone, because the metrics are taken from the
  state in one go. What a pod counts for covers its use at each moment of its life
  (`CountedPodCoversUsage`: the larger of its containers together and each init
  container, plus overhead), sums are monotonic (`AllocatedCoversUsage`), and the
  three ways of sharing never exceed what is left (`ShareIsOfWhatIsLeft`).

For `ResourceRequests` (any ranking: nothing is assumed of `PostEvaluation` but that
it answers with a provider or none), under `RequestInv`:

* `StatusIsBacked`: `ReservedIsBacked`. What the status says is what the worker
  carries from the answer of the POST through the creation of the instruction
  (`WorkerInv`); reservations and instructions end but are not forgotten (`Kept`);
  and a new reservation overwrites none, because names are given in order
  (`GrantedInOrder`).

The other properties of `ResourceRequests` need the ranking as well
(`RequestGuarantees_proof`), under `TypeInv`:

* `RequestTypes` and `MeasuredWasReserved`: `TypeOK` and `ActualMeansConnected`. An
  actual latency, measured or the estimate in its place, enters a bond only for the
  cluster of the worker's reservation (`TargetInv`, `BondInv`); what is taken from the
  region enters a new bond as an estimate only.
* `GrantsArePaidFor`: `GrantsAreAccountedFor`. `GrantsInv` counts one in advance
  while `MayGrant` holds, that is while a worker or an undecided request is on its way
  to a reservation. A grant uses it up, and only a fault or a switch provides a new one.
* `OneInstructionAtATime`: `OneInstruction`. `InstructionsInv`: apart from the
  instruction that the status names or is about to name (`Covers`), there are no more
  live ones, that is ones not told to end, than faults.
* `SwitchesWait`: `NoEarlySwitch`. `CopyInv`: the cached copy is not older than the
  last status written but one. `HistoryInv` says what each unusual state must have
  cost: to reserve for a request that is Reserved takes a fault, to switch before
  the interval has passed takes two.
* `SwitchesImprove`: `SwitchIsAnImprovement`, from `TypeInv` and the operators of
  `Evaluation`, for any measurements and for each view the handler may rank by: the first
  of a ranking has an actual latency in the view only if every candidate has, the one
  that is left included, and is then the nearest in the view (`RankedByLatency`). The
  view shows of the provider that is left what its bond was before or is after the
  report, and of the others what their bonds are, but for one that is reset because it
  is too old, which did not count as actual (`NearerIsBetter`).

For `ReservationInstructions` (any instructions and clusters), under `PeeringInv`:

* `TypeCorrect`, `PeeringsAreRecorded`, `DeliveredArePeered` and `TeardownFirst`:
  `TypeOK`, `PeeringIsRecorded`, `DeliveredIsPeered`, `TeardownBeforeRemoval`. The
  invariant adds `Lifecycle` (an instruction that is deleted or Delivered has its
  finalizer), `Copies` (copies are older versions of the same target, or the object; a
  copy that is Delivered or deleted is of an object that is) and `Calls` (what
  the worker knows at each call, above all: when it is about to remove the finalizer
  of a Delivered instruction, the peering is gone). A teardown takes the peering only
  from instructions that share the cluster of one that is Delivered and being deleted,
  and that one is never taken back (`SharedStays`, `AllDeliveredStay`).

*Sums and cardinalities.* The sums of the models are folds of the community modules,
and induction theorems that take a predicate as a parameter cannot be instantiated by
the backends used here (SMT, Zenon, LS4). `SumTheorems` states the induction over sets instead
(`SubsetInduction`: a set that has every subset of a finite S whose proper subsets it
has, has all subsets of S), and derives what the proofs need:
a sum is an integer (`SumIsInt`), is that of the rest and one summand (`SumWithout`), is
monotonic, and changes by what one summand changes (`SumChanges`). Cardinalities need
only the library's theorems on finite sets.

Only model-checked: `RepeatsAreAccountedFor`, whose proof would need what each phase of
the worker and the handler may still cost; and the liveness properties
`DeletionCompletes`, `ExpiryIsHonoured`, `RequestsAreAnswered`, `ReservedGetsFinalizer`,
`ReservationIsServed`, `ExpiredIsGivenUp`, `CapacityReturns`, `RequestIsDecided`,
`ExpiredIsDeleted` and `CredentialIsUsed`, since fairness is
defined with ENABLED, which TLAPS does not support. `NoDoubleBooking` is not
claimed when an agent reports less than it did: what was reserved before may then
exceed the report, and nothing in the code takes it back.

## Plan

The order in which the project was built, most important behaviour first, with
what each part composes:

1. `ResourceCalculator`, `ResourceLedger`, `Broker` and its proofs.
2. `CollectorMetrics`, and on top of it `ProviderAgent` and its proof.
3. `Evaluation`, and on top of it `ResourceRequests` and its proofs.
4. `ReservationInstructions` and its proof.
5. `SumTheorems`, and with it the proofs about sums in `BrokerLedger_proof` and
   `ProviderAgent_proof`.

Worth adding: an abstract specification of a request's life that
`ResourceRequests` and `ReservationInstructions` implement together; the age of
advertisements as a clock in `Broker`; `Evaluation`'s ranking under the eco policy.

## Not modelled

* **The eco policy and the caches of forecasts, prices and exchange rates**
  (`decisionEco.go`, `decisionCostEnergy.go`): their values come from external
  services; a value that is missing or old changes the order of candidates only,
  which `Broker` leaves open. Note that a price in EUR/MWh replaces the energy cost
  that `calculateScore` takes to be between 0 and 1.
* **The age of advertisements**: `Active` may be outdated for any time.
* **Cost, carbon and location fields** of reports and their merge: no action reads
  them but the scores. `Evaluation` takes them as constants.
* **The Kubernetes transport of the agent** (`internal/publisher`): every deployment
  file selects HTTP. Its writes are those of `PostAdvertisement`, its watch is an
  alternative to the poller.
* **Authentication, routing, conversions, the location and carbon clients**: no
  state. **Mock services and the test harness**: not part of the system.
* **Which API error** a call of the broker ends with: a failure is one step
  (`HttpCallFails`, `WorkerCallFails`), bounded by `MaxErrors`. In the agents, an error of
  their own API server is a fault where it leaves something behind, and a requeue
  otherwise.
* **Restartable init containers** (sidecars): `collector.go` counts them as init
  containers that end, and so does `CollectorMetrics`. While the other containers run a
  sidecar runs too, so that a cluster with such pods is counted as freer than it is.
* **GPU and storage** in the broker: never locked.
* **Generating the peering user** on the provider: one step that succeeds or fails.
  A second generation for the same requester invalidates the first kubeconfig.
