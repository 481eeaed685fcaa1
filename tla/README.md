# Formal specifications of k8s-carbonshift

TLA+ models of the buffer service, the decision engine and the operator of
k8s-carbonshift, the TLC configurations that check them on small instances, and
TLAPS proofs of the properties that matter most. `PROJECT.json` maps every
definition to the lines it models, lists the runs, the mutants that show each
property can fail, the findings, the hazards and the theorems.

Every run: `tlc -workers 2 -config <run>.cfg <module>.tla`. Every proof module:
`tlapm <module>.tla`.

## 1. The system

| part | state | operations | interacts with |
|---|---|---|---|
| router (`buffer-service/router.py`) | `rabbit_state` (connection, channel, exchange, pending futures) | HTTP proxy, `_on_reply`, `_init_rabbit` | clients (HTTP), broker (publish, reply queue), schedule manager (`snapshot`) |
| consumer (`buffer-service/consumer.py`) | one semaphore and consumer tag per queue, the running tasks | deliveries, HTTP forwarding with retries, reply, ack and nack, pausing (out of reach, section 4) | broker, target service, schedule manager (`consumption_enabled`) |
| RabbitMQ (external) | queues, unacknowledged deliveries, TTLs | publish, deliver, ack, requeue, expire | router and consumer |
| schedule manager (`common/schedule.py`) | `_current`, the cached schedule | `load_once`, `watch_forever`, `expiry_guard` | Kubernetes API |
| decision engine (`decision-engine.py`) | schedule, step counter, gauges | `scheduler_loop`, `/schedule`, `/setschedule` | the TrafficSchedule controller polls it |
| TrafficSchedule controller (Go) | none of its own; work queue and informer cache | poll the engine, write the status | engine, API server |
| FlavourRouter controller (Go) | the same | create, repair and clean up the buffer service of a labelled Service | API server, KEDA, Istio (through objects) |
| not modelled | | | see section 8 |

A request travels client -> router -> headers exchange -> `direct.*` or
`queue.*` -> consumer pod -> target, and its reply consumer -> direct reply-to
-> router -> client. A schedule travels engine -> TrafficSchedule status ->
schedule manager of every router and consumer, which decides the strategy, the
flavour, the deadline and whether `queue.*` is consumed.

What is hard in it: the `await`s of the router's handler against replies,
timeouts and a broken channel; at-least-once delivery with prefetch, restart
and a poison message; initialisation shared by concurrent requests
without a lock around it; the race of loads and watch events for one cached
object; threads that share a counter and gauges, partly under a lock;
reconcilers that read caches that lag and must come back after every error;
Services that share a cluster-wide object, and several TrafficSchedules where
the code expects one.
`PROJECT.json`, "hazards", lists each at its line.

What makes each part correct: the router answers every request it has published
once and for all, and forgets it; the consumer loses no message, works on one
once at a time as far as the broker allows, and should stop when paused; the
schedule manager catches up with the object; the engine's schedules can be drawn from and overrides are
transient; polling never stops; the objects converge and what may be deleted is
deleted; a router never uses a schedule the engine did not have.

## 2. Modules

| module | models | correspondence |
|---|---|---|
| `Broker` | RabbitMQ as the two programs use it | `place`, `tag`, `carrier`: where a message is, which delivery is the current one, on whose channel; effects of publish, ack, nack, TTL, a closed channel |
| `Router` | `router.py`, `proxy` and `_on_reply` | `phase[r]` is the `await` a handler is at, `future` and `pending` are `response_future` and `rabbit_state["pending"]`; one action per run of the event loop between two awaits |
| `Consumer` | `consumer.py` | `stage[d]` is the point a task of delivery `d` is at; one action per await; `subscribed` is the consumer tag of each buffer worker, `cached` the part of the pod's schedule its flag is in (`ConsumptionEnabled`) |
| `BufferService` | the three together, properties, fairness | interleaving of `RouterStep`, `ConsumerStep`, `BrokerStep` |
| `RpcService` | abstract: what clients are promised | refined by `BufferService` (`ImplementsRpcService`, `status` is the mapping) |
| `RabbitInit` | `_init_rabbit`, `get_exchange` | one action per await; what call `h` creates is named `h` |
| `ScheduleManager` | `common/schedule.py` | `cache` is `_current`, `loader` the two callers of `load_once`; external: `object` at the API server, `pending` the events the watch has still to hand out |
| `LaggingCopy` | abstract: what each hop of a schedule's way promises | a source, channels that carry its values in order and may lose them, a copy; refined by `TrafficScheduleController` (one channel, the polls) and by `ScheduleManager` (three: two loads, the watch), each by a mapping `source`, `sent`, `copy` |
| `SchedulePipeline` | `TrafficScheduleController` and one `ScheduleManager` over one object | `object` is the status of `world`; a change by the operator or a user is announced to the manager's watch in the same step |
| `ScheduleWeights` | `round10`, `fix_sum_to_100`, `generate_weights` | pure operators; a half is rounded either way, since the sine's floating-point error decides |
| `DecisionEngine` | the loop's and Flask's threads | `pc`, `lock`; loads and stores of the shared counter are separate actions |
| `WorkQueue` | external: controller-runtime's queue for one key | pure operators on `[dirty, busy, later]` |
| `TrafficScheduleController` | its `Reconcile` and predicate | `world` and `cache` are the object at the API server and in the informer; `run` holds Reconcile's locals, `run.old` that the resourceVersion read is outdated |
| `FlavourRouterController` | its `Reconcile`, the ensure functions, `cleanupResources`, the watches | one action per API call, in the code's order (`run.left` is what a reconciliation has still to ensure or delete); an object's content is the Service and the specification it was made from and its replicas; several Services, TrafficSchedules and one worker; a cluster-wide object is shared by Services of one name |
| `MC*` | values of constants for TLC | |
| `*Proofs` | theorems | section 6 |

Composition: `Broker` is extended by `Router` and `Consumer`, both by
`BufferService`; `ScheduleWeights` by `DecisionEngine`; `WorkQueue` by both
controllers; `SchedulePipeline` extends `TrafficScheduleController` and
instantiates `ScheduleManager`. The schedule parts meet the others through constants: `Schedules`
of `Router` (a filled status, the fallback, an empty status, a long deadline),
`Flags` of `Consumer` (records with the key the operator writes), `Schedules` and `ZeroStatus` of the controller.

Actions named "Mutant" in a comment stand before the definition they alter. No
specification uses them: they are plausible bugs, and for each checked property
`PROJECT.json` names one under which TLC finds it violated.

## 3. Runs that pass

| run | question | instance |
|---|---|---|
| `BufferSafety` | is any message lost, stranded, handled twice at a time, answered wrongly? Is `IndInv` true? | 1 request, 2 pods, 2 deliveries, 2 HTTP attempts, 1 connection drop, a status that disables consumption, four schedules (plain, a deadline the broker refuses, the fallback, an empty status); restarts of router and pods unbounded |
| `BufferLiveness` | is every published request answered, does a message settle? | 1 request, 1 pod, 2 deliveries, 1 drop |
| `RabbitInit` | what can spoil an initialisation that ended, what can leave a half-filled state, is the connection reused? | 3 calls, 1 failing await |
| `ScheduleManager` | what can leave the copy behind, for how long, does it catch up, is anything invented? | 2 statuses, an object that changes for ever, 3 events to be handed out, 2 failing GETs or restarts |
| `DecisionEngine` | how far may the gauges be behind, are schedules drawable, are overrides transient, does the counter keep up with the minutes? | 2 overrides, one malformed, 4 steps |
| `FlavourRouter` | is any event, error or restart forgotten, is what may be deleted deleted, does every labelled Service find a binding, does what is right stay right? Is `IndInv` true? | 2 Services of one name in two namespaces (symmetric), 1 TrafficSchedule, 2 kinds (the ClusterRoleBinding, a ScaledObject), 2 specifications, 2 disturbances, 1 failing call |
| `FlavourRouterLive` | do the objects converge, are replicas kept? | 1 Service, 2 TrafficSchedules, 2 kinds (a Deployment, a ScaledObject), 2 specifications (one without cpuUtilization), 2 disturbances, 1 failing call |
| `TrafficSchedule` | does polling go on, does the status follow the engine, can it go back? | 3 schedules (one unstorable), 4 disturbances, 1 failure, requests that hang |

Between them these runs fire every action.

Why the bounds are enough: one request with two deliveries and two pods is the
smallest instance in which a message can be worked on by two tasks, be answered
twice and outlive its handler. Two requests share nothing but the semaphore and
the prefetch of a worker; no property is about the prefetch, and the safety
properties are proved for any number of requests (section 6). With two requests
the liveness run is beyond TLC, so that only the deliveries of one message
compete for the semaphore there, after a drop. The number of deliveries bounds
redelivery, which is cyclic in the code; the deadline, the TTL and their order
are kept, and `Tick` jumps to the two instants the code tells apart. `MaxTtlMs`
is a fraction of RabbitMQ's 2^32-1, which TLC's integers do not hold, with the
default deadline below it and one schedule's above. Three calls
let two overlap while a third comes late. The object of `ScheduleManager`
changes as often as it likes; only the events that are not handed out yet are
bounded (`MaxBacklog`), which three are enough for two to be overtaken by a
load, and the faults (`MaxFaults`). `Naive` is empty in the run, because every
validUntil the operator writes names its zone; the guard therefore always
sleeps 61 s and `SecondsLeft` is looked at only in the proofs of what holds for
any `Naive`. `behind`, a history variable, counts the seconds the guard sleeps
while the copy is behind. In `FlavourRouter` two Services of one name are the
smallest instance in which one of them takes what the other uses; in
`FlavourRouterLive` two TrafficSchedules are the smallest in which the cached
list has an order. Two disturbances of
a reconciler make one event stale while another is handled and let an object
change and change back. The theorems of section 6 remove the bounds for what
they prove.

Symmetry of pods is used in `BufferSafety`, of Services and of specifications in `FlavourRouter`. These runs check no
liveness, and no definition tells two of them apart.

`SchedulePipeline` has no run. Its bound on the backlog would have to stop the
operator, so that liveness would be assumed instead of checked, and its state
space is the product of two that are checked alone; the composition is by proof
(section 6).

`CHECK_DEADLOCK FALSE` is set where the system may stop: all calls of
`RabbitInit` returned, a quiet work queue of the controllers with every
disturbance used up. The buffer service, the schedule manager and the engine are
checked for deadlock.

## 4. Findings

Each of these runs checks one claim of a comment, docstring or log message of
the repository, and TLC finds it violated.

| run | claim | what the code does |
|---|---|---|
| `BufferDeadline` | "max delay in seconds" (`trafficschedule_types.go:71`) | the TTL is a thousand times the deadline (`router.py:186`, `219`): expired requests are still executed |
| `BufferPause` | "When buffers are disabled we cancel the consumer" (`consumer.py:239`), "False → consumer sleeps" (`schedule.py:94`) | the flag is read under `consumption_enabled` (`schedule.py:96`), the status has `consumptionEnabled` (`trafficschedule_types.go:86`): it is always on, a schedule never pauses a pod |
| `RabbitOneConnection` | "idempotente", "connection reused" (`router.py:72`, `86`) | the lock is released before the first await: concurrent first requests open a connection each |
| `FlavourRouterLabel` | "cleaning up resources" (`flavourrouter_controller.go:79`) | no permission to delete most of them, errors swallowed |

Other disagreements met while modelling. They show by reading two places of the
code together, and have no run; the models take the code as it is.

- `utils.py:21` calls `DEFAULT_SCHEDULE` the fallback schedule, but it has no
  `flavourRules`: requests without a forced flavour fail with 500 until a status
  is loaded (`Reject` in `Router`).
- `schedule.py:25` says the guard reloads when `validUntil` is reached; an aware
  minus a naive time raises (line 84), so it always sleeps 61 s (`SleepSeconds`).
- `decision-engine.py:9` calls the gauges "in use", but they are set outside the
  lock: an override and the loop may store in one order and set gauges in the
  other. `GaugesBehindOnlyByRace` states what holds.
- `decision-engine.py:18` says the counter goes up by one each minute; the loop
  increments it without the lock, and overrides increment it too. Increments are
  lost, but only those of overrides: `CounterKeepsUp`.
- The ClusterRoleBinding's name has the Service's name but no namespace
  (`flavourrouter_controller.go:386`), and an existing one is left as it is: of
  two Services of one name in two namespaces the second finds a binding whose
  subject is the first one's ServiceAccount, so its own gets no rights. The
  model has `Child` shared; `BindingIsThere` states what holds.
- The selectors of the router and consumer Deployments and Services
  (`flavourrouter_controller.go:545`) do not name the parent Service, so two
  labelled Services of one namespace select each other's pods. Pods are not
  modelled.
- `flavourrouter_controller.go:92` takes the first of the listed
  TrafficSchedules: with several, successive reconciliations may use different
  ones (`TS` is any of the cached ones).
- `trafficschedule_types.go:33` marks CPUUtilization `+optional`;
  `flavourrouter_controller.go:632` dereferences it unchecked (`EnsurePanics`).
- `trafficschedule_types.go:71` says "max delay in seconds", but only `wait_for`
  has the deadline: `get_exchange` and `publish` (`router.py:206-223`) come before
  it and have no timeout, so that a broker that does not answer holds a request
  beyond it. Replies that fail to be published leave their message unacknowledged
  (`consumer.py:168`), and entries of failed publishes stay in `pending`
  (`router.py:204`); no doc claims otherwise.
- `flavourrouter_controller.go:142` says "Re-queue based on ValidUntil"; a delay
  of 0 for one that has passed is no requeue (`EnsureEnds`).

The other models take the code as it is, so what follows from these findings is
part of them: `Router` uses the long TTL, `EmptyStatus` is a schedule, a missing
reply consumer fails every publish until the restart, and `FlavourRouterController`
panics where the code does. `Consumer` has no action for what only a flag that
is off would reach: `queue.cancel` and the nack inside the semaphore
(`consumer.py:255-257`, `274-278`).

## 5. Fairness

- `BufferService`: weak fairness of each handler's next step once it waits for
  the reply, of `_on_reply`, of each task and worker loop, since the event loop
  runs what is ready and timers fire; strong fairness to pass the semaphore, since `asyncio.Semaphore` wakes
  its waiters in order; weak fairness of time, of expiry and of delivery to a
  worker that has credit. None for clients, for the target's success, for faults,
  and none for what the programs await from the broker without a timeout: the
  router's exchange and confirm, the consumer's confirm of a reply. So
  `ConfirmedRequestAnswered` begins after the confirm, and `QueuedMessageSettles`
  has the premise that no reply waits for its confirm for ever (it would keep
  the semaphore).
- `ScheduleManager`: weak fairness of the tasks and of time; strong fairness of
  watch events, since a stream that lives 90 s hands some out. None for changes
  of the object. A GET need not succeed by itself: `LoadFails` is fair only when
  the object is absent, and the property assumes that the guard is alive,
  because one failing GET ends it.
- `DecisionEngine`: the loop runs, strongly, because the lock's holders do not
  block; the overrides run once they have started.
- Controllers: the watch delivers, timers fire, the worker runs (strongly for
  each Service's key, since the work queue is first-in first-out), the garbage
  collector collects. Nothing of users or faults, which are bounded.
  `StatusFollowsEngine` assumes that no request hangs for ever: `http.Get` has no
  timeout, and with one that hangs the status does not follow.

Liveness properties are of the form "once X holds for ever" where the
environment could otherwise prevent progress for ever.

## 6. Proofs

The assumptions are those the modules declare: disjointness of model values,
numbers that are natural, rules with natural deadlines. TLC evaluates them on
every run. `PipelineConstants` is a hypothesis of the pipeline's theorems: an
absent object is no status, and the bounds are natural numbers. An absent object
of `FlavourRouterController` is not what an object can contain.

| theorem | establishes | argument |
|---|---|---|
| `BufferServiceProofs!TypeCorrect` | `TypeOK` | one lemma per program, one step per action |
| `Invariance` | `IndInv` | below |
| `AckSafety`, `NoStrandedMessage`, `WaitersAreRegistered`, `PendingIsExact`, `Exclusion` | the five safety properties | consequences of `IndInv` |
| `FuturesAreFinal` | `FutureSettledOnce` | a request nobody has taken up has no future, so the only unguarded write of a future meets none |
| `Refinement` | `ImplementsRpcService` | a step of a handler is `Open`, `Refuse`, `Answer` or a stutter, a successful or failed attempt is `Execute`, a restart is `CutOff`; `IndInv` gives that a set future was executed |
| `RabbitInitProofs!TypeCorrect` | `TypeOK` | a call declares only after a channel was stored |
| `OnlyCrossingSpoils` | `SpoiltOnlyByCrossing` | the channel in `rabbit_state` belongs to a call past its `ChannelOpened`; when that call declares, exchange and reply Queue are its own, and whoever overwrites them later has built its Queue on that channel (`ChannelIsSound`) |
| `HalfFilledHasCause`, `ConnectionIsReused` | `KeyErrorHasCause`, `NoLateConnection` | a channel without an exchange is that of a call that declares or has failed to (`ChannelHasDeclarer`); a call that has returned, or consumes, has stored an exchange (`StoredInOrder`) |
| `DecisionEngineProofs!WeightsAreDrawable` | weights in 0..100, sums 100 | the three sines cancel out and one is at least 15, so the two smaller weights stay within 100 and the greatest can pay the excess |
| `TypeCorrect`, `SchedulesAreDrawable` | `TypeOK`, `MadeIsDrawable` | the theorem above at `LoopMakes` |
| `CounterNeverBehind` | `CounterKeepsUp` | overrides hold the lock from load to store, so an override's increment makes up for the one it overwrites |
| `GaugesEndOnAStored` | `GaugesBehindOnlyByRace` | while updates overlap, `stored` has the schedule in use and those still to be put in the gauges; a gauge that is older than that is still to be set by one of them (`GaugeInv`) |
| `ScheduleManagerProofs!TypeCorrect` | `TypeOK` | one step per action |
| `OnlyRaces` | `BehindOnlyByRace` | the last pending event tells the object (`LastTells`) |
| `AMinuteAtMost` | `BehindAMinuteAtMost`, when `Naive = {}` | asleep, the guard finds no time counted; what it has read is the object, or nothing is counted (`GuardRepairs`) |
| `ManagerCopies` | `ImplementsLaggingCopy` | a change is `Change`, an event or an applied load `Arrive`, an opened watch `Lose`, a restart `Reset` |
| `TrafficScheduleControllerProofs!PollDelayBounds` | delay in 1..pollInterval | by cases |
| `TypeCorrect`, `PollingForever` | `TypeOK`, `PollingGoesOn` | below |
| `StatusCopies` | `ImplementsLaggingCopy` | an answer is `Change` with a value sent, a status that is written `Arrive`, a refusal or an error `Lose`, a deletion `Reset` |
| `FlavourRouterProofs!TypeCorrect` | `TypeOK` | one step per action |
| `Invariance` | `IndInv` | below |
| `NothingForgotten`, `CleanedWhenQuiet`, `BindingKept` | `ForgetsNothing`, `CleanWhenQuiet`, `BindingIsThere` | consequences of `IndInv`: when the reconciler is quiet nothing is stale, queued or ahead |
| `RightForGood` | `StaysRight` | a reconciliation in progress ensures, from the one specification there is, and one that begins takes label and specification from an informer that has both; a restart begins again from the world, which has both |
| `ReplicasKept` | `ScalingKept` | an update that is made starts from a copy that is not old, so that it has the replicas of the object |
| `LaggingCopyProofs!DroppedStaysDropped` | once source, channels and copy are in a set the source stays in, the copy stays in it | so does what is in the channels |
| `NothingInvented` | a copy stays in every set its source stays in | the channels are empty at first |
| `OneChannelKeepsOrder` | a copy with one channel never goes back | the copy, the channel and the source stand in rising order |
| `SchedulePipelineProofs!OperatorRuns`, `ManagerRuns` | the composition implements both parts | projection; a change of `world.status` by the operator is `Possible` for the manager, because only storable statuses are written and a new object has none |
| `PipelineSafety` | the parts' safety in the composition | the part's theorems, cited through the instance |
| `NoScheduleInvented` | a router's schedule is the engine's, the empty one or the default | `NothingInvented` twice, at the two hops |
| `NoScheduleComesBack` | a schedule that the engine has dropped and that is out of both hops is not seen again | `DroppedStaysDropped` twice; what the first hop delivers is what the second carries on |

`IndInv` (also an invariant of `BufferSafety`). `AckOnlyAfterReply` is not
inductive: that an acknowledging task has replied is `TaskProgress`.
`UnackedHasOwner` needs `UnackedDelivered` (the tag names a delivery) and
`Unpublished` (a request in preparation has no message and no task).
`ExclusiveHandling` follows from `TasksAreCurrent`: without a dropped connection
an active task works on the broker's current delivery, of which there is one.
The refinement needs `ReplyProgress`: a reply on its way, and a future that took
it, come from an execution. `AttemptsLeft` bounds the retry counter.

`PollingGoesOn` is not inductive: a specification edited and edited back before
the watch delivers needs no event. A step keeps `KeyAlive` (the key of every
object the informer has is awake) and `OldTells` (a copy that is not marked as
old is the object).

`IndInv` of `FlavourRouterController` (also an invariant of `FlavourRouter`).
`ForgetsNothing`, `CleanWhenQuiet` and `BindingIsThere` speak of a reconciler
that is quiet, so no step that makes it quiet can be shown to keep them from
themselves. `IndInv` says for every Service, at any time, that what is not as it
should be is still to come: an event tells it (`stale`), the key is queued or
has a timer (`Settled` fails), or the reconciliation in progress has it among
`run.left` (`Ahead`). Its parts: `ObjectsAhead` for the objects of a Service
with the label, all of them from one TrafficSchedule (`Serves`, which also ties
the specification a reconciliation in progress uses to the cached one);
`CleanupAhead` for what is left of one without; `BindingAhead` for the shared
binding, of which the model hears no event, so that its part says besides that
one the informer has stays and that it names a Service of that name. They need
`ModeTells` (the reconciliation in progress does what the label, as the informer
has it, asks for, or the key is queued again) and `GoneForGood` (a Service the
informer has lost is gone and does not come back, so an event that finds it with
the label or without finds it in the informer).
`StaysRight` is the part of `Converges` that needs no fairness: under the
reconciler's own steps, which are those of any Service's reconciliation and of a
restart, what has arrived does not leave.

`CounterKeepsUp` and the pipeline's theorems hold for any number of overrides,
of statuses, of pending events and of faults. Of `NoScheduleInvented` the set
`H` must have the empty schedule, which a TrafficSchedule without status is.

Only model-checked: all liveness (`ConfirmedRequestAnswered`,
`QueuedMessageSettles`, `CatchesUp`, `OverrideIsTransient`, `Converges`,
`StatusFollowsEngine`), which needs fairness and ENABLED, out of the prover's
reach. What of it is safety is proved: `StaysRight` of `Converges`,
`DroppedStaysDropped` of `CatchesUp` and `StatusFollowsEngine`, `FuturesAreFinal`
and the refinement of `ConfirmedRequestAnswered`. Nothing is stated of the
liveness of `SchedulePipeline`: the fairness of its parts is checked of the parts
alone. There is no induction over data
and no RECURSIVE operator in the project.

## 7. Abstractions worth knowing

- A request, its message and its correlation id are one identity.
- A schedule keeps its weights, which are drawn from when positive, and its
  deadlines. Payload, headers and bodies are left out; decoding failures are
  part of `GiveUp`.
- `Router` starts with an open connection; how it is opened is `RabbitInit`. A
  lost reply consumer is not made again before a restart, because `exchange`
  stays set and the reply `Queue` was built by hand, outside the robust channel.
- `Publish`, which reaches the broker, and `Confirm`, which the handler waits
  for, are separate; a channel that dies in between fails the request although
  its message may be delivered.
- `PodRestart` is one step. `main` closes the listening connection first and its
  tasks die some awaits later (`consumer.py:356-360`): that is `LinkDrop`, which
  leaves the tasks running, followed by `PodRestart`. `MaxDrops` bounds how often.
- `CacheStatus` lets a pod cache any status of `Flags` at any time; how a status
  gets there is `ScheduleManager`.
- `FlavourRouterController`: the API server fills in defaults, so the comparison
  of every kind but ScaledObjects is always unequal and the update is always
  sent; one that changes nothing makes no event but is still refused when the
  copy is old. A Deployment's retries on conflict read the same cache and are
  stutters. The 13 children are ensured in the code's order; a run picks some of
  them, one per way the code treats its kinds. A deleted Service is not created
  again (a new one has another UID).
- The ClusterRoleBinding has no namespace, so its events do not lead back to the
  Service and the garbage collector does not collect it: `Noticed` leaves it out,
  and once anybody else edits or deletes one (`tampered`) nothing is promised.
  `Clusterwide` objects are one for all Services of a name.
- Any of the cached TrafficSchedules may be the first of the list, at every
  reconciliation anew; within one it is the same. `ForgetsNothing` asks for
  objects made from one and the same TrafficSchedule, `Converges` for one
  specification in all of them.
- `LaggingCopy` says which values a copy may hold and in which order they come,
  not when: what is promised about time is `CatchesUp`, `BehindAMinuteAtMost`
  and `StatusFollowsEngine`.
- `SchedulePipeline` has one schedule manager. Others, of other pods, read the
  same object and touch nothing of it, so what holds of one holds of each.
- `TrafficScheduleController`: `DeepEqual` never finds a decoded `validUntil`
  equal to a parsed one (time zone pointers), so only the zero status counts as
  unchanged. What the CRD refuses (null `flavourRules` or `validUntil`) is
  `Unstorable` or `ZeroStatus`.

## 8. Not modelled

Operator entry point (wiring), API types, deepcopy and CRD (data and generated
code, but for the fields a status must have and those the controllers dereference),
helm charts and manifests (configuration), `carbonstat` (a demonstration target
without state), load generator, e2e tests and CI, Prometheus metrics other than
the engine's gauges (write-only), graceful shutdown beyond its effect (the
connections close).

## 9. Plan

Order of importance; the first eight are done.

1. Buffer service: `Broker`, `Router`, `Consumer`, `BufferService`, the abstract
   `RpcService` and the refinement. Proofs of all its safety properties.
2. `RabbitInit`, the assumption of `Router` that a connection is there, proved.
3. `ScheduleManager`, `DecisionEngine` with `ScheduleWeights`, proved.
4. `TrafficScheduleController` with the proof that polling never stops.
5. `FlavourRouterController`.
6. Two Services of one name that share a ClusterRoleBinding, several
   TrafficSchedules of which the first listed is used.
7. The pipeline of a schedule: `LaggingCopy`, its two refinements, their
   composition in `SchedulePipeline` and its theorems.
8. Proofs about the FlavourRouter controller: its types, `ForgetsNothing`,
   `CleanWhenQuiet`, `BindingIsThere`, `StaysRight`, `ScalingKept`.
9. The drop and repair of the connection composed with `RabbitInit`.
