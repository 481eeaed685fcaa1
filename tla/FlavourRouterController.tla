---------------------- MODULE FlavourRouterController -----------------------
(***************************************************************************)
(* operator/internal/controller/flavourrouter_controller.go: for every     *)
(* Service with the enable label it creates and repairs the buffer         *)
(* service's objects in order, and deletes them when the label goes.  It   *)
(* reads through the informers' caches, which lag behind the API server;   *)
(* writes go to the API server, which refuses those made from an old copy. *)
(* One worker serves all Services; what Services share is the worker, the  *)
(* TrafficSchedules and, when they have the same name in different         *)
(* namespaces, a ClusterRoleBinding.                                       *)
(***************************************************************************)
EXTENDS Naturals, Sequences, WorkQueue

CONSTANTS
  Services,         \* the Services, each in its namespace
  NameOf,           \* their names, without the namespace
  TSNames,          \* the TrafficSchedules there may be
  Children,         \* which of the objects of Ensured are looked at
  Specs,            \* specifications a TrafficSchedule may have
  NoCpu,            \* those that leave cpuUtilization out
  Absent,           \* an object that does not exist
  MaxReplicas,      \* bound: what a Deployment is scaled to
  MaxDisturbances,  \* bound: what others do to the objects, and restarts
  MaxFailures       \* bound: API calls that fail

\* The objects in the order Reconcile ensures them: the ServiceAccount and the
\* ClusterRoleBinding, Deployment and Service of router and consumer, the
\* ScaledObjects, DestinationRule and VirtualService.
Ensured == <<"sa", "crb", "router", "routerSvc", "consumer", "consumerSvc",
             "routerSO", "consumerSO", "highSO", "midSO", "lowSO", "dr", "vs">>

\* The order cleanupResources deletes them in.
Cleaned == <<"vs", "dr", "highSO", "midSO", "lowSO", "consumerSO", "routerSO",
             "router", "routerSvc", "consumer", "consumerSvc", "sa", "crb">>

ControllerAssumption ==
  /\ DOMAIN NameOf = Services
  /\ Children \subseteq {Ensured[i] : i \in DOMAIN Ensured}
  /\ NoCpu \subseteq Specs
  /\ (Specs \cup Services) \cap {"fixed", "edited", Absent} = {}
  /\ Specs \cap Services = {}
  /\ Absent \notin {"on", "off"}
  /\ Absent \notin [from : Specs \cup Services \cup {"fixed", "edited"}, replicas : 0..MaxReplicas]
  /\ MaxReplicas \in Nat \ {0} /\ MaxDisturbances \in Nat /\ MaxFailures \in Nat

ASSUME ControllerAssumption

Deployments   == {"router", "consumer"} \cap Children
ScaledObjects == {"routerSO", "consumerSO", "highSO", "midSO", "lowSO"} \cap Children
Scheduled     == Deployments \cup ScaledObjects   \* made from the TrafficSchedule
CreateOnly    == {"sa", "crb"} \cap Children      \* never updated
Clusterwide   == {"crb"} \cap Children

\* Mutant of Deletable: the ClusterRole grants every deletion that is tried.
DeletableAll == Children

\* The kinds whose deletion the operator's ClusterRole grants (kubebuilder
\* markers, config/rbac/role.yaml).
Deletable == ScaledObjects \cup ({"dr", "vs"} \cap Children)

\* An object's key: its kind and whose it is.  An object of the whole cluster
\* has a name made from the Service's only.
Svc(s)      == <<"svc", s>>
TS(t)       == <<"ts", t>>
Child(c, s) == <<c, IF c \in Clusterwide THEN NameOf[s] ELSE s>>

SvcKeys  == {Svc(s) : s \in Services}
TSKeys   == {TS(t) : t \in TSNames}
KeysOf(c) == {Child(c, s) : s \in Services}
Objects  == SvcKeys \cup TSKeys \cup UNION {KeysOf(c) : c \in Children}

VARIABLES
  world,      \* the objects, at the API server
  cache,      \* the objects, as the informers have them
  stale,      \* the objects with events the informers have not received
  queue,      \* the work queue, for each Service's key
  run,        \* the reconciliation in progress
  tampered,   \* has somebody changed a ClusterRoleBinding? (history)
  disturbed,  \* what others did so far
  failed      \* how many API calls failed so far

vars == <<world, cache, stale, queue, run, tampered, disturbed, failed>>

\* What an object was made from: a specification, the Service whose
\* ServiceAccount a binding names, nothing that varies, or somebody's edit.
Contents == [from : Specs \cup Services \cup {"fixed", "edited"}, replicas : 0..MaxReplicas]

\* A call of Reconcile: what it does for which Service, the objects it has still
\* to ensure or to delete, and its tsSpec.
Runs ==
  [mode : {"ensure", "clean"}, svc : Services, left : SUBSET Children,
   tsSpec : Specs \cup {Absent}]

Idle == [mode |-> "idle"]

IsCopy(w) ==
  /\ DOMAIN w = Objects
  /\ \A o \in SvcKeys : w[o] \in {"on", "off", Absent}
  /\ \A o \in TSKeys : w[o] \in Specs \cup {Absent}
  /\ \A c \in Children : \A o \in KeysOf(c) : w[o] \in Contents \cup {Absent}

TypeOK ==
  /\ IsCopy(world) /\ IsCopy(cache)
  /\ stale \subseteq Objects
  /\ \A o \in Objects \ stale : cache[o] = world[o]
  /\ queue \in [Services -> WorkQueueType]
  /\ run \in Runs \cup {Idle}
  /\ \A s \in Services : queue[s].busy <=> run # Idle /\ run.svc = s
  /\ tampered \in BOOLEAN
  /\ disturbed \in 0..MaxDisturbances
  /\ failed \in 0..MaxFailures

\* What the watches enqueue for the objects found at the start: the Service if
\* it has the label (then any TrafficSchedule does too), or if it owns an object.
Listed(w, s) ==
  \/ w[Svc(s)] = "on"
  \/ \E c \in Children \ Clusterwide : w[Child(c, s)] # Absent

Init ==
  /\ \E label \in [Services -> {"on", "off", Absent}],
        ts \in [TSNames -> Specs \cup {Absent}] :
       world = [o \in Objects |-> IF o \in SvcKeys THEN label[o[2]]
                                  ELSE IF o \in TSKeys THEN ts[o[2]] ELSE Absent]
  /\ cache = world
  /\ stale = {}
  /\ queue = [s \in Services |-> AddedIf(Empty, Listed(world, s))]
  /\ run = Idle
  /\ tampered = FALSE
  /\ disturbed = 0
  /\ failed = 0

-----------------------------------------------------------------------------
(* The watches.                                                            *)

Labelled(w) == {s \in Services : w[Svc(s)] = "on"}

\* Mutant of SvcPred: it asks for the new label only.
SvcPredNew(o) == {o[2]} \cap Labelled(world)

\* The label before or after; a Service whose copies are the same lost its label
\* and got it back, or the reverse.
SvcPred(o) == {s \in {o[2]} : "on" \in {cache[o], world[o]} \/ cache[o] = world[o]}

\* Mutant of MapTS: one of them.
MapTSFirst == {s \in Labelled(cache) : s = CHOOSE first \in Labelled(cache) : TRUE}

\* Every Service that has the label, as the cache has it.
MapTS == Labelled(cache)

\* Mutant of Owners: the owned objects are not watched.
OwnersUnwatched(o) == {}

\* An object's owner is looked for in the object's own namespace: there is none
\* for an object of the whole cluster.
Owners(o) == {s \in Services : \E c \in Children \ Clusterwide : o = Child(c, s)}

\* The Services that the events which bring cache[o] up to date enqueue.
Notices(o) ==
  CASE o \in SvcKeys -> SvcPred(o) [] o \in TSKeys -> MapTS [] OTHER -> Owners(o)

Enqueues(noticed) == queue' = [s \in Services |-> AddedIf(queue[s], s \in noticed)]

Watch(o) ==
  /\ o \in stale
  /\ stale' = stale \ {o}
  /\ cache' = [cache EXCEPT ![o] = world[o]]
  /\ Enqueues(Notices(o))
  /\ UNCHANGED <<world, run, tampered, disturbed, failed>>

\* The API server has the object's new state; the watches lag behind.  Writing
\* what is there already makes no event.
Writes(o, new) ==
  /\ world' = [world EXCEPT ![o] = new]
  /\ stale' = IF new = world[o] THEN stale ELSE stale \cup {o}

\* A requeue or a back-off is over.
Fire(s) ==
  /\ queue[s].later
  /\ queue' = [queue EXCEPT ![s] = Fired(@)]
  /\ UNCHANGED <<world, cache, stale, run, tampered, disturbed, failed>>

-----------------------------------------------------------------------------
(* Reconcile.                                                              *)

\* The worker, when it has nothing else to do, gets the Service's key.
Begin(s) ==
  /\ run = Idle
  /\ CanGet(queue[s])
  /\ UNCHANGED <<world, cache, stale, tampered, disturbed, failed>>

NoTrafficSchedule == \A t \in TSNames : cache[TS(t)] = Absent

\* The Service is gone; without a TrafficSchedule the key comes back after
\* defaultRequeue.
BeginNothing(s) ==
  /\ Begin(s)
  /\ cache[Svc(s)] = Absent \/ (cache[Svc(s)] = "on" /\ NoTrafficSchedule)
  /\ queue' = [queue EXCEPT ![s] = Done(Got(@), cache[Svc(s)] = "on")]
  /\ UNCHANGED run

\* Mutant of BeginCleanup: what the label says does not matter.
BeginCleanupAnyway(s) ==
  /\ Begin(s)
  /\ cache[Svc(s)] # Absent
  /\ queue' = [queue EXCEPT ![s] = Got(@)]
  /\ run' = [mode |-> "clean", svc |-> s, left |-> Children, tsSpec |-> Absent]

BeginCleanup(s) ==
  /\ Begin(s)
  /\ cache[Svc(s)] = "off"
  /\ queue' = [queue EXCEPT ![s] = Got(@)]
  /\ run' = [mode |-> "clean", svc |-> s, left |-> Children, tsSpec |-> Absent]

\* The first of the cached TrafficSchedules, whose order is that of a Go map.
BeginEnsure(s) ==
  /\ Begin(s)
  /\ cache[Svc(s)] = "on"
  /\ queue' = [queue EXCEPT ![s] = Got(@)]
  /\ \E t \in TSNames :
       /\ cache[TS(t)] # Absent
       /\ run' = [mode |-> "ensure", svc |-> s, left |-> Children, tsSpec |-> cache[TS(t)]]

\* Mutant of Return: the key is not released.
ReturnBusy(again) ==
  /\ run' = Idle
  /\ queue' = [queue EXCEPT ![run.svc].later = @ \/ again]

\* The reconciliation returns, and asks for another one or not.
Return(again) ==
  /\ run' = Idle
  /\ queue' = [queue EXCEPT ![run.svc] = Done(@, again)]

\* An error, or a panic that controller-runtime recovers, backs off.
\* Mutant: the error is swallowed.
FailSwallowed == Return(FALSE)
Fail == Return(TRUE)

\* Reconcile or cleanupResources is done with c.
Advance(c) == run' = [run EXCEPT !.left = @ \ {c}] /\ UNCHANGED queue

\* d comes before c.
Before(order, d, c) ==
  \E j \in DOMAIN order : order[j] = c /\ \E i \in 1..(j - 1) : order[i] = d

\* Reconcile is at the ensure call, or cleanupResources at the Delete, of c.
At(mode, order, c) ==
  /\ run.mode = mode
  /\ c \in run.left
  /\ \A d \in run.left : ~Before(order, d, c)

Ensures(c) == At("ensure", Ensured, c)
Current(c) == Child(c, run.svc)

\* What the code would create: a Deployment starts with one replica.
Wanted(c) ==
  [from     |-> IF c \in Scheduled THEN run.tsSpec
                ELSE IF c \in Clusterwide THEN run.svc ELSE "fixed",
   replicas |-> IF c \in Deployments THEN 1 ELSE 0]

\* formatting the CPU trigger dereferences a nil pointer.
Panics(c) == c \in ScaledObjects /\ run.tsSpec \in NoCpu

\* The comparison that decides on an update.  Only a ScaledObject can compare
\* equal: what the API server returns of the other kinds has its defaults filled
\* in (or the state of a decoded protobuf message), what the code made has not.
Differs(c) ==
  /\ cache[Current(c)] # Absent
  /\ c \notin CreateOnly
  /\ c \in ScaledObjects => cache[Current(c)].from # Wanted(c).from

EnsurePanics(c) ==
  /\ Ensures(c) /\ Panics(c)
  /\ Fail
  /\ UNCHANGED <<world, cache, stale, tampered, disturbed, failed>>

EnsureSkips(c) ==
  /\ Ensures(c) /\ ~Panics(c)
  /\ cache[Current(c)] # Absent /\ ~Differs(c)
  /\ Advance(c)
  /\ UNCHANGED <<world, cache, stale, tampered, disturbed, failed>>

EnsureCreates(c) ==
  /\ Ensures(c) /\ ~Panics(c)
  /\ cache[Current(c)] = Absent /\ world[Current(c)] = Absent
  /\ Writes(Current(c), Wanted(c))
  /\ Advance(c)
  /\ UNCHANGED <<cache, tampered, disturbed, failed>>

\* Mutant of EnsureUpdates: the copy's resourceVersion is not sent.
EnsureOverwrites(c) ==
  /\ Ensures(c) /\ ~Panics(c)
  /\ Differs(c) /\ world[Current(c)] # Absent
  /\ Writes(Current(c), [Wanted(c) EXCEPT !.replicas = cache[Current(c)].replicas])
  /\ Advance(c)
  /\ UNCHANGED <<cache, tampered, disturbed, failed>>

\* The copy that is changed and sent back keeps a Deployment's replicas; the
\* API server takes it because it is no older than the object.
EnsureUpdates(c) ==
  /\ Ensures(c) /\ ~Panics(c)
  /\ Differs(c) /\ Current(c) \notin stale
  /\ Writes(Current(c), [Wanted(c) EXCEPT !.replicas = cache[Current(c)].replicas])
  /\ Advance(c)
  /\ UNCHANGED <<cache, tampered, disturbed, failed>>

\* AlreadyExists, Conflict or NotFound: the copy was too old.  A Deployment's
\* update is tried again first, which changes nothing until the copy is newer.
EnsureRefused(c) ==
  /\ Ensures(c) /\ ~Panics(c)
  /\ IF cache[Current(c)] = Absent THEN world[Current(c)] # Absent
     ELSE Differs(c) /\ Current(c) \in stale
  /\ Fail
  /\ UNCHANGED <<world, cache, stale, tampered, disturbed, failed>>

\* The call fails without effect.
EnsureFails(c) ==
  /\ Ensures(c) /\ ~Panics(c)
  /\ cache[Current(c)] = Absent \/ Differs(c)
  /\ failed < MaxFailures
  /\ failed' = failed + 1
  /\ Fail
  /\ UNCHANGED <<world, cache, stale, tampered, disturbed>>

\* Everything is in place.  With a validUntil the delay is the time left, which
\* is zero, no requeue, when it has passed; without one there is none either.
\* Which of these is the case is left open.
EnsureEnds ==
  /\ run.mode = "ensure"
  /\ run.left = {}
  /\ \E ahead \in BOOLEAN : Return(ahead)
  /\ UNCHANGED <<world, cache, stale, tampered, disturbed, failed>>

Ensure(c) ==
  \/ EnsurePanics(c) \/ EnsureSkips(c) \/ EnsureCreates(c) \/ EnsureUpdates(c)
  \/ EnsureRefused(c) \/ EnsureFails(c)

-----------------------------------------------------------------------------
(* cleanupResources: every error is logged and the next object is tried.   *)

Cleans(c) == At("clean", Cleaned, c)

CleanDeletes(c) ==
  /\ Cleans(c)
  /\ IF c \in Deletable /\ world[Current(c)] # Absent
     THEN Writes(Current(c), Absent)
     ELSE UNCHANGED <<world, stale>>
  /\ Advance(c)
  /\ UNCHANGED <<cache, tampered, disturbed, failed>>

CleanFails(c) ==
  /\ Cleans(c) /\ c \in Deletable /\ world[Current(c)] # Absent
  /\ failed < MaxFailures
  /\ failed' = failed + 1
  /\ Advance(c)
  /\ UNCHANGED <<world, cache, stale, tampered, disturbed>>

CleanEnds ==
  /\ run.mode = "clean"
  /\ run.left = {}
  /\ Return(FALSE)
  /\ UNCHANGED <<world, cache, stale, tampered, disturbed, failed>>

Clean(c) == CleanDeletes(c) \/ CleanFails(c)

Begins(s) == BeginNothing(s) \/ BeginCleanup(s) \/ BeginEnsure(s)

\* The worker's steps for one Service.
Reconcile(s) ==
  \/ Begins(s)
  \/ /\ run # Idle /\ run.svc = s
     /\ (\E c \in Children : Ensure(c) \/ Clean(c)) \/ EnsureEnds \/ CleanEnds

-----------------------------------------------------------------------------
(* Everybody else.                                                         *)

Disturbs ==
  /\ disturbed < MaxDisturbances
  /\ disturbed' = disturbed + 1
  /\ UNCHANGED failed

Changes(o, new) ==
  /\ Writes(o, new)
  /\ UNCHANGED <<cache, queue, run>>

\* A Service is labelled, unlabelled or deleted; a new one of its name is
\* another Service.
ServiceChanges(s) ==
  /\ Disturbs
  /\ world[Svc(s)] # Absent
  /\ \E new \in {"on", "off", Absent} \ {world[Svc(s)]} : Changes(Svc(s), new)
  /\ UNCHANGED tampered

TrafficScheduleChanges(t) ==
  /\ Disturbs
  /\ \E new \in (Specs \cup {Absent}) \ {world[TS(t)]} : Changes(TS(t), new)
  /\ UNCHANGED tampered

\* The other controller writes the status, once a minute: an event for every
\* labelled Service.
TrafficScheduleRenewed(t) ==
  /\ world[TS(t)] # Absent /\ TS(t) \notin stale
  /\ Enqueues(Notices(TS(t)))
  /\ UNCHANGED <<world, cache, stale, run, tampered, disturbed, failed>>

\* KEDA or the autoscaler sets a Deployment's replicas.
Scaled(o) ==
  /\ Disturbs
  /\ world[o] # Absent
  /\ \E n \in 0..MaxReplicas \ {world[o].replicas} :
       Changes(o, [world[o] EXCEPT !.replicas = n])
  /\ UNCHANGED tampered

\* Somebody edits or deletes an object.
Edited(c, o) ==
  /\ Disturbs
  /\ world[o] # Absent
  /\ \E new \in {[world[o] EXCEPT !.from = "edited"], Absent} :
       new # world[o] /\ Changes(o, new)
  /\ tampered' = (tampered \/ c \in Clusterwide)

\* The garbage collector deletes what a deleted Service owned in its namespace.
Collected(c, s) ==
  /\ world[Svc(s)] = Absent /\ c \notin Clusterwide /\ world[Child(c, s)] # Absent
  /\ Changes(Child(c, s), Absent)
  /\ UNCHANGED <<tampered, disturbed, failed>>

\* The operator restarts: the queue is lost, the caches are filled anew.
Restart ==
  /\ Disturbs
  /\ cache' = world
  /\ stale' = {}
  /\ queue' = [s \in Services |-> AddedIf(Empty, Listed(world, s))]
  /\ run' = Idle
  /\ UNCHANGED <<world, tampered>>

Others ==
  \/ \E s \in Services : ServiceChanges(s)
  \/ \E t \in TSNames : TrafficScheduleChanges(t) \/ TrafficScheduleRenewed(t)
  \/ \E d \in Deployments : \E o \in KeysOf(d) : Scaled(o)
  \/ \E c \in Children : \E o \in KeysOf(c) : Edited(c, o)
  \/ \E c \in Children, s \in Services : Collected(c, s)
  \/ Restart

Next ==
  \/ \E o \in Objects : Watch(o)
  \/ \E s \in Services : Fire(s) \/ Reconcile(s)
  \/ Others

Spec == Init /\ [][Next]_vars

\* The watches deliver, timers fire, the worker goes on, its queue is first-in
\* first-out so that it comes to every waiting key, and the garbage collector
\* collects.  Nothing is assumed of those who disturb.
FairSpec ==
  /\ Spec
  /\ \A o \in Objects : WF_vars(Watch(o))
  /\ \A s \in Services : WF_vars(Fire(s)) /\ SF_vars(Reconcile(s))
  /\ \A c \in Children, s \in Services : WF_vars(Collected(c, s))

-----------------------------------------------------------------------------
(* Properties.                                                             *)

\* The controller knows all there is to know, and nothing is left to be done.
Quiet == stale = {} /\ \A s \in Services : ~Awake(queue[s])

\* The objects whose disappearance the controller hears of.
Noticed == Children \ Clusterwide

Right(c, s, spec) ==
  LET object == world[Child(c, s)]
  IN  /\ object # Absent
      /\ c \in Scheduled => object.from = spec
      /\ c \notin Scheduled \cup CreateOnly => object.from = "fixed"

\* No event, error or restart is lost, and no Service is forgotten over another:
\* when the controller goes quiet there is a TrafficSchedule for every Service
\* with the label, and all objects it hears of are there and as this one
\* TrafficSchedule wants them.
ForgetsNothing ==
  Quiet =>
    \A s \in Labelled(world) : \E t \in TSNames :
      /\ world[TS(t)] # Absent
      /\ \A c \in Noticed : Right(c, s, world[TS(t)])

\* When the controller goes quiet on a Service without the label, what it may
\* delete is deleted, although the label may go while objects are created.
\* (Once a call has failed this does not hold: cleanupResources swallows errors.)
CleanWhenQuiet ==
  failed = 0 /\ Quiet =>
    \A s \in Services : world[Svc(s)] = "off" =>
      \A c \in Deletable : world[Child(c, s)] = Absent

\* As long as nobody else touches the bindings, a Service with the label finds
\* one when the controller goes quiet, made for it or for a Service of its name
\* in another namespace: the one the binding was made for may go, be cleaned up
\* or be collected and the binding stays (nobody would hear of its deletion).
BindingIsThere ==
  Quiet /\ ~tampered =>
    \A s \in Labelled(world), c \in Clusterwide :
      /\ world[Child(c, s)] # Absent
      /\ \E t \in Services : NameOf[t] = NameOf[s] /\ world[Child(c, s)].from = t

\* The controller never changes the replicas of a Deployment, whatever it read
\* before they were set ("manteniamo le Replicas attuali").
ScalingKept ==
  [][\A d \in Deployments : \A o \in KeysOf(d) :
       world[o] # Absent /\ world'[o] # Absent /\ disturbed' = disturbed =>
         world'[o].replicas = world[o].replicas]_vars

\* The objects of a Service with the label are as the one specification there is
\* wants them, and controller and informers have heard of label and specification.
Arrived(s, spec) ==
  /\ world[Svc(s)] = "on" /\ cache[Svc(s)] = "on"
  /\ \A o \in TSKeys : {world[o], cache[o]} \subseteq {spec, Absent}
  /\ queue[s].busy => run.mode = "ensure" /\ run.tsSpec = spec
  /\ \A c \in Noticed : Right(c, s, spec)

\* What is right stays right under whatever the controller does, restarts included:
\* its updates, which it always sends for most kinds, its errors and panics, and
\* what it does for other Services at the same time.
StaysRight ==
  [][\A s \in Services, spec \in Specs :
       Arrived(s, spec) /\ (disturbed' = disturbed \/ Restart) => Arrived(s, spec)']_vars

\* Once a Service keeps its label and all TrafficSchedules have one
\* specification, its objects become right and stay right.
Converges ==
  \A s \in Services, spec \in Specs \ NoCpu :
    <>[](/\ s \in Labelled(world)
         /\ {world[o] : o \in TSKeys} # {Absent}
         /\ \A o \in TSKeys : world[o] \in {spec, Absent})
      => <>[](\A c \in Noticed : Right(c, s, spec))

\* "Service no longer has Carbonshift enable label, cleaning up resources":
\* a Service that stays without the label loses all its objects.
LabelGoneObjectsGone ==
  \A s \in Services :
    <>[](world[Svc(s)] = "off") => <>[](\A c \in Children : world[Child(c, s)] = Absent)

-----------------------------------------------------------------------------
(* The inductive invariant: what is still to come for a Service, be it an  *)
(* event of its own, its key in the queue, or the part of the              *)
(* reconciliation in progress that lies ahead.                             *)

\* Nothing that is known already brings the Service's key back.
Settled(s) == Svc(s) \notin stale /\ ~queue[s].dirty /\ ~queue[s].later

\* The reconciliation in progress is the Service's and has c ahead of it.
Ahead(c, s) == queue[s].busy /\ c \in run.left

\* A reconciliation that ensures has a specification to make the objects from.
RunHasSpec == run.mode = "ensure" => run.tsSpec \in Specs

\* A Service that is gone does not come back.
GoneForGood(s) == cache[Svc(s)] = Absent => world[Svc(s)] = Absent

\* The reconciliation in progress does what the label asks for, as the informer
\* has it, or the key has been queued again.
ModeTells(s) ==
  queue[s].busy /\ ~queue[s].dirty => (run.mode = "ensure" <=> cache[Svc(s)] = "on")

\* What is left of a Service without the label is about to be deleted.
CleanupAhead(s) ==
  failed = 0 /\ world[Svc(s)] = "off" /\ Settled(s) =>
    \A c \in Deletable : world[Child(c, s)] # Absent => Ahead(c, s)

\* A binding names the ServiceAccount of the Service or of one of its name, one
\* the informer has stays, and one that a Service with the label misses is about
\* to be created,
Bound(c, s) ==
  /\ world[Child(c, s)] # Absent =>
       \E t \in Services : NameOf[t] = NameOf[s] /\ world[Child(c, s)].from = t
  /\ cache[Child(c, s)] # Absent => world[Child(c, s)] # Absent
  /\ world[Svc(s)] = "on" /\ Settled(s) /\ world[Child(c, s)] = Absent => Ahead(c, s)

\* as long as nobody else touches the bindings.
BindingAhead(s) == ~tampered => \A c \in Clusterwide : Bound(c, s)

\* A TrafficSchedule, as the informer has it, is the one the Service's objects
\* are made from: they are as it wants them, or an event tells that they are not,
\* or the reconciliation in progress, which uses it, comes to them.
Serves(t, s) ==
  /\ cache[TS(t)] # Absent
  /\ queue[s].busy => run.tsSpec = cache[TS(t)]
  /\ \A c \in Noticed : Ahead(c, s) \/ Child(c, s) \in stale \/ Right(c, s, cache[TS(t)])

\* One does when the Service has the label and nothing else is to come for it.
ObjectsAhead(s) == world[Svc(s)] = "on" /\ Settled(s) => \E t \in TSNames : Serves(t, s)

Types == TypeOK /\ RunHasSpec

\* The types, and what is still to come for every Service.
IndInv ==
  /\ Types
  /\ \A s \in Services :
       GoneForGood(s) /\ ModeTells(s) /\ CleanupAhead(s) /\ BindingAhead(s) /\ ObjectsAhead(s)
=============================================================================
