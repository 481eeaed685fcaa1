------------------------------ MODULE Consumer ------------------------------
(***************************************************************************)
(* buffer-service/consumer.py: each pod runs one worker per queue.  A      *)
(* worker subscribes to its queue and runs one task per delivery: wait for *)
(* the semaphore, forward the HTTP request with retries, publish the       *)
(* reply, acknowledge.                                                     *)
(***************************************************************************)
EXTENDS Broker

CONSTANTS
  Concurrency,   \* CONCURRENCY: tasks of one worker that hold its semaphore
  MaxRetries,    \* MAX_RETRIES: HTTP attempts of one task
  Flags,         \* the consumptionEnabled part of the statuses that may be cached
  MaxDrops       \* bound: drops of a consumer's connection

\* What the pods start with (utils.py), and what a status of the operator never
\* has: the API type's key is consumptionEnabled.
DefaultFlag == [consumption_enabled |-> TRUE]

ASSUME ConsumerAssumption ==
  /\ Concurrency \in Nat \ {0}
  /\ MaxRetries \in Nat \ {0}
  /\ \A s \in Flags : "consumption_enabled" \notin DOMAIN s
  /\ MaxDrops \in Nat

VARIABLES
  stage,        \* where the task of each delivery is
  attempts,     \* the HTTP attempts it has made
  executed,     \* requests the target service has executed, once or more
  replied,      \* requests a reply was published for
  subscribed,   \* <<p, q>>: the worker of pod p consumes buffer queue q
  cached,       \* the part of each pod's cached schedule its flag is in
  drops         \* connection drops so far

consumerVars == <<stage, attempts, executed, replied, subscribed, cached, drops>>

Prefetch == Concurrency * 2

Stages == {"none", "waiting", "forward", "reply", "ack", "stuck"}
Active == {"waiting", "forward", "reply", "ack"}
InSemaphore == {"forward", "reply", "ack"}

ConsumerTypeOK ==
  /\ stage \in [Deliveries -> Stages]
  /\ attempts \in [Deliveries -> 0..MaxRetries]
  /\ executed \subseteq Req
  /\ replied \subseteq Req
  /\ subscribed \subseteq Pods \X Queues
  /\ cached \in [Pods -> Flags \cup {DefaultFlag}]
  /\ drops \in 0..MaxDrops

ConsumerInit ==
  /\ stage = [d \in Deliveries |-> "none"]
  /\ attempts = [d \in Deliveries |-> 0]
  /\ executed = {}
  /\ replied = {}
  /\ subscribed = {}
  /\ cached = [p \in Pods |-> DefaultFlag]
  /\ drops = 0

-----------------------------------------------------------------------------
Pausable(q) == q[1] = "queue"

\* Tasks of the worker of pod p on queue q that are inside its semaphore.
Running(p, q) ==
  {d \in Deliveries : stage[d] \in InSemaphore /\ carrier[d] = p /\ route[d[1]] = q}

\* A direct worker consumes from the moment its pod runs, a buffer worker while
\* it is subscribed.
Consuming(p, q) == ~Pausable(q) \/ <<p, q>> \in subscribed

\* The task of delivery d is over: its locals are gone.
EndTask(d) ==
  /\ stage' = [stage EXCEPT ![d] = "none"]
  /\ attempts' = [attempts EXCEPT ![d] = 0]
  /\ carrier' = [carrier EXCEPT ![d] = NoPod]

\* TrafficScheduleManager.consumption_enabled: it asks for a key that only the
\* default has, and takes its absence for 1.  So it is always true, and what
\* consumer.py does when it is not (queue.cancel, and the nack inside the
\* semaphore) is out of reach: there are no actions for it here.
ConsumptionEnabled(s) ==
  "consumption_enabled" \in DOMAIN s => s.consumption_enabled

\* The buffer worker finds the flag on: queue.consume.
Subscribe(p, q) ==
  /\ <<p, q>> \notin subscribed
  /\ Pausable(q)
  /\ ConsumptionEnabled(cached[p])
  /\ subscribed' = subscribed \cup {<<p, q>>}
  /\ UNCHANGED <<brokerVars, stage, attempts, executed, replied, cached, drops>>

\* The broker hands a message to a subscribed worker that has prefetch credit;
\* the client library starts _on_message as a task.
Deliver(p, m) ==
  LET d == <<m, tag[m] + 1>> IN
  /\ place[m] = "ready"
  /\ Consuming(p, route[m])
  /\ Cardinality(Unacked(p, route[m])) < Prefetch
  /\ tag[m] < MaxDeliveries
  /\ age[m] <= ttl[m]
  /\ place' = [place EXCEPT ![m] = "unacked"]
  /\ tag' = [tag EXCEPT ![m] = @ + 1]
  /\ carrier' = [carrier EXCEPT ![d] = p]
  /\ stage' = [stage EXCEPT ![d] = "waiting"]
  /\ UNCHANGED <<route, ttl, age, replies, replyReady>>
  /\ UNCHANGED <<attempts, executed, replied, subscribed, cached, drops>>

SemaphoreFree(d) ==
  Cardinality(Running(carrier[d], route[d[1]])) < Concurrency

\* async with sem, on a direct queue or with the flag on: forward the request.
Begin(d) ==
  /\ stage[d] = "waiting"
  /\ SemaphoreFree(d)
  /\ Pausable(route[d[1]]) => ConsumptionEnabled(cached[carrier[d]])
  /\ stage' = [stage EXCEPT ![d] = "forward"]
  /\ UNCHANGED <<brokerVars, attempts, executed, replied, subscribed, cached, drops>>

\* One HTTP attempt of send_with_retry that got a status it does not retry.
HttpAnswered(d) ==
  /\ stage[d] = "forward"
  /\ executed' = executed \cup {d[1]}
  /\ stage' = [stage EXCEPT ![d] = "reply"]
  /\ UNCHANGED <<brokerVars, attempts, replied, subscribed, cached, drops>>

\* An attempt that failed: a retryable status (the target ran) or a network
\* error (it may have run).
MayExecute(d) == executed' \in {executed, executed \cup {d[1]}}

\* Mutant of HttpRetry: without the limit.
HttpRetryForever(d) ==
  /\ stage[d] = "forward"
  /\ attempts' = [attempts EXCEPT ![d] = @ + 1]
  /\ MayExecute(d)
  /\ UNCHANGED <<brokerVars, stage, replied, subscribed, cached, drops>>

\* It is tried again after the back-off ...
HttpRetry(d) ==
  /\ stage[d] = "forward"
  /\ attempts[d] + 1 < MaxRetries
  /\ attempts' = [attempts EXCEPT ![d] = @ + 1]
  /\ MayExecute(d)
  /\ UNCHANGED <<brokerVars, stage, replied, subscribed, cached, drops>>

\* Mutants of GiveUp: the message is acknowledged, not requeued; it is neither;
\* it is requeued and the task goes on to the reply.
GiveUpAcks(d) ==
  /\ stage[d] = "forward"
  /\ MayExecute(d)
  /\ EndTask(d)
  /\ AckDelivery(d)
  /\ UNCHANGED <<tag, route, ttl, age, replies, replyReady>>
  /\ UNCHANGED <<replied, subscribed, cached, drops>>

GiveUpDrops(d) ==
  /\ stage[d] = "forward"
  /\ MayExecute(d)
  /\ EndTask(d)
  /\ UNCHANGED <<place, tag, route, ttl, age, replies, replyReady>>
  /\ UNCHANGED <<replied, subscribed, cached, drops>>

GiveUpGoesOn(d) ==
  /\ stage[d] = "forward"
  /\ MayExecute(d)
  /\ stage' = [stage EXCEPT ![d] = "reply"]
  /\ RequeueDelivery(d)
  /\ UNCHANGED <<tag, carrier, route, ttl, age, replies, replyReady>>
  /\ UNCHANGED <<attempts, replied, subscribed, cached, drops>>

\* ... or was the last one, or failed in a way that is not retried: the message
\* is requeued, no reply is published.
GiveUp(d) ==
  /\ stage[d] = "forward"
  /\ MayExecute(d)
  /\ EndTask(d)
  /\ RequeueDelivery(d)
  /\ UNCHANGED <<tag, route, ttl, age, replies, replyReady>>
  /\ UNCHANGED <<replied, subscribed, cached, drops>>

\* The reply is published on a pooled channel; the broker drops it when the
\* router's channel is gone.
PublishReply(d) ==
  /\ stage[d] = "reply"
  /\ stage' = [stage EXCEPT ![d] = "ack"]
  /\ replied' = replied \cup {d[1]}
  /\ replies' = IF replyReady THEN replies \cup {d} ELSE replies
  /\ UNCHANGED <<place, tag, carrier, route, ttl, age, replyReady>>
  /\ UNCHANGED <<attempts, executed, subscribed, cached, drops>>

\* Publishing the reply raises: the task ends and settles nothing.
ReplyFails(d) ==
  /\ stage[d] = "reply"
  /\ stage' = [stage EXCEPT ![d] = "stuck"]
  /\ UNCHANGED <<brokerVars, attempts, executed, replied, subscribed, cached, drops>>

\* Mutant of Ack: the task ends without it.
AckForgotten(d) ==
  /\ stage[d] = "ack"
  /\ EndTask(d)
  /\ UNCHANGED <<place, tag, route, ttl, age, replies, replyReady>>
  /\ UNCHANGED <<executed, replied, subscribed, cached, drops>>

\* message.ack.
Ack(d) ==
  /\ stage[d] = "ack"
  /\ EndTask(d)
  /\ AckDelivery(d)
  /\ UNCHANGED <<tag, route, ttl, age, replies, replyReady>>
  /\ UNCHANGED <<executed, replied, subscribed, cached, drops>>

\* The schedule manager of pod p caches a status of the TrafficSchedule.
CacheStatus(p) ==
  /\ \E s \in Flags : cached' = [cached EXCEPT ![p] = s]
  /\ UNCHANGED <<brokerVars, stage, attempts, executed, replied, subscribed, drops>>

\* Pod p is gone: its connection is closed, its tasks are dead, and its
\* successor starts from the default schedule.  main closes the connection some
\* awaits before the tasks die: that is LinkDrop, and this step follows.
PodRestart(p) ==
  LET lost == {d \in Deliveries : carrier[d] = p} IN
  /\ RequeueAll(p)
  /\ stage' = [d \in Deliveries |-> IF d \in lost THEN "none" ELSE stage[d]]
  /\ attempts' = [d \in Deliveries |-> IF d \in lost THEN 0 ELSE attempts[d]]
  /\ carrier' = [d \in Deliveries |-> IF d \in lost THEN NoPod ELSE carrier[d]]
  /\ subscribed' = {s \in subscribed : s[1] # p}
  /\ cached' = [cached EXCEPT ![p] = DefaultFlag]
  /\ UNCHANGED <<tag, route, ttl, age, replies, replyReady, executed, replied, drops>>

\* The listening connection of pod p drops and is reopened with its consumers:
\* what was unacknowledged is requeued while its tasks run on.
LinkDrop(p) ==
  /\ drops < MaxDrops
  /\ drops' = drops + 1
  /\ RequeueAll(p)
  /\ UNCHANGED <<tag, carrier, route, ttl, age, replies, replyReady>>
  /\ UNCHANGED <<stage, attempts, executed, replied, subscribed, cached>>

\* The task of one delivery.
Task(d) ==
  \/ Begin(d) \/ HttpAnswered(d) \/ HttpRetry(d) \/ GiveUp(d)
  \/ PublishReply(d) \/ ReplyFails(d) \/ Ack(d)

ConsumerNext ==
  \/ \E d \in Deliveries : Task(d)
  \/ \E p \in Pods :
       \/ \E q \in Queues : Subscribe(p, q)
       \/ \E m \in Req : Deliver(p, m)
       \/ CacheStatus(p) \/ PodRestart(p) \/ LinkDrop(p)
=============================================================================
