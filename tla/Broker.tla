------------------------------- MODULE Broker -------------------------------
(***************************************************************************)
(* RabbitMQ, as router.py publishes to it and consumer.py consumes from    *)
(* it.  The broker itself is not part of the repository: this module holds *)
(* the state the two programs share through it and the effect of each      *)
(* AMQP call they make.                                                    *)
(*                                                                         *)
(* A request and the message that carries it have one identity, an element *)
(* of Req (the correlation id).  A message may be delivered several times; *)
(* <<m, n>> is its n-th delivery.                                          *)
(***************************************************************************)
EXTENDS Naturals, FiniteSets

CONSTANTS
  Req,              \* requests, hence messages
  Flavours,         \* the flavours the consumer declares queues for
  UnknownFlavour,   \* a flavour header no queue is bound to
  Pods,             \* consumer processes
  NoPod,
  MaxDeliveries,    \* bound: deliveries of one message
  MaxTtlMs          \* the broker refuses a larger expiration

ASSUME BrokerAssumption ==
  /\ UnknownFlavour \notin Flavours
  /\ NoPod \notin Pods
  /\ MaxDeliveries \in Nat
  /\ MaxTtlMs \in Nat

VARIABLES
  place,        \* where each message is
  tag,          \* how many times it has been delivered
  carrier,      \* the pod whose channel a delivery was made on, while its task runs
  route,        \* the q_type and flavour headers of each message
  ttl,          \* the broker's message TTL, in milliseconds
  age,          \* milliseconds since the request was published
  replies,      \* deliveries whose reply is on its way to the router
  replyReady    \* the router's channel is open and consumes the reply queue

brokerVars == <<place, tag, carrier, route, ttl, age, replies, replyReady>>

Deliveries == Req \X (1..MaxDeliveries)
QTypes     == {"direct", "queue"}
Queues     == QTypes \X Flavours
Places     == {"none", "ready", "unacked", "acked", "expired", "returned"}

BrokerTypeOK ==
  /\ place \in [Req -> Places]
  /\ tag \in [Req -> 0..MaxDeliveries]
  /\ carrier \in [Deliveries -> Pods \cup {NoPod}]
  /\ route \in [Req -> QTypes \X (Flavours \cup {UnknownFlavour})]
  /\ ttl \in [Req -> Nat]
  /\ age \in [Req -> Nat]
  /\ replies \subseteq Deliveries
  /\ replyReady \in BOOLEAN

BrokerInit ==
  /\ place = [m \in Req |-> "none"]
  /\ tag = [m \in Req |-> 0]
  /\ carrier = [d \in Deliveries |-> NoPod]
  /\ route = [m \in Req |-> <<"direct", UnknownFlavour>>]
  /\ ttl = [m \in Req |-> 0]
  /\ age = [m \in Req |-> 0]
  /\ replies = {}
  /\ replyReady = TRUE

\* The delivery the broker currently holds as unacknowledged.
Current(d) == place[d[1]] = "unacked" /\ tag[d[1]] = d[2]

\* Unacknowledged messages of queue q on the channel of pod p.
Unacked(p, q) ==
  {m \in Req : /\ place[m] = "unacked"
               /\ route[m] = q
               /\ carrier[<<m, tag[m]>>] = p}

\* basic.publish, mandatory: a message no queue is bound for is returned, and
\* the publisher's client library ignores the return.
Enqueue(m) ==
  place' = [place EXCEPT ![m] = IF route[m] \in Queues THEN "ready" ELSE "returned"]

\* basic.ack and basic.nack(requeue): they settle the delivery they name, and
\* do nothing once its channel is gone and the message was requeued.
AckDelivery(d) ==
  place' = [place EXCEPT ![d[1]] = IF Current(d) THEN "acked" ELSE @]

RequeueDelivery(d) ==
  place' = [place EXCEPT ![d[1]] = IF Current(d) THEN "ready" ELSE @]

\* The channel of pod p closes: all it had not settled goes back to its queue.
RequeueAll(p) ==
  place' = [m \in Req |-> IF place[m] = "unacked" /\ carrier[<<m, tag[m]>>] = p
                            THEN "ready" ELSE place[m]]

\* A message whose TTL has passed is dropped from its queue, never delivered.
Expire(m) ==
  /\ place[m] = "ready"
  /\ age[m] > ttl[m]
  /\ place' = [place EXCEPT ![m] = "expired"]
  /\ UNCHANGED <<tag, carrier, route, ttl, age, replies, replyReady>>
=============================================================================
