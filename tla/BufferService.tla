--------------------------- MODULE BufferService ----------------------------
(***************************************************************************)
(* The buffer service: the router, the consumer pods and the broker        *)
(* between them.  Requests travel router -> queue -> consumer -> target,   *)
(* replies travel consumer -> reply queue -> router.                       *)
(***************************************************************************)
EXTENDS Router, Consumer

vars == <<brokerVars, routerVars, consumerVars>>

Init == BrokerInit /\ RouterInit /\ ConsumerInit

RouterStep   == RouterNext /\ UNCHANGED consumerVars
ConsumerStep == ConsumerNext /\ UNCHANGED routerVars
BrokerStep   == \E m \in Req : Expire(m) /\ UNCHANGED <<routerVars, consumerVars>>

Next == RouterStep \/ ConsumerStep \/ BrokerStep

Spec == Init /\ [][Next]_vars

-----------------------------------------------------------------------------
(* Fairness.  Clients and faults are under none, and neither is what a      *)
(* program awaits from the broker without a timeout: the router's exchange  *)
(* and confirm, the consumer's confirm of a reply.  The event loop runs     *)
(* every task that is ready (weak fairness); asyncio.Semaphore wakes its    *)
(* waiters in order (strong fairness to enter it); timers fire; the broker  *)
(* delivers to a worker with credit and drops expired messages.             *)

\* The steps of a handler once it waits for the reply.
HandlerRuns(r) ==
  /\ Respond(r) \/ TimeoutCancel(r) \/ TimeoutPop(r)
  /\ UNCHANGED consumerVars

\* The steps of a task that do not wait for the broker.
TaskRuns(d) ==
  /\ Begin(d) \/ HttpAnswered(d) \/ HttpRetry(d) \/ GiveUp(d) \/ Ack(d)
  /\ UNCHANGED routerVars

RouterFairness ==
  /\ \A r \in Req : WF_vars(HandlerRuns(r))
  /\ \A r \in Req : WF_vars(Tick(r) /\ UNCHANGED consumerVars)
  /\ \A d \in Deliveries : WF_vars(OnReply(d) /\ UNCHANGED consumerVars)

ConsumerFairness ==
  /\ \A d \in Deliveries : WF_vars(TaskRuns(d))
  /\ \A d \in Deliveries : SF_vars(Begin(d) /\ UNCHANGED routerVars)
  /\ \A p \in Pods, q \in Queues : WF_vars(Subscribe(p, q) /\ UNCHANGED routerVars)

BrokerFairness ==
  \A m \in Req :
    /\ WF_vars(Expire(m) /\ UNCHANGED <<routerVars, consumerVars>>)
    /\ WF_vars((\E p \in Pods : Deliver(p, m)) /\ UNCHANGED routerVars)

FairSpec == Spec /\ RouterFairness /\ ConsumerFairness /\ BrokerFairness

-----------------------------------------------------------------------------
TypeOK == BrokerTypeOK /\ RouterTypeOK /\ ConsumerTypeOK

\* A message leaves its queue as acknowledged only after a reply to it was
\* published: forward_and_reply acknowledges last, so a crash, a failed reply
\* or a dropped connection costs a second delivery, never the message.
AckOnlyAfterReply == \A m \in Req : place[m] = "acked" => m \in replied

\* A handler whose future can still be set is registered in pending, so no
\* reply that arrives during its awaits misses it.
NoLostWakeup ==
  \A r \in Req :
    phase[r] \in {"publish", "confirm", "wait"} /\ future[r] = "waiting" => r \in pending

\* pending holds no request that was answered, except one whose publish raised
\* (router.py registers before it publishes and has no clean-up on that path).
LeaksOnlyOnError ==
  \A r \in pending : phase[r] = "done" => response[r] = "error"

\* An unacknowledged message always belongs to a live task that will settle it,
\* or to one whose reply could not be published: no early return, failure or
\* restart strands a message.
UnackedHasOwner ==
  \A m \in Req :
    place[m] = "unacked" => stage[<<m, tag[m]>>] \in Active \cup {"stuck"}

\* As long as no consumer connection has dropped, at most one task in all pods
\* works on a message.
ExclusiveHandling ==
  drops = 0 =>
    \A d, e \in Deliveries :
      d[1] = e[1] /\ stage[d] \in Active /\ stage[e] \in Active => d = e

\* A future is settled once: neither a late reply nor a duplicate one changes
\* a future that was set or cancelled (_on_reply's done() check).
FutureSettledOnce ==
  [][\A r \in Req : future[r] \in {"set", "cancelled"} => future'[r] = future[r]]_vars

-----------------------------------------------------------------------------
(* What makes these invariants inductive.                                    *)

\* Before its publish, a request has no message and no task.
Unpublished ==
  \A m \in Req : phase[m] \in {"idle", "publish"} =>
    /\ place[m] = "none"
    /\ \A d \in Deliveries : d[1] = m => stage[d] = "none"

\* An unacknowledged message has been delivered.
UnackedDelivered == \A m \in Req : place[m] = "unacked" => tag[m] > 0

\* A task past the HTTP call has executed its request; past the publish, its
\* reply is recorded.
TaskProgress ==
  \A d \in Deliveries :
    /\ stage[d] \in {"reply", "ack", "stuck"} => d[1] \in executed
    /\ stage[d] = "ack" => d[1] \in replied

\* A reply on its way, and a future that took one, come from an execution; the
\* future's entry is gone.
ReplyProgress ==
  /\ \A d \in replies : d[1] \in executed
  /\ \A r \in Req : future[r] = "set" => r \in executed /\ r \notin pending

\* Without a connection drop a task works on the broker's current delivery.
TasksAreCurrent ==
  drops = 0 => \A d \in Deliveries : stage[d] \in Active => Current(d)

\* A task that still runs has an attempt to make.
AttemptsLeft ==
  \A d \in Deliveries : attempts[d] < MaxRetries

IndInv ==
  /\ TypeOK
  /\ AckOnlyAfterReply /\ NoLostWakeup /\ LeaksOnlyOnError /\ UnackedHasOwner
  /\ Unpublished /\ UnackedDelivered /\ TaskProgress /\ ReplyProgress
  /\ TasksAreCurrent /\ AttemptsLeft

-----------------------------------------------------------------------------
\* What the clients see implements RpcService.
status == [r \in Req |-> CASE phase[r] = "idle" -> "idle"
                           [] phase[r] = "done" -> response[r]
                           [] OTHER             -> "open"]

Rpc == INSTANCE RpcService WITH Req <- Req, status <- status, executed <- executed

ImplementsRpcService == Rpc!Spec

\* A request whose publish the broker confirmed is answered: by the reply, the
\* deadline, or the end of the router, whatever becomes of the reply, of its
\* queue and of the connection (the handler's wait_for).  Before the confirm
\* nothing is promised: get_exchange and publish have no timeout.
ConfirmedRequestAnswered ==
  \A r \in Req : phase[r] = "wait" ~> phase[r] = "done"

\* A queued message does not circulate or wait for ever: it is acknowledged,
\* expires, or belongs to a task whose reply could not be published, even when
\* the target fails on every delivery; unless some reply waits for ever for the
\* broker's confirm, which has no timeout either and holds the semaphore.
QueuedMessageSettles ==
  (\A d \in Deliveries : []<>(stage[d] # "reply")) =>
    \A m \in Req :
      place[m] = "ready" ~>
        \/ place[m] \in {"acked", "expired"}
        \/ place[m] = "unacked" /\ stage[<<m, tag[m]>>] = "stuck"

\* "When buffers are disabled we cancel the consumer (messages stay queued)"
\* (consumer.py): once a pod keeps a status that disables consumption, its
\* workers leave the buffer queues.
PauseCancels ==
  \A p \in Pods :
    <>[](cached[p] \in [consumptionEnabled : {FALSE}]) =>
      <>[](\A q \in Queues : <<p, q>> \notin subscribed)

\* A consumer never receives a message whose request is past its deadline
\* ("DeadlineSec: max delay in seconds", trafficschedule_types.go).
DeliveredWithinDeadline ==
  [][\A m \in Req : tag'[m] # tag[m] => age[m] <= TimeoutMs(m)]_vars
=============================================================================
