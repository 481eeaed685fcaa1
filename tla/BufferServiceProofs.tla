------------------------ MODULE BufferServiceProofs -------------------------
(***************************************************************************)
(* Proofs about BufferService, for any requests, flavours, pods and        *)
(* schedules and any value of the bounds.                                  *)
(***************************************************************************)
EXTENDS BufferService, TLAPS

\* The parts of a delivery's identity.
LEMMA DeliveryParts ==
  ASSUME NEW d \in Deliveries
  PROVE  d[1] \in Req /\ d[2] \in 1..MaxDeliveries /\ d = <<d[1], d[2]>>
BY DEF Deliveries

\* Deadlines, whatever the schedule, are natural numbers of seconds.
LEMMA DeadlineIsNat ==
  ASSUME NEW s \in Schedules, NEW f
  PROVE  DeadlineSec(s, f) \in Nat
BY RouterAssumption DEF DeadlineSec, DefaultDeadlineSec

\* Strategy and flavour, whatever the weights, make a route.
LEMMA ChoiceIsRoute ==
  ASSUME NEW s \in Schedules, NEW urgent \in BOOLEAN,
         NEW forced \in Flavours \cup {UnknownFlavour, NoFlavour},
         NEW q \in StrategyChoice(s, urgent), NEW f \in FlavourChoice(s, forced)
  PROVE  <<q, f>> \in QTypes \X (Flavours \cup {UnknownFlavour})
<1>1. q \in QTypes
  BY DEF StrategyChoice, WeightedChoice, QTypes
<1>2. f \in Flavours \cup {UnknownFlavour}
  BY RouterAssumption DEF FlavourChoice, WeightedChoice
<1>3. QED
  BY <1>1, <1>2

\* No step of the router leaves the types.
LEMMA RouterTypes ==
  ASSUME TypeOK, RouterStep
  PROVE  TypeOK'
<1> USE DEF TypeOK, BrokerTypeOK, RouterTypeOK, ConsumerTypeOK, consumerVars
<1>1. ASSUME NEW r \in Req, Accept(r), UNCHANGED consumerVars
      PROVE  TypeOK'
  <2>1. PICK s \in Schedules, urgent \in BOOLEAN,
             forced \in Flavours \cup {UnknownFlavour, NoFlavour} :
        \E q \in StrategyChoice(s, urgent), f \in FlavourChoice(s, forced) :
          /\ phase' = [phase EXCEPT ![r] = "publish"]
          /\ future' = [future EXCEPT ![r] = "waiting"]
          /\ pending' = pending \cup {r}
          /\ deadline' = [deadline EXCEPT ![r] = DeadlineSec(s, f)]
          /\ route' = [route EXCEPT ![r] = <<q, f>>]
          /\ ttl' = [ttl EXCEPT ![r] = LibraryTtlMs(ExpirationMs(DeadlineSec(s, f)))]
          /\ UNCHANGED <<response, place, tag, carrier, age, replies, replyReady>>
    BY <1>1 DEF Accept
  <2>2. PICK q \in StrategyChoice(s, urgent), f \in FlavourChoice(s, forced) :
          /\ phase' = [phase EXCEPT ![r] = "publish"]
          /\ future' = [future EXCEPT ![r] = "waiting"]
          /\ pending' = pending \cup {r}
          /\ deadline' = [deadline EXCEPT ![r] = DeadlineSec(s, f)]
          /\ route' = [route EXCEPT ![r] = <<q, f>>]
          /\ ttl' = [ttl EXCEPT ![r] = LibraryTtlMs(ExpirationMs(DeadlineSec(s, f)))]
          /\ UNCHANGED <<response, place, tag, carrier, age, replies, replyReady>>
    BY <2>1
  <2>3. DeadlineSec(s, f) \in Nat
    BY DeadlineIsNat
  <2>4. LibraryTtlMs(ExpirationMs(DeadlineSec(s, f))) \in Nat
    BY <2>3 DEF LibraryTtlMs, ExpirationMs
  <2>5. <<q, f>> \in QTypes \X (Flavours \cup {UnknownFlavour})
    BY ChoiceIsRoute
  <2>6. QED
    BY <1>1, <2>2, <2>3, <2>4, <2>5 DEF Phases, Futures
<1>2. ASSUME NEW r \in Req, Tick(r), UNCHANGED consumerVars
      PROVE  TypeOK'
  BY <1>2 DEF Tick, TimeoutMs, routerVars
<1>3. ASSUME NEW r \in Req, Reject(r), UNCHANGED consumerVars
      PROVE  TypeOK'
  BY <1>3 DEF Reject, brokerVars, Phases, Responses
<1>4. ASSUME NEW r \in Req, Publish(r), UNCHANGED consumerVars
      PROVE  TypeOK'
  BY <1>4 DEF Publish, Enqueue, Phases, Places
<1>5. ASSUME NEW r \in Req, Confirm(r) \/ Respond(r) \/ TimeoutCancel(r) \/ TimeoutPop(r),
             UNCHANGED consumerVars
      PROVE  TypeOK'
  BY <1>5 DEF Confirm, Respond, TimeoutCancel, TimeoutPop, brokerVars, Phases, Futures, Responses
<1>6. ASSUME NEW r \in Req, PublishFails(r), UNCHANGED consumerVars
      PROVE  TypeOK'
  BY <1>6 DEF PublishFails, Phases, Responses
<1>7. ASSUME NEW d \in Deliveries, OnReply(d), UNCHANGED consumerVars
      PROVE  TypeOK'
  BY <1>7, DeliveryParts DEF OnReply, Futures
<1>8. ASSUME RouterLinkDrop, UNCHANGED consumerVars
      PROVE  TypeOK'
  BY <1>8 DEF RouterLinkDrop, routerVars
<1>9. ASSUME RouterRestart, UNCHANGED consumerVars
      PROVE  TypeOK'
  BY <1>9 DEF RouterRestart, Phases, Responses
<1>10. QED
  BY <1>1, <1>2, <1>3, <1>4, <1>5, <1>6, <1>7, <1>8, <1>9
     DEF RouterStep, RouterNext, Handler

\* No step of the consumer or the broker leaves the types.
LEMMA ConsumerTypes ==
  ASSUME TypeOK, ConsumerStep \/ BrokerStep
  PROVE  TypeOK'
<1> USE DEF TypeOK, BrokerTypeOK, RouterTypeOK, ConsumerTypeOK, routerVars
<1>1. ASSUME NEW d \in Deliveries, Task(d), UNCHANGED routerVars
      PROVE  TypeOK'
  <2> USE DeliveryParts DEF Stages
  <2>1. CASE Begin(d) \/ ReplyFails(d)
    BY <1>1, <2>1 DEF Begin, ReplyFails, brokerVars
  <2>2. CASE HttpAnswered(d)
    BY <1>1, <2>2 DEF HttpAnswered, brokerVars
  <2>3. CASE HttpRetry(d)
    BY <1>1, <2>3, ConsumerAssumption DEF HttpRetry, MayExecute, brokerVars
  <2>4. CASE GiveUp(d)
    BY <1>1, <2>4, ConsumerAssumption DEF GiveUp, MayExecute, EndTask, RequeueDelivery, Places
  <2>5. CASE PublishReply(d)
    BY <1>1, <2>5 DEF PublishReply
  <2>6. CASE Ack(d)
    BY <1>1, <2>6, ConsumerAssumption DEF Ack, EndTask, AckDelivery, Places
  <2>7. QED
    BY <1>1, <2>1, <2>2, <2>3, <2>4, <2>5, <2>6 DEF Task
<1>2. ASSUME NEW p \in Pods, NEW q \in Queues, Subscribe(p, q), UNCHANGED routerVars
      PROVE  TypeOK'
  BY <1>2 DEF Subscribe, brokerVars
<1>3. ASSUME NEW p \in Pods, NEW m \in Req, Deliver(p, m), UNCHANGED routerVars
      PROVE  TypeOK'
  <2>1. tag[m] + 1 \in 1..MaxDeliveries
    BY <1>3, BrokerAssumption DEF Deliver
  <2>2. <<m, tag[m] + 1>> \in Deliveries
    BY <2>1 DEF Deliveries
  <2>3. QED
    BY <1>3, <2>1, <2>2 DEF Deliver, Places, Stages
<1>4. ASSUME NEW p \in Pods, CacheStatus(p), UNCHANGED routerVars
      PROVE  TypeOK'
  BY <1>4, ConsumerAssumption DEF CacheStatus, brokerVars
<1>5. ASSUME NEW p \in Pods, PodRestart(p), UNCHANGED routerVars
      PROVE  TypeOK'
  BY <1>5, ConsumerAssumption DEF PodRestart, RequeueAll, Places, Stages
<1>6. ASSUME NEW p \in Pods, LinkDrop(p), UNCHANGED routerVars
      PROVE  TypeOK'
  BY <1>6, ConsumerAssumption DEF LinkDrop, RequeueAll, Places
<1>7. ASSUME NEW m \in Req, Expire(m), UNCHANGED <<routerVars, consumerVars>>
      PROVE  TypeOK'
  BY <1>7 DEF Expire, Places, consumerVars
<1>8. QED
  BY <1>1, <1>2, <1>3, <1>4, <1>5, <1>6, <1>7 DEF ConsumerStep, ConsumerNext, BrokerStep

\* Every variable of router, consumer and broker keeps its type.
THEOREM TypeCorrect == Spec => []TypeOK
<1>1. Init => TypeOK
  BY BrokerAssumption, ConsumerAssumption
     DEF Init, BrokerInit, RouterInit, ConsumerInit, TypeOK, BrokerTypeOK, RouterTypeOK,
         ConsumerTypeOK, Places, Phases, Futures, Responses, Stages, QTypes
<1>2. TypeOK /\ [Next]_vars => TypeOK'
  <2>1. CASE UNCHANGED vars
    BY <2>1 DEF vars, brokerVars, routerVars, consumerVars, TypeOK, BrokerTypeOK,
                RouterTypeOK, ConsumerTypeOK
  <2>2. QED
    BY <2>1, RouterTypes, ConsumerTypes DEF Next
<1>3. QED
  BY <1>1, <1>2, PTL DEF Spec

-----------------------------------------------------------------------------
\* The inductive invariant without the types.
Core ==
  /\ AckOnlyAfterReply /\ NoLostWakeup /\ LeaksOnlyOnError /\ UnackedHasOwner
  /\ Unpublished /\ UnackedDelivered /\ TaskProgress /\ ReplyProgress
  /\ TasksAreCurrent /\ AttemptsLeft

\* A step that leaves broker and tasks alone, and of the handlers only answers
\* one that is not waiting, keeps the invariant.
LEMMA RouterInv ==
  ASSUME TypeOK, Core, RouterStep
  PROVE  Core'
<1> USE DEF TypeOK, BrokerTypeOK, RouterTypeOK, ConsumerTypeOK, consumerVars, Core,
            AckOnlyAfterReply, NoLostWakeup, LeaksOnlyOnError, UnackedHasOwner,
            Unpublished, UnackedDelivered, TaskProgress, ReplyProgress, TasksAreCurrent, AttemptsLeft, Current
<1>1. ASSUME NEW r \in Req, Accept(r), UNCHANGED consumerVars
      PROVE  Core'
  BY <1>1 DEF Accept
<1>2. ASSUME NEW r \in Req, Tick(r), UNCHANGED consumerVars
      PROVE  Core'
  BY <1>2 DEF Tick, routerVars
<1>3. ASSUME NEW r \in Req, Reject(r), UNCHANGED consumerVars
      PROVE  Core'
  BY <1>3 DEF Reject, brokerVars
<1>4. ASSUME NEW r \in Req, Publish(r), UNCHANGED consumerVars
      PROVE  Core'
  BY <1>4, DeliveryParts DEF Publish, Enqueue
<1>5. ASSUME NEW r \in Req, Confirm(r) \/ Respond(r) \/ TimeoutCancel(r) \/ TimeoutPop(r),
             UNCHANGED consumerVars
      PROVE  Core'
  <2>1. CASE Confirm(r)
    BY <1>5, <2>1 DEF Confirm, brokerVars
  <2>2. CASE Respond(r)
    BY <1>5, <2>2 DEF Respond, brokerVars
  <2>3. CASE TimeoutCancel(r)
    BY <1>5, <2>3 DEF TimeoutCancel, brokerVars
  <2>4. CASE TimeoutPop(r)
    BY <1>5, <2>4 DEF TimeoutPop, brokerVars
  <2>5. QED
    BY <1>5, <2>1, <2>2, <2>3, <2>4
<1>6. ASSUME NEW r \in Req, PublishFails(r), UNCHANGED consumerVars
      PROVE  Core'
  BY <1>6 DEF PublishFails
<1>7. ASSUME NEW d \in Deliveries, OnReply(d), UNCHANGED consumerVars
      PROVE  Core'
  BY <1>7, DeliveryParts DEF OnReply
<1>8. ASSUME RouterLinkDrop, UNCHANGED consumerVars
      PROVE  Core'
  BY <1>8 DEF RouterLinkDrop, routerVars
<1>9. ASSUME RouterRestart, UNCHANGED consumerVars
      PROVE  Core'
  BY <1>9 DEF RouterRestart
<1>10. QED
  BY <1>1, <1>2, <1>3, <1>4, <1>5, <1>6, <1>7, <1>8, <1>9
     DEF RouterStep, RouterNext, Handler

\* The steps of one task keep the invariant: it is where a message is settled.
LEMMA TaskInv ==
  ASSUME TypeOK, Core, NEW d \in Deliveries, Task(d), UNCHANGED routerVars
  PROVE  Core'
<1> USE DeliveryParts, ConsumerAssumption
    DEF TypeOK, BrokerTypeOK, RouterTypeOK, ConsumerTypeOK, routerVars, Core,
        AckOnlyAfterReply, NoLostWakeup, LeaksOnlyOnError, UnackedHasOwner, Active,
        Unpublished, UnackedDelivered, TaskProgress, ReplyProgress, TasksAreCurrent, AttemptsLeft, Current
<1>1. CASE Begin(d)
  BY <1>1 DEF Begin, brokerVars
<1>2. CASE HttpAnswered(d)
  BY <1>2 DEF HttpAnswered, brokerVars
<1>3. CASE HttpRetry(d)
  BY <1>3 DEF HttpRetry, MayExecute, brokerVars
<1>4. CASE GiveUp(d)
  BY <1>4 DEF GiveUp, MayExecute, EndTask, RequeueDelivery
<1>5. CASE PublishReply(d)
  BY <1>5 DEF PublishReply
<1>6. CASE Ack(d)
  <2> USE <1>6 DEF Ack, EndTask, AckDelivery
  <2>1. AckOnlyAfterReply' /\ NoLostWakeup' /\ LeaksOnlyOnError'
    OBVIOUS
  <2>2. UnackedHasOwner'
    <3> SUFFICES ASSUME NEW m \in Req, place'[m] = "unacked"
                 PROVE  stage'[<<m, tag[m]>>] \in Active \cup {"stuck"}
      OBVIOUS
    <3>1. place[m] = "unacked" /\ <<m, tag[m]>> \in Deliveries
      BY DEF Deliveries
    <3>2. <<m, tag[m]>> # d
      OBVIOUS
    <3>3. QED
      BY <3>1, <3>2
  <2>3. TasksAreCurrent'
    OBVIOUS
  <2>4. Unpublished' /\ UnackedDelivered' /\ TaskProgress' /\ ReplyProgress' /\ AttemptsLeft'
    OBVIOUS
  <2>5. QED
    BY <2>1, <2>2, <2>3, <2>4
<1>7. CASE ReplyFails(d)
  BY <1>7 DEF ReplyFails, brokerVars
<1>8. QED
  BY <1>1, <1>2, <1>3, <1>4, <1>5, <1>6, <1>7 DEF Task

\* So do the steps of workers and pods, and the broker's own.
LEMMA WorkerInv ==
  ASSUME TypeOK, Core,
         NEW p \in Pods, UNCHANGED routerVars,
         \/ \E q \in Queues : Subscribe(p, q)
         \/ \E m \in Req : Deliver(p, m)
         \/ CacheStatus(p) \/ PodRestart(p) \/ LinkDrop(p)
  PROVE  Core'
<1> USE DeliveryParts, ConsumerAssumption
    DEF TypeOK, BrokerTypeOK, RouterTypeOK, ConsumerTypeOK, routerVars, Core,
        AckOnlyAfterReply, NoLostWakeup, LeaksOnlyOnError, UnackedHasOwner, Active,
        Unpublished, UnackedDelivered, TaskProgress, ReplyProgress, TasksAreCurrent, AttemptsLeft, Current
<1>1. CASE \E q \in Queues : Subscribe(p, q)
  BY <1>1 DEF Subscribe, brokerVars
<1>2. CASE \E m \in Req : Deliver(p, m)
  <2>1. PICK m \in Req : Deliver(p, m)
    BY <1>2
  <2>2. <<m, tag[m] + 1>> \in Deliveries
    BY <2>1, BrokerAssumption DEF Deliver, Deliveries
  <2> USE <2>1, <2>2 DEF Deliver
  <2>3. AckOnlyAfterReply' /\ NoLostWakeup' /\ LeaksOnlyOnError'
       /\ UnackedDelivered' /\ AttemptsLeft'
    OBVIOUS
  <2>4. UnackedHasOwner'
    <3>1. \A n \in Req : place[n] = "unacked" => <<n, tag[n]>> \in Deliveries
      BY DEF Deliveries
    <3>2. tag'[m] = tag[m] + 1 /\ stage'[<<m, tag[m] + 1>>] = "waiting"
      OBVIOUS
    <3>3. ASSUME NEW n \in Req, n # m, place'[n] = "unacked"
          PROVE  stage'[<<n, tag'[n]>>] = stage[<<n, tag[n]>>] /\ place[n] = "unacked"
      BY <3>1, <3>3
    <3>4. ASSUME NEW n \in Req, n # m, place'[n] = "unacked"
          PROVE  stage'[<<n, tag'[n]>>] \in Active \cup {"stuck"}
      BY <3>3, <3>4
    <3>5. stage'[<<m, tag'[m]>>] \in Active \cup {"stuck"}
      BY <3>2
    <3>6. QED
      BY <3>4, <3>5
  <2>5. Unpublished'
    OBVIOUS
  <2>6. TaskProgress' /\ ReplyProgress'
    OBVIOUS
  <2>7. TasksAreCurrent'
    OBVIOUS
  <2>8. QED
    BY <2>3, <2>4, <2>5, <2>6, <2>7
<1>3. CASE CacheStatus(p)
  BY <1>3 DEF CacheStatus, brokerVars
<1>4. CASE PodRestart(p)
  <2> USE <1>4 DEF PodRestart, RequeueAll
  <2>3. AckOnlyAfterReply' /\ NoLostWakeup' /\ LeaksOnlyOnError'
       /\ UnackedDelivered' /\ AttemptsLeft'
    OBVIOUS
  <2>4. UnackedHasOwner'
    <3>1. \A n \in Req : place[n] = "unacked" => <<n, tag[n]>> \in Deliveries
      BY DEF Deliveries
    <3>2. QED
      BY <3>1
  <2>5. Unpublished'
    OBVIOUS
  <2>6. TaskProgress' /\ ReplyProgress'
    OBVIOUS
  <2>7. TasksAreCurrent'
    OBVIOUS
  <2>8. QED
    BY <2>3, <2>4, <2>5, <2>6, <2>7
<1>5. CASE LinkDrop(p)
  BY <1>5 DEF LinkDrop, RequeueAll
<1>6. QED
  BY <1>1, <1>2, <1>3, <1>4, <1>5

LEMMA BrokerInv ==
  ASSUME TypeOK, Core, NEW m \in Req, Expire(m), UNCHANGED <<routerVars, consumerVars>>
  PROVE  Core'
BY DEF Expire, TypeOK, BrokerTypeOK, routerVars, consumerVars, Core,
       AckOnlyAfterReply, NoLostWakeup, LeaksOnlyOnError, UnackedHasOwner,
       Unpublished, UnackedDelivered, TaskProgress, ReplyProgress, TasksAreCurrent, AttemptsLeft, Current

\* The inductive invariant holds of every behaviour.
THEOREM Invariance == Spec => []IndInv
<1>1. Init => Core
  BY ConsumerAssumption
     DEF Init, BrokerInit, RouterInit, ConsumerInit, Core, AckOnlyAfterReply, NoLostWakeup,
         LeaksOnlyOnError, UnackedHasOwner, Unpublished, UnackedDelivered, TaskProgress, ReplyProgress,
         TasksAreCurrent, AttemptsLeft, Active
<1>2. TypeOK /\ Core /\ [Next]_vars => Core'
  <2>1. CASE UNCHANGED vars
    BY <2>1 DEF vars, brokerVars, routerVars, consumerVars, Core, AckOnlyAfterReply,
                NoLostWakeup, LeaksOnlyOnError, UnackedHasOwner, Unpublished, UnackedDelivered, TaskProgress,
                ReplyProgress, TasksAreCurrent, AttemptsLeft, Current
  <2>2. QED
    BY <2>1, RouterInv, TaskInv, WorkerInv, BrokerInv
       DEF Next, ConsumerStep, ConsumerNext, BrokerStep
<1>3. TypeOK /\ Core => IndInv
  BY DEF Core, IndInv
<1>4. QED
  BY <1>1, <1>2, <1>3, TypeCorrect, PTL DEF Spec

\* A message is acknowledged only after a reply to it was published.
THEOREM AckSafety == Spec => []AckOnlyAfterReply
<1>1. IndInv => AckOnlyAfterReply
  BY DEF IndInv
<1>2. QED
  BY <1>1, Invariance, PTL

\* No unacknowledged message is stranded without a task.
THEOREM NoStrandedMessage == Spec => []UnackedHasOwner
<1>1. IndInv => UnackedHasOwner
  BY DEF IndInv
<1>2. QED
  BY <1>1, Invariance, PTL

\* A handler that waits, or is about to, is registered in pending until its
\* future is settled (router.py, proxy and _on_reply).
THEOREM WaitersAreRegistered == Spec => []NoLostWakeup
<1>1. IndInv => NoLostWakeup
  BY DEF IndInv
<1>2. QED
  BY <1>1, Invariance, PTL

\* pending keeps an answered request only when its publish raised.
THEOREM PendingIsExact == Spec => []LeaksOnlyOnError
<1>1. IndInv => LeaksOnlyOnError
  BY DEF IndInv
<1>2. QED
  BY <1>1, Invariance, PTL

\* As long as no consumer connection drops, a message has at most one task.
THEOREM Exclusion == Spec => []ExclusiveHandling
<1>1. IndInv => ExclusiveHandling
  <2> SUFFICES ASSUME IndInv, drops = 0,
                      NEW d \in Deliveries, NEW e \in Deliveries,
                      d[1] = e[1], stage[d] \in Active, stage[e] \in Active
               PROVE  d = e
    BY DEF ExclusiveHandling
  <2>1. Current(d) /\ Current(e)
    BY DEF IndInv, TasksAreCurrent
  <2>2. d[2] = e[2]
    BY <2>1 DEF Current
  <2>3. QED
    BY <2>2, DeliveryParts
<1>2. QED
  BY <1>1, Invariance, PTL

-----------------------------------------------------------------------------
\* A request that no handler has taken up has no future.
IdleHasNoFuture == \A r \in Req : phase[r] = "idle" => future[r] = "none"

\* No step changes a future that was set or cancelled: an entry is made once, and
\* a reply sets only a future that is not done (router.py, proxy and _on_reply).
THEOREM FuturesAreFinal == Spec => FutureSettledOnce
<1>1. Init => IdleHasNoFuture
  BY DEF Init, RouterInit, IdleHasNoFuture
<1>2. TypeOK /\ IdleHasNoFuture /\ [Next]_vars =>
        /\ IdleHasNoFuture'
        /\ \A r \in Req : future[r] \in {"set", "cancelled"} => future'[r] = future[r]
  <2> SUFFICES ASSUME TypeOK, IdleHasNoFuture, [Next]_vars
               PROVE  /\ IdleHasNoFuture'
                      /\ \A r \in Req : future[r] \in {"set", "cancelled"} =>
                                         future'[r] = future[r]
    OBVIOUS
  <2>0. /\ phase \in [Req -> Phases]
        /\ future \in [Req -> Futures]
    BY DEF TypeOK, RouterTypeOK
  <2>1. ASSUME UNCHANGED <<phase, future>>
        PROVE  /\ IdleHasNoFuture'
               /\ \A r \in Req : future'[r] = future[r]
    BY <2>1 DEF IdleHasNoFuture
  <2> USE DEF IdleHasNoFuture
  <2>2. ASSUME NEW q \in Req, Handler(q)
        PROVE  /\ IdleHasNoFuture'
               /\ \A r \in Req : future[r] \in {"set", "cancelled"} => future'[r] = future[r]
    BY <2>0, <2>2 DEF Handler, Accept, Reject, Publish, Confirm, PublishFails, Respond,
                      TimeoutCancel, TimeoutPop
  <2>3. ASSUME NEW d \in Deliveries, OnReply(d)
        PROVE  /\ IdleHasNoFuture'
               /\ \A r \in Req : future[r] \in {"set", "cancelled"} => future'[r] = future[r]
    BY <2>0, <2>3, DeliveryParts DEF OnReply
  <2>4. ASSUME RouterRestart
        PROVE  /\ IdleHasNoFuture'
               /\ \A r \in Req : future'[r] = future[r]
    BY <2>0, <2>4 DEF RouterRestart
  <2>5. QED
    BY <2>1, <2>2, <2>3, <2>4
       DEF Next, RouterStep, RouterNext, Tick, RouterLinkDrop, ConsumerStep, BrokerStep, Expire,
           vars, routerVars
<1>3. QED
  BY <1>1, <1>2, TypeCorrect, PTL DEF Spec, FutureSettledOnce

-----------------------------------------------------------------------------
\* A step of the router answers a request as RpcService allows, or stutters.
LEMMA RouterRefines ==
  ASSUME IndInv, RouterStep
  PROVE  [Rpc!Next]_<<status, executed>>
<1> USE DEF IndInv, TypeOK, BrokerTypeOK, RouterTypeOK, ConsumerTypeOK, consumerVars, status
<1>1. ASSUME NEW r \in Req, Accept(r), UNCHANGED consumerVars
      PROVE  Rpc!Open(r)
  BY <1>1 DEF Accept, Rpc!Open
<1>2. ASSUME NEW r \in Req, Reject(r), UNCHANGED consumerVars
      PROVE  Rpc!Refuse(r)
  BY <1>2 DEF Reject, Rpc!Refuse
<1>3. ASSUME NEW r \in Req, Publish(r) \/ Confirm(r) \/ TimeoutCancel(r) \/ Tick(r),
             UNCHANGED consumerVars
      PROVE  UNCHANGED <<status, executed>>
  BY <1>3 DEF Publish, Confirm, TimeoutCancel, Tick, brokerVars, routerVars
<1>4. ASSUME NEW r \in Req, PublishFails(r), UNCHANGED consumerVars
      PROVE  Rpc!Answer(r)
  BY <1>4 DEF PublishFails, Rpc!Answer, Rpc!Answers
<1>5. ASSUME NEW r \in Req, Respond(r), UNCHANGED consumerVars
      PROVE  Rpc!Answer(r)
  <2>1. r \in executed
    BY <1>5 DEF Respond, ReplyProgress
  <2>2. QED
    BY <1>5, <2>1 DEF Respond, Rpc!Answer, Rpc!Answers
<1>6. ASSUME NEW r \in Req, TimeoutPop(r), UNCHANGED consumerVars
      PROVE  Rpc!Answer(r)
  BY <1>6 DEF TimeoutPop, Rpc!Answer, Rpc!Answers
<1>7. ASSUME NEW d \in Deliveries, OnReply(d), UNCHANGED consumerVars
      PROVE  UNCHANGED <<status, executed>>
  BY <1>7 DEF OnReply
<1>8. ASSUME RouterLinkDrop, UNCHANGED consumerVars
      PROVE  UNCHANGED <<status, executed>>
  BY <1>8 DEF RouterLinkDrop, routerVars
<1>9. ASSUME RouterRestart, UNCHANGED consumerVars
      PROVE  Rpc!CutOff
  BY <1>9 DEF RouterRestart, Rpc!CutOff, Phases, Responses
<1>10. QED
  BY <1>1, <1>2, <1>3, <1>4, <1>5, <1>6, <1>7, <1>8, <1>9
     DEF RouterStep, RouterNext, Handler, Rpc!Next

\* A step of a consumer executes a request that was published, or stutters.
LEMMA ConsumerRefines ==
  ASSUME IndInv, ConsumerStep
  PROVE  [Rpc!Next]_<<status, executed>>
<1> USE DEF IndInv, TypeOK, BrokerTypeOK, RouterTypeOK, ConsumerTypeOK, routerVars, status
<1>1. ASSUME NEW d \in Deliveries, Task(d), UNCHANGED routerVars
      PROVE  Rpc!Execute(d[1]) \/ UNCHANGED <<status, executed>>
  <2>1. CASE stage[d] = "forward"
    <3>1. phase[d[1]] # "idle" /\ d[1] \in Req
      BY <2>1, DeliveryParts DEF Unpublished
    <3>2. UNCHANGED status /\ (executed' = executed \/ executed' = executed \cup {d[1]})
      BY <1>1, <2>1 DEF Task, ReplyFails, Begin, HttpAnswered, HttpRetry, GiveUp,
                        MayExecute, PublishReply, Ack
    <3>3. status[d[1]] # "idle"
      BY <3>1 DEF Responses, Unpublished, LeaksOnlyOnError
    <3>4. QED
      BY <3>2, <3>3 DEF Rpc!Execute
  <2>2. CASE stage[d] # "forward"
    BY <1>1, <2>2 DEF Task, ReplyFails, Begin, HttpAnswered, HttpRetry, GiveUp,
                      PublishReply, Ack
  <2>3. QED
    BY <2>1, <2>2
<1>2. ASSUME NEW p \in Pods, UNCHANGED routerVars,
             \/ \E q \in Queues : Subscribe(p, q)
             \/ \E m \in Req : Deliver(p, m)
             \/ CacheStatus(p) \/ PodRestart(p) \/ LinkDrop(p)
      PROVE  UNCHANGED <<status, executed>>
  BY <1>2 DEF Subscribe, Deliver, CacheStatus, PodRestart, LinkDrop
<1>3. QED
  BY <1>1, <1>2, DeliveryParts DEF ConsumerStep, ConsumerNext, Rpc!Next

\* The buffer service implements the service its clients rely on: answers are
\* final, and one that carries a response comes from an execution.
THEOREM Refinement == Spec => ImplementsRpcService
<1>1. Init => Rpc!Init
  BY DEF Init, BrokerInit, RouterInit, ConsumerInit, Rpc!Init, status
<1>2. IndInv /\ [Next]_vars => [Rpc!Next]_<<status, executed>>
  <2>1. CASE UNCHANGED vars
    BY <2>1 DEF vars, brokerVars, routerVars, consumerVars, status
  <2>2. ASSUME NEW m \in Req, Expire(m), UNCHANGED <<routerVars, consumerVars>>
        PROVE  UNCHANGED <<status, executed>>
    BY <2>2 DEF routerVars, consumerVars, status
  <2>3. QED
    BY <2>1, <2>2, RouterRefines, ConsumerRefines DEF Next, BrokerStep
<1>3. QED
  BY <1>1, <1>2, Invariance, PTL DEF Spec, ImplementsRpcService, Rpc!Spec, Rpc!vars
=============================================================================
