------------------------------- MODULE Router -------------------------------
(***************************************************************************)
(* buffer-service/router.py: the proxy handler turns an HTTP request into  *)
(* a message, keeps a future for it in rabbit_state["pending"], and waits  *)
(* for the reply or for the deadline.  One action per run of the event     *)
(* loop between two awaits.  The connection has been opened by an earlier  *)
(* request; module RabbitInit is about the opening.                        *)
(***************************************************************************)
EXTENDS Broker

CONSTANTS
  Schedules,    \* what snapshot() may return
  NoFlavour     \* the request has no x-carbonshift header

ASSUME RouterAssumption ==
  /\ NoFlavour \notin Flavours \cup {UnknownFlavour}
  /\ \A s \in Schedules :
       /\ DOMAIN s.rules \subseteq Flavours \cup {UnknownFlavour}
       /\ \A f \in DOMAIN s.rules : s.rules[f].deadlineSec \in Nat

VARIABLES
  phase,      \* where the handler of each request is
  future,     \* its response_future
  pending,    \* the keys of rabbit_state["pending"]
  deadline,   \* deadline_sec, chosen with the flavour
  response    \* the answer the client got

routerVars == <<phase, future, pending, deadline, response>>

Phases    == {"idle", "publish", "confirm", "wait", "done"}
Futures   == {"none", "waiting", "set", "cancelled"}
Responses == {"none", "ok", "timeout", "error", "lost"}

RouterTypeOK ==
  /\ phase \in [Req -> Phases]
  /\ future \in [Req -> Futures]
  /\ pending \subseteq Req
  /\ deadline \in [Req -> Nat]
  /\ response \in [Req -> Responses]

RouterInit ==
  /\ phase = [r \in Req |-> "idle"]
  /\ future = [r \in Req |-> "none"]
  /\ pending = {}
  /\ deadline = [r \in Req |-> 0]
  /\ response = [r \in Req |-> "none"]

-----------------------------------------------------------------------------
\* weighted_choice: the keys it may return.  On no keys, or on weights that
\* are all zero, it raises: the set is empty.
WeightedChoice(w) == {k \in DOMAIN w : w[k] > 0}

\* schedule["directWeight"] raises KeyError when the status has no such key.
StrategyChoice(s, urgent) ==
  IF urgent THEN {"direct"}
  ELSE IF {"directWeight", "queueWeight"} \subseteq DOMAIN s
    THEN WeightedChoice([direct |-> s.directWeight, queue |-> s.queueWeight])
    ELSE {}

FlavourChoice(s, forced) ==
  IF forced # NoFlavour THEN {forced}
  ELSE WeightedChoice([f \in DOMAIN s.rules |-> s.rules[f].weight])

DefaultDeadlineSec == 60

DeadlineSec(s, f) ==
  IF f \in DOMAIN s.rules THEN s.rules[f].deadlineSec ELSE DefaultDeadlineSec

\* The program computes milliseconds; the AMQP library takes the expiration in
\* seconds and multiplies by 1000 once more.
ExpirationMs(d) == d * 1000
LibraryTtlMs(expiration) == expiration * 1000

TimeoutMs(r) == deadline[r] * 1000

\* Mutant of Accept: the future is registered only after the publish.
AcceptUnregistered(r) ==
  \E s \in Schedules, f \in Flavours :
    /\ phase[r] = "idle"
    /\ phase' = [phase EXCEPT ![r] = "publish"]
    /\ future' = [future EXCEPT ![r] = "waiting"]
    /\ deadline' = [deadline EXCEPT ![r] = DeadlineSec(s, f)]
    /\ route' = [route EXCEPT ![r] = <<"queue", f>>]
    /\ ttl' = [ttl EXCEPT ![r] = LibraryTtlMs(ExpirationMs(DeadlineSec(s, f)))]
    /\ UNCHANGED <<pending, response, place, tag, carrier, age, replies, replyReady>>

\* The handler up to its first await on the broker.
Accept(r) ==
  \E s \in Schedules, urgent \in BOOLEAN,
     forced \in Flavours \cup {UnknownFlavour, NoFlavour} :
  \E q \in StrategyChoice(s, urgent), f \in FlavourChoice(s, forced) :
    /\ phase[r] = "idle"
    /\ phase' = [phase EXCEPT ![r] = "publish"]
    /\ future' = [future EXCEPT ![r] = "waiting"]
    /\ pending' = pending \cup {r}
    /\ deadline' = [deadline EXCEPT ![r] = DeadlineSec(s, f)]
    /\ route' = [route EXCEPT ![r] = <<q, f>>]
    /\ ttl' = [ttl EXCEPT ![r] = LibraryTtlMs(ExpirationMs(DeadlineSec(s, f)))]
    /\ UNCHANGED <<response, place, tag, carrier, age, replies, replyReady>>

\* The handler raises before it has registered anything: a 500 answer.
Reject(r) ==
  /\ phase[r] = "idle"
  /\ \E s \in Schedules, urgent \in BOOLEAN,
        forced \in Flavours \cup {UnknownFlavour, NoFlavour} :
       StrategyChoice(s, urgent) = {} \/ FlavourChoice(s, forced) = {}
  /\ phase' = [phase EXCEPT ![r] = "done"]
  /\ response' = [response EXCEPT ![r] = "error"]
  /\ UNCHANGED <<brokerVars, future, pending, deadline>>

\* exchange.publish reaches the broker.
Publish(r) ==
  /\ phase[r] = "publish"
  /\ replyReady
  /\ ttl[r] <= MaxTtlMs
  /\ phase' = [phase EXCEPT ![r] = "confirm"]
  /\ Enqueue(r)
  /\ UNCHANGED <<tag, carrier, route, ttl, age, replies, replyReady>>
  /\ UNCHANGED <<future, pending, deadline, response>>

\* The publisher confirm comes back and the handler starts to wait.
Confirm(r) ==
  /\ phase[r] = "confirm"
  /\ phase' = [phase EXCEPT ![r] = "wait"]
  /\ UNCHANGED <<brokerVars, future, pending, deadline, response>>

\* get_exchange or publish raises: there is no reply consumer on the channel,
\* the TTL is out of range, or the channel died before the confirm.  The broker
\* closes the channel; the entry in pending stays.
PublishFails(r) ==
  /\ \/ phase[r] = "publish" /\ (~replyReady \/ ttl[r] > MaxTtlMs)
     \/ phase[r] = "confirm" /\ ~replyReady
  /\ phase' = [phase EXCEPT ![r] = "done"]
  /\ response' = [response EXCEPT ![r] = "error"]
  /\ replyReady' = FALSE
  /\ replies' = {}
  /\ UNCHANGED <<place, tag, carrier, route, ttl, age, future, pending, deadline>>

\* Mutant of OnReply: without the done() check.
OnReplyUnchecked(d) ==
  /\ d \in replies
  /\ replies' = replies \ {d}
  /\ pending' = pending \ {d[1]}
  /\ future' = IF d[1] \in pending THEN [future EXCEPT ![d[1]] = "set"] ELSE future
  /\ UNCHANGED <<place, tag, carrier, route, ttl, age, replyReady>>
  /\ UNCHANGED <<phase, deadline, response>>

\* _on_reply: the entry goes, and a future that is not done takes the reply.
OnReply(d) ==
  /\ d \in replies
  /\ replies' = replies \ {d}
  /\ pending' = pending \ {d[1]}
  /\ future' = IF d[1] \in pending /\ future[d[1]] = "waiting"
                 THEN [future EXCEPT ![d[1]] = "set"] ELSE future
  /\ UNCHANGED <<place, tag, carrier, route, ttl, age, replyReady>>
  /\ UNCHANGED <<phase, deadline, response>>

\* Mutant of Respond: any future that is done counts as a reply.
RespondDone(r) ==
  /\ phase[r] = "wait"
  /\ future[r] # "waiting"
  /\ phase' = [phase EXCEPT ![r] = "done"]
  /\ response' = [response EXCEPT ![r] = "ok"]
  /\ UNCHANGED <<brokerVars, future, pending, deadline>>

\* wait_for returns the reply.
Respond(r) ==
  /\ phase[r] = "wait"
  /\ future[r] = "set"
  /\ phase' = [phase EXCEPT ![r] = "done"]
  /\ response' = [response EXCEPT ![r] = "ok"]
  /\ UNCHANGED <<brokerVars, future, pending, deadline>>

\* Mutant of TimeoutCancel: only a request that was queued waits with a timeout.
TimeoutCancelQueued(r) ==
  /\ phase[r] = "wait"
  /\ future[r] = "waiting"
  /\ age[r] > TimeoutMs(r)
  /\ route[r][1] = "queue"
  /\ future' = [future EXCEPT ![r] = "cancelled"]
  /\ UNCHANGED <<brokerVars, phase, pending, deadline, response>>

\* wait_for runs out: it cancels the future and yields once...
TimeoutCancel(r) ==
  /\ phase[r] = "wait"
  /\ future[r] = "waiting"
  /\ age[r] > TimeoutMs(r)
  /\ future' = [future EXCEPT ![r] = "cancelled"]
  /\ UNCHANGED <<brokerVars, phase, pending, deadline, response>>

\* Mutant of TimeoutPop: the entry is kept.
TimeoutKeep(r) ==
  /\ phase[r] = "wait"
  /\ future[r] = "cancelled"
  /\ phase' = [phase EXCEPT ![r] = "done"]
  /\ response' = [response EXCEPT ![r] = "timeout"]
  /\ UNCHANGED <<brokerVars, future, pending, deadline>>

\* ... and then the handler drops the entry and answers 504.
TimeoutPop(r) ==
  /\ phase[r] = "wait"
  /\ future[r] = "cancelled"
  /\ pending' = pending \ {r}
  /\ phase' = [phase EXCEPT ![r] = "done"]
  /\ response' = [response EXCEPT ![r] = "timeout"]
  /\ UNCHANGED <<brokerVars, future, deadline>>

\* Time passes for a request: to just after its deadline, then to just after
\* its TTL.  Nothing in the code tells the instants in between apart, and
\* nothing looks at the time once handler and message are done.
Tick(r) ==
  /\ phase[r] \in {"confirm", "wait"} \/ place[r] \in {"ready", "unacked"}
  /\ age[r] <= ttl[r]
  /\ age' = [age EXCEPT ![r] = IF @ <= TimeoutMs(r) THEN TimeoutMs(r) + 1 ELSE ttl[r] + 1]
  /\ UNCHANGED <<place, tag, carrier, route, ttl, replies, replyReady, routerVars>>

\* The connection to the broker drops.  The client library reopens it, but not
\* the hand-made reply Queue's consumer; exchange stays set, so _init_rabbit
\* does nothing.  Replies on their way are lost.
RouterLinkDrop ==
  /\ replyReady
  /\ replyReady' = FALSE
  /\ replies' = {}
  /\ UNCHANGED <<place, tag, carrier, route, ttl, age, routerVars>>

\* The process ends (signal or crash) and a new one, with an empty pending and
\* a fresh connection, takes its place: the open requests are cut off.
RouterRestart ==
  /\ phase' = [r \in Req |-> IF phase[r] = "idle" THEN "idle" ELSE "done"]
  /\ response' = [r \in Req |-> IF phase[r] \in {"idle", "done"} THEN response[r] ELSE "lost"]
  /\ pending' = {}
  /\ replyReady' = TRUE
  /\ replies' = {}
  /\ UNCHANGED <<place, tag, carrier, route, ttl, age, future, deadline>>

\* One request's handler.
Handler(r) ==
  \/ Accept(r) \/ Reject(r) \/ Publish(r) \/ Confirm(r) \/ PublishFails(r)
  \/ Respond(r) \/ TimeoutCancel(r) \/ TimeoutPop(r)

RouterNext ==
  \/ \E r \in Req : Handler(r) \/ Tick(r)
  \/ \E d \in Deliveries : OnReply(d)
  \/ RouterLinkDrop
  \/ RouterRestart
=============================================================================
