----------------------------- MODULE RabbitInit -----------------------------
(***************************************************************************)
(* buffer-service/router.py, _init_rabbit and get_exchange: the first      *)
(* requests open the connection, its channel, the exchange and the reply   *)
(* consumer, and leave them in rabbit_state for everybody.  Several first  *)
(* requests may run at once: the asyncio lock is released before the       *)
(* first await.  One action per run of the event loop between two awaits;  *)
(* what handler h creates is named h.                                      *)
(***************************************************************************)
EXTENDS Naturals, FiniteSets

CONSTANTS
  Handlers,      \* the requests that call get_exchange
  Unset,
  MaxFailures    \* bound: awaits on the broker that raise

ASSUME RabbitInitAssumption ==
  /\ Unset \notin Handlers
  /\ MaxFailures \in Nat

VARIABLES
  connection, channel, exchange,   \* rabbit_state
  pc,           \* where each call of get_exchange is
  replyOn,      \* the channel the handler's reply Queue was built on
  consuming,    \* channels on which the reply consumer was accepted
  refused,      \* channels the broker closed: a second consumer on the reply queue
  opened,       \* connections opened so far
  failures      \* awaits that raised so far

vars == <<connection, channel, exchange, pc, replyOn, consuming, refused, opened, failures>>

Steps    == {"start", "connect", "channel", "declare", "consume", "done", "failed"}
Awaiting == {"connect", "channel", "declare", "consume"}

TypeOK ==
  /\ {connection, channel, exchange} \subseteq Handlers \cup {Unset}
  /\ pc \in [Handlers -> Steps]
  /\ replyOn \in [Handlers -> Handlers \cup {Unset}]
  /\ consuming \subseteq Handlers
  /\ refused \subseteq Handlers
  /\ opened \subseteq Handlers
  /\ failures \in 0..MaxFailures

Init ==
  /\ connection = Unset /\ channel = Unset /\ exchange = Unset
  /\ pc = [h \in Handlers |-> "start"]
  /\ replyOn = [h \in Handlers |-> Unset]
  /\ consuming = {} /\ refused = {} /\ opened = {}
  /\ failures = 0

Goto(h, step) == pc' = [pc EXCEPT ![h] = step]

\* Mutant of MustInit: the second look, under the lock, is missing.
MustInitUnlocked == channel = Unset \/ channel \in refused

\* Neither the open channel nor, under the lock, the exchange is there.
MustInit == (channel = Unset \/ channel \in refused) /\ exchange = Unset

\* _init_rabbit starts to connect.
Enter(h) ==
  /\ pc[h] = "start"
  /\ MustInit
  /\ Goto(h, "connect")
  /\ UNCHANGED <<connection, channel, exchange, replyOn, consuming, refused, opened, failures>>

\* _init_rabbit returns at once; rabbit_state["exchange"] raises KeyError when
\* another call has not set it (yet).
Reuse(h) ==
  /\ pc[h] = "start"
  /\ ~MustInit
  /\ Goto(h, IF exchange = Unset THEN "failed" ELSE "done")
  /\ UNCHANGED <<connection, channel, exchange, replyOn, consuming, refused, opened, failures>>

Connected(h) ==
  /\ pc[h] = "connect"
  /\ Goto(h, "channel")
  /\ connection' = h
  /\ opened' = opened \cup {h}
  /\ UNCHANGED <<channel, exchange, replyOn, consuming, refused, failures>>

\* Mutant of ChannelOpened: the channel is not stored.
ChannelKept(h) ==
  /\ pc[h] = "channel"
  /\ Goto(h, "declare")
  /\ UNCHANGED <<connection, channel, exchange, replyOn, consuming, refused, opened, failures>>

ChannelOpened(h) ==
  /\ pc[h] = "channel"
  /\ Goto(h, "declare")
  /\ channel' = h
  /\ UNCHANGED <<connection, exchange, replyOn, consuming, refused, opened, failures>>

\* Mutants of Declared: no reply consumer is asked for; the exchange is not stored.
DeclaredOnly(h) ==
  /\ pc[h] = "declare"
  /\ Goto(h, "done")
  /\ exchange' = h
  /\ UNCHANGED <<connection, channel, replyOn, consuming, refused, opened, failures>>

DeclaredKept(h) ==
  /\ pc[h] = "declare"
  /\ Goto(h, "consume")
  /\ replyOn' = [replyOn EXCEPT ![h] = channel]
  /\ UNCHANGED <<connection, channel, exchange, consuming, refused, opened, failures>>

\* The exchange is on the handler's own channel, the reply Queue on the channel
\* rabbit_state holds by now.
Declared(h) ==
  /\ pc[h] = "declare"
  /\ Goto(h, "consume")
  /\ exchange' = h
  /\ replyOn' = [replyOn EXCEPT ![h] = channel]
  /\ UNCHANGED <<connection, channel, consuming, refused, opened, failures>>

\* The broker accepts one consumer of the reply queue per channel and closes
\* the channel that asks for a second one.
Consumed(h) ==
  LET c == replyOn[h] IN
  /\ pc[h] = "consume"
  /\ IF c \in consuming \cup refused
       THEN /\ Goto(h, "failed")
            /\ refused' = refused \cup {c}
            /\ consuming' = consuming \ {c}
       ELSE /\ Goto(h, "done")
            /\ consuming' = consuming \cup {c}
            /\ UNCHANGED refused
  /\ UNCHANGED <<connection, channel, exchange, replyOn, opened, failures>>

\* The await raises; what the call has stored so far stays.
Fail(h) ==
  /\ pc[h] \in Awaiting
  /\ failures < MaxFailures
  /\ failures' = failures + 1
  /\ Goto(h, "failed")
  /\ UNCHANGED <<connection, channel, exchange, replyOn, consuming, refused, opened>>

Call(h) ==
  \/ Enter(h) \/ Reuse(h) \/ Connected(h) \/ ChannelOpened(h) \/ Declared(h) \/ Consumed(h)

Next == \E h \in Handlers : Call(h) \/ Fail(h)

Spec == Init /\ [][Next]_vars

-----------------------------------------------------------------------------
\* The channel in rabbit_state whose call is over is the exchange's and receives
\* replies, whatever overlapped or raised, unless another call built its reply
\* Queue on it: _init_rabbit looks rabbit_state["channel"] up again after an
\* await, and finds the channel of whoever came last.
SpoiltOnlyByCrossing ==
  channel # Unset /\ pc[channel] = "done" /\ ~(exchange = channel /\ channel \in consuming) =>
    \E g \in Handlers \ {channel} : replyOn[g] = channel

\* A call finds rabbit_state half filled (get_exchange raises KeyError) only
\* while the call that stored the channel declares the exchange, or after it has
\* failed to: overlapping calls alone never leave such a state behind.
KeyErrorHasCause ==
  [][\A h \in Handlers :
       pc[h] = "start" /\ pc'[h] = "failed" =>
         channel # Unset /\ pc[channel] \in {"declare", "failed"}]_vars

\* Once a call got an exchange, nobody opens a connection for a new one.
NoLateConnection ==
  [][\A h \in Handlers :
       pc[h] = "start" /\ pc'[h] = "connect" => \A g \in Handlers : pc[g] # "done"]_vars

\* "idempotente: viene chiamato la prima volta che serve un canale" (router.py):
\* the initialisation happens once, one connection serves the process.
OneConnection == Cardinality(opened) <= 1
=============================================================================
