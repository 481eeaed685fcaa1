-------------------------- MODULE RabbitInitProofs --------------------------
(***************************************************************************)
(* Theorems about RabbitInit: its types, and what an initialisation of the *)
(* connection is worth, for any number of first requests and of failures.  *)
(***************************************************************************)
EXTENDS RabbitInit, TLAPS

-----------------------------------------------------------------------------
\* What every run of the calls keeps, whatever overlaps or raises.
StoredInOrder ==
  /\ \A h \in Handlers :
       /\ pc[h] = "declare" => channel # Unset
       /\ pc[h] = "consume" => replyOn[h] # Unset
       /\ pc[h] \in {"consume", "done"} => exchange # Unset
  /\ exchange = Unset => consuming = {} /\ refused = {}

\* A channel without an exchange belongs to a call that is about to declare the
\* exchange, or has failed to.
ChannelHasDeclarer ==
  exchange = Unset /\ channel # Unset => pc[channel] \in {"declare", "failed"}

Inv == TypeOK /\ StoredInOrder /\ ChannelHasDeclarer

THEOREM Invariance == Spec => []Inv
<1>. USE RabbitInitAssumption
<1>1. Init => Inv
  <2>. SUFFICES ASSUME Init PROVE Inv
    OBVIOUS
  <2>1. TypeOK
    <3>1. /\ pc \in [Handlers -> Steps]
          /\ replyOn \in [Handlers -> Handlers \cup {Unset}]
      BY DEF Init, Steps
    <3>2. failures \in 0..MaxFailures
      BY DEF Init
    <3>. QED  BY <3>1, <3>2 DEF Init, TypeOK
  <2>2. StoredInOrder
    BY DEF Init, StoredInOrder
  <2>3. ChannelHasDeclarer
    BY DEF Init, ChannelHasDeclarer
  <2>. QED  BY <2>1, <2>2, <2>3 DEF Inv
<1>2. Inv /\ [Next]_vars => Inv'
  <2>. SUFFICES ASSUME Inv, [Next]_vars PROVE Inv'
    OBVIOUS
  <2>. USE DEF Inv, TypeOK, Steps, Awaiting, StoredInOrder, ChannelHasDeclarer, Goto
  <2>1. ASSUME NEW h \in Handlers, Enter(h) PROVE Inv'
    BY <2>1 DEF Enter, MustInit
  <2>2. ASSUME NEW h \in Handlers, Reuse(h) PROVE Inv'
    BY <2>2 DEF Reuse, MustInit
  <2>3. ASSUME NEW h \in Handlers, Connected(h) PROVE Inv'
    BY <2>3 DEF Connected
  <2>4. ASSUME NEW h \in Handlers, ChannelOpened(h) PROVE Inv'
    BY <2>4 DEF ChannelOpened
  <2>5. ASSUME NEW h \in Handlers, Declared(h) PROVE Inv'
    BY <2>5 DEF Declared
  <2>6. ASSUME NEW h \in Handlers, Consumed(h) PROVE Inv'
    BY <2>6 DEF Consumed
  <2>7. ASSUME NEW h \in Handlers, Fail(h) PROVE Inv'
    BY <2>7 DEF Fail
  <2>8. CASE UNCHANGED vars
    BY <2>8 DEF vars
  <2>. QED  BY <2>1, <2>2, <2>3, <2>4, <2>5, <2>6, <2>7, <2>8 DEF Next, Call
<1>. QED  BY <1>1, <1>2, PTL DEF Spec

\* Type correctness: for any number of concurrent first requests the calls of
\* get_exchange keep rabbit_state and their own progress in their types; no
\* reply consumer is ever asked for on a channel that was not opened.
THEOREM TypeCorrect == Spec => []TypeOK
<1>1. Inv => TypeOK
  BY DEF Inv
<1>. QED  BY <1>1, Invariance, PTL

-----------------------------------------------------------------------------
\* A step of one call leaves the others where they are.
LEMMA OthersStay ==
  ASSUME TypeOK, NEW h \in Handlers, NEW step, Goto(h, step)
  PROVE  /\ pc' = [pc EXCEPT ![h] = step]
         /\ pc'[h] = step
         /\ \A g \in Handlers \ {h} : pc'[g] = pc[g]
BY DEF TypeOK, Goto

\* Another call built its reply Queue on channel c.
Crossed(c) == \E g \in Handlers \ {c} : replyOn[g] = c

\* rabbit_state's channel: once overwritten it never comes back, so its call has
\* seen no other since it stored it, and neither has any call after that one.
ChannelIsSound ==
  channel # Unset =>
    /\ pc[channel] \in {"declare", "consume", "done", "failed"}
    /\ pc[channel] \in {"consume", "done"} => replyOn[channel] = channel
    /\ pc[channel] \in {"consume", "done"} /\ exchange # channel => Crossed(channel)
    /\ pc[channel] = "done" /\ channel \notin consuming => Crossed(channel)

\* A finished initialisation is spoilt only by a call that crossed it, for any
\* number of calls, overlaps and failures (_init_rabbit of router.py).
THEOREM OnlyCrossingSpoils == Spec => []SpoiltOnlyByCrossing
<1>. USE RabbitInitAssumption
<1>1. Init => ChannelIsSound
  BY DEF Init, ChannelIsSound
<1>2. Inv /\ ChannelIsSound /\ [Next]_vars => ChannelIsSound'
  <2>. SUFFICES ASSUME Inv, ChannelIsSound, [Next]_vars PROVE ChannelIsSound'
    OBVIOUS
  <2>0. TypeOK
    BY DEF Inv
  <2>. USE DEF ChannelIsSound, Crossed
  <2>1. ASSUME NEW h \in Handlers, Enter(h) PROVE ChannelIsSound'
    BY <2>0, <2>1, OthersStay DEF Enter, TypeOK
  <2>2. ASSUME NEW h \in Handlers, Reuse(h) PROVE ChannelIsSound'
    BY <2>0, <2>2, OthersStay DEF Reuse, TypeOK
  <2>3. ASSUME NEW h \in Handlers, Connected(h) PROVE ChannelIsSound'
    BY <2>0, <2>3, OthersStay DEF Connected, TypeOK
  <2>4. ASSUME NEW h \in Handlers, ChannelOpened(h) PROVE ChannelIsSound'
    BY <2>0, <2>4, OthersStay DEF ChannelOpened
  <2>5. ASSUME NEW h \in Handlers, Declared(h) PROVE ChannelIsSound'
    <3>1. /\ replyOn'[h] = channel /\ exchange' = h /\ channel' = channel
          /\ \A g \in Handlers \ {h} : replyOn'[g] = replyOn[g]
          /\ pc'[h] = "consume" /\ \A g \in Handlers \ {h} : pc'[g] = pc[g]
          /\ consuming' = consuming
      BY <2>0, <2>5, OthersStay DEF Declared, TypeOK
    <3>2. CASE channel = h
      BY <3>1, <3>2
    <3>3. CASE channel # h
      BY <2>0, <3>1, <3>3 DEF TypeOK
    <3>. QED  BY <3>2, <3>3
  <2>6. ASSUME NEW h \in Handlers, Consumed(h) PROVE ChannelIsSound'
    <3>1. /\ pc[h] = "consume" /\ UNCHANGED <<channel, exchange, replyOn>>
          /\ pc'[h] \in {"done", "failed"} /\ \A g \in Handlers \ {h} : pc'[g] = pc[g]
          /\ \A c \in Handlers : c # replyOn[h] => (c \in consuming' <=> c \in consuming)
          /\ pc'[h] = "done" => replyOn[h] \in consuming'
      BY <2>0, <2>6, OthersStay DEF Consumed
    <3>2. CASE channel = h
      BY <3>1, <3>2
    <3>3. CASE channel # h
      BY <2>0, <3>1, <3>3 DEF TypeOK
    <3>. QED  BY <3>2, <3>3
  <2>7. ASSUME NEW h \in Handlers, Fail(h) PROVE ChannelIsSound'
    BY <2>0, <2>7, OthersStay DEF Fail, TypeOK
  <2>8. CASE UNCHANGED vars
    BY <2>8 DEF vars
  <2>. QED  BY <2>1, <2>2, <2>3, <2>4, <2>5, <2>6, <2>7, <2>8 DEF Next, Call
<1>3. ChannelIsSound => SpoiltOnlyByCrossing
  BY DEF ChannelIsSound, Crossed, SpoiltOnlyByCrossing
<1>. QED  BY <1>1, <1>2, <1>3, Invariance, PTL DEF Spec

-----------------------------------------------------------------------------
\* What both action properties look at: the step of a call that starts.
LEMMA FirstStep ==
  ASSUME TypeOK, [Next]_vars, NEW h \in Handlers, pc[h] = "start", pc'[h] # "start"
  PROVE  Enter(h) \/ Reuse(h)
<1>. USE DEF Awaiting
<1>1. PICK g \in Handlers : Call(g) \/ Fail(g)
  BY DEF Next, vars
<1>2. g = h
  <2>. SUFFICES ASSUME g # h PROVE FALSE
    OBVIOUS
  <2>1. \E step : Goto(g, step)
    BY <1>1 DEF Call, Enter, Reuse, Connected, ChannelOpened, Declared, Consumed, Fail
  <2>. QED  BY <2>1, OthersStay
<1>. QED
  BY <1>1, <1>2 DEF Call, Connected, ChannelOpened, Declared, Consumed, Fail

\* A call gets a KeyError only while the owner of the stored channel declares
\* the exchange or after it failed to, for any number of calls and failures
\* (get_exchange of router.py).
THEOREM HalfFilledHasCause == Spec => KeyErrorHasCause
<1>. USE RabbitInitAssumption
<1>1. Inv /\ [Next]_vars =>
        \A h \in Handlers :
          pc[h] = "start" /\ pc'[h] = "failed" =>
            channel # Unset /\ pc[channel] \in {"declare", "failed"}
  <2>. SUFFICES ASSUME Inv, [Next]_vars, NEW h \in Handlers,
                       pc[h] = "start", pc'[h] = "failed"
                PROVE  channel # Unset /\ pc[channel] \in {"declare", "failed"}
    OBVIOUS
  <2>1. TypeOK
    BY DEF Inv
  <2>2. Reuse(h)
    <3>1. Enter(h) \/ Reuse(h)
      BY <2>1, FirstStep
    <3>2. ~Enter(h)
      BY <2>1, OthersStay DEF Enter
    <3>. QED  BY <3>1, <3>2
  <2>3. exchange = Unset /\ channel # Unset
    BY <2>1, <2>2, OthersStay DEF Reuse, MustInit
  <2>. QED  BY <2>3 DEF Inv, ChannelHasDeclarer
<1>. QED  BY <1>1, Invariance, PTL DEF Spec, KeyErrorHasCause

\* Once a call got an exchange, nobody opens a connection for a new one, for any
\* number of calls: exchange stays in rabbit_state (router.py, _init_rabbit).
THEOREM ConnectionIsReused == Spec => NoLateConnection
<1>. USE RabbitInitAssumption
<1>1. Inv /\ [Next]_vars =>
        \A h \in Handlers :
          pc[h] = "start" /\ pc'[h] = "connect" => \A g \in Handlers : pc[g] # "done"
  <2>. SUFFICES ASSUME Inv, [Next]_vars, NEW h \in Handlers,
                       pc[h] = "start", pc'[h] = "connect"
                PROVE  \A g \in Handlers : pc[g] # "done"
    OBVIOUS
  <2>1. TypeOK
    BY DEF Inv
  <2>2. Enter(h)
    <3>1. Enter(h) \/ Reuse(h)
      BY <2>1, FirstStep
    <3>2. ~Reuse(h)
      BY <2>1, OthersStay DEF Reuse
    <3>. QED  BY <3>1, <3>2
  <2>3. exchange = Unset
    BY <2>2 DEF Enter, MustInit
  <2>. QED  BY <2>3 DEF Inv, StoredInOrder
<1>. QED  BY <1>1, Invariance, PTL DEF Spec, NoLateConnection
=============================================================================
