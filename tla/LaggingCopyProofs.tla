------------------------- MODULE LaggingCopyProofs --------------------------
(***************************************************************************)
(* What a LaggingCopy is good for: nothing reaches the copy that the       *)
(* source did not have, so hops can be composed; and a copy with a single  *)
(* channel never goes back to an older value.                              *)
(***************************************************************************)
EXTENDS LaggingCopy, Naturals, SequenceTheorems, TLAPS

\* What is on the way and what has arrived is in H.
Within(H) == sent \in [Channels -> Seq(H)] /\ copy \in H \cup {Nothing}

\* A step keeps what is on the way, and what has arrived, in a set that the
\* source does not leave.
LEMMA StepStays ==
  ASSUME NEW H,
         Within(H), source \in H, source' \in H, [Next]_vars
  PROVE  Within(H)'
<1> USE DEF Within
<1>1. CASE Change
  <2>1. \A c \in Channels, v \in H : Append(sent[c], v) \in Seq(H)
    OBVIOUS
  <2> QED
    BY <1>1, <2>1 DEF Change
<1>2. ASSUME NEW c \in Channels, Arrive(c)
      PROVE  sent' \in [Channels -> Seq(H)] /\ copy' \in H \cup {Nothing}
  <2>1. sent[c] \in Seq(H) /\ sent[c] # <<>>
    BY <1>2 DEF Arrive
  <2>2. Head(sent[c]) \in H /\ Tail(sent[c]) \in Seq(H)
    BY <2>1, HeadTailProperties
  <2> QED
    BY <1>2, <2>2 DEF Arrive
<1>3. ASSUME NEW c \in Channels, Lose(c)
      PROVE  sent' \in [Channels -> Seq(H)] /\ copy' \in H \cup {Nothing}
  <2>1. <<>> \in Seq(H) /\ <<source>> \in Seq(H)
    OBVIOUS
  <2> QED
    BY <1>3, <2>1 DEF Lose
<1>4. CASE Reset
  <2>1. <<>> \in Seq(H)
    OBVIOUS
  <2> QED
    BY <1>4, <2>1 DEF Reset
<1>5. CASE UNCHANGED vars
  BY <1>5 DEF vars
<1> QED
  BY <1>1, <1>2, <1>3, <1>4, <1>5 DEF Next

\* What has left the source, the channels and the copy does not come back, at
\* whatever time that is: once everything is in a set H the source stays in, the
\* copy stays in it too.
THEOREM DroppedStaysDropped ==
  ASSUME NEW CONSTANT H
  PROVE  Spec => [](Within(H) /\ [](source \in H) => [](copy \in H \cup {Nothing}))
<1>1. Within(H) /\ source \in H /\ (source \in H)' /\ [Next]_vars => Within(H)'
  BY StepStays
<1>2. Within(H) => copy \in H \cup {Nothing}
  BY DEF Within
<1> QED
  BY <1>1, <1>2, PTL DEF Spec

\* Whatever set the source never leaves, the copy never leaves either, once
\* something has arrived: no status and no schedule is invented on the way.
THEOREM NothingInvented ==
  ASSUME NEW CONSTANT H
  PROVE  Spec /\ [](source \in H) => [](copy \in H \cup {Nothing})
<1>1. Init => Within(H)
  <2>1. <<>> \in Seq(H)
    OBVIOUS
  <2> QED
    BY <2>1 DEF Init, Within
<1>2. Spec => [](Within(H) /\ [](source \in H) => [](copy \in H \cup {Nothing}))
  BY DroppedStaysDropped
<1> QED
  BY <1>1, <1>2, PTL DEF Spec

-----------------------------------------------------------------------------
\* What is on the way is in the order of its ages, between the copy's and the
\* source's.
Ordered(rank, s) ==
  /\ \A i \in 1..Len(s) : rank[s[i]] <= rank[source]
  /\ \A i, j \in 1..Len(s) : i <= j => rank[s[i]] <= rank[s[j]]
  /\ copy # Nothing =>
       rank[copy] <= rank[source] /\ \A i \in 1..Len(s) : rank[copy] <= rank[s[i]]

OrderInv(rank, c) ==
  /\ sent \in [Channels -> Seq(Values)]
  /\ source \in Values /\ copy \in Values \cup {Nothing}
  /\ Ordered(rank, sent[c])

\* The source never goes back to a value of a lower rank.
Grows(rank) == rank[source] <= rank[source']

\* Neither does the copy, except that it may be reset.
Advances(rank) ==
  copy # Nothing /\ copy' # Nothing => rank[copy] <= rank[copy']

\* With a single channel a step keeps the order.
LEMMA StepOrdered ==
  ASSUME NEW c, Channels = {c}, NEW rank \in [Values -> Nat],
         OrderInv(rank, c), [Next]_vars, Grows(rank) \/ UNCHANGED vars
  PROVE  OrderInv(rank, c)' /\ (Advances(rank) \/ UNCHANGED vars)
<1> DEFINE s == sent[c]
<1> USE DEF OrderInv, Ordered
<1>0. s \in Seq(Values) /\ Len(s) \in Nat /\ \A i \in 1..Len(s) : s[i] \in Values
  OBVIOUS
<1>1. CASE UNCHANGED vars
  BY <1>1 DEF vars
<1>2. CASE Change /\ Grows(rank)
  <2>1. source' \in Values /\ rank[source] <= rank[source'] /\ copy' = copy
    BY <1>2 DEF Change, Grows
  <2>2. rank[source] \in Nat /\ rank[source'] \in Nat
        /\ (copy # Nothing => rank[copy] \in Nat)
        /\ \A i \in 1..Len(s) : rank[s[i]] \in Nat
    BY <1>0, <2>1
  <2>3. CASE UNCHANGED sent
    BY <1>0, <2>1, <2>2, <2>3 DEF Advances
  <2>4. ASSUME NEW v \in {source, source'}, sent' = [sent EXCEPT ![c] = Append(@, v)]
        PROVE  OrderInv(rank, c)'
    <3>1. /\ sent'[c] \in Seq(Values) /\ Len(sent'[c]) = Len(s) + 1
          /\ \A i \in 1..Len(s) : sent'[c][i] = s[i]
          /\ sent'[c][Len(s) + 1] = v
      BY <1>0, <2>1, <2>4
    <3>2. rank[v] \in Nat /\ rank[source] <= rank[v] /\ rank[v] <= rank[source']
      BY <2>1, <2>2
    <3>0. \A i \in 1..Len(sent'[c]) : i \in 1..Len(s) \/ i = Len(s) + 1
      BY <1>0, <3>1
    <3>3. \A i \in 1..Len(sent'[c]) : rank[sent'[c][i]] <= rank[source']
      <4> SUFFICES ASSUME NEW i \in 1..Len(sent'[c])
                   PROVE  rank[sent'[c][i]] <= rank[source']
        OBVIOUS
      <4>1. CASE i \in 1..Len(s)
        <5>1. rank[s[i]] <= rank[source] /\ rank[s[i]] \in Nat
          BY <2>2, <4>1
        <5> QED
          BY <2>1, <2>2, <3>1, <4>1, <5>1
      <4>2. CASE i = Len(s) + 1
        BY <3>1, <3>2, <4>2
      <4> QED
        BY <3>0, <4>1, <4>2
    <3>4. \A i, j \in 1..Len(sent'[c]) : i <= j => rank[sent'[c][i]] <= rank[sent'[c][j]]
      <4> SUFFICES ASSUME NEW i \in 1..Len(sent'[c]), NEW j \in 1..Len(sent'[c]), i <= j
                   PROVE  rank[sent'[c][i]] <= rank[sent'[c][j]]
        OBVIOUS
      <4>1. CASE i \in 1..Len(s) /\ j \in 1..Len(s)
        BY <3>1, <4>1
      <4>2. CASE i \in 1..Len(s) /\ j = Len(s) + 1
        <5>1. rank[s[i]] <= rank[source] /\ rank[s[i]] \in Nat
          BY <2>2, <4>2
        <5>2. sent'[c][i] = s[i] /\ sent'[c][j] = v
          BY <3>1, <4>2
        <5>3. rank[source] \in Nat
          BY <2>2
        <5> QED
          BY <3>2, <5>1, <5>2, <5>3
      <4>3. CASE i = Len(s) + 1
        <5>1. j = Len(s) + 1
          BY <1>0, <3>0, <4>3
        <5> QED
          BY <3>1, <3>2, <4>3, <5>1
      <4> QED
        BY <3>0, <4>1, <4>2, <4>3
    <3>5. copy' # Nothing => /\ rank[copy'] <= rank[source']
                            /\ \A i \in 1..Len(sent'[c]) : rank[copy'] <= rank[sent'[c][i]]
      <4> SUFFICES ASSUME copy # Nothing
                   PROVE  /\ rank[copy] <= rank[source']
                          /\ \A i \in 1..Len(sent'[c]) : rank[copy] <= rank[sent'[c][i]]
        BY <2>1
      <4>1. rank[copy] <= rank[source] /\ rank[copy] \in Nat
        BY <2>2
      <4>2. rank[copy] <= rank[source'] /\ rank[copy] <= rank[v]
        BY <2>1, <2>2, <3>2, <4>1
      <4>3. \A i \in 1..Len(s) : rank[copy] <= rank[s[i]]
        OBVIOUS
      <4> QED
        BY <3>0, <3>1, <4>2, <4>3
    <3>6. sent' \in [Channels -> Seq(Values)]
      BY <2>4, <3>1
    <3> QED
      BY <2>1, <3>3, <3>4, <3>5, <3>6
  <2> QED
    BY <1>2, <2>1, <2>2, <2>3, <2>4 DEF Change, Advances
<1>3. CASE Arrive(c)
  <2>1. s # <<>> /\ copy' = Head(s) /\ sent' = [sent EXCEPT ![c] = Tail(s)] /\ source' = source
    BY <1>3 DEF Arrive
  <2>2. /\ Head(s) = s[1] /\ sent'[c] \in Seq(Values)
        /\ Len(sent'[c]) = Len(s) - 1 /\ 1 \in 1..Len(s)
        /\ \A i \in 1..Len(sent'[c]) : sent'[c][i] = s[i + 1] /\ i + 1 \in 1..Len(s)
    BY <1>0, <2>1, HeadTailProperties
  <2>3. copy' \in Values
    BY <1>0, <2>1, <2>2
  <2>4. \A i \in 1..Len(sent'[c]) :
          rank[sent'[c][i]] <= rank[source'] /\ rank[copy'] <= rank[sent'[c][i]]
    BY <1>0, <2>1, <2>2
  <2>5. \A i, j \in 1..Len(sent'[c]) : i <= j => rank[sent'[c][i]] <= rank[sent'[c][j]]
    BY <1>0, <2>1, <2>2
  <2>6. rank[copy'] <= rank[source'] /\ (copy # Nothing => rank[copy] <= rank[copy'])
    BY <1>0, <2>1, <2>2
  <2>7. sent' \in [Channels -> Seq(Values)]
    BY <2>1, <2>2
  <2> QED
    BY <2>1, <2>3, <2>4, <2>5, <2>6, <2>7 DEF Advances
<1>4. CASE Lose(c)
  <2>1. PICK t \in {<<>>, <<source>>} : sent' = [sent EXCEPT ![c] = t]
    BY <1>4 DEF Lose
  <2>2. t \in Seq(Values)
    <3>1. CASE t = <<>>
      BY <3>1
    <3>2. CASE t = <<source>>
      BY <3>2
    <3> QED
      BY <3>1, <3>2
  <2>3. sent'[c] = t /\ UNCHANGED <<source, copy>> /\ sent' \in [Channels -> Seq(Values)]
    BY <1>4, <2>1, <2>2 DEF Lose
  <2>4. \A i \in 1..Len(t) : t[i] = source
    OBVIOUS
  <2>5. rank[source] \in Nat
    OBVIOUS
  <2> QED
    BY <2>3, <2>4, <2>5 DEF Advances
<1>5. CASE Reset
  <2>1. copy' = Nothing /\ source' = source
    BY <1>5 DEF Reset
  <2>2. CASE UNCHANGED sent
    BY <2>1, <2>2 DEF Advances
  <2>3. CASE sent' = [d \in Channels |-> <<>>]
    <3>1. sent'[c] = <<>> /\ sent' \in [Channels -> Seq(Values)]
      BY <2>3
    <3> QED
      BY <2>1, <3>1 DEF Advances
  <2> QED
    BY <1>5, <2>2, <2>3 DEF Reset
<1>6. Next \/ UNCHANGED vars => UNCHANGED vars \/ Change \/ Reset \/ Arrive(c) \/ Lose(c)
  BY DEF Next
<1> QED
  BY <1>1, <1>2, <1>3, <1>4, <1>5, <1>6

\* A copy with one channel never goes back to an older value as long as the
\* source does not, however many values are lost on the way: so it is with the
\* status of a TrafficSchedule.  With the several ways of a schedule manager it
\* does go back.
THEOREM OneChannelKeepsOrder ==
  ASSUME NEW CONSTANT c, Channels = {c}, NEW CONSTANT rank \in [Values -> Nat]
  PROVE  Spec /\ [][Grows(rank)]_vars => [][Advances(rank)]_vars
<1>1. Init => OrderInv(rank, c)
  <2> SUFFICES ASSUME Init PROVE OrderInv(rank, c)
    OBVIOUS
  <2>1. sent[c] = <<>> /\ sent \in [Channels -> Seq(Values)]
    BY DEF Init
  <2> QED
    BY <2>1 DEF Init, OrderInv, Ordered
<1>2. OrderInv(rank, c) /\ [Next]_vars /\ [Grows(rank)]_vars
        => OrderInv(rank, c)' /\ [Advances(rank)]_vars
  BY StepOrdered
<1> QED
  BY <1>1, <1>2, PTL DEF Spec
=============================================================================
