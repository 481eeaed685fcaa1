---------------------------- MODULE LaggingCopy -----------------------------
(***************************************************************************)
(* What a hop of the schedule's way from the decision engine to the        *)
(* routers promises: a copy of a source, fed by channels.  Each channel    *)
(* carries, in their order, values the source had when they were sent;     *)
(* between channels there is no order, so a copy with one channel never    *)
(* goes back to an older value and one with several may.  What is in a     *)
(* channel may be lost, and the copy may be reset, but nothing is invented *)
(* and nothing that left a channel comes back.                             *)
(***************************************************************************)
EXTENDS Sequences

CONSTANTS
  Values,     \* of the source
  Channels,
  Nothing     \* the copy before anything has arrived, or after a reset

VARIABLES source, sent, copy

vars == <<source, sent, copy>>

Init ==
  /\ source \in Values
  /\ sent = [c \in Channels |-> <<>>]
  /\ copy = Nothing

\* The source changes, or does not, and the value it had or has may be sent.
Change ==
  /\ source' \in Values
  /\ \/ UNCHANGED sent
     \/ \E c \in Channels, v \in {source, source'} :
          sent' = [sent EXCEPT ![c] = Append(@, v)]
  /\ UNCHANGED copy

Arrive(c) ==
  /\ sent[c] # <<>>
  /\ copy' = Head(sent[c])
  /\ sent' = [sent EXCEPT ![c] = Tail(@)]
  /\ UNCHANGED source

\* A channel loses what is in it, and may begin again at the source.
Lose(c) ==
  /\ \E s \in {<<>>, <<source>>} : sent' = [sent EXCEPT ![c] = s]
  /\ UNCHANGED <<source, copy>>

\* The holder of the copy begins again.
Reset ==
  /\ copy' = Nothing
  /\ \/ UNCHANGED sent
     \/ sent' = [c \in Channels |-> <<>>]
  /\ UNCHANGED source

Next == Change \/ Reset \/ \E c \in Channels : Arrive(c) \/ Lose(c)

Spec == Init /\ [][Next]_vars
=============================================================================
