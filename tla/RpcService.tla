----------------------------- MODULE RpcService -----------------------------
(***************************************************************************)
(* What the buffer service promises to its clients: every request is       *)
(* answered at most once and the answer is final; an answer that carries a *)
(* response comes from an execution by the target service.  The service    *)
(* promises neither that an execution is unique nor that it happens before *)
(* the client is told of a timeout.                                        *)
(***************************************************************************)
CONSTANT Req

VARIABLES
  status,     \* "idle", "open", or the answer
  executed    \* requests the target service has executed

vars == <<status, executed>>

Answers == {"ok", "timeout", "error", "lost"}

Init ==
  /\ status = [r \in Req |-> "idle"]
  /\ executed = {}

Open(r) ==
  /\ status[r] = "idle"
  /\ status' = [status EXCEPT ![r] = "open"]
  /\ UNCHANGED executed

\* A request is turned away before it is published.
Refuse(r) ==
  /\ status[r] = "idle"
  /\ status' = [status EXCEPT ![r] = "error"]
  /\ UNCHANGED executed

\* The target executes a request that was published, answered or not.
Execute(r) ==
  /\ status[r] # "idle"
  /\ executed' = executed \cup {r}
  /\ UNCHANGED status

Answer(r) ==
  /\ status[r] = "open"
  /\ \E a \in Answers :
       /\ a = "ok" => r \in executed
       /\ status' = [status EXCEPT ![r] = a]
  /\ UNCHANGED executed

\* The front end goes down: every open request is cut off.
CutOff ==
  /\ status' = [r \in Req |-> IF status[r] = "open" THEN "lost" ELSE status[r]]
  /\ UNCHANGED executed

Next ==
  \/ \E r \in Req : Open(r) \/ Refuse(r) \/ Execute(r) \/ Answer(r)
  \/ CutOff

Spec == Init /\ [][Next]_vars
=============================================================================
