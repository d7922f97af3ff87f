---------------------------- MODULE TaskService ----------------------------
(***************************************************************************)
(* What the messaging system promises to the client of POST /submit-task,  *)
(* with no broker, queue or gateway in sight: a request is either refused  *)
(* or accepted; workers reach verdicts about accepted requests only; a     *)
(* waiting client is answered once, with a verdict that some worker really *)
(* reached, or is told that the gateway gave up on it.                     *)
(* MessageFlow implements this specification.                              *)
(***************************************************************************)

CONSTANT Requests    \* the requests clients make, each submitted once

VARIABLES
  status,     \* status[r]: what the client of r knows
  verdicts    \* verdicts[r]: the final outcomes workers have reached for r

svcVars == <<status, verdicts>>

Verdicts == {"success", "dlq"}

ServiceTypeOK ==
  /\ status \in [Requests -> {"new", "waiting", "failed"} \cup Verdicts]
  /\ verdicts \in [Requests -> SUBSET Verdicts]

ServiceInit ==
  /\ status = [r \in Requests |-> "new"]
  /\ verdicts = [r \in Requests |-> {}]

Accept(r) ==
  /\ status[r] = "new"
  /\ status' = [status EXCEPT ![r] = "waiting"]
  /\ UNCHANGED verdicts

Reject(r) ==
  /\ status[r] = "new"
  /\ status' = [status EXCEPT ![r] = "failed"]
  /\ UNCHANGED verdicts

\* A worker finishes with r. It may do so after the client has left, and
\* more than once.
Decide(r) ==
  /\ status[r] # "new"
  /\ \E v \in Verdicts : verdicts' = [verdicts EXCEPT ![r] = @ \cup {v}]
  /\ UNCHANGED status

Answer(r) ==
  /\ status[r] = "waiting"
  /\ \E v \in verdicts[r] : status' = [status EXCEPT ![r] = v]
  /\ UNCHANGED verdicts

\* The gateway that serves the clients in S gives up on them.
Abort(S) ==
  /\ \A r \in S : status[r] = "waiting"
  /\ status' = [r \in Requests |-> IF r \in S THEN "failed" ELSE status[r]]
  /\ UNCHANGED verdicts

ServiceNext ==
  \/ \E r \in Requests : Accept(r) \/ Reject(r) \/ Decide(r) \/ Answer(r)
  \/ \E S \in SUBSET Requests : Abort(S)

ServiceSpec == ServiceInit /\ [][ServiceNext]_svcVars

\* An answer is a verdict that some worker reached.
AnswersReached == \A r \in Requests : status[r] \in Verdicts => status[r] \in verdicts[r]
=============================================================================
