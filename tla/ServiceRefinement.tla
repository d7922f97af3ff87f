------------------------- MODULE ServiceRefinement -------------------------
(***************************************************************************)
(* MessageFlow implements TaskService: every step of the gateways, the     *)
(* broker and the consumers is a step of the promised service or none.     *)
(***************************************************************************)
EXTENDS MessageOrderProofs

\* A request that was accepted never becomes new again, and verdicts stay.
LEMMA Monotone ==
  ASSUME TypeOK, [Next]_vars, NEW r \in Requests
  PROVE  /\ client[r] # "new" => client'[r] # "new"
         /\ told[r] \subseteq told'[r]
<1> USE DEF TypeOK
<1>1. CASE \E p \in Requests : Refuse(p) \/ RejectForm(p) \/ \E g \in Gateways : OpenReplyQueue(p, g)
  BY <1>1 DEF Refuse, RejectForm, OpenReplyQueue
<1>2. CASE \E p \in Requests, f \in Forms : PublishTask(p, f)
  BY <1>2 DEF PublishTask
<1>3. ASSUME NEW p \in Requests, ReadReply(p)
      PROVE  (client[r] # "new" => client'[r] # "new") /\ told[r] \subseteq told'[r]
  <2>1. Head(replies[p]) \in Feedback
    BY <1>3 DEF ReadReply
  <2>2. Head(replies[p]).status # "new"
    BY <2>1 DEF Feedback, Verdicts
  <2> QED BY <1>3, <2>2 DEF ReadReply
<1>4. ASSUME NEW d \in inflight, Reply(d)
      PROVE  (client[r] # "new" => client'[r] # "new") /\ told[r] \subseteq told'[r]
  BY <1>4 DEF Reply
<1>5. CASE \E g \in Gateways : \E q \in Queues : \E m \in ready[q] : Deliver(g, q, m)
  BY <1>5 DEF Deliver
<1>6. CASE \E d \in inflight : Republish(d) \/ Ack(d) \/ DeadLetter(d)
  BY <1>6 DEF Republish, Ack, DeadLetter
<1>7. CASE \E s \in Shards : \E m \in ready[<<"retry", s>>] : Expire(s, m)
  BY <1>7 DEF Expire
<1>8. CASE \E g \in Gateways : MetricsRequest(g) \/ Crash(g) \/ Restart(g)
  BY <1>8 DEF MetricsRequest, Crash, Restart, DropChannel
<1>9. CASE UNCHANGED vars
  BY <1>9 DEF vars
<1> QED
  BY <1>1, <1>2, <1>3, <1>4, <1>5, <1>6, <1>7, <1>8, <1>9 DEF Next, Handler, Consumer

\* Verdicts in reply queues have been reached.
QueuedVerdictsReached ==
  \A r \in Requests : \A i \in DOMAIN replies[r] :
    Final(replies[r][i]) => replies[r][i].status \in told[r]

\* The copies of accepted requests.
Accepted == {m \in Copy : client[m.req] # "new"}

\* To keep ServiceInv, a step may only move, copy or create messages of
\* requests that are accepted by then.
LEMMA KeepServiceInv ==
  ASSUME TypeOK, [Next]_vars, QueuedVerdictsReached',
         \A q \in Queues : \A m \in ready'[q] : m \in Accepted \/ client'[m.req] # "new",
         \A d \in inflight' : d.msg \in Accepted \/ client'[d.msg.req] # "new"
  PROVE  ServiceInv'
<1>1. \A m \in Accepted : client'[m.req] # "new"
  BY Monotone DEF Accepted, Copy
<1> QED BY <1>1 DEF ServiceInv, QueuedVerdictsReached, Final

\* Verdicts that were in a reply queue before the step stay reached.
LEMMA OldVerdictsReached ==
  ASSUME TypeOK, ServiceInv, [Next]_vars,
         \A r \in Requests : \A i \in DOMAIN replies'[r] :
           \/ \E j \in DOMAIN replies[r] : replies'[r][i] = replies[r][j]
           \/ Final(replies'[r][i]) => replies'[r][i].status \in told'[r]
  PROVE  QueuedVerdictsReached'
<1>1. \A r \in Requests : told[r] \subseteq told'[r]
  BY Monotone
<1> QED BY <1>1 DEF ServiceInv, QueuedVerdictsReached, Final

\* Messages are about accepted requests; queued verdicts have been reached.
LEMMA ServiceInvStep == TypeOK /\ ServiceInv /\ [Next]_vars => ServiceInv'
<1> SUFFICES ASSUME TypeOK, ServiceInv, [Next]_vars PROVE ServiceInv'
  OBVIOUS
<1>1. /\ \A q \in Queues : ready[q] \subseteq Accepted
      /\ \A d \in inflight : d.msg \in Accepted
  BY DEF TypeOK, ServiceInv, Delivery, Copy, Accepted
<1>2. ASSUME UNCHANGED replies PROVE QueuedVerdictsReached'
  BY <1>2, OldVerdictsReached
<1>3. ASSUME UNCHANGED <<ready, inflight, replies>> PROVE ServiceInv'
  BY <1>1, <1>2, <1>3, KeepServiceInv
<1>4. ASSUME NEW r \in Requests, NEW f \in Forms, PublishTask(r, f)
      PROVE  ServiceInv'
  <2>1. client'[r] = "waiting" /\ UNCHANGED <<inflight, replies>>
    BY <1>4 DEF PublishTask, TypeOK
  <2>2. \A q \in Queues : \A m \in ready'[q] : m \in ready[q] \/ m.req = r
    BY <1>4 DEF PublishTask
  <2>3. QueuedVerdictsReached'
    BY <1>2, <2>1
  <2>4. \A q \in Queues : \A m \in ready'[q] : m \in Accepted \/ client'[m.req] # "new"
    BY <1>1, <2>1, <2>2
  <2> QED BY <1>1, <2>1, <2>3, <2>4, KeepServiceInv
<1>5. ASSUME NEW p \in Requests, ReadReply(p) PROVE ServiceInv'
  <2>1. /\ UNCHANGED <<ready, inflight>>
        /\ \A r \in Requests : r # p => replies'[r] = replies[r]
        /\ replies[p] \in Seq(Feedback) /\ replies[p] # << >> /\ replies'[p] = Tail(replies[p])
    BY <1>5 DEF ReadReply, TypeOK
  <2>2. \A i \in DOMAIN replies'[p] : i + 1 \in DOMAIN replies[p] /\ replies'[p][i] = replies[p][i + 1]
    BY <2>1
  <2>3. QueuedVerdictsReached'
    BY <2>1, <2>2, OldVerdictsReached
  <2> QED BY <1>1, <2>1, <2>3, KeepServiceInv
<1>6. ASSUME NEW g \in Gateways, NEW q \in Queues, NEW m \in ready[q], Deliver(g, q, m)
      PROVE  ServiceInv'
  <2>1. /\ UNCHANGED replies
        /\ \A p \in Queues : ready'[p] \subseteq ready[p]
        /\ \A d \in inflight' : d \in inflight \/ d.msg = m
    BY <1>6 DEF Deliver, TypeOK
  <2>2. QueuedVerdictsReached'
    BY <1>2, <2>1
  <2>3. \A d \in inflight' : d.msg \in Accepted
    BY <1>1, <2>1
  <2> QED BY <1>1, <2>1, <2>2, <2>3, KeepServiceInv
<1>7. ASSUME NEW d \in inflight, Reply(d) PROVE ServiceInv'
  <2> DEFINE r == d.msg.req
  <2>1. r \in Requests /\ UNCHANGED ready
    BY <1>7 DEF Reply, TypeOK, Delivery, Copy
  <2>2. \A e \in inflight' : e \in inflight \/ e.msg = d.msg
    BY <1>7 DEF Reply, Advance, TypeOK, Delivery
  <2>3. \A e \in inflight' : e.msg \in Accepted
    BY <1>1, <2>2
  <2>4. \A p \in Requests : p # r => replies'[p] = replies[p]
    BY <1>7 DEF Reply, TypeOK
  <2>5. \A i \in DOMAIN replies'[r] :
          \/ i \in DOMAIN replies[r] /\ replies'[r][i] = replies[r][i]
          \/ replies'[r][i] = FeedbackOn(d)
    <3>1. CASE replyQueue[r] = NoGateway
      BY <1>7, <3>1 DEF Reply
    <3>2. CASE replyQueue[r] # NoGateway
      <4>1. replies[r] \in Seq(Feedback) /\ replies'[r] = Append(replies[r], FeedbackOn(d))
        BY <1>7, <2>1, <3>2 DEF Reply, TypeOK
      <4>2. FeedbackOn(d) \in Feedback
        BY FeedbackType DEF TypeOK
      <4> QED BY <4>1, <4>2
    <3> QED BY <3>1, <3>2
  <2>6. Final(FeedbackOn(d)) => FeedbackOn(d).status \in told'[r]
    BY <1>7, <2>1 DEF Reply, FeedbackOn, Final, TypeOK
  <2>7. QueuedVerdictsReached'
    BY <2>1, <2>4, <2>5, <2>6, OldVerdictsReached
  <2> QED BY <1>1, <2>1, <2>3, <2>7, KeepServiceInv
<1>8. ASSUME NEW d \in inflight, Republish(d) PROVE ServiceInv'
  <2>1. /\ UNCHANGED replies
        /\ \A q \in Queues : \A m \in ready'[q] : m \in ready[q] \/ m.req = d.msg.req
    BY <1>8 DEF Republish, TypeOK
  <2>2. \A e \in inflight' : e \in inflight \/ e.msg = d.msg
    BY <1>8 DEF Republish, Advance, TypeOK, Delivery
  <2>3. client'[d.msg.req] # "new"
    BY <1>1, <1>8 DEF Republish, Accepted
  <2>4. QueuedVerdictsReached'
    BY <1>2, <2>1
  <2>5. \A q \in Queues : \A m \in ready'[q] : m \in Accepted \/ client'[m.req] # "new"
    BY <1>1, <2>1, <2>3
  <2>6. \A e \in inflight' : e.msg \in Accepted
    BY <1>1, <2>2
  <2> QED BY <2>4, <2>5, <2>6, KeepServiceInv
<1>9. ASSUME NEW d \in inflight, Ack(d) \/ DeadLetter(d) PROVE ServiceInv'
  <2>1. /\ UNCHANGED replies /\ inflight' \subseteq inflight
        /\ \A q \in Queues : \A m \in ready'[q] : m \in ready[q] \/ m = d.msg
    BY <1>9 DEF Ack, DeadLetter, TypeOK
  <2>2. \A q \in Queues : \A m \in ready'[q] : m \in Accepted
    BY <1>1, <2>1
  <2>3. QueuedVerdictsReached'
    BY <1>2, <2>1
  <2> QED BY <1>1, <2>1, <2>2, <2>3, KeepServiceInv
<1>10. ASSUME NEW s \in Shards, NEW m \in ready[<<"retry", s>>], Expire(s, m) PROVE ServiceInv'
  <2>1. /\ UNCHANGED <<replies, inflight>>
        /\ \A q \in Queues : \A n \in ready'[q] : n \in ready[q] \/ n = m
    BY <1>10 DEF Expire, TypeOK
  <2>2. <<"retry", s>> \in Queues
    BY ShardQueue
  <2>3. \A q \in Queues : \A n \in ready'[q] : n \in Accepted
    BY <1>1, <2>1, <2>2
  <2>4. QueuedVerdictsReached'
    BY <1>2, <2>1
  <2> QED BY <1>1, <2>1, <2>3, <2>4, KeepServiceInv
<1>11. ASSUME NEW g \in Gateways, DropChannel(g) PROVE ServiceInv'
  <2>1. /\ inflight' \subseteq inflight
        /\ \A q \in Queues : \A m \in ready'[q] : m \in ready[q] \/ \E d \in inflight : m = d.msg
    BY <1>11 DEF DropChannel, Requeued
  <2>2. \A r \in Requests : replies'[r] = replies[r] \/ replies'[r] = << >>
    BY <1>11 DEF DropChannel
  <2>3. QueuedVerdictsReached'
    BY <2>2, OldVerdictsReached
  <2>4. \A q \in Queues : \A m \in ready'[q] : m \in Accepted
    BY <1>1, <2>1
  <2> QED BY <1>1, <2>1, <2>3, <2>4, KeepServiceInv
<1>12. ASSUME NEW r \in Requests,
              Refuse(r) \/ RejectForm(r) \/ \E g \in Gateways : OpenReplyQueue(r, g)
       PROVE  UNCHANGED <<ready, inflight, replies>>
  BY <1>12 DEF Refuse, RejectForm, OpenReplyQueue
<1>13. ASSUME (\E g \in Gateways : Restart(g)) \/ UNCHANGED vars
       PROVE  UNCHANGED <<ready, inflight, replies>>
  BY <1>13 DEF Restart, vars
<1> QED
  BY <1>3, <1>4, <1>5, <1>6, <1>7, <1>8, <1>9, <1>10, <1>11, <1>12, <1>13
     DEF Next, Handler, Consumer, MetricsRequest, Crash

-----------------------------------------------------------------------------
\* Each step is a step of TaskService, or changes nothing a client can see.
LEMMA StepImplements ==
  ASSUME TypeOK, ServiceInv, [Next]_vars
  PROVE  [Service!ServiceNext]_Service!svcVars
<1> USE DEF Service!svcVars, clientStatus
<1>1. ASSUME UNCHANGED <<client, told>> PROVE UNCHANGED Service!svcVars
  BY <1>1
<1>2. ASSUME NEW r \in Requests, Refuse(r) PROVE Service!Reject(r)
  BY <1>2 DEF Refuse, TypeOK, Service!Reject
<1>3. ASSUME NEW r \in Requests, NEW g \in Gateways, OpenReplyQueue(r, g)
      PROVE  Service!Accept(r)
  BY <1>3 DEF OpenReplyQueue, TypeOK, Service!Accept
<1>4. ASSUME NEW r \in Requests, RejectForm(r) PROVE Service!Abort({r})
  BY <1>4 DEF RejectForm, TypeOK, Service!Abort
<1>5. ASSUME NEW r \in Requests, NEW f \in Forms, PublishTask(r, f)
      PROVE  UNCHANGED Service!svcVars
  BY <1>5 DEF PublishTask, TypeOK
<1>6. ASSUME NEW r \in Requests, ReadReply(r)
      PROVE  Service!Answer(r) \/ UNCHANGED Service!svcVars
  <2> DEFINE first == Head(replies[r])
  <2>1. replies[r] \in Seq(Feedback) /\ replies[r] # << >> /\ UNCHANGED told
    BY <1>6 DEF ReadReply, TypeOK
  <2>2. first = replies[r][1] /\ 1 \in DOMAIN replies[r] /\ first \in Feedback
    BY <2>1
  <2>3. CASE Final(first)
    <3>1. first.status \in told[r] /\ first.status # "open"
      BY <2>2, <2>3 DEF ServiceInv, TypeOK, Verdicts, Final
    <3>2. client[r] = "waiting" /\ client' = [client EXCEPT ![r] = first.status]
      BY <1>6, <2>3 DEF ReadReply
    <3>3. Service!Answer(r)
      BY <2>1, <3>1, <3>2 DEF Service!Answer, TypeOK
    <3> QED BY <3>3
  <2>4. CASE ~Final(first)
    BY <1>6, <2>4 DEF ReadReply
  <2> QED BY <2>3, <2>4
<1>7. ASSUME NEW d \in inflight, Reply(d)
      PROVE  Service!Decide(d.msg.req) \/ UNCHANGED Service!svcVars
  <2> DEFINE r == d.msg.req
  <2>1. r \in Requests /\ UNCHANGED client /\ client[r] # "new"
    BY <1>7 DEF Reply, TypeOK, Delivery, Copy, ServiceInv
  <2>2. CASE Interim(d)
    BY <1>7, <2>2 DEF Reply
  <2>3. CASE ~Interim(d)
    <3>1. told' = [told EXCEPT ![r] = @ \cup {Verdict(d)}]
      BY <1>7, <2>3 DEF Reply
    <3>2. Verdict(d) \in Service!Verdicts
      BY DEF Verdict, Service!Verdicts
    <3> QED BY <2>1, <3>1, <3>2 DEF Service!Decide
  <2> QED BY <2>2, <2>3
<1>8. ASSUME NEW g \in Gateways, DropChannel(g)
      PROVE  \E S \in SUBSET Requests : Service!Abort(S)
  <2> DEFINE S == {r \in Requests : replyQueue[r] = g /\ client[r] \in {"open", "waiting"}}
  <2>1. S \in SUBSET Requests
    OBVIOUS
  <2>2. Service!Abort(S)
    BY <1>8 DEF DropChannel, TypeOK, Service!Abort
  <2> HIDE DEF S
  <2> QED BY <2>1, <2>2 DEF Service!Abort
<1>9. ASSUME \/ \E g \in Gateways, q \in Queues : \E m \in ready[q] : Deliver(g, q, m)
             \/ \E d \in inflight : Republish(d) \/ Ack(d) \/ DeadLetter(d)
             \/ \E s \in Shards : \E m \in ready[<<"retry", s>>] : Expire(s, m)
             \/ \E g \in Gateways : Restart(g)
             \/ UNCHANGED vars
      PROVE  UNCHANGED <<client, told>>
  BY <1>9 DEF Deliver, Republish, Ack, DeadLetter, Expire, Restart, vars
<1>10. \A d \in inflight : d.msg.req \in Requests
  BY DEF TypeOK, Delivery, Copy
<1> QED
  BY <1>1, <1>2, <1>3, <1>4, <1>5, <1>6, <1>7, <1>8, <1>9, <1>10
     DEF Next, Handler, Consumer, MetricsRequest, Crash, Service!ServiceNext

\* The gateways, queues and consumers implement TaskService, for any number of
\* requests, gateways, shards, workers, retries and faults: each client is
\* answered once, with a verdict that some consumer reached, or given up on.
THEOREM Implementation == Spec => ImplementsService
<1>1. Init => ServiceInv /\ Service!ServiceInit
  BY DEF Init, ServiceInv, clientStatus, Service!ServiceInit
<1>2. TypeOK /\ ServiceInv /\ [Next]_vars => [Service!ServiceNext]_Service!svcVars
  BY StepImplements
<1>3. Spec => []TypeOK
  BY TypeCorrect
<1> QED
  BY <1>1, <1>2, <1>3, ServiceInvStep, PTL DEF Spec, ImplementsService, Service!ServiceSpec

-----------------------------------------------------------------------------
(* What the refinement says of the answers.                                *)

\* The abstract service answers with verdicts that were reached.
LEMMA ServiceAnswers == Service!ServiceSpec => []Service!AnswersReached
<1> DEFINE Inv == Service!ServiceTypeOK /\ Service!AnswersReached
<1> USE DEF Service!ServiceTypeOK, Service!AnswersReached, Service!Verdicts
<1>1. Service!ServiceInit => Inv
  BY DEF Service!ServiceInit
<1>2. Inv /\ [Service!ServiceNext]_Service!svcVars => Inv'
  <2> SUFFICES ASSUME Inv, [Service!ServiceNext]_Service!svcVars PROVE Inv'
    OBVIOUS
  <2>1. ASSUME NEW r \in Requests, Service!Accept(r) \/ Service!Reject(r) PROVE Inv'
    BY <2>1 DEF Service!Accept, Service!Reject
  <2>2. ASSUME NEW r \in Requests, Service!Decide(r) PROVE Inv'
    BY <2>2 DEF Service!Decide
  <2>3. ASSUME NEW r \in Requests, Service!Answer(r) PROVE Inv'
    BY <2>3 DEF Service!Answer
  <2>4. ASSUME NEW S \in SUBSET Requests, Service!Abort(S) PROVE Inv'
    BY <2>4 DEF Service!Abort
  <2>5. CASE UNCHANGED Service!svcVars
    BY <2>5 DEF Service!svcVars
  <2> QED BY <2>1, <2>2, <2>3, <2>4, <2>5 DEF Service!ServiceNext
<1>3. Inv => Service!AnswersReached
  OBVIOUS
<1> QED BY <1>1, <1>2, <1>3, PTL DEF Service!ServiceSpec

\* A set with one member at most has no other.
LEMMA OnlyMember ==
  ASSUME NEW S, IsFiniteSet(S), Cardinality(S) <= 1, NEW x \in S
  PROVE  S = {x}
<1>1. SUFFICES ASSUME NEW y \in S, y # x PROVE FALSE
  OBVIOUS
<1>2. {x, y} \subseteq S
  BY <1>1
<1>3. Cardinality({x, y}) <= Cardinality(S)
  BY <1>2, FS_Subset
<1>4. Cardinality({x, y}) = 2
  <2>1. Cardinality({x}) = 1 /\ IsFiniteSet({x})
    BY FS_Singleton
  <2>2. Cardinality({x} \cup {y}) = Cardinality({x}) + 1
    BY <1>1, <2>1, FS_AddElement
  <2>3. {x, y} = {x} \cup {y}
    OBVIOUS
  <2> QED BY <2>1, <2>2, <2>3
<1>5. Cardinality(S) \in Nat
  BY FS_CardinalityType
<1> QED BY <1>3, <1>4, <1>5

\* The answer of a handler is a verdict about its task, and, unless a channel
\* was lost, the only one there ever is.
THEOREM AnswersAreVerdicts == Spec => []AnswersStand
<1>1. TypeOK /\ OneVerdict /\ Service!AnswersReached => AnswersStand
  <2> SUFFICES ASSUME TypeOK, OneVerdict, Service!AnswersReached,
                      NEW r \in Requests, client[r] \in Verdicts
               PROVE  client[r] \in told[r] /\ (faults = 0 => told[r] = {client[r]})
    BY DEF AnswersStand
  <2>1. client[r] \in told[r]
    BY DEF Service!AnswersReached, Service!Verdicts, clientStatus, Verdicts
  <2>2. IsFiniteSet(told[r])
    <3>1. IsFiniteSet(Verdicts)
      <4>1. IsFiniteSet({"success"} \cup {"dlq"})
        BY FS_Singleton, FS_AddElement
      <4>2. Verdicts = {"success"} \cup {"dlq"}
        BY DEF Verdicts
      <4> QED BY <4>1, <4>2
    <3> QED BY <3>1, FS_Subset DEF TypeOK
  <2>3. CASE faults = 0
    BY <2>1, <2>2, <2>3, OnlyMember DEF OneVerdict
  <2> QED BY <2>1, <2>3
<1> QED
  BY <1>1, TypeCorrect, VerdictsAgree, Implementation, ServiceAnswers, PTL DEF ImplementsService
=============================================================================
