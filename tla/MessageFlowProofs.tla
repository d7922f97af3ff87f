------------------------- MODULE MessageFlowProofs -------------------------
(***************************************************************************)
(* Proofs that the safety properties of MessageFlow hold for any number of *)
(* requests, gateways, shards, workers, retries and faults.                *)
(***************************************************************************)
EXTENDS MessageFlow, FiniteSetTheorems, TLAPS

-----------------------------------------------------------------------------
(* Type correctness.                                                       *)

\* What a consumer writes to a reply queue is a feedback record.
LEMMA FeedbackType ==
  ASSUME NEW d \in Delivery
  PROVE  FeedbackOn(d) \in Feedback
  BY DEF Delivery, Copy, FeedbackOn, Feedback, Verdict, Verdicts, NextCount, Interim

\* The consumer's next stage of a delivery is a delivery.
LEMMA AdvanceType ==
  ASSUME inflight \subseteq Delivery, NEW d \in inflight, NEW s \in Stages
  PROVE  Advance(d, s) \subseteq Delivery
  <1>1. [d EXCEPT !.stage = s] \in Delivery
    BY DEF Delivery
  <1> QED BY <1>1 DEF Advance

\* The durable queues of a shard are queues.
LEMMA ShardQueue ==
  ASSUME NEW s \in Shards
  PROVE  <<"retry", s>> \in Queues /\ <<"task", s>> \in Queues /\ <<"resilient", s>> \in Queues
  BY DEF Queues, Shared

\* Every action of a gateway and of the broker preserves the types.
LEMMA TypeStep == TypeOK /\ [Next]_vars => TypeOK'
<1> SUFFICES ASSUME TypeOK, [Next]_vars PROVE TypeOK'
  OBVIOUS
<1> USE DEF TypeOK
<1>1. ASSUME NEW r \in Requests, Refuse(r) PROVE TypeOK'
  BY <1>1 DEF Refuse
<1>2. ASSUME NEW r \in Requests, RejectForm(r) PROVE TypeOK'
  BY <1>2 DEF RejectForm
<1>3. ASSUME NEW r \in Requests, NEW f \in Forms, PublishTask(r, f) PROVE TypeOK'
  <2> DEFINE msg == [req |-> r, id |-> 1, count |-> 0]
  <2>1. Destination(f) \in Routes
    BY DEF Destination, Exchange, Routes, Durable, Exchanges
  <2>2. msg \in Copy
    BY DEF Copy
  <2> QED BY <1>3, <2>1, <2>2 DEF PublishTask
<1>4. ASSUME NEW r \in Requests, ReadReply(r) PROVE TypeOK'
  <2>1. /\ Head(replies[r]) \in Feedback /\ Tail(replies[r]) \in Seq(Feedback)
    BY <1>4 DEF ReadReply
  <2>2. client' \in [Requests -> {"new", "open", "waiting", "failed"} \cup Verdicts]
    BY <1>4, <2>1 DEF ReadReply, Final, Feedback
  <2> QED BY <1>4, <2>1, <2>2 DEF ReadReply
<1>5. ASSUME NEW r \in Requests, NEW g \in Gateways, OpenReplyQueue(r, g) PROVE TypeOK'
  BY <1>5 DEF OpenReplyQueue
<1>6. ASSUME NEW g \in Gateways, NEW q \in Queues, NEW m \in ready[q], Deliver(g, q, m)
      PROVE TypeOK'
  <2>1. [gw |-> g, queue |-> q, msg |-> m, stage |-> "got"] \in Delivery
    BY DEF Delivery, Stages
  <2> QED BY <1>6, <2>1 DEF Deliver
<1>7. ASSUME NEW d \in inflight, Reply(d) PROVE TypeOK'
  <2>1. Advance(d, "told") \subseteq Delivery
    BY AdvanceType DEF Stages
  <2>2. d.msg.req \in Requests /\ Verdict(d) \in Verdicts
    BY DEF Delivery, Copy, Verdict, Verdicts
  <2>3. FeedbackOn(d) \in Feedback
    BY FeedbackType
  <2>4. replies' \in [Requests -> Seq(Feedback)]
    BY <1>7, <2>2, <2>3 DEF Reply
  <2>5. told' \in [Requests -> SUBSET Verdicts]
    BY <1>7, <2>2 DEF Reply
  <2> QED BY <1>7, <2>1, <2>4, <2>5 DEF Reply
<1>8. ASSUME NEW d \in inflight, Republish(d) PROVE TypeOK'
  <2>1. Advance(d, "forwarded") \subseteq Delivery
    BY AdvanceType DEF Stages
  <2>2. /\ d.msg.req \in Requests /\ d.queue \in Queues
        /\ [req |-> d.msg.req, id |-> copies[d.msg.req] + 1, count |-> NextCount(d)] \in Copy
    BY DEF Delivery, Copy, NextCount
  <2> QED BY <1>8, <2>1, <2>2 DEF Republish
<1>9. ASSUME NEW d \in inflight, Ack(d) PROVE TypeOK'
  BY <1>9 DEF Ack
<1>10. ASSUME NEW d \in inflight, DeadLetter(d) PROVE TypeOK'
  <2>1. d.msg \in Copy /\ d.msg.req \in Requests
    BY DEF Delivery, Copy
  <2> QED BY <1>10, <2>1 DEF DeadLetter
<1>11. ASSUME NEW s \in Shards, NEW m \in ready[<<"retry", s>>], Expire(s, m) PROVE TypeOK'
  <2>1. m \in Copy
    BY ShardQueue
  <2> QED BY <1>11, <2>1, ShardQueue DEF Expire
<1>12. ASSUME NEW g \in Gateways, DropChannel(g), up' \in [Gateways -> {"up", "deaf", "down"}]
       PROVE TypeOK'
  <2>1. \A q \in Queues : Requeued(g, q) \subseteq Copy
    BY DEF Requeued, Delivery
  <2>2. ready' \in [Queues -> SUBSET Copy]
    BY <1>12, <2>1 DEF DropChannel
  <2> QED BY <1>12, <2>2 DEF DropChannel
<1>13. ASSUME NEW g \in Gateways, MetricsRequest(g) \/ Crash(g) PROVE TypeOK'
  BY <1>12, <1>13 DEF MetricsRequest, Crash
<1>14. ASSUME NEW g \in Gateways, Restart(g) PROVE TypeOK'
  BY <1>14 DEF Restart
<1>15. CASE UNCHANGED vars
  BY <1>15 DEF vars
<1> QED
  BY <1>1, <1>2, <1>3, <1>4, <1>5, <1>6, <1>7, <1>8, <1>9, <1>10, <1>11, <1>13, <1>14, <1>15
     DEF Next, Handler, Consumer

\* Every state has the declared types: handlers, queues, deliveries and
\* feedback are what the Go code and the broker can hold.
THEOREM TypeCorrect == Spec => []TypeOK
<1>1. Init => TypeOK
  BY FlowAssumption DEF Init, TypeOK
<1> QED
  BY <1>1, TypeStep, PTL DEF Spec

-----------------------------------------------------------------------------
(* No task is lost and no client is stranded. The lemmas say what each step *)
(* does to the debts of consumers, the theorem collects them.              *)

\* Receiving a message keeps it owed: its consumer has told nobody yet.
LEMMA DeliverOwed ==
  ASSUME TypeOK, NEW g \in Gateways, NEW q \in Queues, NEW m \in ready[q], Deliver(g, q, m),
         NEW r \in Requests, NEW p \in Queues, OwedIn(r, p)
  PROVE  OwedIn(r, p)'
<1> DEFINE new == [gw |-> g, queue |-> q, msg |-> m, stage |-> "got"]
<1>1. new \in inflight' /\ ~Discharged(new) /\ new.queue = q /\ new.msg = m
  BY DEF Deliver, Discharged
<1>2. CASE \E n \in ready[p] : n.req = r
  <2> PICK n \in ready[p] : n.req = r
    BY <1>2
  <2>1. CASE p = q /\ n = m
    BY <1>1, <2>1 DEF OwedIn
  <2>2. CASE ~(p = q /\ n = m)
    BY <2>2 DEF OwedIn, Deliver, TypeOK
  <2> QED BY <2>1, <2>2
<1>3. CASE \E d \in inflight : d.queue = p /\ d.msg.req = r /\ ~Discharged(d)
  BY <1>3 DEF OwedIn, Deliver
<1> QED BY <1>2, <1>3 DEF OwedIn

\* Only publishing a verdict pays a debt.
LEMMA ReplyOwed ==
  ASSUME TypeOK, NEW d \in inflight, Reply(d),
         NEW r \in Requests, NEW p \in Queues, OwedIn(r, p)
  PROVE  OwedIn(r, p)' \/ (r = d.msg.req /\ ~Interim(d))
<1> DEFINE e == [d EXCEPT !.stage = "told"]
<1>1. /\ e \in inflight' /\ e.queue = d.queue /\ e.msg = d.msg /\ e.stage = "told"
      /\ \A x \in inflight : x # d => x \in inflight'
  BY DEF Reply, Advance, TypeOK, Delivery
<1>2. Interim(d) => ~Discharged(e)
  BY <1>1 DEF Interim, Discharged
<1> QED BY <1>1, <1>2 DEF OwedIn, Reply

\* The task the retry worker puts back is owed again.
LEMMA RepublishOwed ==
  ASSUME TypeOK, NEW d \in inflight, Republish(d),
         NEW r \in Requests, NEW p \in Queues, OwedIn(r, p)
  PROVE  OwedIn(r, p)'
<1> DEFINE m == [req |-> d.msg.req, id |-> copies[d.msg.req] + 1, count |-> NextCount(d)]
<1>1. d.queue \in Queues
  BY DEF TypeOK, Delivery
<1>2. /\ m \in ready'[d.queue] /\ m.req = d.msg.req
      /\ \A q \in Queues : ready[q] \subseteq ready'[q]
      /\ \A x \in inflight : x # d => x \in inflight'
  BY <1>1 DEF Republish, Advance, TypeOK
<1> QED BY <1>1, <1>2 DEF OwedIn

\* Consumers settle only what they have discharged.
LEMMA SettleOwed ==
  ASSUME TypeOK, NEW d \in inflight, Ack(d) \/ DeadLetter(d),
         NEW r \in Requests, NEW p \in Queues, OwedIn(r, p)
  PROVE  OwedIn(r, p)'
<1>1. \A q \in Queues : ready[q] \subseteq ready'[q]
  BY DEF Ack, DeadLetter, TypeOK
<1>2. \A x \in inflight : ~Discharged(x) => x \in inflight'
  BY DEF Ack, DeadLetter
<1> QED BY <1>1, <1>2 DEF OwedIn

\* An expired task is owed by the task queue of its shard.
LEMMA ExpireOwed ==
  ASSUME TypeOK, NEW s \in Shards, NEW m \in ready[<<"retry", s>>], Expire(s, m),
         NEW r \in Requests, NEW p \in Queues, OwedIn(r, p)
  PROVE  OwedIn(r, p)' \/ (p = <<"retry", s>> /\ OwedIn(r, <<"task", s>>)')
<1>1. /\ m \in ready'[<<"task", s>>]
      /\ \A q \in Queues : \A n \in ready[q] : n \in ready'[q] \/ (q = <<"retry", s>> /\ n = m)
  BY ShardQueue DEF Expire, TypeOK
<1>2. inflight' = inflight
  BY DEF Expire
<1> QED BY <1>1, <1>2 DEF OwedIn

\* A lost channel forgives no debt outside the gateway's private queues.
LEMMA DropOwed ==
  ASSUME TypeOK, NEW g \in Gateways, DropChannel(g),
         NEW r \in Requests, NEW p \in Queues \ Private(g), OwedIn(r, p)
  PROVE  OwedIn(r, p)'
<1>1. ready'[p] = ready[p] \cup Requeued(g, p)
  BY DEF DropChannel
<1>2. \A d \in inflight : d.queue = p => d \in inflight' \/ d.msg \in ready'[p]
  BY <1>1 DEF DropChannel, Requeued
<1> QED BY <1>1, <1>2 DEF OwedIn

\* A published task is owed in a queue that its handler's gateway serves.
LEMMA PublishOwed ==
  ASSUME TypeOK, ReplyQueuesServed, NEW r \in Requests, NEW f \in Forms, PublishTask(r, f)
  PROVE  /\ \E q \in Shared \cup Private(replyQueue[r]) : OwedIn(r, q)'
         /\ route'[r] \in Durable => \E q \in Shared : OwedIn(r, q)'
         /\ \A p \in Queues, s \in Requests : OwedIn(s, p) => OwedIn(s, p)'
<1> DEFINE kind == Destination(f)
           msg  == [req |-> r, id |-> 1, count |-> 0]
           home == replyQueue[r]
<1>1. kind \in Durable \cup Exchanges \cup {"returns"}
  BY DEF Destination, Exchange, Durable, Exchanges
<1>2. home \in Gateways /\ up[home] = "up"
  BY DEF PublishTask, ReplyQueuesServed, TypeOK
<1>3. \A q \in Queues : q \in Targets(r, kind) => msg \in ready'[q]
  BY DEF PublishTask
<1>4. \A q \in Queues : q \in Targets(r, kind) => OwedIn(r, q)'
  BY <1>3 DEF OwedIn
<1>5. ShardOf[r] \in Shards
  BY FlowAssumption
<1>6. \A p \in Queues : ready[p] \subseteq ready'[p]
  BY DEF PublishTask
<1>7. \A p \in Queues, s \in Requests : OwedIn(s, p) => OwedIn(s, p)'
  <2>1. inflight' = inflight
    BY DEF PublishTask
  <2> QED BY <1>6, <2>1 DEF OwedIn
<1>8. CASE kind \in Durable
  <2>1. <<kind, ShardOf[r]>> \in Shared /\ Shared \subseteq Queues
    BY <1>5, <1>8 DEF Shared, Queues, Durable
  <2>2. <<kind, ShardOf[r]>> \in Targets(r, kind)
    BY <1>8 DEF Targets, Exchanges, Durable
  <2> QED BY <1>4, <1>7, <2>1, <2>2
<1>9. CASE kind \in Exchanges
  <2>1. <<kind, home>> \in Private(home) /\ <<kind, home>> \in Queues /\ kind \notin Durable
    BY <1>2, <1>9 DEF Private, Queues, Exchanges, Durable
  <2>2. <<kind, home>> \in Targets(r, kind)
    BY <1>2, <1>9 DEF Targets, Exchanges, Durable
  <2>3. route'[r] = kind
    BY DEF PublishTask, TypeOK
  <2> QED BY <1>4, <1>7, <2>1, <2>2, <2>3
<1>10. CASE kind = "returns"
  <2>1. <<kind, home>> \in Private(home) /\ <<kind, home>> \in Queues /\ kind \notin Durable
    BY <1>2, <1>10 DEF Private, Queues, Durable
  <2>2. <<kind, home>> \in Targets(r, kind)
    BY <1>10 DEF Targets, Exchanges, Durable
  <2>3. route'[r] = kind
    BY DEF PublishTask, TypeOK
  <2> QED BY <1>4, <1>7, <2>1, <2>2, <2>3
<1> QED BY <1>1, <1>8, <1>9, <1>10

\* A step that only moves debts between queues of the same kind, and leaves
\* handlers and verdicts alone, keeps both promises.
LEMMA MoveDebts ==
  ASSUME TypeOK, ReplyQueuesServed, NoClientStranded, NoDurableTaskLost,
         UNCHANGED <<client, replyQueue, replies, route, told>>,
         \A r \in Requests, p \in Queues : OwedIn(r, p) =>
           \E q \in Queues : /\ OwedIn(r, q)'
                             /\ p \in Shared => q \in Shared
                             /\ \A g \in Gateways : p \in Private(g) => q \in Private(g)
  PROVE  NoClientStranded' /\ NoDurableTaskLost'
<1>1. Shared \subseteq Queues /\ \A g \in Gateways : Private(g) \subseteq Queues
  BY DEF Queues, Private
<1>2. ASSUME NEW r \in Requests, client'[r] = "waiting"
      PROVE  VerdictQueued(r)' \/ \E q \in Shared \cup Private(replyQueue'[r]) : OwedIn(r, q)'
  <2>1. CASE VerdictQueued(r)
    BY <2>1 DEF VerdictQueued
  <2>2. CASE \E p \in Shared \cup Private(replyQueue[r]) : OwedIn(r, p)
    <3> PICK p \in Shared \cup Private(replyQueue[r]) : OwedIn(r, p)
      BY <2>2
    <3>3. replyQueue[r] \in Gateways
      BY <1>2 DEF ReplyQueuesServed, TypeOK
    <3>1. CASE p \in Shared
      BY <1>1, <3>1
    <3>2. CASE p \in Private(replyQueue[r])
      BY <1>1, <3>2, <3>3
    <3> QED BY <3>1, <3>2
  <2> QED BY <1>2, <2>1, <2>2 DEF NoClientStranded
<1>3. NoDurableTaskLost'
  BY <1>1 DEF NoDurableTaskLost
<1> QED BY <1>2, <1>3 DEF NoClientStranded

\* The handler's own steps: what it waits for is there when it starts to wait,
\* and it stops waiting when it reads a verdict.
LEMMA HandlerPromise ==
  ASSUME FlowInv, NEW r \in Requests, Refuse(r) \/ Handler(r)
  PROVE  NoClientStranded' /\ NoDurableTaskLost'
<1> USE DEF FlowInv
<1>1. CASE Refuse(r) \/ RejectForm(r)
  <2>1. \A q \in Shared \cup UNION {Private(replyQueue[p]) : p \in Requests}, p \in Requests :
          OwedIn(p, q) => OwedIn(p, q)'
    BY <1>1 DEF OwedIn, Refuse, RejectForm
  <2>2. \A p \in Requests : client'[p] = "waiting" => client[p] = "waiting"
    BY <1>1 DEF Refuse, RejectForm, TypeOK
  <2>3. \A p \in Requests : VerdictQueued(p) => VerdictQueued(p)'
    BY <1>1 DEF Refuse, RejectForm, VerdictQueued
  <2>4. UNCHANGED <<replyQueue, route, told>>
    BY <1>1 DEF Refuse, RejectForm
  <2> QED BY <2>1, <2>2, <2>3, <2>4 DEF NoClientStranded, NoDurableTaskLost
<1>2. CASE \E f \in Forms : PublishTask(r, f)
  <2> PICK f \in Forms : PublishTask(r, f)
    BY <1>2
  <2>1. Shared \subseteq Queues
    BY DEF Queues
  <2>2. /\ UNCHANGED <<replyQueue, replies, told>>
        /\ \A p \in Requests \ {r} : client'[p] = client[p] /\ route'[p] = route[p]
    BY DEF PublishTask, TypeOK
  <2>3. ASSUME NEW p \in Requests, client'[p] = "waiting"
        PROVE  VerdictQueued(p)' \/ \E q \in Shared \cup Private(replyQueue'[p]) : OwedIn(p, q)'
    <3>1. CASE p = r
      BY <2>2, <3>1, PublishOwed
    <3>2. CASE p # r
      <4>1. replyQueue[p] \in Gateways
        BY <2>2, <2>3, <3>2 DEF ReplyQueuesServed, TypeOK
      <4>2. Private(replyQueue[p]) \subseteq Queues
        BY <4>1 DEF Private, Queues
      <4>3. VerdictQueued(p) => VerdictQueued(p)'
        BY <2>2 DEF VerdictQueued
      <4> QED BY <2>1, <2>2, <2>3, <3>2, <4>2, <4>3, PublishOwed DEF NoClientStranded
    <3> QED BY <3>1, <3>2
  <2>4. ASSUME NEW p \in Requests, route'[p] \in Durable
        PROVE  told'[p] # {} \/ \E q \in Shared : OwedIn(p, q)'
    <3>1. CASE p = r
      BY <2>4, <3>1, PublishOwed
    <3>2. CASE p # r
      BY <2>1, <2>2, <2>4, <3>2, PublishOwed DEF NoDurableTaskLost
    <3> QED BY <3>1, <3>2
  <2> QED BY <2>3, <2>4 DEF NoClientStranded, NoDurableTaskLost
<1>3. CASE ReadReply(r)
  <2>1. \A p \in Requests : \A q : OwedIn(p, q) => OwedIn(p, q)'
    BY <1>3 DEF OwedIn, ReadReply
  <2>2. UNCHANGED <<replyQueue, route, told>>
    BY <1>3 DEF ReadReply
  <2>3. NoDurableTaskLost'
    BY <2>1, <2>2 DEF NoDurableTaskLost
  <2>4. ASSUME NEW p \in Requests, client'[p] = "waiting", VerdictQueued(p)
        PROVE  VerdictQueued(p)'
    <3>1. CASE p # r
      BY <1>3, <3>1, <2>4 DEF ReadReply, VerdictQueued, TypeOK
    <3>2. CASE p = r
      <4>1. /\ replies[r] \in Seq(Feedback) /\ replies[r] # << >>
            /\ replies'[r] = Tail(replies[r])
        BY <1>3 DEF ReadReply, TypeOK
      <4>2. ~Final(Head(replies[r]))
        <5>1. SUFFICES ASSUME Final(Head(replies[r])) PROVE FALSE
          OBVIOUS
        <5>2. client'[r] = Head(replies[r]).status
          BY <1>3, <5>1 DEF ReadReply, TypeOK
        <5>3. Head(replies[r]) \in Feedback
          BY <4>1
        <5> QED BY <2>4, <3>2, <5>2, <5>3 DEF Feedback, Verdicts
      <4>3. PICK i \in DOMAIN replies[r] : Final(replies[r][i])
        BY <2>4, <3>2 DEF VerdictQueued
      <4>4. i \in 1..Len(replies[r]) /\ i # 1
        BY <4>1, <4>2, <4>3
      <4>5. i - 1 \in DOMAIN Tail(replies[r]) /\ Tail(replies[r])[i - 1] = replies[r][i]
        BY <4>1, <4>4
      <4> QED BY <3>2, <4>1, <4>3, <4>5 DEF VerdictQueued
    <3> QED BY <3>1, <3>2
  <2>5. \A p \in Requests : client'[p] = "waiting" => client[p] = "waiting"
    <3>1. \A p \in Requests : p # r => client'[p] = client[p]
      BY <1>3 DEF ReadReply, TypeOK
    <3> QED BY <1>3, <3>1 DEF ReadReply
  <2>6. NoClientStranded'
    BY <2>1, <2>2, <2>4, <2>5 DEF NoClientStranded
  <2> QED BY <2>3, <2>6
<1> QED BY <1>1, <1>2, <1>3 DEF Handler

\* A consumer that replies pays its debt with a verdict, or keeps it.
LEMMA ReplyPromise ==
  ASSUME FlowInv, NEW d \in inflight, Reply(d)
  PROVE  NoClientStranded' /\ NoDurableTaskLost'
<1> USE DEF FlowInv
<1> DEFINE r == d.msg.req
<1>1. r \in Requests /\ UNCHANGED <<client, replyQueue, route>>
  BY DEF Reply, TypeOK, Delivery, Copy
<1>2. Shared \subseteq Queues /\ \A g \in Gateways : Private(g) \subseteq Queues
  BY DEF Queues, Private
<1>3. ~Interim(d) => told'[r] # {}
  BY <1>1 DEF Reply, TypeOK
<1>4. \A p \in Requests : told[p] \subseteq told'[p]
  BY <1>1 DEF Reply, TypeOK
<1>5. \A p \in Requests : VerdictQueued(p) => VerdictQueued(p)'
  <2>1. CASE replyQueue[r] = NoGateway
    BY <2>1 DEF Reply, VerdictQueued
  <2>2. CASE replyQueue[r] # NoGateway
    <3>1. \A p \in Requests : p # r => replies'[p] = replies[p]
      BY <2>2 DEF Reply, TypeOK
    <3>2. /\ replies[r] \in Seq(Feedback)
          /\ replies'[r] = Append(replies[r], FeedbackOn(d))
      BY <1>1, <2>2 DEF Reply, TypeOK
    <3>3. FeedbackOn(d) \in Feedback
      BY FeedbackType DEF TypeOK
    <3>4. \A i \in DOMAIN replies[r] :
            i \in DOMAIN replies'[r] /\ replies'[r][i] = replies[r][i]
      BY <3>2, <3>3
    <3> QED BY <3>1, <3>4 DEF VerdictQueued
  <2> QED BY <2>1, <2>2
<1>6. ASSUME client[r] = "waiting", ~Interim(d)
      PROVE  VerdictQueued(r)'
  <2>1. replyQueue[r] # NoGateway
    BY <1>1, <1>6 DEF ReplyQueuesServed
  <2>2. /\ replies[r] \in Seq(Feedback)
        /\ replies'[r] = Append(replies[r], FeedbackOn(d))
    BY <1>1, <2>1 DEF Reply, TypeOK
  <2>3. FeedbackOn(d) \in Feedback
    BY FeedbackType DEF TypeOK
  <2>4. Final(FeedbackOn(d))
    BY <1>6 DEF FeedbackOn, Final, Verdict
  <2>5. /\ Len(replies[r]) + 1 \in DOMAIN replies'[r]
        /\ replies'[r][Len(replies[r]) + 1] = FeedbackOn(d)
    BY <2>2, <2>3
  <2> QED BY <2>4, <2>5 DEF VerdictQueued
<1>7. ASSUME NEW p \in Requests, client'[p] = "waiting"
      PROVE  VerdictQueued(p)' \/ \E q \in Shared \cup Private(replyQueue'[p]) : OwedIn(p, q)'
  <2>1. replyQueue[p] \in Gateways
    BY <1>1, <1>7 DEF ReplyQueuesServed, TypeOK
  <2>2. CASE VerdictQueued(p)
    BY <1>5, <2>2
  <2>3. CASE \E q \in Shared \cup Private(replyQueue[p]) : OwedIn(p, q)
    BY <1>1, <1>2, <1>6, <1>7, <2>1, <2>3, ReplyOwed
  <2> QED BY <1>1, <1>7, <2>2, <2>3 DEF NoClientStranded
<1>8. ASSUME NEW p \in Requests, route'[p] \in Durable
      PROVE  told'[p] # {} \/ \E q \in Shared : OwedIn(p, q)'
  <2>1. CASE told[p] # {}
    BY <1>4, <2>1
  <2>2. CASE \E q \in Shared : OwedIn(p, q)
    BY <1>2, <1>3, <2>2, ReplyOwed
  <2> QED BY <1>1, <1>8, <2>1, <2>2 DEF NoDurableTaskLost
<1> QED BY <1>7, <1>8 DEF NoClientStranded, NoDurableTaskLost

\* A lost channel takes along only what belonged to its own handlers.
LEMMA DropPromise ==
  ASSUME FlowInv, NEW g \in Gateways, DropChannel(g)
  PROVE  NoClientStranded' /\ NoDurableTaskLost'
<1> USE DEF FlowInv
<1>1. Shared \subseteq Queues \ Private(g)
  BY DEF Shared, Private, Exchanges, Queues, DeadLetterQueue
<1>2. \A h \in Gateways : h # g => Private(h) \subseteq Queues \ Private(g)
  BY DEF Private, Queues
<1>3. ASSUME NEW r \in Requests, client'[r] = "waiting"
      PROVE  VerdictQueued(r)' \/ \E q \in Shared \cup Private(replyQueue'[r]) : OwedIn(r, q)'
  <2>1. client[r] = "waiting" /\ replyQueue[r] # g
    BY <1>3 DEF DropChannel, TypeOK
  <2>2. replyQueue[r] \in Gateways
    BY <2>1 DEF ReplyQueuesServed, TypeOK
  <2>3. replies'[r] = replies[r] /\ replyQueue'[r] = replyQueue[r]
    BY <2>1 DEF DropChannel
  <2>4. VerdictQueued(r) => VerdictQueued(r)'
    BY <2>3 DEF VerdictQueued
  <2> QED BY <1>1, <1>2, <2>1, <2>2, <2>3, <2>4, DropOwed DEF NoClientStranded
<1>4. NoDurableTaskLost'
  <2>1. UNCHANGED <<route, told>>
    BY DEF DropChannel
  <2> QED BY <1>1, <2>1, DropOwed DEF NoDurableTaskLost
<1> QED BY <1>3, <1>4 DEF NoClientStranded

\* Every step keeps the promises to clients and the durable tasks.
LEMMA PromiseStep == FlowInv /\ [Next]_vars => NoClientStranded' /\ NoDurableTaskLost'
<1> SUFFICES ASSUME FlowInv, [Next]_vars PROVE NoClientStranded' /\ NoDurableTaskLost'
  OBVIOUS
<1> USE DEF FlowInv
<1>1. ASSUME NEW r \in Requests, NEW g \in Gateways, OpenReplyQueue(r, g)
      PROVE  NoClientStranded' /\ NoDurableTaskLost'
  <2>1. \A p \in Requests : \A q : OwedIn(p, q) => OwedIn(p, q)'
    BY <1>1 DEF OwedIn, OpenReplyQueue
  <2>2. \A p \in Requests : client'[p] = "waiting" =>
          client[p] = "waiting" /\ replyQueue'[p] = replyQueue[p]
    BY <1>1 DEF OpenReplyQueue, TypeOK
  <2>3. \A p \in Requests : VerdictQueued(p) => VerdictQueued(p)'
    BY <1>1 DEF OpenReplyQueue, VerdictQueued
  <2>4. UNCHANGED <<route, told>>
    BY <1>1 DEF OpenReplyQueue
  <2> QED BY <2>1, <2>2, <2>3, <2>4 DEF NoClientStranded, NoDurableTaskLost
<1>2. ASSUME NEW g \in Gateways, NEW q \in Queues, NEW m \in ready[q], Deliver(g, q, m)
      PROVE  NoClientStranded' /\ NoDurableTaskLost'
  <2>1. UNCHANGED <<client, replyQueue, replies, route, told>>
    BY <1>2 DEF Deliver
  <2> QED BY <1>2, <2>1, DeliverOwed, MoveDebts
<1>3. ASSUME NEW d \in inflight, Republish(d)
      PROVE  NoClientStranded' /\ NoDurableTaskLost'
  <2>1. UNCHANGED <<client, replyQueue, replies, route, told>>
    BY <1>3 DEF Republish
  <2> QED BY <1>3, <2>1, RepublishOwed, MoveDebts
<1>4. ASSUME NEW d \in inflight, Ack(d) \/ DeadLetter(d)
      PROVE  NoClientStranded' /\ NoDurableTaskLost'
  <2>1. UNCHANGED <<client, replyQueue, replies, route, told>>
    BY <1>4 DEF Ack, DeadLetter
  <2> QED BY <1>4, <2>1, SettleOwed, MoveDebts
<1>5. ASSUME NEW s \in Shards, NEW m \in ready[<<"retry", s>>], Expire(s, m)
      PROVE  NoClientStranded' /\ NoDurableTaskLost'
  <2>1. UNCHANGED <<client, replyQueue, replies, route, told>>
    BY <1>5 DEF Expire
  <2>2. /\ <<"task", s>> \in Shared
        /\ \A g \in Gateways : <<"retry", s>> \notin Private(g)
    BY DEF Shared, Private, Exchanges
  <2> QED BY <1>5, <2>1, <2>2, ShardQueue, ExpireOwed, MoveDebts
<1>6. ASSUME NEW g \in Gateways, Restart(g)
      PROVE  NoClientStranded' /\ NoDurableTaskLost'
  <2>1. UNCHANGED <<client, replyQueue, replies, route, told, ready, inflight>>
    BY <1>6 DEF Restart
  <2> QED BY <2>1, MoveDebts DEF OwedIn
<1>7. CASE UNCHANGED vars
  <2>1. UNCHANGED <<client, replyQueue, replies, route, told, ready, inflight>>
    BY <1>7 DEF vars
  <2> QED BY <2>1, MoveDebts DEF OwedIn
<1> QED
  BY <1>1, <1>2, <1>3, <1>4, <1>5, <1>6, <1>7, HandlerPromise, ReplyPromise, DropPromise
     DEF Next, Consumer, MetricsRequest, Crash

\* Reply queues vanish with the channel that owns them, and only then.
LEMMA ServedStep == TypeOK /\ ReplyQueuesServed /\ [Next]_vars => ReplyQueuesServed'
<1> SUFFICES ASSUME TypeOK, ReplyQueuesServed, [Next]_vars PROVE ReplyQueuesServed'
  OBVIOUS
<1> USE DEF TypeOK, ReplyQueuesServed
<1>1. ASSUME NEW r \in Requests, Refuse(r) \/ Handler(r) PROVE ReplyQueuesServed'
  <2>1. /\ UNCHANGED <<up, replyQueue>>
        /\ \A p \in Requests : client'[p] = client[p] \/ client[p] = "open"
                               \/ client'[p] \notin {"open", "waiting"}
    <3>1. CASE Refuse(r) \/ RejectForm(r)
      BY <3>1 DEF Refuse, RejectForm
    <3>2. CASE \E f \in Forms : PublishTask(r, f)
      BY <3>2 DEF PublishTask
    <3>3. CASE ReadReply(r)
      <4>1. Head(replies[r]) \in Feedback
        BY <3>3 DEF ReadReply
      <4> QED BY <3>3, <4>1 DEF ReadReply, Feedback, Final, Verdicts
    <3> QED BY <1>1, <3>1, <3>2, <3>3 DEF Handler
  <2> QED BY <2>1
<1>2. ASSUME NEW r \in Requests, NEW g \in Gateways, OpenReplyQueue(r, g)
      PROVE  ReplyQueuesServed'
  BY <1>2, FlowAssumption DEF OpenReplyQueue
<1>3. ASSUME NEW g \in Gateways, Consumer(g) PROVE ReplyQueuesServed'
  <2>1. UNCHANGED <<up, client, replyQueue>>
    BY <1>3 DEF Consumer, Deliver, Reply, Republish, Ack, DeadLetter
  <2> QED BY <2>1
<1>4. ASSUME NEW s \in Shards, NEW m \in ready[<<"retry", s>>], Expire(s, m)
      PROVE  ReplyQueuesServed'
  BY <1>4 DEF Expire
<1>5. ASSUME NEW g \in Gateways, MetricsRequest(g) \/ Crash(g)
      PROVE  ReplyQueuesServed'
  <2>1. DropChannel(g) /\ \A h \in Gateways : h # g => up'[h] = up[h]
    BY <1>5 DEF MetricsRequest, Crash
  <2>2. ASSUME NEW r \in Requests
        PROVE  /\ replyQueue'[r] # NoGateway => up'[replyQueue'[r]] = "up"
               /\ client'[r] \in {"open", "waiting"} => replyQueue'[r] # NoGateway
    BY <2>1, FlowAssumption DEF DropChannel
  <2> QED BY <2>2
<1>6. ASSUME NEW g \in Gateways, Restart(g) PROVE ReplyQueuesServed'
  BY <1>6 DEF Restart
<1>7. CASE UNCHANGED vars
  BY <1>7 DEF vars
<1> QED BY <1>1, <1>2, <1>3, <1>4, <1>5, <1>6, <1>7 DEF Next

\* The consumers that dead-letter a message tell its client first.
LEMMA ToldStep ==
  TypeOK /\ DeadLettersTold /\ DeadAreReported /\ [Next]_vars
    => DeadLettersTold' /\ DeadAreReported'
<1> SUFFICES ASSUME TypeOK, DeadLettersTold, DeadAreReported, [Next]_vars
             PROVE  DeadLettersTold' /\ DeadAreReported'
  OBVIOUS
<1> USE DEF TypeOK, DeadLettersTold, DeadAreReported, DeadLetters
<1>1. ASSUME NEW r \in Requests, Refuse(r) \/ Handler(r)
      PROVE  DeadLettersTold' /\ DeadAreReported'
  BY <1>1 DEF Handler, Refuse, RejectForm, PublishTask, ReadReply
<1>2. ASSUME NEW r \in Requests, NEW g \in Gateways, OpenReplyQueue(r, g)
      PROVE  DeadLettersTold' /\ DeadAreReported'
  BY <1>2 DEF OpenReplyQueue
<1>3. ASSUME NEW g \in Gateways, NEW q \in Queues, NEW m \in ready[q], Deliver(g, q, m)
      PROVE  DeadLettersTold' /\ DeadAreReported'
  BY <1>3 DEF Deliver
<1>4. ASSUME NEW d \in inflight, Reply(d)
      PROVE  DeadLettersTold' /\ DeadAreReported'
  <2> DEFINE e == [d EXCEPT !.stage = "told"]
  <2>1. /\ inflight' = (inflight \ {d}) \cup {e} /\ dead' = dead
        /\ e.queue = d.queue /\ e.msg = d.msg /\ d.msg.req \in Requests
    BY <1>4 DEF Reply, Advance, Delivery, Copy
  <2>2. \A r \in Requests : told[r] \subseteq told'[r]
    BY <1>4, <2>1 DEF Reply
  <2>3. DeadLetters(e) => "dlq" \in told'[e.msg.req]
    BY <1>4, <2>1 DEF Reply, Interim, Verdict, Exchanges
  <2>4. \A x \in inflight : x.msg.req \in Requests
    BY DEF Delivery, Copy
  <2> QED BY <2>1, <2>2, <2>3, <2>4
<1>5. ASSUME NEW d \in inflight, Republish(d)
      PROVE  DeadLettersTold' /\ DeadAreReported'
  <2> DEFINE e == [d EXCEPT !.stage = "forwarded"]
  <2>1. /\ inflight' = (inflight \ {d}) \cup {e} /\ e.queue = d.queue
        /\ UNCHANGED <<told, dead>>
    BY <1>5 DEF Republish, Advance, Delivery
  <2>2. ~DeadLetters(e)
    BY <1>5, <2>1 DEF Republish, Interim
  <2> QED BY <2>1, <2>2
<1>6. ASSUME NEW d \in inflight, Ack(d)
      PROVE  DeadLettersTold' /\ DeadAreReported'
  BY <1>6 DEF Ack
<1>7. ASSUME NEW d \in inflight, DeadLetter(d)
      PROVE  DeadLettersTold' /\ DeadAreReported'
  BY <1>7 DEF DeadLetter, Discharged, Interim
<1>8. ASSUME NEW s \in Shards, NEW m \in ready[<<"retry", s>>], Expire(s, m)
      PROVE  DeadLettersTold' /\ DeadAreReported'
  BY <1>8 DEF Expire
<1>9. ASSUME NEW g \in Gateways, MetricsRequest(g) \/ Crash(g) \/ Restart(g)
      PROVE  DeadLettersTold' /\ DeadAreReported'
  BY <1>9 DEF MetricsRequest, Crash, Restart, DropChannel
<1>10. CASE UNCHANGED vars
  BY <1>10 DEF vars
<1> QED
  BY <1>1, <1>2, <1>3, <1>4, <1>5, <1>6, <1>7, <1>8, <1>9, <1>10 DEF Next, Consumer

\* A delivery reaches the last stage only as an attempt that is not the last.
LEMMA ForwardedStep ==
  TypeOK /\ OnlyInterimForwarded /\ [Next]_vars => OnlyInterimForwarded'
<1> SUFFICES ASSUME TypeOK, OnlyInterimForwarded, [Next]_vars, NEW e \in inflight',
                    e.stage = "forwarded"
             PROVE  Interim(e)
  BY DEF OnlyInterimForwarded, Interim
<1>1. CASE e \in inflight
  BY <1>1 DEF OnlyInterimForwarded
<1>2. CASE e \notin inflight
  <2>1. ASSUME NEW d \in inflight, Reply(d) PROVE FALSE
    BY <1>2, <2>1 DEF Reply, Advance, TypeOK, Delivery
  <2>2. ASSUME NEW d \in inflight, Republish(d) PROVE Interim(e)
    <3>1. e = [d EXCEPT !.stage = "forwarded"] /\ Interim(d)
      BY <1>2, <2>2 DEF Republish, Advance
    <3>2. e.queue = d.queue /\ e.msg = d.msg
      BY <3>1 DEF TypeOK, Delivery
    <3> QED BY <3>1, <3>2 DEF Interim
  <2>3. ASSUME NEW g \in Gateways, NEW q \in Queues, NEW m \in ready[q], Deliver(g, q, m)
        PROVE  FALSE
    BY <1>2, <2>3 DEF Deliver
  <2>4. \/ \E d \in inflight : Reply(d) \/ Republish(d)
        \/ \E g \in Gateways, q \in Queues : \E m \in ready[q] : Deliver(g, q, m)
    BY <1>2
    DEF Next, vars, Consumer, Handler, Refuse, RejectForm, PublishTask, ReadReply,
        OpenReplyQueue, Ack, DeadLetter, Expire, MetricsRequest, Crash, Restart, DropChannel
  <2> QED BY <2>1, <2>2, <2>3, <2>4
<1> QED BY <1>1, <1>2

\* Every delivery has a step to take until it is settled.
LEMMA ConsumersGoOn ==
  ASSUME TypeOK, OnlyInterimForwarded, NEW d \in inflight
  PROVE  CanGoOn(d)
<1>1. d.stage \in {"got", "told", "forwarded"}
  BY DEF TypeOK, Delivery, Stages
<1> QED BY <1>1 DEF CanGoOn, Discharged, OnlyInterimForwarded

\* A worker without a delivery is free.
LEMMA FreeOrAtWork ==
  ASSUME NEW g, NEW q
  PROVE  Free(g, q) \/ \E d \in inflight : d.gw = g /\ d.queue = q
<1> SUFFICES ASSUME \A d \in inflight : ~(d.gw = g /\ d.queue = q) PROVE Free(g, q)
  OBVIOUS
<1>1. {d \in inflight : d.gw = g /\ d.queue = q} = {}
  OBVIOUS
<1>2. Cardinality({d \in inflight : d.gw = g /\ d.queue = q}) = 0
  BY <1>1, FS_EmptySet
<1> QED BY <1>2, FlowAssumption DEF Free

\* The invariant that the theorems below rest on holds in every state.
THEOREM FlowInvariant == Spec => []FlowInv
<1>1. Init => FlowInv
  BY FlowAssumption
     DEF Init, FlowInv, TypeOK, ReplyQueuesServed, DeadLettersTold, OnlyInterimForwarded,
         NoClientStranded, NoDurableTaskLost, DeadAreReported, Durable
<1>2. FlowInv /\ [Next]_vars => FlowInv'
  BY TypeStep, ServedStep, ToldStep, ForwardedStep, PromiseStep DEF FlowInv
<1> QED BY <1>1, <1>2, PTL DEF Spec

\* A handler that waits has a verdict coming, however many gateways crash or
\* lose their channel: consumers publish their feedback before they ack.
THEOREM ClientsNotStranded == Spec => []NoClientStranded
<1>1. FlowInv => NoClientStranded
  BY DEF FlowInv
<1> QED BY <1>1, FlowInvariant, PTL

\* What a waiting client depends on can always go on: the submit handler waits
\* for a consumer, and consumers wait for nobody but themselves.
THEOREM WaitingNeverBlocked == Spec => []NobodyBlocked
<1>1. FlowInv => NobodyBlocked
  <2> SUFFICES ASSUME FlowInv, NEW r \in Requests, client[r] = "waiting", replies[r] = << >>
               PROVE  \/ \E d \in inflight : d.msg.req = r /\ CanGoOn(d)
                      \/ \E g \in Gateways : up[g] = "up" /\ \E q \in Consumes(g) :
                           /\ \E m \in ready[q] : m.req = r
                           /\ \/ Free(g, q)
                              \/ \E d \in inflight : d.gw = g /\ d.queue = q /\ CanGoOn(d)
    BY DEF NobodyBlocked
  <2> DEFINE g == replyQueue[r]
  <2>1. g \in Gateways /\ up[g] = "up"
    BY DEF FlowInv, TypeOK, ReplyQueuesServed
  <2>2. PICK q \in Shared \cup Private(g) : OwedIn(r, q)
    <3>1. ~VerdictQueued(r)
      BY DEF VerdictQueued
    <3> QED BY <3>1 DEF FlowInv, NoClientStranded
  <2>3. \A d \in inflight : CanGoOn(d)
    BY ConsumersGoOn DEF FlowInv
  <2>4. q \in Consumes(g)
    BY <2>2 DEF Consumes
  <2> HIDE DEF g
  <2>5. Free(g, q) \/ \E d \in inflight : d.gw = g /\ d.queue = q
    BY FreeOrAtWork
  <2> QED BY <2>1, <2>2, <2>3, <2>4, <2>5 DEF OwedIn
<1> QED BY <1>1, FlowInvariant, PTL

\* A task in a durable queue is never lost before a verdict about it has been
\* published: manual acks, requeueing and republish-before-ack see to that.
THEOREM DurableTasksKept == Spec => []NoDurableTaskLost
<1>1. FlowInv => NoDurableTaskLost
  BY DEF FlowInv
<1> QED BY <1>1, FlowInvariant, PTL

\* What enters the dead-letter queue has been reported to its client, by the
\* resilient worker before its nack or by the return handler.
THEOREM DeadLettersReported == Spec => []DeadAreReported
<1>1. FlowInv => DeadAreReported
  BY DEF FlowInv
<1> QED BY <1>1, FlowInvariant, PTL
=============================================================================
