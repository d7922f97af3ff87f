------------------------- MODULE MessageOrderProofs -------------------------
(***************************************************************************)
(* Proofs that, while no channel is lost, retry notices reach a client in  *)
(* order and before the verdict, and that a task gets one verdict, however *)
(* many gateways, shards and requests there are. A task on the retry route *)
(* has one copy that somebody must still act on; on all other routes the   *)
(* consumers that its copies can meet agree.                               *)
(***************************************************************************)
EXTENDS MessageFlowProofs, FiniteSetTheorems

\* Orderly(r) is about the copies, the feedback and the route of r only.
LEMMA Frame ==
  ASSUME NEW r \in Requests, Orderly(r),
         client'[r] \in {"new", "open"} => client[r] \in {"new", "open"},
         route'[r] = route[r], told'[r] = told[r], replies'[r] = replies[r],
         \A q \in Queues : \A m \in ready'[q] : m.req = r => m \in ready[q],
         \A d \in inflight' : d.msg.req = r => d \in inflight
  PROVE  Orderly(r)'
<1>1. OnRoute(r)'
  BY DEF Orderly, OnRoute
<1>2. \A d : Pending(d, r)' <=> Pending(d, r)
  BY DEF Pending, Discharged, Interim
<1>3. \A d \in inflight' : Pending(d, r)' => d \in inflight /\ Pending(d, r)
  BY <1>2 DEF Pending
<1>4. route'[r] = "retry" => OneCopy(r)'
  BY <1>3 DEF Orderly, OneCopy
<1>5. NoticesBehind(r)'
  BY <1>3 DEF Orderly, NoticesBehind
<1>6. InOrder(r)'
  BY DEF Orderly, InOrder
<1> QED BY <1>1, <1>4, <1>5, <1>6 DEF Orderly

\* What is in a queue or with a consumer of a request's route.
LEMMA KindsFacts ==
  /\ \A k : "retry" \in Kinds(k) => k = "retry"
  /\ \A k : ("resilient" \in Kinds(k) \/ "returns" \in Kinds(k)) =>
       k \notin {"none", "retry"} \cup {"task"} \cup Exchanges
  /\ \A k \in Routes : k \in Kinds(k)
  /\ Kinds("none") = {} /\ Kinds("retry") = {"retry", "task"}
  /\ \A k \in {"task"} \cup Exchanges : Kinds(k) = {"task"} \cup Exchanges
  /\ \A k \in {"resilient", "returns"} : Kinds(k) = {"resilient", "returns", "dlq"}
  BY DEF Kinds, Routes, Durable, Exchanges

\* The first copies of a task go to queues of its route, on the retry route
\* there is one.
LEMMA PublishOrder ==
  ASSUME TypeOK, NEW r \in Requests, Orderly(r), NEW f \in Forms, PublishTask(r, f)
  PROVE  Orderly(r)'
<1> DEFINE kind == Destination(f)
           msg  == [req |-> r, id |-> 1, count |-> 0]
<1>1. kind \in Routes
  BY DEF Destination, Exchange, Routes, Durable, Exchanges
<1>2. route[r] = "none" /\ told[r] = {} /\ replies[r] = << >>
  BY DEF PublishTask, Orderly, OnRoute
<1>3. /\ \A q \in Queues : \A m \in ready[q] : m.req # r
      /\ \A d \in inflight : d.msg.req # r
  BY <1>2, KindsFacts DEF Orderly, OnRoute
<1>4. /\ route'[r] = kind /\ client'[r] = "waiting"
      /\ UNCHANGED <<told, replies, inflight>>
  BY DEF PublishTask, TypeOK
<1>5. \A q \in Queues : \A m \in ready'[q] : m.req = r => m = msg /\ q \in Targets(r, kind)
  BY <1>3 DEF PublishTask
<1>6. \A q \in Targets(r, kind) : q[1] = kind
  <2>1. CASE kind \in Exchanges
    BY <2>1 DEF Targets
  <2>2. CASE kind \notin Exchanges
    BY <2>2 DEF Targets
  <2> QED BY <2>1, <2>2
<1>7. OnRoute(r)'
  BY <1>1, <1>2, <1>3, <1>4, <1>5, <1>6, KindsFacts DEF OnRoute
<1>8. ASSUME kind = "retry" PROVE OneCopy(r)'
  <2>1. Targets(r, kind) = {<<"retry", ShardOf[r]>>}
    BY <1>8 DEF Targets, Exchanges
  <2> QED BY <1>2, <1>3, <1>4, <1>5, <2>1 DEF OneCopy, Pending
<1>9. NoticesBehind(r)' /\ InOrder(r)'
  BY <1>2, <1>4 DEF NoticesBehind, InOrder
<1> QED BY <1>4, <1>7, <1>8, <1>9 DEF Orderly

\* Reading takes away the oldest feedback.
LEMMA ReadOrder ==
  ASSUME TypeOK, NEW r \in Requests, Orderly(r), ReadReply(r)
  PROVE  Orderly(r)'
<1>1. /\ replies[r] \in Seq(Feedback) /\ replies[r] # << >> /\ replies'[r] = Tail(replies[r])
      /\ UNCHANGED <<route, told, ready, inflight>>
  BY DEF ReadReply, TypeOK
<1>2. /\ \A i \in DOMAIN replies'[r] : i + 1 \in DOMAIN replies[r] /\ replies'[r][i] = replies[r][i + 1]
      /\ DOMAIN replies'[r] \subseteq Nat
  BY <1>1
<1>3. client'[r] \notin {"new", "open"}
  <2>1. Head(replies[r]) \in Feedback /\ client[r] = "waiting"
    BY <1>1 DEF ReadReply
  <2>2. client'[r] = "waiting" \/ (Final(Head(replies[r])) /\ client'[r] = Head(replies[r]).status)
    BY <2>1 DEF ReadReply, TypeOK
  <2> QED BY <2>1, <2>2 DEF Feedback, Final, Verdicts
<1>4. route[r] # "none"
  BY <1>1 DEF Orderly, OnRoute
<1>5. OnRoute(r)'
  BY <1>1, <1>3, <1>4 DEF Orderly, OnRoute
<1>6. \A d : Pending(d, r)' <=> Pending(d, r)
  BY DEF Pending, Discharged, Interim
<1>7. route'[r] = "retry" => OneCopy(r)'
  BY <1>1, <1>6 DEF Orderly, OneCopy
<1>8. NoticesBehind(r)'
  BY <1>1, <1>2, <1>6 DEF Orderly, NoticesBehind
<1>9. InOrder(r)'
  <2> SUFFICES ASSUME NEW i \in DOMAIN replies'[r], NEW j \in DOMAIN replies'[r],
                      i < j, replies'[r][j].status = "retry"
               PROVE  /\ replies'[r][i].status = "retry"
                      /\ replies'[r][i].attempt < replies'[r][j].attempt
    BY DEF InOrder
  <2>1. i + 1 \in DOMAIN replies[r] /\ j + 1 \in DOMAIN replies[r] /\ i + 1 < j + 1
    BY <1>2
  <2> QED BY <1>2, <2>1 DEF Orderly, InOrder
<1> QED BY <1>5, <1>7, <1>8, <1>9 DEF Orderly

\* The consumer that takes a copy has it alone.
LEMMA DeliverOrder ==
  ASSUME TypeOK, NEW g \in Gateways, NEW q \in Queues, NEW m \in ready[q], Deliver(g, q, m),
         NEW r \in Requests, Orderly(r), m.req = r
  PROVE  Orderly(r)'
<1> DEFINE new == [gw |-> g, queue |-> q, msg |-> m, stage |-> "got"]
<1>1. /\ UNCHANGED <<client, route, told, replies>>
      /\ inflight' = inflight \cup {new}
      /\ \A p \in Queues : \A n \in ready'[p] : n \in ready[p] /\ ~(p = q /\ n = m)
  BY DEF Deliver, TypeOK
<1>2. OnRoute(r)'
  BY <1>1 DEF Orderly, OnRoute
<1>3. \A d : Pending(d, r)' <=> Pending(d, r)
  BY DEF Pending, Discharged, Interim
<1>4. route[r] = "retry" => OneCopy(r)'
  BY <1>1, <1>3 DEF Orderly, OneCopy
<1>5. NoticesBehind(r)'
  <2>1. m.count \in Nat
    BY DEF TypeOK, Copy
  <2> QED BY <1>1, <1>3, <2>1 DEF Orderly, NoticesBehind
<1>6. InOrder(r)'
  BY <1>1 DEF Orderly, InOrder
<1> QED BY <1>1, <1>2, <1>4, <1>5, <1>6 DEF Orderly

\* Consumers of one route reach the same verdict.
LEMMA VerdictOfRoute ==
  ASSUME TypeOK, NEW d \in inflight, OnRoute(d.msg.req)
  PROVE  /\ route[d.msg.req] # "none"
         /\ route[d.msg.req] \in {"task"} \cup Exchanges => Verdict(d) = "success"
         /\ route[d.msg.req] \in {"resilient", "returns"} => Verdict(d) = "dlq"
         /\ Interim(d) => route[d.msg.req] = "retry"
<1>1. d.queue[1] \in Kinds(route[d.msg.req])
  BY DEF OnRoute
<1> QED BY <1>1, KindsFacts DEF Verdict, Interim, Exchanges

\* A notice tells of an attempt that is still to come; a verdict is the last
\* thing that happens on the retry route.
LEMMA ReplyOrder ==
  ASSUME TypeOK, NEW d \in inflight, Reply(d), NEW r \in Requests, Orderly(r), d.msg.req = r
  PROVE  Orderly(r)'
<1> DEFINE e == [d EXCEPT !.stage = "told"]
<1>1. /\ UNCHANGED <<client, route, ready>>
      /\ inflight' = (inflight \ {d}) \cup {e}
      /\ e.queue = d.queue /\ e.msg = d.msg /\ e.stage = "told" /\ d.stage = "got"
      /\ told'[r] = IF Interim(d) THEN told[r] ELSE told[r] \cup {Verdict(d)}
      /\ d.msg.count \in Nat
  BY DEF Reply, Advance, TypeOK, Delivery, Copy
<1>2. \A x : Pending(x, r)' <=> Pending(x, r)
  BY DEF Pending, Discharged, Interim
<1>3. Pending(d, r) /\ (Pending(e, r) <=> Interim(d))
  BY <1>1 DEF Pending, Discharged, Interim
<1>4. /\ route[r] # "none" /\ (Interim(d) => route[r] = "retry")
      /\ route[r] \in {"task"} \cup Exchanges => Verdict(d) = "success"
      /\ route[r] \in {"resilient", "returns"} => Verdict(d) = "dlq"
  BY VerdictOfRoute DEF Orderly
<1>5. OnRoute(r)'
  BY <1>1, <1>4 DEF Orderly, OnRoute
<1>6. Verdict(d) \in {"success", "dlq"}
  BY DEF Verdict
<1>7. ASSUME route[r] = "retry" PROVE OneCopy(r)' /\ told[r] = {}
  <2>1. told[r] = {} /\ OneCopy(r)
    BY <1>3, <1>7 DEF Orderly, OneCopy
  <2>2. \A x \in inflight' : Pending(x, r)' => x = e /\ Interim(d)
    BY <1>1, <1>2, <1>3, <2>1 DEF OneCopy
  <2>3. \A q \in Queues : \A m \in ready[q] : m.req # r
    BY <1>3, <2>1 DEF OneCopy
  <2>4. told'[r] \in {{}, {"success"}, {"dlq"}} /\ (Interim(d) => told'[r] = {})
    BY <1>1, <1>6, <2>1
  <2> QED BY <1>1, <2>1, <2>2, <2>3, <2>4 DEF OneCopy
<1>8. \/ replies'[r] = replies[r]
      \/ /\ replies[r] \in Seq(Feedback) /\ FeedbackOn(d) \in Feedback
         /\ replies'[r] = Append(replies[r], FeedbackOn(d))
  <2>1. FeedbackOn(d) \in Feedback
    BY FeedbackType DEF TypeOK
  <2> QED BY <2>1 DEF Reply, TypeOK
<1>9. \A i \in DOMAIN replies'[r] :
        \/ i \in DOMAIN replies[r] /\ replies'[r][i] = replies[r][i]
        \/ replies'[r][i] = FeedbackOn(d) /\ \A j \in DOMAIN replies'[r] : j <= i
  BY <1>8
<1>10. IF Interim(d) THEN /\ FeedbackOn(d).status = "retry"
                          /\ FeedbackOn(d).attempt = d.msg.count + 1
       ELSE FeedbackOn(d).status = Verdict(d) /\ Verdict(d) # "retry"
  BY <1>6 DEF FeedbackOn, NextCount
<1>11. ASSUME NEW i \in DOMAIN replies[r], replies[r][i].status = "retry"
       PROVE  replies[r][i].attempt <= d.msg.count /\ replies[r][i].attempt \in Nat
  <2>1. replies[r][i].attempt <= d.msg.count
    BY <1>1, <1>3, <1>11 DEF Orderly, NoticesBehind
  <2>2. replies[r] \in Seq(Feedback)
    BY DEF TypeOK
  <2>3. replies[r][i] \in Feedback
    BY <2>2
  <2> QED BY <2>1, <2>3 DEF Feedback
<1>12. NoticesBehind(r)'
  <2> SUFFICES ASSUME NEW i \in DOMAIN replies'[r]
               PROVE  /\ told'[r] = {} => replies'[r][i].status = "retry"
                      /\ replies'[r][i].status = "retry" =>
                           /\ route'[r] = "retry"
                           /\ \A q \in Queues : \A m \in ready'[q] :
                                m.req = r => replies'[r][i].attempt <= m.count
                           /\ \A x \in inflight' : Pending(x, r)' =>
                                replies'[r][i].attempt
                                  <= x.msg.count + (IF x.stage = "got" THEN 0 ELSE 1)
    BY DEF NoticesBehind
  <2>1. told'[r] = {} => Interim(d) /\ told[r] = {}
    BY <1>1
  <2>2. told'[r] = {} => replies'[r][i].status = "retry"
    BY <1>9, <1>10, <2>1 DEF Orderly, NoticesBehind
  <2>3. ASSUME replies'[r][i].status = "retry"
        PROVE  route[r] = "retry" /\ replies'[r][i].attempt <= d.msg.count + 1
    BY <1>1, <1>4, <1>9, <1>10, <1>11, <2>3 DEF Orderly, NoticesBehind
  <2>4. ASSUME route[r] = "retry"
        PROVE  /\ \A q \in Queues : \A m \in ready'[q] : m.req # r
               /\ \A x \in inflight' : Pending(x, r)' => x = e
    BY <1>1, <1>2, <1>3, <2>4 DEF Orderly, OneCopy
  <2> QED BY <1>1, <2>2, <2>3, <2>4
<1>13. InOrder(r)'
  <2> SUFFICES ASSUME NEW i \in DOMAIN replies'[r], NEW j \in DOMAIN replies'[r],
                      i < j, replies'[r][j].status = "retry"
               PROVE  /\ replies'[r][i].status = "retry"
                      /\ replies'[r][i].attempt < replies'[r][j].attempt
    BY DEF InOrder
  <2>1. i \in DOMAIN replies[r] /\ replies'[r][i] = replies[r][i]
    BY <1>8, <1>9
  <2>2. CASE j \in DOMAIN replies[r] /\ replies'[r][j] = replies[r][j]
    BY <2>1, <2>2 DEF Orderly, InOrder
  <2>3. CASE replies'[r][j] = FeedbackOn(d)
    <3>1. Interim(d)
      BY <1>10, <2>3
    <3>2. told[r] = {}
      BY <1>4, <1>7, <3>1
    <3>3. replies[r][i].status = "retry"
      BY <2>1, <3>2 DEF Orderly, NoticesBehind
    <3> QED BY <1>1, <1>10, <1>11, <2>1, <2>3, <3>1, <3>3
  <2> QED BY <1>9, <2>2, <2>3
<1> QED BY <1>1, <1>5, <1>7, <1>12, <1>13 DEF Orderly

\* The copy that is put back takes the place of the one it was made from.
LEMMA RepublishOrder ==
  ASSUME TypeOK, NEW d \in inflight, Republish(d), NEW r \in Requests, Orderly(r), d.msg.req = r
  PROVE  Orderly(r)'
<1> DEFINE e == [d EXCEPT !.stage = "forwarded"]
           m == [req |-> r, id |-> copies[r] + 1, count |-> NextCount(d)]
<1>1. /\ UNCHANGED <<client, route, told, replies>>
      /\ inflight' = (inflight \ {d}) \cup {e}
      /\ e.queue = d.queue /\ e.msg = d.msg /\ e.stage = "forwarded"
      /\ d.stage = "told" /\ Interim(d) /\ d.queue \in Queues /\ d.msg.count \in Nat
  BY DEF Republish, Advance, TypeOK, Delivery, Copy
<1>2. \A q \in Queues : \A n \in ready'[q] : n \in ready[q] \/ (q = d.queue /\ n = m)
  BY DEF Republish, TypeOK
<1>3. \A x : Pending(x, r)' <=> Pending(x, r)
  BY DEF Pending, Discharged, Interim
<1>4. Pending(d, r) /\ ~Pending(e, r)
  BY <1>1 DEF Pending, Discharged, Interim
<1>5. OnRoute(r)'
  <2>1. OnRoute(r)
    BY DEF Orderly
  <2>2. d.msg.req = r => d.queue[1] \in Kinds(route[r])
    BY <2>1 DEF OnRoute
  <2>3. \A q \in Queues : \A n \in ready'[q] : n.req = r => q[1] \in Kinds(route[r])
    BY <1>1, <1>2, <2>1, <2>2 DEF OnRoute
  <2>4. \A x \in inflight' : x.msg.req = r => x.queue[1] \in Kinds(route[r])
    BY <1>1, <2>1, <2>2 DEF OnRoute
  <2> QED BY <1>1, <2>1, <2>3, <2>4 DEF OnRoute
<1>6. route[r] = "retry"
  BY <1>1, VerdictOfRoute DEF Orderly
<1>7. /\ told[r] = {} /\ \A q \in Queues : \A n \in ready[q] : n.req # r
      /\ \A x \in inflight : Pending(x, r) => x = d
  BY <1>4, <1>6 DEF Orderly, OneCopy
<1>8. \A x \in inflight' : ~Pending(x, r)'
  BY <1>1, <1>3, <1>4, <1>7
<1>9. \A q \in Queues : \A n \in ready'[q] : n.req = r => q = d.queue /\ n = m
  BY <1>2, <1>7
<1>10. OneCopy(r)'
  BY <1>1, <1>7, <1>8, <1>9 DEF OneCopy
<1>11. m.count = d.msg.count + 1
  BY DEF NextCount
<1>12. NoticesBehind(r)'
  BY <1>1, <1>4, <1>6, <1>8, <1>9, <1>11 DEF Orderly, NoticesBehind
<1>13. InOrder(r)'
  BY <1>1 DEF Orderly, InOrder
<1> QED BY <1>5, <1>10, <1>12, <1>13 DEF Orderly

\* A dead-lettered copy stays on the route of failures.
LEMMA DeadLetterOrder ==
  ASSUME TypeOK, NEW d \in inflight, DeadLetter(d), NEW r \in Requests, Orderly(r), d.msg.req = r
  PROVE  Orderly(r)'
<1>1. /\ UNCHANGED <<client, route, told, replies>> /\ inflight' \subseteq inflight
      /\ DeadLetters(d)
  BY DEF DeadLetter
<1>2. \A q \in Queues : \A n \in ready'[q] :
        n \in ready[q] \/ (q = DeadLetterQueue /\ n = d.msg)
  BY DEF DeadLetter, TypeOK
<1>3. /\ route[r] \notin {"none", "retry"} \cup {"task"} \cup Exchanges
      /\ "dlq" \in Kinds(route[r])
  <2>1. d.queue[1] \in Kinds(route[r]) /\ d.queue[1] \in {"resilient", "returns"}
    BY <1>1 DEF Orderly, OnRoute, DeadLetters
  <2> QED BY <2>1, KindsFacts DEF Kinds
<1>4. OnRoute(r)'
  BY <1>1, <1>2, <1>3 DEF Orderly, OnRoute, DeadLetterQueue
<1>5. NoticesBehind(r)'
  BY <1>1, <1>3 DEF Orderly, NoticesBehind
<1>6. InOrder(r)'
  BY <1>1 DEF Orderly, InOrder
<1> QED BY <1>1, <1>3, <1>4, <1>5, <1>6 DEF Orderly

\* An expired copy is the same copy in another queue.
LEMMA ExpireOrder ==
  ASSUME TypeOK, NEW s \in Shards, NEW m \in ready[<<"retry", s>>], Expire(s, m),
         NEW r \in Requests, Orderly(r), m.req = r
  PROVE  Orderly(r)'
<1>1. UNCHANGED <<client, route, told, replies, inflight>>
  BY DEF Expire
<1>2. \A q \in Queues : \A n \in ready'[q] :
        \/ n \in ready[q] /\ ~(q = <<"retry", s>> /\ n = m)
        \/ q = <<"task", s>> /\ n = m
  BY ShardQueue DEF Expire, TypeOK
<1>3. route[r] = "retry"
  <2>1. <<"retry", s>>[1] \in Kinds(route[r])
    BY ShardQueue DEF Orderly, OnRoute
  <2> QED BY <2>1, KindsFacts
<1>4. \A q \in Queues : \A n \in ready'[q] : n.req = r => q = <<"task", s>> /\ n = m
  BY <1>2, <1>3, ShardQueue DEF Orderly, OneCopy
<1>5. \A x : Pending(x, r)' <=> Pending(x, r)
  BY DEF Pending, Discharged, Interim
<1>6. OnRoute(r)'
  BY <1>1, <1>3, <1>4, KindsFacts DEF Orderly, OnRoute
<1>7. OneCopy(r)'
  <2>1. <<"retry", s>> \in Queues /\ OneCopy(r)
    BY <1>3, ShardQueue DEF Orderly
  <2>2. told[r] = {} /\ \A d \in inflight : ~Pending(d, r)
    BY <2>1 DEF OneCopy
  <2> QED BY <1>1, <1>4, <1>5, <2>2 DEF OneCopy
<1>8. NoticesBehind(r)'
  <2>1. ASSUME NEW i \in DOMAIN replies[r], replies[r][i].status = "retry"
        PROVE  replies[r][i].attempt <= m.count
    BY <2>1, ShardQueue DEF Orderly, NoticesBehind
  <2>2. \A q \in Queues : \A n \in ready'[q] : n.req = r => n = m
    BY <1>4
  <2>3. NoticesBehind(r)
    BY DEF Orderly
  <2> QED BY <1>1, <1>5, <2>1, <2>2, <2>3 DEF NoticesBehind
<1>9. InOrder(r)'
  BY <1>1 DEF Orderly, InOrder
<1> QED BY <1>6, <1>7, <1>8, <1>9 DEF Orderly

-----------------------------------------------------------------------------
\* Every step keeps every request orderly, as long as no channel is lost.
LEMMA OrderStep == TypeOK /\ OrderInv /\ [Next]_vars => OrderInv'
<1> SUFFICES ASSUME TypeOK, OrderInv, [Next]_vars, faults' = 0, NEW r \in Requests
             PROVE  Orderly(r)'
  BY DEF OrderInv
<1>1. \A g \in Gateways : ~DropChannel(g)
  BY DEF DropChannel, TypeOK
<1>2. faults = 0
  BY <1>1 DEF Next, Refuse, Handler, RejectForm, PublishTask, ReadReply, OpenReplyQueue,
              Consumer, Deliver, Reply, Republish, Ack, DeadLetter, Expire,
              MetricsRequest, Crash, Restart, vars
<1>3. Orderly(r)
  BY <1>2 DEF OrderInv
<1>4. \A d \in inflight : d.msg.req \in Requests
  BY DEF TypeOK, Delivery, Copy
<1>5. ASSUME NEW p \in Requests, Refuse(p) \/ RejectForm(p) PROVE Orderly(r)'
  BY <1>3, <1>5, Frame DEF Refuse, RejectForm, TypeOK
<1>6. ASSUME NEW p \in Requests, NEW g \in Gateways, OpenReplyQueue(p, g) PROVE Orderly(r)'
  BY <1>3, <1>6, Frame DEF OpenReplyQueue, TypeOK
<1>7. ASSUME NEW p \in Requests, NEW f \in Forms, PublishTask(p, f) PROVE Orderly(r)'
  <2>1. CASE p = r
    BY <1>3, <1>7, <2>1, PublishOrder
  <2>2. CASE p # r
    BY <1>3, <1>7, <2>2, Frame DEF PublishTask, TypeOK
  <2> QED BY <2>1, <2>2
<1>8. ASSUME NEW p \in Requests, ReadReply(p) PROVE Orderly(r)'
  <2>1. CASE p = r
    BY <1>3, <1>8, <2>1, ReadOrder
  <2>2. CASE p # r
    BY <1>3, <1>8, <2>2, Frame DEF ReadReply, TypeOK
  <2> QED BY <2>1, <2>2
<1>9. ASSUME NEW g \in Gateways, NEW q \in Queues, NEW m \in ready[q], Deliver(g, q, m)
      PROVE  Orderly(r)'
  <2>1. CASE m.req = r
    BY <1>3, <1>9, <2>1, DeliverOrder
  <2>2. CASE m.req # r
    <3>1. /\ UNCHANGED <<client, route, told, replies>>
          /\ \A p \in Queues : ready'[p] \subseteq ready[p]
          /\ \A d \in inflight' : d \in inflight \/ d.msg = m
      BY <1>9 DEF Deliver, TypeOK
    <3> QED BY <1>3, <2>2, <3>1, Frame
  <2> QED BY <2>1, <2>2
<1>10. ASSUME NEW d \in inflight, Reply(d) PROVE Orderly(r)'
  <2>1. CASE d.msg.req = r
    BY <1>3, <1>10, <2>1, ReplyOrder
  <2>2. CASE d.msg.req # r
    <3>1. \A x \in inflight' : x \in inflight \/ x.msg = d.msg
      BY <1>10 DEF Reply, Advance, TypeOK, Delivery
    <3> QED BY <1>3, <1>4, <1>10, <2>2, <3>1, Frame DEF Reply, TypeOK
  <2> QED BY <2>1, <2>2
<1>11. ASSUME NEW d \in inflight, Republish(d) PROVE Orderly(r)'
  <2>1. CASE d.msg.req = r
    BY <1>3, <1>11, <2>1, RepublishOrder
  <2>2. CASE d.msg.req # r
    <3>1. \A x \in inflight' : x \in inflight \/ x.msg = d.msg
      BY <1>11 DEF Republish, Advance, TypeOK, Delivery
    <3>2. /\ UNCHANGED <<client, route, told, replies>>
          /\ \A q \in Queues : \A m \in ready'[q] : m \in ready[q] \/ m.req = d.msg.req
      BY <1>11 DEF Republish, TypeOK
    <3> QED BY <1>3, <2>2, <3>1, <3>2, Frame
  <2> QED BY <2>1, <2>2
<1>12. ASSUME NEW d \in inflight, Ack(d) PROVE Orderly(r)'
  BY <1>3, <1>12, Frame DEF Ack
<1>13. ASSUME NEW d \in inflight, DeadLetter(d) PROVE Orderly(r)'
  <2>1. CASE d.msg.req = r
    BY <1>3, <1>13, <2>1, DeadLetterOrder
  <2>2. CASE d.msg.req # r
    BY <1>3, <1>13, <2>2, Frame DEF DeadLetter, TypeOK
  <2> QED BY <2>1, <2>2
<1>14. ASSUME NEW s \in Shards, NEW m \in ready[<<"retry", s>>], Expire(s, m)
       PROVE  Orderly(r)'
  <2>1. CASE m.req = r
    BY <1>3, <1>14, <2>1, ExpireOrder
  <2>2. CASE m.req # r
    BY <1>3, <1>14, <2>2, Frame, ShardQueue DEF Expire, TypeOK
  <2> QED BY <2>1, <2>2
<1>15. ASSUME NEW g \in Gateways, Restart(g) PROVE Orderly(r)'
  BY <1>3, <1>15, Frame DEF Restart
<1>16. CASE UNCHANGED vars
  BY <1>3, <1>16, Frame DEF vars
<1> QED
  BY <1>1, <1>5, <1>6, <1>7, <1>8, <1>9, <1>10, <1>11, <1>12, <1>13, <1>14, <1>15, <1>16
  DEF Next, Handler, Consumer, MetricsRequest, Crash

\* The order invariant holds in every state.
THEOREM OrderInvariant == Spec => []OrderInv
<1>1. Init => OrderInv
  BY KindsFacts DEF Init, OrderInv, Orderly, OnRoute, OneCopy, NoticesBehind, InOrder, Exchanges
<1> QED BY <1>1, OrderStep, TypeCorrect, PTL DEF Spec

\* The retry worker's notices come one after the other and before the verdict,
\* whichever gateways' workers took the attempts.
THEOREM NoticesInOrder == Spec => []ReportsInOrder
<1>1. OrderInv => ReportsInOrder
  BY DEF OrderInv, Orderly, ReportsInOrder
<1> QED BY <1>1, OrderInvariant, PTL

\* No task is both done and given up: the TTL, the retry worker and the shard
\* worker share one copy, and copies of other routes meet like-minded consumers.
THEOREM VerdictsAgree == Spec => []OneVerdict
<1>1. OrderInv /\ TypeOK => OneVerdict
  <2> SUFFICES ASSUME OrderInv, TypeOK, faults = 0, NEW r \in Requests
               PROVE  Cardinality(told[r]) <= 1
    BY DEF OneVerdict
  <2>1. Orderly(r) /\ route[r] \in Routes \cup {"none"}
    BY DEF OrderInv, TypeOK
  <2>2. told[r] \in {{}, {"success"}, {"dlq"}}
    BY <2>1 DEF Orderly, OnRoute, OneCopy, Routes, Durable
  <2>3. Cardinality({}) = 0 /\ Cardinality({"success"}) = 1 /\ Cardinality({"dlq"}) = 1
    BY FS_EmptySet, FS_Singleton
  <2> QED BY <2>2, <2>3
<1> QED BY <1>1, OrderInvariant, TypeCorrect, PTL

-----------------------------------------------------------------------------
(* Retries do not multiply.                                                *)

\* A step that publishes nothing for r, and after which what is left to do for
\* r was there before it, in a queue or with a consumer.
LEMMA CountedFrame ==
  ASSUME NEW r \in Requests, RetriesCounted(r),
         route'[r] = route[r], copies'[r] = copies[r],
         \A q \in Queues : \A m \in ready'[q] : m.req = r =>
           \/ \E p \in Queues : m \in ready[p]
           \/ \E d \in inflight : Pending(d, r) /\ d.msg = m,
         \A e \in inflight' : Pending(e, r) =>
           \/ \E p \in Queues : e.msg \in ready[p]
           \/ \E d \in inflight : Pending(d, r) /\ d.msg = e.msg
  PROVE  RetriesCounted(r)'
<1>1. CASE route[r] # "retry"
  BY <1>1 DEF RetriesCounted
<1>2. CASE route[r] = "retry"
  <2>1. \A e : Pending(e, r)' <=> Pending(e, r)
    BY DEF Pending, Discharged, Interim
  <2>2. \A m : m.req = r /\ (\/ \E p \in Queues : m \in ready[p]
                             \/ \E d \in inflight : Pending(d, r) /\ d.msg = m)
               => copies[r] = m.count + 1
    BY <1>2 DEF RetriesCounted
  <2>3. \A q \in Queues : \A m \in ready'[q] : m.req = r => copies'[r] = m.count + 1
    BY <2>2
  <2>4. \A e \in inflight' : Pending(e, r)' => copies'[r] = e.msg.count + 1
    BY <2>1, <2>2 DEF Pending
  <2>5. copies'[r] <= MaxRetries + 1
    BY <1>2 DEF RetriesCounted
  <2> QED BY <1>2, <2>3, <2>4, <2>5 DEF RetriesCounted
<1> QED BY <1>1, <1>2

\* The first copy has been tried no time before.
LEMMA PublishCounted ==
  ASSUME TypeOK, NEW r \in Requests, Orderly(r), NEW f \in Forms, PublishTask(r, f)
  PROVE  RetriesCounted(r)'
<1>1. /\ \A q \in Queues : \A m \in ready[q] : m.req # r
      /\ \A d \in inflight : d.msg.req # r
  <2>1. route[r] = "none"
    BY DEF PublishTask, Orderly, OnRoute
  <2> QED BY <2>1, KindsFacts DEF Orderly, OnRoute
<1>2. copies'[r] = 1 /\ inflight' = inflight
  BY DEF PublishTask, TypeOK
<1>3. \A q \in Queues : \A m \in ready'[q] : m.req = r => m.count = 0
  BY <1>1 DEF PublishTask
<1>4. \A d \in inflight' : ~Pending(d, r)'
  BY <1>1, <1>2 DEF Pending
<1>5. 1 <= MaxRetries + 1 /\ 1 = 0 + 1
  BY FlowAssumption
<1> QED BY <1>2, <1>3, <1>4, <1>5 DEF RetriesCounted

\* The retry worker below its limit publishes the one copy to come.
LEMMA RepublishCounted ==
  ASSUME TypeOK, NEW d \in inflight, Republish(d), NEW r \in Requests, Orderly(r),
         RetriesCounted(r), d.msg.req = r
  PROVE  RetriesCounted(r)'
<1> DEFINE e == [d EXCEPT !.stage = "forwarded"]
           m == [req |-> r, id |-> copies[r] + 1, count |-> NextCount(d)]
<1>1. /\ route' = route /\ copies'[r] = copies[r] + 1
      /\ inflight' = (inflight \ {d}) \cup {e}
      /\ d.stage = "told" /\ Interim(d) /\ d.queue \in Queues /\ d.msg.count \in Nat
      /\ e.queue = d.queue /\ e.msg = d.msg /\ e.stage = "forwarded"
  BY DEF Republish, Advance, TypeOK, Delivery, Copy
<1>2. \A q \in Queues : \A n \in ready'[q] : n \in ready[q] \/ n = m
  BY DEF Republish, TypeOK
<1>3. route[r] = "retry"
  <2>1. d.queue[1] = "retry" /\ d.queue[1] \in Kinds(route[r])
    BY <1>1 DEF Interim, Orderly, OnRoute
  <2> QED BY <2>1, KindsFacts
<1>4. Pending(d, r) /\ ~Pending(e, r) /\ \A x : Pending(x, r)' <=> Pending(x, r)
  BY <1>1 DEF Pending, Discharged, Interim
<1>5. /\ \A q \in Queues : \A n \in ready[q] : n.req # r
      /\ \A x \in inflight : Pending(x, r) => x = d
  BY <1>3, <1>4 DEF Orderly, OneCopy
<1>6. copies[r] = d.msg.count + 1 /\ d.msg.count < MaxRetries
  <2>1. copies[r] = d.msg.count + 1
    BY <1>3, <1>4 DEF RetriesCounted
  <2> QED BY <1>1, <2>1 DEF Interim
<1>7. copies'[r] <= MaxRetries + 1 /\ copies'[r] = NextCount(d) + 1
  BY <1>1, <1>6, FlowAssumption DEF NextCount
<1>8. \A q \in Queues : \A n \in ready'[q] : n.req = r => copies'[r] = n.count + 1
  <2>1. m.count = NextCount(d)
    OBVIOUS
  <2> QED BY <1>2, <1>5, <1>7, <2>1
<1>9. \A x \in inflight' : ~Pending(x, r)'
  BY <1>1, <1>4, <1>5
<1> QED BY <1>1, <1>3, <1>7, <1>8, <1>9 DEF RetriesCounted

\* Every other step only moves what is left to do, or finishes some of it.
LEMMA CountedStep ==
  ASSUME TypeOK, NEW r \in Requests, Orderly(r), RetriesCounted(r), [Next]_vars,
         \A g \in Gateways : ~DropChannel(g)
  PROVE  RetriesCounted(r)'
<1>1. ASSUME NEW p \in Requests, NEW f \in Forms, PublishTask(p, f) PROVE RetriesCounted(r)'
  <2>1. CASE p = r
    BY <1>1, <2>1, PublishCounted
  <2>2. CASE p # r
    <3>1. route'[r] = route[r] /\ copies'[r] = copies[r] /\ inflight' = inflight
      BY <1>1, <2>2 DEF PublishTask, TypeOK
    <3>2. \A q \in Queues : \A m \in ready'[q] : m.req = r => m \in ready[q]
      BY <1>1, <2>2 DEF PublishTask
    <3> QED BY <3>1, <3>2, CountedFrame
  <2> QED BY <2>1, <2>2
<1>2. ASSUME NEW g \in Gateways, NEW q \in Queues, NEW m \in ready[q], Deliver(g, q, m)
      PROVE  RetriesCounted(r)'
  <2>1. /\ UNCHANGED <<route, copies>>
        /\ \A p \in Queues : ready'[p] \subseteq ready[p]
        /\ \A d \in inflight' : d \in inflight \/ d.msg = m
    BY <1>2 DEF Deliver, TypeOK
  <2> QED BY <2>1, CountedFrame
<1>3. ASSUME NEW d \in inflight, Reply(d) PROVE RetriesCounted(r)'
  <2> DEFINE e == [d EXCEPT !.stage = "told"]
  <2>1. /\ UNCHANGED <<route, copies, ready>>
        /\ inflight' \subseteq inflight \cup {e}
        /\ d.stage = "got" /\ e.msg = d.msg
    BY <1>3 DEF Reply, Advance, TypeOK, Delivery
  <2>2. Pending(e, r) => Pending(d, r)
    BY <2>1 DEF Pending, Discharged
  <2> QED BY <2>1, <2>2, CountedFrame
<1>4. ASSUME NEW d \in inflight, Republish(d) PROVE RetriesCounted(r)'
  <2>1. CASE d.msg.req = r
    BY <1>4, <2>1, RepublishCounted
  <2>2. CASE d.msg.req # r
    <3>1. d.msg.req \in Requests
      BY DEF TypeOK, Delivery, Copy
    <3>2. route' = route /\ copies'[r] = copies[r]
      BY <1>4, <2>2, <3>1 DEF Republish, TypeOK
    <3>3. \A q \in Queues : \A m \in ready'[q] : m.req = r => m \in ready[q]
      BY <1>4, <2>2 DEF Republish, TypeOK
    <3>4. \A x \in inflight' : x.msg.req = r => x \in inflight
      BY <1>4, <2>2 DEF Republish, Advance, TypeOK, Delivery
    <3> QED BY <3>2, <3>3, <3>4, CountedFrame DEF Pending
  <2> QED BY <2>1, <2>2
<1>5. ASSUME NEW d \in inflight, Ack(d) PROVE RetriesCounted(r)'
  BY <1>5, CountedFrame DEF Ack
<1>6. ASSUME NEW d \in inflight, DeadLetter(d) PROVE RetriesCounted(r)'
  <2>1. /\ UNCHANGED <<route, copies>> /\ inflight' \subseteq inflight /\ DeadLetters(d)
        /\ \A q \in Queues : \A m \in ready'[q] : m \in ready[q] \/ m = d.msg
    BY <1>6 DEF DeadLetter, TypeOK
  <2>2. CASE d.msg.req = r
    <3>1. route[r] # "retry"
      <4>1. d.queue[1] \in Kinds(route[r])
        BY <2>2 DEF Orderly, OnRoute
      <4> QED BY <2>1, <4>1, KindsFacts DEF DeadLetters
    <3> QED BY <2>1, <3>1 DEF RetriesCounted
  <2>3. CASE d.msg.req # r
    BY <2>1, <2>3, CountedFrame
  <2> QED BY <2>2, <2>3
<1>7. ASSUME NEW s \in Shards, NEW m \in ready[<<"retry", s>>], Expire(s, m)
      PROVE  RetriesCounted(r)'
  <2>1. UNCHANGED <<route, copies, inflight>>
    BY <1>7 DEF Expire
  <2>2. \A q \in Queues : \A n \in ready'[q] : n \in ready[q] \/ n = m
    BY <1>7 DEF Expire, TypeOK
  <2>3. <<"retry", s>> \in Queues
    BY ShardQueue
  <2> QED BY <2>1, <2>2, <2>3, CountedFrame
<1>8. CASE UNCHANGED <<route, copies, ready, inflight>>
  BY <1>8, CountedFrame
<1>9. ASSUME NEW p \in Requests,
             Refuse(p) \/ RejectForm(p) \/ ReadReply(p) \/ \E g \in Gateways : OpenReplyQueue(p, g)
      PROVE  UNCHANGED <<route, copies, ready, inflight>>
  BY <1>9 DEF Refuse, RejectForm, ReadReply, OpenReplyQueue
<1>10. ASSUME NEW g \in Gateways, Restart(g) PROVE UNCHANGED <<route, copies, ready, inflight>>
  BY <1>10 DEF Restart
<1>11. CASE UNCHANGED vars
  BY <1>8, <1>11 DEF vars
<1> QED
  BY <1>1, <1>2, <1>3, <1>4, <1>5, <1>6, <1>7, <1>8, <1>9, <1>10, <1>11
  DEF Next, Handler, Consumer, MetricsRequest, Crash

\* A failing task is published MaxRetries times more than once at most
\* (delay_retry_worker.go), for all the copies that expire on the way.
THEOREM RetriesEnd == Spec => []RetriesBounded
<1> DEFINE Counted == faults = 0 => \A r \in Requests : RetriesCounted(r)
<1>1. Init => Counted
  BY DEF Init, RetriesCounted
<1>2. TypeOK /\ OrderInv /\ Counted /\ [Next]_vars => Counted'
  <2> SUFFICES ASSUME TypeOK, OrderInv, Counted, [Next]_vars, faults' = 0, NEW r \in Requests
               PROVE  RetriesCounted(r)'
    OBVIOUS
  <2>1. \A g \in Gateways : ~DropChannel(g)
    BY DEF DropChannel, TypeOK
  <2>2. faults = 0
    BY <2>1 DEF Next, Refuse, Handler, RejectForm, PublishTask, ReadReply, OpenReplyQueue,
                Consumer, Deliver, Reply, Republish, Ack, DeadLetter, Expire,
                MetricsRequest, Crash, Restart, vars
  <2> QED BY <2>1, <2>2, CountedStep DEF OrderInv
<1>3. TypeOK /\ Counted => RetriesBounded
  <2> SUFFICES ASSUME TypeOK, Counted, faults = 0, NEW r \in Requests
               PROVE  copies[r] <= MaxRetries + 1
    BY DEF RetriesBounded
  <2>1. RetriesCounted(r) /\ copies[r] \in Nat
    BY DEF TypeOK
  <2> QED BY <2>1, FlowAssumption DEF RetriesCounted
<1> QED BY <1>1, <1>2, <1>3, TypeCorrect, OrderInvariant, PTL DEF Spec
=============================================================================
