---------------------------- MODULE MessageFlow ----------------------------
(***************************************************************************)
(* The path of a task through the system: the HTTP handler of a gateway    *)
(* (gateway/server.go), the RabbitMQ queues it publishes to, the consumer  *)
(* goroutines of work_queue_model, dead_letter_queues and the four         *)
(* exchange packages, the return handler, and the reply queue on which the *)
(* handler waits for a verdict.                                            *)
(*                                                                         *)
(* Every gateway process has ONE connection and ONE channel, shared by all *)
(* of its handlers and consumers; what closes the channel silences all of  *)
(* them. The broker is external and modelled by the operations the code    *)
(* asks of it: publish, deliver, ack, nack, TTL, return, auto-delete.      *)
(***************************************************************************)
EXTENDS Naturals, Sequences, FiniteSets

CONSTANTS
  Requests,     \* POST /submit-task requests; each has its own correlation id
  Gateways,     \* gateway processes on the same broker
  Shards,       \* shardRing
  ShardOf,      \* pickShard: the shard that the task of a request hashes to
  Forms,        \* the forms clients fill in, a subset of AllForms
  TaskWorkers,  \* consumers per gateway and task queue (the autoscaler adds some)
  MaxRetries,   \* retry attempts before the retry worker gives up (3)
  MaxFaults,    \* bound: channel closures and crashes in a behaviour
  NoGateway     \* owner of a reply queue that does not exist

AllForms ==
  [task: BOOLEAN, retry: BOOLEAN, fail: BOOLEAN, broadcast: BOOLEAN,
   headers: {"", "invalid", "prod", "other"},
   key: {"", "info", "debug", "app.*", "#"}]

ASSUME FlowAssumption ==
  /\ ShardOf \in [Requests -> Shards]
  /\ Forms \subseteq AllForms
  /\ NoGateway \notin Gateways
  /\ TaskWorkers \in Nat \ {0}
  /\ MaxRetries \in Nat /\ MaxFaults \in Nat

-----------------------------------------------------------------------------
(* Queues, messages and deliveries.                                        *)

\* Durable queues that all gateways declare and consume.
DeadLetterQueue == <<"dlq", "dead_letter_queue">>
Shared == ({"task", "resilient", "retry"} \X Shards) \cup {DeadLetterQueue}

\* Per gateway: its consumers' exclusive auto-delete queues, and the buffer of
\* messages the broker returned to it as unroutable.
Exchanges == {"direct", "topic", "headers", "fanout"}
Private(g) == (Exchanges \cup {"returns"}) \X {g}

Queues == Shared \cup ((Exchanges \cup {"returns"}) \X Gateways)

\* Variant: the DLQ consumer is not started.
ConsumesNoDlq(g) == (Shared \ {DeadLetterQueue}) \cup Private(g)
Consumes(g) == Shared \cup Private(g)

\* A copy of the task of request req. id tells copies of one request apart,
\* count is the header x-retry-count.
Copy == [req: Requests, id: Nat, count: Nat]

\* A message handed to a consumer of gateway gw and not settled yet, and how
\* far the consumer's loop body has got with it.
Stages == {"got", "told", "forwarded"}
Delivery == [gw: Gateways, queue: Queues, msg: Copy, stage: Stages]

Verdicts == {"success", "dlq"}
Feedback == [status: Verdicts \cup {"retry"}, attempt: Nat]

Durable == {"task", "resilient", "retry"}
Routes == Durable \cup Exchanges \cup {"returns"}

VARIABLES
  up,          \* up[g]: "up", "deaf" (alive, channel closed for good) or "down"
  client,      \* client[r]: where the handler of r is, then what it answered
  route,       \* route[r]: kind of queue the task of r was published to
  replyQueue,  \* replyQueue[r]: gateway whose channel owns r's reply queue
  replies,     \* replies[r]: the reply queue, oldest first
  ready,       \* ready[q]: messages of queue q that no consumer holds
  inflight,    \* messages that consumers hold
  copies,      \* copies[r]: messages published so far for the task of r
  told,        \* history: told[r], the verdicts published for r
  dead,        \* history: requests whose message entered the dead-letter queue
  faults       \* channel closures and crashes so far

vars == <<up, client, route, replyQueue, replies, ready, inflight, copies,
          told, dead, faults>>

Init ==
  /\ up = [g \in Gateways |-> "up"]
  /\ client = [r \in Requests |-> "new"]
  /\ route = [r \in Requests |-> "none"]
  /\ replyQueue = [r \in Requests |-> NoGateway]
  /\ replies = [r \in Requests |-> << >>]
  /\ ready = [q \in Queues |-> {}]
  /\ inflight = {}
  /\ copies = [r \in Requests |-> 0]
  /\ told = [r \in Requests |-> {}]
  /\ dead = {}
  /\ faults = 0

-----------------------------------------------------------------------------
(* The HTTP handler of POST /submit-task.                                  *)

\* Refused before anything is declared: not a POST, no valid JWT, over the
\* rate limit, or (always, on a deaf gateway) QueueDeclare fails.
Refuse(r) ==
  /\ client[r] = "new"
  /\ client' = [client EXCEPT ![r] = "failed"]
  /\ UNCHANGED <<up, route, replyQueue, replies, ready, inflight, copies,
                 told, dead, faults>>

\* Authenticated and under the limit: declare the temporary reply queue and
\* consume it. Nobody else can name the queue yet, so this is one step.
OpenReplyQueue(r, g) ==
  /\ client[r] = "new"
  /\ up[g] = "up"
  /\ client' = [client EXCEPT ![r] = "open"]
  /\ replyQueue' = [replyQueue EXCEPT ![r] = g]
  /\ UNCHANGED <<up, route, replies, ready, inflight, copies, told, dead, faults>>

\* autoDetectAndPublish: the first field that is set picks the exchange.
Exchange(f) ==
  IF f.retry THEN "retry"
  ELSE IF f.fail THEN "resilient"
  ELSE IF f.headers # "" THEN "headers"
  ELSE IF f.key \in {"app.*", "#"} THEN "topic"
  ELSE IF f.key # "" THEN "direct"
  ELSE IF f.broadcast THEN "fanout" ELSE "task"

\* The bindings the consumers declare. A message no binding matches is
\* returned: these publishes are mandatory.
Bound(f) ==
  CASE Exchange(f) = "headers" -> f.headers = "prod"
    [] Exchange(f) = "topic"   -> f.key = "app.*"
    [] Exchange(f) = "direct"  -> f.key = "info"
    [] OTHER -> TRUE

Destination(f) == IF Bound(f) THEN Exchange(f) ELSE "returns"

\* Variant: no return handler, an unroutable task is dropped.
TargetsNoReturns(r, kind) ==
  IF kind \in Exchanges THEN {kind} \X {g \in Gateways : up[g] = "up"}
  ELSE IF kind = "returns" THEN {} ELSE {<<kind, ShardOf[r]>>}

\* The queues that receive a copy: the queue of every connected gateway, the
\* publisher's own buffer of returns, or the shard's durable queue.
Targets(r, kind) ==
  IF kind \in Exchanges THEN {kind} \X {g \in Gateways : up[g] = "up"}
  ELSE IF kind = "returns" THEN {<<kind, replyQueue[r]>>} ELSE {<<kind, ShardOf[r]>>}

\* 400 without a task, 500 when headersJSON does not parse (and a panic that
\* net/http recovers when it is "null"). The reply queue and its consumer stay.
RejectForm(r) ==
  /\ client[r] = "open"
  /\ \E f \in Forms : ~f.task \/ (Exchange(f) = "headers" /\ f.headers = "invalid")
  /\ client' = [client EXCEPT ![r] = "failed"]
  /\ UNCHANGED <<up, route, replyQueue, replies, ready, inflight, copies,
                 told, dead, faults>>

PublishTask(r, f) ==
  LET kind == Destination(f)
      msg  == [req |-> r, id |-> 1, count |-> 0]
  IN /\ client[r] = "open"
     /\ f.task /\ ~(Exchange(f) = "headers" /\ f.headers = "invalid")
     /\ ready' = [q \in Queues |-> IF q \in Targets(r, kind)
                                   THEN ready[q] \cup {msg} ELSE ready[q]]
     /\ client' = [client EXCEPT ![r] = "waiting"]
     /\ route' = [route EXCEPT ![r] = kind]
     /\ copies' = [copies EXCEPT ![r] = 1]
     /\ UNCHANGED <<up, replyQueue, replies, inflight, told, dead, faults>>

\* Variant: a retry notice is an answer, too.
AnyIsFinal(feedback) == TRUE
Final(feedback) == feedback.status # "retry"

\* The loop over the reply queue: "retry" is logged, the first verdict is the
\* HTTP answer. The handler neither cancels the consumer nor drops the queue.
ReadReply(r) ==
  /\ client[r] = "waiting"
  /\ replies[r] # << >>
  /\ replies' = [replies EXCEPT ![r] = Tail(@)]
  /\ client' = IF Final(Head(replies[r]))
               THEN [client EXCEPT ![r] = Head(replies[r]).status] ELSE client
  /\ UNCHANGED <<up, route, replyQueue, ready, inflight, copies, told, dead, faults>>

-----------------------------------------------------------------------------
(* The consumer goroutines of a gateway.                                   *)

\* Ch.Qos(1, 0, false): every consumer holds one unsettled message.
Free(g, q) ==
  Cardinality({d \in inflight : d.gw = g /\ d.queue = q})
    < (IF q[1] = "task" THEN TaskWorkers ELSE 1)

Deliver(g, q, m) ==
  /\ up[g] = "up" /\ q \in Consumes(g)
  /\ m \in ready[q]
  /\ Free(g, q)
  /\ ready' = [ready EXCEPT ![q] = @ \ {m}]
  /\ inflight' = inflight \cup {[gw |-> g, queue |-> q, msg |-> m, stage |-> "got"]}
  /\ UNCHANGED <<up, client, route, replyQueue, replies, copies, told, dead, faults>>

\* Variant: x-retry-count is not raised.
SameCount(d) == d.msg.count
NextCount(d) == d.msg.count + 1

\* The retry worker will try the task again.
Interim(d) == d.queue[1] = "retry" /\ d.msg.count < MaxRetries

\* Variant: a failed task is reported with a word the handler does not expect.
VerdictFailed(d) ==
  IF d.queue[1] \in {"task"} \cup Exchanges THEN "success" ELSE "failed"

\* Variant: the DLQ consumer confirms what it has stored.
VerdictStored(d) ==
  IF d.queue[1] \in {"task", "dlq"} \cup Exchanges THEN "success" ELSE "dlq"

\* What the consumer of this queue decides about the message. All messages of
\* the resilient queues carry x-force-fail, so their worker always fails them.
Verdict(d) ==
  IF d.queue[1] \in {"task"} \cup Exchanges THEN "success" ELSE "dlq"

FeedbackOn(d) ==
  IF Interim(d) THEN [status |-> "retry", attempt |-> NextCount(d)]
                ELSE [status |-> Verdict(d), attempt |-> 0]

Advance(d, stage) == (inflight \ {d}) \cup {[d EXCEPT !.stage = stage]}

\* Publish feedback to ReplyTo through the default exchange, not mandatory:
\* dropped when the reply queue no longer exists.
Reply(d) ==
  LET r == d.msg.req
  IN /\ d \in inflight
     /\ d.stage = "got"
     /\ inflight' = Advance(d, "told")
     /\ replies' = IF replyQueue[r] = NoGateway THEN replies
                   ELSE [replies EXCEPT ![r] = Append(@, FeedbackOn(d))]
     /\ told' = IF Interim(d) THEN told
                ELSE [told EXCEPT ![r] = @ \cup {Verdict(d)}]
     /\ UNCHANGED <<up, client, route, replyQueue, ready, copies, dead, faults>>

\* The retry worker republishes the task to the queue it came from.
Republish(d) ==
  LET r == d.msg.req
  IN /\ d \in inflight
     /\ d.stage = "told" /\ Interim(d)
     /\ inflight' = Advance(d, "forwarded")
     /\ ready' = [ready EXCEPT ![d.queue] =
                    @ \cup {[req |-> r, id |-> copies[r] + 1, count |-> NextCount(d)]}]
     /\ copies' = [copies EXCEPT ![r] = @ + 1]
     /\ UNCHANGED <<up, client, route, replyQueue, replies, told, dead, faults>>

\* Variant: the retry worker acknowledges before it republishes.
DischargedByReply(d) == d.stage = "told"

\* Variant: the branch that gives a task up forgets the acknowledgement.
DischargedUnlessGivenUp(d) ==
  IF d.queue[1] = "retry" THEN d.stage = "forwarded" ELSE d.stage = "told"

\* The consumer has published all it publishes for this delivery.
Discharged(d) == d.stage = IF Interim(d) THEN "forwarded" ELSE "told"

\* Consumers whose last step sends the message on to dlx_exchange: the
\* resilient worker by a nack, the return handler by publishing it.
DeadLetters(d) == d.queue[1] \in {"resilient", "returns"}

\* Variant: a consumer acknowledges what it receives before it handles it.
AckOnReceipt(d) ==
  /\ d \in inflight
  /\ ~DeadLetters(d)
  /\ inflight' = inflight \ {d}
  /\ UNCHANGED <<up, client, route, replyQueue, replies, ready, copies, told,
                 dead, faults>>

Ack(d) ==
  /\ d \in inflight
  /\ Discharged(d) /\ ~DeadLetters(d)
  /\ inflight' = inflight \ {d}
  /\ UNCHANGED <<up, client, route, replyQueue, replies, ready, copies, told,
                 dead, faults>>

\* Variant: the message is dead-lettered before the client is told.
DeadLetterFirst(d) ==
  /\ d \in inflight
  /\ DeadLetters(d)
  /\ inflight' = inflight \ {d}
  /\ ready' = [ready EXCEPT ![DeadLetterQueue] = @ \cup {d.msg}]
  /\ dead' = dead \cup {d.msg.req}
  /\ UNCHANGED <<up, client, route, replyQueue, replies, copies, told, faults>>

DeadLetter(d) ==
  /\ d \in inflight
  /\ Discharged(d) /\ DeadLetters(d)
  /\ inflight' = inflight \ {d}
  /\ ready' = [ready EXCEPT ![DeadLetterQueue] = @ \cup {d.msg}]
  /\ dead' = dead \cup {d.msg.req}
  /\ UNCHANGED <<up, client, route, replyQueue, replies, copies, told, faults>>

\* x-message-ttl: a message nobody takes from the retry queue in time is
\* dead-lettered through the default exchange to the queue of its shard.
Expire(s, m) ==
  /\ m \in ready[<<"retry", s>>]
  /\ ready' = [ready EXCEPT ![<<"retry", s>>] = @ \ {m},
                            ![<<"task", s>>]  = @ \cup {m}]
  /\ UNCHANGED <<up, client, route, replyQueue, replies, inflight, copies, told,
                 dead, faults>>

-----------------------------------------------------------------------------
(* Losing and regaining a channel.                                         *)

\* Unacknowledged messages go back to their queue.
Requeued(g, q) == {d.msg : d \in {e \in inflight : e.gw = g /\ e.queue = q}}

\* The channel of g is gone: auto-delete queues vanish with their messages,
\* unsettled messages of shared queues are requeued, consumers' later
\* publishes and acks fail, and the handlers of g answer 500 or 504.
DropChannel(g) ==
  /\ faults < MaxFaults
  /\ faults' = faults + 1
  /\ ready' = [q \in Queues |->
                 IF q \in Private(g) THEN {}
                 ELSE ready[q] \cup Requeued(g, q)]
  /\ inflight' = {d \in inflight : d.gw # g}
  /\ client' = [r \in Requests |->
                  IF replyQueue[r] = g /\ client[r] \in {"open", "waiting"}
                  THEN "failed" ELSE client[r]]
  /\ replies' = [r \in Requests |-> IF replyQueue[r] = g THEN << >> ELSE replies[r]]
  /\ replyQueue' = [r \in Requests |-> IF replyQueue[r] = g THEN NoGateway
                                       ELSE replyQueue[r]]
  /\ UNCHANGED <<route, copies, told, dead>>

\* GET /metrics_manual inspects "task_queue", which nothing declares: the
\* broker answers 404 and closes the channel. Nothing in the gateway opens
\* another one, and /health keeps answering 200.
MetricsRequest(g) ==
  /\ up[g] = "up"
  /\ up' = [up EXCEPT ![g] = "deaf"]
  /\ DropChannel(g)

Crash(g) ==
  /\ up[g] = "up"
  /\ up' = [up EXCEPT ![g] = "down"]
  /\ DropChannel(g)

\* The process is started again (a deaf one after being stopped) and declares
\* and consumes its queues. The private ones are new and empty.
Restart(g) ==
  /\ up[g] # "up"
  /\ up' = [up EXCEPT ![g] = "up"]
  /\ UNCHANGED <<client, route, replyQueue, replies, ready, inflight, copies,
                 told, dead, faults>>

-----------------------------------------------------------------------------
Handler(r) ==
  \/ RejectForm(r)
  \/ \E f \in Forms : PublishTask(r, f)
  \/ ReadReply(r)

Consumer(g) ==
  \/ \E q \in Queues : \E m \in ready[q] : Deliver(g, q, m)
  \/ \E d \in inflight : d.gw = g /\ (Reply(d) \/ Republish(d) \/ Ack(d) \/ DeadLetter(d))

Next ==
  \/ \E r \in Requests : Refuse(r) \/ Handler(r)
  \/ \E r \in Requests, g \in Gateways : OpenReplyQueue(r, g)
  \/ \E g \in Gateways : Consumer(g)
  \/ \E s \in Shards : \E m \in ready[<<"retry", s>>] : Expire(s, m)
  \/ \E g \in Gateways : MetricsRequest(g) \/ Crash(g) \/ Restart(g)

Spec == Init /\ [][Next]_vars

\* The Go scheduler runs every handler and consumer that can proceed, and the
\* broker delivers to a free consumer. Clients, faults and TTLs are not fair.
Fairness ==
  /\ \A r \in Requests : WF_vars(Handler(r))
  /\ \A g \in Gateways : WF_vars(Consumer(g))

FairSpec == Spec /\ Fairness

-----------------------------------------------------------------------------
(* Properties.                                                             *)

\* Types of the state (the Go values and broker objects of the model).
TypeOK ==
  /\ up \in [Gateways -> {"up", "deaf", "down"}]
  /\ client \in [Requests -> {"new", "open", "waiting", "failed"} \cup Verdicts]
  /\ route \in [Requests -> Routes \cup {"none"}]
  /\ replyQueue \in [Requests -> Gateways \cup {NoGateway}]
  /\ replies \in [Requests -> Seq(Feedback)]
  /\ ready \in [Queues -> SUBSET Copy]
  /\ inflight \subseteq Delivery
  /\ copies \in [Requests -> Nat]
  /\ told \in [Requests -> SUBSET Verdicts]
  /\ dead \subseteq Requests
  /\ faults \in Nat

VerdictQueued(r) == \E i \in DOMAIN replies[r] : Final(replies[r][i])

\* A message of r is in queue q, or held by a consumer of q that still owes
\* its feedback or its republish, so that losing the channel requeues it.
OwedIn(r, q) ==
  \/ \E m \in ready[q] : m.req = r
  \/ \E d \in inflight : d.queue = q /\ d.msg.req = r /\ ~Discharged(d)

\* The submit handler has no timeout, so what it waits for must come: while
\* it waits, a verdict is in its reply queue, or the task is owed in a queue
\* that outlives every gateway but its own. Consumers answer before they ack.
NoClientStranded ==
  \A r \in Requests : client[r] = "waiting" =>
    \/ VerdictQueued(r)
    \/ \E q \in Shared \cup Private(replyQueue[r]) : OwedIn(r, q)

\* The loop body that handles d has a step to take, and waits for nobody.
CanGoOn(d) ==
  \/ d.stage = "got"
  \/ d.stage = "told" /\ Interim(d)
  \/ Discharged(d)

\* Nothing a waiting client depends on is stuck: it has something to read, a
\* consumer is at work on its task, or the task is in a queue that a connected
\* gateway consumes, whose worker there is free or can become so (Qos 1).
NobodyBlocked ==
  \A r \in Requests : client[r] = "waiting" =>
    \/ replies[r] # << >>
    \/ \E d \in inflight : d.msg.req = r /\ CanGoOn(d)
    \/ \E g \in Gateways : up[g] = "up" /\ \E q \in Consumes(g) :
         /\ \E m \in ready[q] : m.req = r
         /\ \/ Free(g, q)
            \/ \E d \in inflight : d.gw = g /\ d.queue = q /\ CanGoOn(d)

\* Tasks published to a durable queue survive crashes and closed channels of
\* any gateway: a verdict has been published or the task is still owed.
NoDurableTaskLost ==
  \A r \in Requests : route[r] \in Durable =>
    told[r] # {} \/ \E q \in Shared : OwedIn(r, q)

InOrder(r) ==
  \A i, j \in DOMAIN replies[r] :
    i < j /\ replies[r][j].status = "retry" =>
      replies[r][i].status = "retry" /\ replies[r][i].attempt < replies[r][j].attempt

\* While no channel is lost, a client reads retry notices with rising attempt
\* numbers and no notice after a verdict, whichever gateways' retry workers
\* took the attempts: they reply before they republish.
ReportsInOrder == faults = 0 => \A r \in Requests : InOrder(r)

\* While no channel is lost, no task is both done and given up, though its
\* copies meet several consumers (expiry racing the retry worker, the
\* resilient worker followed by the DLQ consumer, fanout to all gateways).
OneVerdict == faults = 0 => \A r \in Requests : Cardinality(told[r]) <= 1

\* The client hears of a failure before the message is dead-lettered
\* (resilient worker and return handler publish "dlq" first).
DeadAreReported == \A r \in dead : "dlq" \in told[r]

\* No handler waits forever (there is no timeout on the reply queue).
EveryClientAnswered ==
  \A r \in Requests : client[r] = "waiting" ~> client[r] \in Verdicts \cup {"failed"}

\* As long as some gateway stays connected in the end, every durable task is
\* worked off: no copy of it stays in a queue or with a consumer.
DurableTasksDrain ==
  <>[](\E g \in Gateways : up[g] = "up") =>
    \A r \in Requests : route[r] \in Durable ~>
      /\ \A q \in Shared, m \in UNION {ready[p] : p \in Shared} :
           m \in ready[q] => m.req # r
      /\ \A d \in inflight : d.msg.req # r

\* The handlers, queues and consumers implement the service promised to
\* clients: verdicts come from workers and each client is answered once.
clientStatus ==
  [r \in Requests |-> IF client[r] = "open" THEN "waiting" ELSE client[r]]
Service == INSTANCE TaskService WITH status <- clientStatus, verdicts <- told
ImplementsService == Service!ServiceSpec

\* A client is told what became of its task: some consumer reached that verdict
\* (server.go:362), and while no channel is lost none reaches another, however
\* late the other copies of the task are handled.
AnswersStand ==
  \A r \in Requests : client[r] \in Verdicts =>
    /\ client[r] \in told[r]
    /\ faults = 0 => told[r] = {client[r]}

-----------------------------------------------------------------------------
(* The inductive invariant of MessageFlowProofs.                           *)

\* A reply queue lives on a connected gateway, and the handlers that have not
\* answered have theirs.
ReplyQueuesServed ==
  \A r \in Requests :
    /\ replyQueue[r] # NoGateway => up[replyQueue[r]] = "up"
    /\ client[r] \in {"open", "waiting"} => replyQueue[r] # NoGateway

\* A consumer that is about to dead-letter a message has told its client.
DeadLettersTold ==
  \A d \in inflight : DeadLetters(d) /\ d.stage # "got" => "dlq" \in told[d.msg.req]

\* Only the retry worker forwards.
OnlyInterimForwarded == \A d \in inflight : d.stage = "forwarded" => Interim(d)

FlowInv ==
  /\ TypeOK
  /\ ReplyQueuesServed
  /\ DeadLettersTold
  /\ OnlyInterimForwarded
  /\ NoClientStranded
  /\ NoDurableTaskLost
  /\ DeadAreReported

\* Messages carry tasks of accepted requests, and every verdict in a reply
\* queue was reached by a consumer.
ServiceInv ==
  /\ \A q \in Queues : \A m \in ready[q] : client[m.req] # "new"
  /\ \A d \in inflight : client[d.msg.req] # "new"
  /\ \A r \in Requests : \A i \in DOMAIN replies[r] :
       Final(replies[r][i]) => replies[r][i].status \in told[r]

-----------------------------------------------------------------------------
(* The inductive invariant of MessageOrderProofs: without a lost channel.  *)

\* The kinds of queues that copies of a task get to from where it was sent.
Kinds(kind) ==
  IF kind = "none" THEN {}
  ELSE IF kind \in {"task"} \cup Exchanges THEN {"task"} \cup Exchanges
  ELSE IF kind = "retry" THEN {"retry", "task"} ELSE {"resilient", "returns", "dlq"}

\* Copies of r stay on its route, whose consumers all reach the same verdict
\* (those of the retry route aside).
OnRoute(r) ==
  /\ client[r] \in {"new", "open"} => route[r] = "none"
  /\ \A q \in Queues : \A m \in ready[q] : m.req = r => q[1] \in Kinds(route[r])
  /\ \A d \in inflight : d.msg.req = r => d.queue[1] \in Kinds(route[r])
  /\ route[r] = "none" => told[r] = {} /\ replies[r] = << >>
  /\ route[r] \in {"task"} \cup Exchanges => told[r] \subseteq {"success"}
  /\ route[r] \in {"resilient", "returns"} => told[r] \subseteq {"dlq"}

\* A copy that a consumer has still to do something about.
Pending(d, r) == d.msg.req = r /\ ~Discharged(d)

\* On the retry route there is one such copy, until there is a verdict.
OneCopy(r) ==
  /\ \A p, q \in Queues : \A m \in ready[p], n \in ready[q] :
       m.req = r /\ n.req = r => p = q /\ m = n
  /\ \A d, e \in inflight : Pending(d, r) /\ Pending(e, r) => d = e
  /\ \A q \in Queues : \A m \in ready[q] : m.req = r =>
       told[r] = {} /\ \A d \in inflight : ~Pending(d, r)
  /\ \A d \in inflight : Pending(d, r) => told[r] = {}
  /\ told[r] \in {{}, {"success"}, {"dlq"}}

\* Notices are about earlier attempts than those to come, and no verdict is
\* in the reply queue before it is reached.
NoticesBehind(r) ==
  \A i \in DOMAIN replies[r] :
    /\ told[r] = {} => replies[r][i].status = "retry"
    /\ replies[r][i].status = "retry" =>
         /\ route[r] = "retry"
         /\ \A q \in Queues : \A m \in ready[q] :
              m.req = r => replies[r][i].attempt <= m.count
         /\ \A d \in inflight : Pending(d, r) =>
              replies[r][i].attempt <= d.msg.count + (IF d.stage = "got" THEN 0 ELSE 1)

Orderly(r) == OnRoute(r) /\ (route[r] = "retry" => OneCopy(r)) /\ NoticesBehind(r) /\ InOrder(r)

OrderInv == faults = 0 => \A r \in Requests : Orderly(r)

\* Retries do not multiply: a task is published MaxRetries times more than once
\* at most, though its copies can expire and fail again under the shard worker.
RetriesBounded == faults = 0 => \A r \in Requests : copies[r] <= MaxRetries + 1

\* The copy that somebody must still act on is the last one published, and
\* its x-retry-count is the number of those before it.
RetriesCounted(r) ==
  IF route[r] # "retry" THEN copies[r] <= 1
  ELSE /\ copies[r] <= MaxRetries + 1
       /\ \A q \in Queues : \A m \in ready[q] : m.req = r => copies[r] = m.count + 1
       /\ \A d \in inflight : Pending(d, r) => copies[r] = d.msg.count + 1

-----------------------------------------------------------------------------
(* What the log of the code says, and the code does not do.                *)

\* "Max retries reached, sending to DLQ": a task that was given up and has
\* left all queues went through the dead-letter queue.
GivenUpTasksReachDlq ==
  \A r \in Requests :
    (/\ "dlq" \in told[r]
     /\ \A q \in Queues : \A m \in ready[q] : m.req # r
     /\ \A d \in inflight : d.msg.req # r) => r \in dead
=============================================================================
