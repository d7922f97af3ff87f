# A TLA+ model of the distributed messaging system

This directory holds the specifications, model-checking configurations and
proofs kept beside the Go code in `src/`. It covers the path of a task from the
HTTP request to its verdict, the workers and the autoscaler that serve it, the
load balancer in front of the gateways, the rate limiter, the monitors that
replace failed RabbitMQ nodes, and the login. Line numbers refer to files under
`src/`.

## 1. Inventory of the system

| Component | State it keeps | Operations | Talks to |
|---|---|---|---|
| Gateway (`gateway/server.go`) | one AMQP connection and channel, limiter client, `publishedCount` | `POST /submit-task`, `/metrics_manual`, `/metrics`, `/health`, return handler, start-up | clients, broker, Redis, load balancer |
| Shard workers and autoscaler (`work_queue_model/worker.go`) | `WorkerCount`, `AckCount` | work-reply-ack loop; one inspection a second that adds workers | broker, through the gateway's channel |
| Retry path (`dead_letter_queues/delay_*.go`) | durable queue `<shard>_retry_5s` with a TTL; header `x-retry-count` | interim reply, republish, give up | broker |
| Failure path (`dlq_producer.go`, `dlq_worker.go`, `dlq_consumer.go`) | durable queues `resilient_<shard>`, `dead_letter_queue` | forced failure: reply, nack; DLQ consumer: reply, ack | broker |
| Direct, topic, headers and fanout exchanges | one exclusive auto-delete queue per gateway and exchange | mandatory publish; reply-ack loop | broker |
| Load balancer (`load_balancer.go`) | `backends`, `backendMutex`, `current` | register, prune, proxy, `/metrics` | gateways |
| Rate limiter (`limiter/rate_limit.go`) | a Redis counter with expiry per user | `Allow` | Redis |
| Quorum recovery (`quorum_recovery/handler.go`) | `expectedNodes`, `previousExpectedNodes`, `forgotten` | poll, compare, replace a node | Docker, RabbitMQ's HTTP API |
| Authentication (`google_authentication/`) | `login:status:*` and `login:token:*` in Redis | generate id, login, callback, fetch, verify | Google, Redis, the polling client |
| Metrics (`monitor/metrics.go`) | Prometheus counters and gauges | increment, set | all of the gateway |
| Clients (`main.go`, `tester.go`, `flood.go`, ...) | none | send requests | load balancer |

How they interact. Clients post to the load balancer, which forwards to a
gateway and keeps its read lock until the answer is written. The gateway
declares a reply queue, publishes the task with `ReplyTo` and `CorrelationId`,
and waits on that queue with no timeout. Every gateway runs one consumer for
every durable queue, so the consumer that answers is often in another process.
All handlers and consumers of a gateway use one AMQP channel.

What is hard about it:

* one channel for everything: whatever closes it stops all consumers of the
  gateway and vanishes the reply queues, while `/health` still says 200;
* consumers reply, then ack: a crash in between repeats the verdict, a crash
  before means another gateway has to do the work;
* copies of one task race: retry worker against TTL, fanout to all gateways,
  resilient worker against DLQ consumer, redelivery against a late reply;
* a handler that waits without a timeout depends on every path of every
  consumer to end in a reply;
* the balancer's read-write lock is held over network calls and taken twice;
* recoveries of the quorum monitor last minutes and fail half way.

What makes each part correct:

* gateway and queues: every waiting client is answered once, with a verdict
  some consumer reached; tasks in durable queues survive faults; retry notices
  come in order; a failure is reported before the message is dead-lettered;
* load balancer: a gateway is registered once, requests go to registered
  gateways, dead ones leave, "all unhealthy" is said only when each was tried;
* rate limiter: no window holds more than the limit; a quiet user is let in;
* worker pool: the count is that of the workers there are, the gauge settles on
  it, every hash has a shard, every shard is worked on, and a closed channel
  leaves no worker behind;
* quorum recovery: a healthy node is never destroyed, a member never loses its
  data, and the cluster regains its size;
* authentication: a client fetches its own user's token, in time, and one that
  is still good (for browsers that open the links of their own clients).

`PROJECT.json` lists the components with their status and the hazards at their
lines.

## 2. Modules

| Module | Models |
|---|---|
| `TaskService` | abstract: what a client of `/submit-task` is promised, with no broker in sight |
| `MessageFlow` | gateways, queues, consumers, return handler, reply queues, faults |
| `MCMessageFlow` | the constants of `MessageFlow` for TLC |
| `MessageFlowProofs` | types, the inductive invariant and the safety theorems |
| `MessageOrderProofs` | the order of notices and the agreement of verdicts |
| `ServiceRefinement` | the proof that `MessageFlow` implements `TaskService` |
| `WorkerPool`, `MCWorkerPool`, `WorkerPoolProofs` | one gateway's shard workers, `pickShard`, the autoscaler |
| `RWMutex` | Go's `sync.RWMutex` (external), the part the balancer needs |
| `BackendRegistry` | abstract: what the balancer promises of its registry, with no locks in sight |
| `LoadBalancer`, `MCLoadBalancer`, `LoadBalancerProofs` | `load_balancer.go` and the registration loop of the gateways |
| `RateLimiter`, `RateLimiterProofs` | `Allow` and the life of its Redis key |
| `QuorumRecovery`, `QuorumRecoveryProofs` | `quorum_recovery/handler.go`, one monitor for each gateway, with Docker and the cluster |
| `AuthFlow`, `AuthFlowProofs` | `auth_server.go` and the login of `main.go` |

`MessageFlow` implements `TaskService`; `LoadBalancer` instantiates `RWMutex` and
implements `BackendRegistry`. The other modules stand alone: what `MessageFlow` needs of the pool is a number of
consumers per queue, of the limiter and the login that a request may be
refused, and the monitors act on the broker below all of it. `MC` modules exist
where a constant is a function or a sequence.

Definitions called *variants* (their comment says so) are plausible bugs of the
definition that follows them. No specification uses them; they are substituted
to see that each property notices the bug.

### MessageFlow

`client[r]` follows the handler of a request: `new`, `open` (reply queue
declared), `waiting` (published), then its answer. `ready[q]` are the messages
in a queue that nobody holds, `inflight` the deliveries that consumers have not
settled, with the `stage` their loop body has reached. `replies[r]` is the
reply queue and `replyQueue[r]` the gateway that owns it. `up[g]` is `deaf` for
a gateway that is alive with a closed channel.

| Action | Code |
|---|---|
| `Refuse` | `server.go:265-334`, each early return before and at the declarations |
| `OpenReplyQueue` | `server.go:309-336` |
| `RejectForm` | no task (`:339`), or a publish that fails: headers that do not parse or are `null` |
| `PublishTask` | `autoDetectAndPublish`, with the producers of each package; the cascade is `Exchange`, the bindings are `Bound` |
| `ReadReply` | the loop `:362-377` |
| `Deliver`, `Reply`, `Ack` | the loops of all consumers |
| `Republish` | `delay_retry_worker.go:70-95` |
| `DeadLetter` | the nack of `dlq_worker.go:85` and the publish of `server.go:139` |
| `Expire` | the TTL of `delay_setup.go:29` |
| `MetricsRequest` | `server.go:223`: inspecting `task_queue`, which nothing declares, closes the channel |
| `Crash`, `Restart` | the process dies; `main` runs again |

The actions of one consumer are steps of their own because other consumers,
gateways and clients run between them, and a fault may come between any two.
Declaring and consuming the reply queue is one step: no one else knows its name.
A closed channel takes effect at once (`DropChannel`): deliveries of that
gateway fail to publish and to ack from then on, so what they do locally after
it cannot be seen by anyone.

The broker is external. The model uses of it: a channel's publishes are
enqueued in order; an unacknowledged message of a closed channel is requeued;
exclusive and auto-delete queues go with their connection; a mandatory message
without a matching queue is returned; prefetch 1 (`Qos(1, 0, false)`) limits each
consumer; a passive declare of an unknown queue closes the channel. Queues of
tasks are sets (messages may be taken in any order, which includes FIFO); reply
queues are sequences.
`NotifyReturn`'s Go channel is the queue `<<"returns", g>>`, which is lost with
the gateway. Restarts of the broker are not modelled.

The correlation id is the request itself; the filter of `server.go:363` never
drops anything because the queue is exclusive to the request.

### LoadBalancer

Goroutines have a program counter; locks are the two halves of `RWMutex`. The
steps are cut where the code takes or gives up a lock, touches the atomic
counter, or waits for the network. `NextLock` is the second `RLock` of the same
goroutine (`load_balancer.go:23`). An address comes up at most once, as every
start of a gateway listens on a new port (`server.go:198`). A health check of
a live gateway may still take more than a second. The answer of a registration
may get lost, in which case the gateway posts again. `current` is kept modulo a
multiple of every registry length, which changes no index (`BalancerAssumption`
says so, `TurnShift` proves it; that the code's counter starts again after 2^64
turns is left out). A request that is sent on may fail (`ForwardFails`) whether the
gateway lives or not: it cannot be made (`load_balancer.go:108`), the gateway has
died since its check, or it lives and closes the connection (`load_balancer.go:115`).
So the loop can run out with every backend alive and every check passed.
`untried` and `mixed` are histories: the backends a request found and has not
checked yet, and the requests between whose turns others took one.

`BackendRegistry` is the registry as its users may think of it: a list at whose
end gateways join, from which a sweep takes some of the dead at once and
without changing the order of the rest, and from which requests choose in turn;
nothing joins or leaves while a request uses what it chose. The refinement maps
`backends`, `current` and, for requests that check or forward, `target` (`Using`).
A sweep happens where the code stores the new list (`load_balancer.go:57`).

### RateLimiter

One user, a discrete clock, and histories of calls. `INCR` and `EXPIRE` run in
one transaction; `Exec` may fail before or after it took place.

### WorkerPool

`pc[w]` follows `StartTaskQueueWorker`: `starting`, `counted` (between the atomic
add and the `Set` of the gauge), `idle` (consuming), `leaving` (between the
subtraction and its `Set`), `gone`.

| Action | Code |
|---|---|
| `Publish` | `pickShard` (`server.go:48`): `int(h.Sum32())` and Go's `%` on it |
| `Begin`, `Subscribe`, `SubscribeFails` | `worker.go:32-76`; on a closed channel `log.Fatalf` ends the process |
| `Handle` | the loop body; what it replies and acks is `MessageFlow`'s |
| `Quit`, `SetDown` | `worker.go:107-110`, when the delivery channel closes |
| `Wake`, `Inspect`, `Spawn` | the autoscaler: a round over the ring, `Burst` workers for a long queue |
| `CloseChannel`, `TakenElsewhere` | the channel ends; workers of other gateways |

The autoscaler calls `StartTaskQueueWorker` itself, so it goes on only when the
worker it added last has subscribed (`Started`); main's workers start in
goroutines of their own (`Begin`). `int` has `IntSize` values and the hash `HashSize`; the
assumption `IntSize >= 2 * HashSize` is that of a 64-bit build.

### QuorumRecovery

Docker is `container[n]`, the RabbitMQ cluster is `cluster` (its members) and `up`
(those that run). A monitor's round is `List` (`updateExpectedNodes`), `Fetch`
(`/api/nodes`), and four judgements in the order of `checkQuorumStatus`: members
that do not run, containers whose node is not live, recovery containers that
vanished from the list, members of quorum queues. `todo[m]` are the nodes
the judgement has found, taken one by one by `Trigger`. A recovery is `Stop`,
`ForgetSucceeds` or `ForgetFails` (up to `MaxRetries`), `Remove`, `Create` under any
spare name, `Join`, `Start`; each call may fail (`Error`), and what the code
does then (carry on, return, fall back to a replacement) is in the action.
`Fail`, `Return` and `Crash` act at any point, also in the middle of a recovery.
What a round remembers is cleared where the code's variables die, which keeps
the states few.

`steady`, `blind` and `mishap` are histories: the nodes that have run since the
round began, the monitors whose listing failed, and whether a dead node was left
without a replacement, which happens when

* the gateway dies between forgetting the node and creating its replacement;
* the creation fails, or meets a name in use (1000 names, at random);
* the replacement gets a name that was forgotten before (`forgotten` is never
  cleared), or stops before it has joined.

### AuthFlow

`ttl[u]` and `life[u]` are what is left of the key `login:token:<u>` and of the
token in it; `Tick` lets all times run down together. A client draws an id
(`Generate`, INCR), opens a login page for it, and polls (`FetchToken`,
`FetchNothing`) with a `Pause` after each poll that found nothing; its user may open the page again, in several tabs
(`Login`), and come back from Google in any order (`Callback`), also after the
client has ended. When Redis fails on `/generate-id`, `main.go` takes the error page
for an answer and goes on with an empty id (`GenerateFails`, `NoId`). A client that
loses the connection there ends (`GenerateLost`). A `Set` that fails in the
callback is ignored, and the page shown all the same.

A poll takes time. It is under way from the end of the pause (`Asking`) until it
has been to Redis, and, when it found nothing, on its way back (`polled`) until
the client pauses. `Tick` has no guard and nothing bounds either part: `main.go:49`
has no timeout, and a call of Redis that fails (`auth_server.go:284`) costs its own
timeouts and retries first. The key runs down meanwhile; the history `spent` is the
time that the polls took while a token was there for them. The read from Redis is
where a token counts as fetched, as its key no longer matters after it. The
callback's signing and its `Set` are one step.

Browsers open the links of their own clients only. The code does not enforce it:
`/login` takes any uid (`auth_server.go:80`) and `/fetch-token` serves anybody who
names one. `OwnToken` is about clients and browsers that use the system as
`main.go` does.

## 3. Runs

Sizes are distinct states. All configurations but `auth`'s switch the deadlock
check off: the models end, with all requests answered, all faults used up, all
gateways stopped, the process ended, or the clock at its horizon. That nobody
waits forever is what the liveness properties say, and `balancer_stuck` shows
the one deadlock there is.

| Run | Bounds | Shows | States |
|---|---|---|---|
| `flow_safety` | 2 requests, 2 gateways, 1 shard, all routes, 1 retry, 1 fault, symmetry | `TypeOK`, `NoClientStranded`, `NobodyBlocked`, `NoDurableTaskLost`, `DeadAreReported` | 3.3 million |
| `flow_live` | 1 request, 2 gateways, all routes, 2 retries, 1 fault, fair | `ReportsInOrder`, `OneVerdict`, `AnswersStand`, `EveryClientAnswered`, `DurableTasksDrain`, `ImplementsService` | 148 000 |
| `flow_given_up` | 1 request, 1 gateway, 3 retries | `GivenUpTasksReachDlq` is violated | small |
| `balancer_safety` | 2 gateways, 2 proxied requests, 1 scrape, 2 registrations each, 1 slow check, symmetry | `TypeOK`, `NoDuplicates`, `RegisteredStay`, `TargetRegistered`, `LoneRequestTriesAll`, `OnlyStuckBlock`, `StuckForGood`, `ImplementsRegistry` | 2.7 million |
| `balancer_race` | 2 gateways, 2 proxied requests | `AllUnhealthyIsTrue` is violated | small |
| `balancer_stuck` | 1 gateway, 1 proxied request, fair | `DeadGatewaysRemoved` is violated | small |
| `pool` | 2 shards, 2 more workers, burst 2, threshold 0, 2 tasks, 4 hashes in an int of 8 values, fair | `TypeOK`, `CountIsPool`, `GaugeSettles`, `EveryTaskHasShard`, `ShardsServed`, `ClosedPoolEmpties`, `BacklogWorkedOff` | 420 000 |
| `quorum` | 1 monitor, 2 original nodes, 3 spare names, 2 tries, 2 failures, 1 return, 1 failing call, 1 crash, fair | `TypeOK`, `MembersHaveContainers`, `PlacesKept`, `HealthyUntouched`, `SeedNeverRecovered`, `QuorumRestored` | 2.4 million |
| `quorum_any` | the same with 1 failure and nothing else going wrong | `AnyNodeRecovered` is violated | small |
| `auth` | 2 clients, 2 ids, poll 1, key 4, token 5, 1 failing call, fair | `TypeOK`, `OwnToken`, `TokenFresh`, `TokenNotMissed`, `TokenReachesClient` | 1.1 million |
| `limiter_window` | limit 2, window 3, 6 calls, horizon 8 | `SlidingLimit`, `QuietUserAllowed`, `RefusedUntilPause` | 1.5 million |
| `limiter_strict` | the same | `RefusedOverLimit` is violated | small |

Why the bounds are enough. Two gateways are needed for the consumer of one to
answer the client of the other, for fanout to make two copies, for a message to
be requeued to somebody and for two retry workers to take attempts in turn; a
third does what the second does. One shard is the worst case, as shards share
nothing but the dead-letter queue. Two retries make two notices whose order can
be wrong; three (the code's number) were checked with one request as well, at
ten times the time. One fault reaches every point between two steps; two were
checked for one request. The theorems of section 4 hold for all sizes. The
limiter needs more calls than the limit, on both sides of an expiry.
`CounterMod` is a multiple of the lengths that the registry can have (2 suffices for two
gateways, 6 for three), so the counter keeps all that an index depends on;
`ImplementsRegistry` was also checked with three gateways and one request, where a
sweep can take the middle of the list. `pool` has two workers
that main starts and two that the autoscaler adds, which is what it takes for
two adds, two subtractions, or one of each to overlap; the second shard shows
that the autoscaler's round and the goroutines' queues do not mix. `quorum` has two
failures so that a replacement, or a second node during a recovery, can fail,
and three names so that one can be drawn twice; the invariants were also
checked with two monitors (17 million states), and are proved for any number.
`auth` has two clients and two ids, so that a client ends and comes back, or two
run side by side; poll, key and token are as far apart as their order needs.

Fairness. `Handler(r)` and `Consumer(g)` are weakly fair: they are goroutines
blocked only on the reply queue and the delivery channels, and the Go scheduler
and the broker's delivery keep serving them. Clients that post, faults,
restarts, scrapes and TTLs are not fair. `DurableTasksDrain` asks for one gateway
to be connected in the end, since without any nobody consumes.
In `LoadBalancer` the goroutines that can take a step are weakly fair; starts,
stops and arriving requests are not. In `WorkerPool` every worker and the
autoscaler are goroutines of that kind; tasks and the end of the channel need
not come. In `QuorumRecovery` each monitor goes on (its loop has no exit, and
every call it makes returns or is given up); nodes need not fail, nor return.
In `AuthFlow` time passes and clients poll; every call of a poll ends, but there is
no bound on when. Users may do nothing.

`QuorumRestored` assumes that rabbit1 comes back for good, as nothing is
recovered without it, and that no `mishap` happens. `TokenReachesClient` starts when
the token is stored: a client whose `Set` failed, whose id is empty, or whose user
logs in elsewhere polls forever, which is what the code does. It excuses a client
whose polls and pauses have used up the life of the key by then. `RegisteredStay`
is claimed as long as no check of a live gateway came too late: after one
the gateway is out of the registry for good.

`ReportsInOrder` and `OneVerdict` are claims about behaviours without a lost
channel: a retry worker that crashes between its interim reply and its ack
repeats the notice, and a requeued retry may expire and succeed in a shard
queue after another copy was given up. Redelivery cannot avoid that, and the
code does not deduplicate.

Three liveness properties have a safety property beside them that says why they
hold, and that is proved for all sizes:

* `NobodyBlocked` (for `EveryClientAnswered`): whatever a waiting client depends on
  can go on. There is something to read in its reply queue, or its task is with
  a consumer whose next step nothing prevents, or a connected consumer of the
  task's queue is free, or busy with a message it can finish.
* `ShardsServed` (for `BacklogWorkedOff`): each shard has a worker that consumes it,
  or that is on its way to.
* `TokenNotMissed` (for `TokenReachesClient`): a key does not expire unread under a
  client that polls for it, unless the time its polls took since the token came
  and the pauses (one for each failed call and one more) add up to its life. A poll
  takes any time, so no number of failures follows from this alone: if
  each failing one costs 12 s of timeouts and its 2 s pause, some forty of them
  fill the 10 minutes, and one that hangs for as long does so by itself.

`PlacesKept` stands beside `QuorumRestored` in the same way: each place of the
original cluster is a member, a node about to become one, a node about to be
given up, or a replacement that a monitor owes. So the mishaps listed above are
the only ways to lose a place. `StuckForGood` completes `balancer_stuck`: once a writer
waits between the two read locks of a request, no step frees either of them and
the registry never changes again. `OnlyStuckBlock` says that this is the only
deadlock of the balancer: while no request is stuck, whoever waits for the mutex (a
registration, the pruner, a request, a scrape) waits for a goroutine that holds
it or is next to, and that goroutine has a step to take, which may be the end of a
call to a gateway (`client.Do` has no timeout, so when it ends is not said). `RefusedUntilPause` completes `limiter_strict`: a
user who was refused stays refused until a whole window passes without a call.
`LoneRequestTriesAll` is what is left of the promise that `balancer_race` refutes: a
request between whose turns no other took one has checked every backend it found
before it says that all are unhealthy. That they are so is not claimed: a request
that fails on each gateway, however healthy, gets the same answer.
`AnswersStand` relates clients to consumers: what a client was told is a verdict
that a consumer reached, and while no channel is lost no consumer reaches
another one after it.

What the violated properties say:

* `GivenUpTasksReachDlq`: the retry worker logs "Max retries reached, sending to
  DLQ" (`delay_retry_worker.go:97`), tells the client `dlq`, and acknowledges the
  message, which is gone.
* `AllUnhealthyIsTrue`: each request makes as many tries as there are backends,
  on a counter shared with all other requests; two requests in step can each
  see only every second backend.
* `DeadGatewaysRemoved`: a writer that asks between the two read locks of one
  request waits for the first, and the second waits for the writer.
* `RefusedOverLimit`: each call moves the expiry, so a user with steady calls
  below the limit is refused after the tenth and stays refused.
* `AnyNodeRecovered`: the monitors ask rabbit1 for the cluster's nodes, and use it
  to forget and to join. When it is rabbit1 that fails, every round ends at its
  first question, against "Quorum recovery when any RabbitMQ node fails".

Also seen, without a run of its own: the retry worker consumes the delay queue
itself (`delay_retry_worker.go:16`), so retries do not wait for the TTL that
`delay_setup.go:25` announces; `/metrics_manual` cannot succeed and takes the
gateway off the broker (`MetricsRequest`); the autoscaler's comment
(`server.go:170`) gives other numbers than its call; `publishedCount` counts
returned messages only.

Of the pool: two workers between add and `Set` at once may store their counts in
the wrong order, and the gauge stays wrong until the next change
(`GaugeSettles` says when it is right). Of the monitors: a replacement that
joined while a round was under way is judged by the answer from before, and
may be recovered itself; monitors of different gateways recover one node
at the same time, and make several replacements. Of the login:
`/is-ready` waits for a status "done" that nothing writes, and the comment that
`main.go` polls it (`auth_server.go:235`) is out of date; the README gives tokens
in Redis 5 minutes (`README.md:121`) where the code gives 10 (`auth_server.go:228`);
`main.go` polls for a token and then asks the user to paste one.

## 4. Proofs

| Theorem | Module | Statement |
|---|---|---|
| `TypeCorrect` | `MessageFlowProofs` | `Spec => []TypeOK` |
| `FlowInvariant` | | `Spec => []FlowInv` |
| `ClientsNotStranded` | | `Spec => []NoClientStranded` |
| `WaitingNeverBlocked` | | `Spec => []NobodyBlocked` |
| `DurableTasksKept` | | `Spec => []NoDurableTaskLost` |
| `DeadLettersReported` | | `Spec => []DeadAreReported` |
| `OrderInvariant` | `MessageOrderProofs` | `Spec => []OrderInv` |
| `NoticesInOrder` | | `Spec => []ReportsInOrder` |
| `VerdictsAgree` | | `Spec => []OneVerdict` |
| `RetriesEnd` | | `Spec => []RetriesBounded` |
| `Implementation` | `ServiceRefinement` | `Spec => ImplementsService` |
| `AnswersAreVerdicts` | | `Spec => []AnswersStand` |
| `BalancerInvariant` | `LoadBalancerProofs` | `Spec => []BalancerInv` |
| `BalancerTypeCorrect` | | `Spec => []TypeOK` |
| `RegistryWithoutDuplicates` | | `Spec => []NoDuplicates` |
| `RegisteredKept` | | `Spec => []RegisteredStay` |
| `TargetsRegistered` | | `Spec => []TargetRegistered` |
| `LoneRequestsTryAll` | | `Spec => []LoneRequestTriesAll` |
| `StuckIsFinal` | | `Spec => StuckForGood` |
| `NoOtherDeadlock` | | `Spec => []OnlyStuckBlock` |
| `RegistryIsAtomic` | | `Spec => ImplementsRegistry` |
| `LimitKept` | `RateLimiterProofs` | `Spec => []SlidingLimit` |
| `QuietLetIn` | | `Spec => []QuietUserAllowed` |
| `RefusalLasts` | | `Spec => RefusedUntilPause` |
| `PoolInvariant` | `WorkerPoolProofs` | `Spec => [](TypeOK /\ Pool /\ EveryTaskHasShard)` |
| `PoolTypeCorrect`, `CountCorrect`, `GaugeCorrect`, `ShardsFound`, `ShardsNotAbandoned` | | `TypeOK`, `CountIsPool`, `GaugeSettles`, `EveryTaskHasShard`, `ShardsServed` |
| `RecoveryInvariant` | `QuorumRecoveryProofs` | `Spec => []IInv` |
| `RecoveryTypeCorrect`, `DataKept`, `PlacesReplaced`, `HealthyNodesKept`, `SeedKept` | | `TypeOK`, `MembersHaveContainers`, `PlacesKept`, `HealthyUntouched`, `SeedNeverRecovered` |
| `AuthInvariant` | `AuthFlowProofs` | `Spec => []IInv` |
| `AuthTypeCorrect`, `TokensOwn`, `TokensFresh` | | `TypeOK`, `OwnToken`, `TokenFresh` |
| `TokensNotMissed` | | `Spec => TokenNotMissed` |

They assume only the named assumptions on the constants (`FlowAssumption`,
`BalancerAssumption`, `LimiterAssumption`, `PoolAssumption`, `RecoveryAssumption`,
`AuthAssumption`), which TLC evaluates in the runs.

*Message flow.* `NoClientStranded` and `NoDurableTaskLost` are not inductive as
they stand: a waiting client's reply queue must be on a connected gateway
(`ReplyQueuesServed`), or a reply would be dropped; and a consumer about to
dead-letter a message must have told its client (`DeadLettersTold`), or
`DeadAreReported` fails at the nack. The argument follows a *debt*: a message
that is ready, or held by a consumer that has not discharged it, owes a verdict.
`MoveDebts` shows that a step that keeps debts keeps both promises; `HandlerPromise`,
`ReplyPromise` and `DropPromise` treat the steps that create, settle and requeue
debts: a delivery is settled only after its reply, and a reply appends the
verdict (or the retry worker's republish takes the debt over). `NobodyBlocked`
needs one more conjunct, `OnlyInterimForwarded`: a consumer that has discharged its
delivery by a republish, and not by a reply, is a retry worker below its limit.
`ConsumersGoOn` then finds the next step of a delivery at each of its stages, and
`FreeOrAtWork` adds that a worker without a delivery is free. The connected gateway
is at least the client's own (`ReplyQueuesServed`).

*Order.* As long as no channel is lost, `OrderInv` says three things of each
request. Its copies stay in the queues of its `Kinds`, whose consumers agree on
the verdict, except on the retry route, where the TTL may bring a copy to the
shard worker. There, `OneCopy`: one copy at most is in a queue, or with a consumer
that has not discharged it, and none once there is a verdict; `Republish`
creates a copy while it discharges the one it came from. And `NoticesBehind`: the
attempts reported so far are below the one that copy will report, so
`FeedbackOn` appends in order. `Frame` shows that a step about one request
leaves the others orderly; there is one lemma for each action about its own.
`RetriesEnd` adds arithmetic to it: the copy that is still to be acted on is the last
one published, and its `x-retry-count` is the number of those before it
(`RetriesCounted`). So retries do not multiply, although copies expire and fail
again under the shard worker: a task is published `MaxRetries` times more than once at
most. This is why the retry route drains; TLC found it to hold with two retries and
one request, and with one retry and two.

*Refinement.* `open` and `waiting` clients are waiting for `TaskService`, its
verdicts are the history `told`. `ServiceInv` is needed beside the types:
messages are about accepted requests, and verdicts in reply queues have been
reached. `Reply` then implements `Decide`, a final `ReadReply` `Answer`, and a
lost channel `Abort` of all its clients; other steps stutter. `AnswersAreVerdicts`
uses it: that answers are verdicts is proved of `TaskService`, where it is two lines,
and holds of `MessageFlow` by the refinement; that no other verdict follows is
`VerdictsAgree`.

*Load balancer.* `ReadLocks` counts the read locks each goroutine holds at each
program point, so that the writer that holds the lock is alone, and
`PruneSplits` says that the pruner's remaining and kept lists are disjoint parts
of a registry without duplicates. `PruneAlone` adds that nobody registers while it
works, and that what it has not dropped is in one of the two.
`RegistryIsAtomic` needs two more conjuncts: `PruneInOrder`, that the kept list is
what is left, in its order (`LeftOf`), of the part of the registry that the pruner
has been through (`Checked` gateways), and that those it dropped do not run, or a
check was late; and `Started`, that only gateways that have come up register. The sweep is the step
that stores the list. There, and where a gateway is appended, the writer holds
the lock, so that nobody holds a read lock (`WriterMeetsNoUse`): a request that uses
a gateway does. `StuckIsFinal` follows from the same count of read locks: the
request keeps its first one at every step of the others, so the writer waits on,
and a waiting writer lets no reader in. `NoOtherDeadlock` goes along the holders
of the mutex. `WriterInPlace` says that the writer is a registration or the pruner and
at which of its steps it is, that only requests and scrapes read, and that the door is shut
for a writer only. A writer that has the lock can go on, and so can one that is
next once nobody reads. Otherwise `ReaderRuns` looks at somebody who reads: by
`ReadLocks` it is kept out only at its second read lock, which makes it a stuck
request, and a request that waits for a gateway can always fail. For
`LoneRequestTriesAll` the invariant `TurnsSuffice` says that the turns a request has
left, counted from where the counter stands, lead to every backend it has still
to try, whatever the checks and the gateways answer: at the start because
`Len(backends)` turns in a row meet them all (`RoundTrip`, from division with
remainder), and at each turn because the first of them is the one it takes.

*Rate limiter.* `Generations` splits the allowed calls at the creation of the
current key: older ones are a window or more in the past, younger ones are at
most `count`. `KeyLives` gives the first half: a key outlives each call it counted by a
window. `CallsAgo` bounds it from above: the key is gone a window after the
last call, so a call that is refused comes earlier than that. `LockedOut` carries
`RefusedUntilPause`: while the key that refused a call lives, its count is above the
limit, and each further call only lengthens its life.

*Worker pool.* `Pool` says of each worker what its place in
`StartTaskQueueWorker` has contributed to `WorkerCount`, and, as long as no two
are between add and `Set`, that the one that is there holds the present count. Each
action then changes the set `Counted` by at most the worker that acts.
`IndexInRing` is arithmetic: a hash that fits into the lower half of `int` is not
negative, and its remainder is an index. `MainWorkers` says of the worker that main
started for a shard that it consumes no other and leaves with the channel only.

*Quorum recovery.* `MembersHaveContainers` needs `Exclusive`: a container that is
about to be removed was forgotten by its monitor alone (forgetting takes the
node out of the cluster, so no other monitor gets there), and nobody is about
to join it. `HealthyUntouched` and `SeedNeverRecovered` need `Judged`: the nodes
that have run since the round began are in its answer and, unless the monitor
is blind, in its list, so no judgement finds them. `PlacesKept` is a balance of two
cardinalities: a step that takes a place away (the forget that succeeds, or
is given up) makes its monitor owe one, a step that ends a debt (the
creation) puts a waiting node in its place, and every other one is a mishap.

*Login.* `IdsApart`: drawn ids are at most `counter`, those of different clients
differ, and what is stored under an id is the token of its client. `TokenFresh` is
inductive beside the types. `PollInTime` bounds the age of a token that waits for
its client, together with the pause that the client still owes (`Owed`: the rest
of one under way, a whole one when the poll comes back), by what it can have
`Used`: one pause for each failed call and one more, and the time of its
polls. A tick ages the token by one and takes one off the pause or adds one to the
time of the poll. Storing a token starts the account anew (`KeepResets`).
`KeysHoldTokens` is needed for the ids that have just been drawn, which have no
token yet.

Model-checked only: liveness (`EveryClientAnswered`, `DurableTasksDrain`,
`ClosedPoolEmpties`, `BacklogWorkedOff`, `QuorumRestored`, `TokenReachesClient`),
which is out of the prover's reach. Every invariant, action property and
refinement that a run checks and finds to hold is proved.

## 5. Not modelled

* The content of tasks, JWTs and HTTP messages; the hash itself (any value).
* The load generators (`tester.go`, `flood.go`, `testing_shards.go`, `resilient.go`)
  and the rest of `main.go`: they send requests.
* Metrics other than the gauge of live workers: nothing reads them.
* Code that nothing calls: `StartResilientConsumer`, `work_queue_model/producer.go`,
  `database_connect`, the gateway drafts beside `server.go`, the handlers of
  `auth.go` and `auth_worker.go`; the `login:status` keys, which only the unused
  `/is-ready` reads.
* Restarts of the broker, of Redis and of the balancer. After the last, the
  registry is empty and stays so, as gateways register once; there is nothing
  to check. A gateway that was pruned alive, and a task that the balancer submits
  twice when a gateway dies under it, are listed as hazards: the code does so,
  and no text promises otherwise.
* What grows without bound in the code: reply queues that handlers leave behind,
  workers that the autoscaler never removes.
* How RabbitMQ nodes find each other (`config/rabbitmq.conf`): a node that returns
  is a member if it was not forgotten. TLS, Docker Compose and dashboards.
