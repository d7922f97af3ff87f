----------------------------- MODULE WorkerPool -----------------------------
(***************************************************************************)
(* The workers of one gateway (work_queue_model/worker.go): main starts    *)
(* one for each shard queue, the autoscaler adds Burst more whenever it    *)
(* finds a shard longer than Threshold, and all of them leave when the     *)
(* AMQP channel they share closes. WorkerCount is added to atomically; the *)
(* LiveWorkers gauge is set from the sum in a second step. pickShard of    *)
(* gateway/server.go decides which shard a task goes to.                   *)
(***************************************************************************)
EXTENDS Integers, Sequences, FiniteSets

CONSTANTS
  Ring,        \* shardRing, the names of the shard queues
  Extra,       \* bound: the workers the autoscaler can add
  NoWorker,
  Threshold, Burst,  \* arguments of StartAutoScaler (5 and 2)
  HashSize,    \* values of Sum32: 2^32
  IntSize,     \* values of Go's int: 2^64 on the platforms deployed on
  MaxTasks     \* bound: tasks that arrive

Shards == {Ring[i] : i \in DOMAIN Ring}
Workers == Shards \cup Extra      \* main's worker for a shard has its name

ASSUME PoolAssumption ==
  /\ Ring \in Seq(Shards) /\ Len(Ring) > 0
  /\ IsFiniteSet(Extra) /\ Extra \cap Shards = {} /\ NoWorker \notin Workers
  /\ Threshold \in Nat /\ Burst \in Nat \ {0} /\ MaxTasks \in Nat
  /\ HashSize \in Nat \ {0} /\ IntSize \in Nat /\ IntSize >= 2 * HashSize

VARIABLES
  open,         \* the channel is open
  alive,        \* the process runs: log.Fatalf ends it
  depth,        \* depth[q]: the messages ready in q
  pc,           \* pc[w]: where worker w is
  shard,        \* shard[w]: the queue it consumes
  newCount,     \* newCount[w]: what its last atomic add returned
  WorkerCount, LiveWorkers,
  at,           \* the shard the autoscaler inspects next, 0: it sleeps
  target, left, \* the shard it scales, and how many workers it still adds
  fresh,        \* the worker it added last
  arrived,      \* tasks so far
  panicked,     \* a handler's index into shardRing was out of range
  overlapped    \* history: two workers were between add and Set together

scaler == <<at, target, left, fresh>>
counts == <<newCount, WorkerCount, LiveWorkers, overlapped>>
tasks == <<depth, arrived, panicked>>
vars == <<open, alive, depth, pc, shard, newCount, WorkerCount, LiveWorkers, at, target,
          left, fresh, arrived, panicked, overlapped>>

Init ==
  /\ open = TRUE /\ alive = TRUE
  /\ depth = [q \in Shards |-> 0]
  /\ pc = [w \in Workers |-> IF w \in Shards THEN "starting" ELSE "off"]
  /\ shard = [w \in Workers |-> IF w \in Shards THEN w ELSE Ring[1]]
  /\ newCount = [w \in Workers |-> 0]
  /\ WorkerCount = 0 /\ LiveWorkers = 0
  /\ at = 0 /\ target = Ring[1] /\ left = 0 /\ fresh = NoWorker
  /\ arrived = 0 /\ panicked = FALSE /\ overlapped = FALSE

Goto(w, label) == pc' = [pc EXCEPT ![w] = label]
At(labels) == {w \in Workers : pc[w] \in labels}

-----------------------------------------------------------------------------
(* Tasks: pickShard, the other gateways' workers, the channel's end.       *)

\* Variant: int has the 32 bits of the hash.
ShortInt(h) == IF h < HashSize \div 2 THEN h ELSE h - HashSize

\* int(h.Sum32()): the upper half of int's values is negative.
AsInt(h) == IF h < IntSize \div 2 THEN h ELSE h - IntSize

\* Go's % has the sign of the dividend.
Remainder(a, b) == IF a >= 0 THEN a % b ELSE -((-a) % b)

\* A handler publishes a task to the shard its hash selects. Without a
\* channel it does not get as far, nor does anyone here look at the queues.
Publish(h) ==
  LET index == Remainder(AsInt(h), Len(Ring)) + 1 IN
  /\ open /\ arrived < MaxTasks
  /\ arrived' = arrived + 1
  /\ IF index \in DOMAIN Ring
     THEN depth' = [depth EXCEPT ![Ring[index]] = @ + 1] /\ UNCHANGED panicked
     ELSE panicked' = TRUE /\ UNCHANGED depth
  /\ UNCHANGED <<open, alive, pc, shard, counts, scaler>>

\* A worker of another gateway takes a message.
TakenElsewhere(q) ==
  /\ open /\ depth[q] > 0
  /\ depth' = [depth EXCEPT ![q] = @ - 1]
  /\ UNCHANGED <<open, alive, pc, shard, counts, scaler, arrived, panicked>>

\* The channel closes, for good.
CloseChannel ==
  /\ open
  /\ open' = FALSE
  /\ UNCHANGED <<alive, pc, shard, tasks, counts, scaler>>

-----------------------------------------------------------------------------
(* A worker                                                                *)

\* The atomic add, and the overlap with others that have not yet set the gauge.
Add(w, n) ==
  /\ WorkerCount' = WorkerCount + n
  /\ newCount' = [newCount EXCEPT ![w] = WorkerCount']
  /\ overlapped' = (overlapped \/ At({"counted", "leaving"}) # {})
  /\ UNCHANGED LiveWorkers

\* Variant: the goroutines share the loop's variable.
BeginCaptured(w) ==
  /\ alive /\ pc[w] = "starting"
  /\ Add(w, 1)
  /\ Goto(w, "counted")
  /\ shard' = [shard EXCEPT ![w] = Ring[Len(Ring)]]
  /\ UNCHANGED <<open, alive, tasks, scaler>>

\* A worker that main has started in a goroutine.
Begin(w) ==
  /\ alive /\ pc[w] = "starting"
  /\ Add(w, 1)
  /\ Goto(w, "counted")
  /\ UNCHANGED <<open, alive, shard, tasks, scaler>>

\* Variant: the worker that leaves does not set the gauge.
SetOnlyUp(w) ==
  /\ LiveWorkers' = IF pc[w] = "counted" THEN newCount[w] ELSE LiveWorkers
  /\ newCount' = [newCount EXCEPT ![w] = 0]
  /\ UNCHANGED <<WorkerCount, overlapped>>

\* newCount is a local variable that is not used again.
SetGauge(w) ==
  /\ LiveWorkers' = newCount[w]
  /\ newCount' = [newCount EXCEPT ![w] = 0]
  /\ UNCHANGED <<WorkerCount, overlapped>>

\* The gauge, then QueueDeclare, Qos and Consume.
Subscribe(w) ==
  /\ alive /\ open /\ pc[w] = "counted"
  /\ SetGauge(w)
  /\ Goto(w, "idle")
  /\ UNCHANGED <<open, alive, shard, tasks, scaler>>

\* Variant: the worker that cannot subscribe returns.
SubscribeReturns(w) ==
  /\ alive /\ ~open /\ pc[w] = "counted"
  /\ SetGauge(w)
  /\ Goto(w, "gone")
  /\ UNCHANGED <<open, alive, shard, tasks, scaler>>

\* On a closed channel one of the calls fails and log.Fatalf ends the gateway.
SubscribeFails(w) ==
  /\ alive /\ ~open /\ pc[w] = "counted"
  /\ SetGauge(w)
  /\ alive' = FALSE
  /\ UNCHANGED <<open, pc, shard, tasks, scaler>>

\* Takes a message, works, replies, acks. Until it takes the next one, or
\* sees the channel closed, nobody here can tell whether it is done.
Handle(w) ==
  /\ alive /\ open /\ pc[w] = "idle"
  /\ depth[shard[w]] > 0
  /\ depth' = [depth EXCEPT ![shard[w]] = @ - 1]
  /\ UNCHANGED <<open, alive, pc, shard, counts, scaler, arrived, panicked>>

\* The delivery channel is closed: the worker counts itself out.
Quit(w) ==
  /\ alive /\ ~open /\ pc[w] = "idle"
  /\ Add(w, -1)
  /\ Goto(w, "leaving")
  /\ UNCHANGED <<open, alive, shard, tasks, scaler>>

SetDown(w) ==
  /\ alive /\ pc[w] = "leaving"
  /\ SetGauge(w)
  /\ Goto(w, "gone")
  /\ UNCHANGED <<open, alive, shard, tasks, scaler>>

-----------------------------------------------------------------------------
(* The autoscaler: one shard after the other, then a pause. It calls       *)
(* StartTaskQueueWorker itself, so the worker it adds begins with the add, *)
(* and the autoscaler goes on when that worker has subscribed.             *)

Started == fresh \notin At({"counted"})
Free == {w \in Extra : pc[w] = "off"}

\* Variant: the loop runs past the ring.
PastTheEnd(i) == i + 1
After(i) == IF i = Len(Ring) THEN 0 ELSE i + 1

Wake ==
  /\ alive /\ at = 0 /\ left = 0 /\ Started
  /\ at' = 1
  /\ UNCHANGED <<open, alive, pc, shard, tasks, counts, target, left, fresh>>

\* An inspection that fails is skipped.
Inspect ==
  /\ alive /\ at # 0 /\ left = 0 /\ Started
  /\ target' = Ring[at]
  /\ at' = After(at)
  /\ left' = IF open /\ depth[Ring[at]] > Threshold /\ Cardinality(Free) >= Burst
             THEN Burst ELSE 0
  /\ UNCHANGED <<open, alive, pc, shard, tasks, counts, fresh>>

Spawn(w) ==
  /\ alive /\ left > 0 /\ Started
  /\ w \in Free
  /\ Add(w, 1)
  /\ Goto(w, "counted")
  /\ shard' = [shard EXCEPT ![w] = target]
  /\ left' = left - 1
  /\ fresh' = w
  /\ UNCHANGED <<open, alive, tasks, at, target>>

-----------------------------------------------------------------------------
Work(w) ==
  \/ Begin(w) \/ Subscribe(w) \/ SubscribeFails(w)
  \/ Handle(w) \/ Quit(w) \/ SetDown(w)

Scale == Wake \/ Inspect \/ \E w \in Extra : Spawn(w)

Next ==
  \/ \E h \in 0..(HashSize - 1) : Publish(h)
  \/ \E q \in Shards : TakenElsewhere(q)
  \/ CloseChannel
  \/ \E w \in Workers : Work(w)
  \/ Scale

\* Goroutines that can run do run; tasks and the end of the channel need not come.
Spec == Init /\ [][Next]_vars /\ WF_vars(Scale) /\ \A w \in Workers : WF_vars(Work(w))

-----------------------------------------------------------------------------
(* Properties                                                              *)

\* Types of the pool, the counters and the autoscaler.
TypeOK ==
  /\ open \in BOOLEAN /\ alive \in BOOLEAN /\ panicked \in BOOLEAN /\ overlapped \in BOOLEAN
  /\ depth \in [Shards -> Nat]
  /\ pc \in [Workers -> {"off", "starting", "counted", "idle", "leaving", "gone"}]
  /\ shard \in [Workers -> Shards]
  /\ newCount \in [Workers -> Int]
  /\ WorkerCount \in Int /\ LiveWorkers \in Int
  /\ at \in 0..Len(Ring) /\ target \in Shards
  /\ left \in 0..Burst /\ fresh \in Workers \cup {NoWorker}
  /\ arrived \in Nat

Counted == At({"counted", "idle"})

\* WorkerCount is the number of workers that have started and not left, on
\* every path through StartTaskQueueWorker (worker.go:32, :108).
CountIsPool == WorkerCount = Cardinality(Counted)

\* As long as no two workers were between their add and their Set at once,
\* the gauge "Number of live workers" (metrics.go:29) settles on the count.
GaugeSettles ==
  ~overlapped /\ At({"counted", "leaving"}) = {} => LiveWorkers = WorkerCount

\* pickShard's index is in the ring for every hash (server.go:51).
EveryTaskHasShard == ~panicked

\* Each shard has a worker that consumes it, or that has been started to, as
\* long as the gateway has its channel (server.go:162, worker.go:55).
ShardsServed ==
  open /\ alive =>
    \A q \in Shards : \E w \in At({"starting", "counted", "idle"}) : shard[w] = q

\* Without a channel the pool empties, or the gateway has ended: no worker
\* is left over in the count (worker.go:107).
ClosedPoolEmpties == ~open ~> (WorkerCount = 0 \/ ~alive)

\* A shard with messages is worked on until it is empty.
BacklogWorkedOff == \A q \in Shards : depth[q] > 0 ~> depth[q] = 0 \/ ~open
=============================================================================
