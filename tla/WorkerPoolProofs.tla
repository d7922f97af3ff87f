-------------------------- MODULE WorkerPoolProofs --------------------------
(***************************************************************************)
(* The counters and the shards of a gateway's pool, for any ring of        *)
(* shards, any number of workers and any hash.                             *)
(***************************************************************************)
EXTENDS WorkerPool, FiniteSetTheorems, TLAPS

LEMMA Types ==
  /\ Len(Ring) \in Nat \ {0} /\ DOMAIN Ring = 1..Len(Ring)
  /\ \A i \in 1..Len(Ring) : Ring[i] \in Shards
  /\ Shards \subseteq Workers /\ NoWorker \notin Workers
  /\ Threshold \in Nat /\ Burst \in Nat \ {0}
  BY PoolAssumption DEF Shards, Workers

\* There are finitely many workers.
LEMMA WorkersFinite == IsFiniteSet(Workers)
<1>1. IsFiniteSet(1..Len(Ring))
  BY Types, FS_Interval
<1>2. Ring \in Surjection(1..Len(Ring), Shards)
  <2>1. Ring \in [1..Len(Ring) -> Shards]
    BY PoolAssumption
  <2>2. \A q \in Shards : \E i \in 1..Len(Ring) : Ring[i] = q
    BY Types DEF Shards
  <2> QED BY <2>1, <2>2 DEF Surjection
<1>3. IsFiniteSet(Shards)
  BY <1>1, <1>2, FS_Surjection
<1> QED BY <1>3, PoolAssumption, FS_Union DEF Workers

\* pickShard: an int that holds the hash is not negative, and its remainder
\* is an index into the ring.
LEMMA IndexInRing ==
  ASSUME NEW h \in 0..(HashSize - 1)
  PROVE  Remainder(AsInt(h), Len(Ring)) + 1 \in DOMAIN Ring
<1>1. HashSize \in Nat /\ IntSize \in Nat /\ IntSize >= 2 * HashSize
  BY PoolAssumption
<1>2. h \in Nat /\ h < IntSize \div 2
  BY <1>1
<1>3. AsInt(h) = h
  BY <1>2 DEF AsInt
<1>4. h % Len(Ring) \in 0..(Len(Ring) - 1)
  BY <1>2, Types
<1> QED BY <1>2, <1>3, <1>4, Types DEF Remainder

-----------------------------------------------------------------------------
(* Types                                                                   *)

LEMMA InitTypes == Init => TypeOK
<1> SUFFICES ASSUME Init PROVE TypeOK
  OBVIOUS
<1>1. Ring[1] \in Shards /\ 0 \in 0..Len(Ring) /\ 0 \in 0..Burst
  BY Types
<1>2. /\ pc \in [Workers -> {"off", "starting", "counted", "idle", "leaving", "gone"}]
      /\ shard \in [Workers -> Shards]
  BY <1>1 DEF Init
<1>3. depth \in [Shards -> Nat] /\ newCount \in [Workers -> Int]
  BY DEF Init
<1>4. /\ at \in 0..Len(Ring) /\ target \in Shards
      /\ left \in 0..Burst /\ fresh \in Workers \cup {NoWorker}
  BY <1>1 DEF Init
<1>5. open \in BOOLEAN /\ alive \in BOOLEAN /\ panicked \in BOOLEAN /\ overlapped \in BOOLEAN
  BY DEF Init
<1> QED BY <1>2, <1>3, <1>4, <1>5 DEF Init, TypeOK

\* An add keeps the counters integers.
LEMMA AddTypes ==
  ASSUME TypeOK, NEW w \in Workers, NEW n \in {1, -1}, Add(w, n)
  PROVE  /\ newCount' \in [Workers -> Int] /\ WorkerCount' \in Int /\ LiveWorkers' \in Int
         /\ overlapped' \in BOOLEAN
  BY DEF TypeOK, Add

LEMMA GaugeTypes ==
  ASSUME TypeOK, NEW w \in Workers, SetGauge(w)
  PROVE  /\ newCount' \in [Workers -> Int] /\ WorkerCount' \in Int /\ LiveWorkers' \in Int
         /\ overlapped' \in BOOLEAN
  BY DEF TypeOK, SetGauge

LEMMA TypeStep == TypeOK /\ [Next]_vars => TypeOK'
<1> SUFFICES ASSUME TypeOK, [Next]_vars PROVE TypeOK'
  OBVIOUS
<1>1. ASSUME NEW h \in 0..(HashSize - 1), Publish(h) PROVE TypeOK'
  <2>1. depth' \in [Shards -> Nat] /\ panicked' \in BOOLEAN /\ arrived' \in Nat
    BY <1>1, IndexInRing DEF Publish, TypeOK
  <2> QED BY <1>1, <2>1 DEF Publish, TypeOK, counts, scaler
<1>2. ASSUME NEW q \in Shards, TakenElsewhere(q) PROVE TypeOK'
  <2>1. depth' \in [Shards -> Nat]
    BY <1>2 DEF TakenElsewhere, TypeOK
  <2> QED BY <1>2, <2>1 DEF TakenElsewhere, TypeOK, counts, scaler
<1>3. CASE CloseChannel
  BY <1>3 DEF CloseChannel, TypeOK, tasks, counts, scaler
<1>4. ASSUME NEW w \in Workers, Begin(w) \/ Quit(w) PROVE TypeOK'
  <2>1. \E n \in {1, -1} : Add(w, n)
    BY <1>4 DEF Begin, Quit
  <2>2. pc' \in [Workers -> {"off", "starting", "counted", "idle", "leaving", "gone"}]
    BY <1>4 DEF Begin, Quit, Goto, TypeOK
  <2> QED BY <1>4, <2>1, <2>2, AddTypes DEF Begin, Quit, TypeOK, tasks, scaler
<1>5. ASSUME NEW w \in Workers, Subscribe(w) \/ SetDown(w) \/ SubscribeFails(w)
      PROVE  TypeOK'
  <2>1. SetGauge(w) /\ UNCHANGED <<open, shard, tasks, scaler>> /\ alive' \in BOOLEAN
    BY <1>5 DEF Subscribe, SetDown, SubscribeFails, TypeOK
  <2>2. pc' \in [Workers -> {"off", "starting", "counted", "idle", "leaving", "gone"}]
    BY <1>5 DEF Subscribe, SetDown, SubscribeFails, Goto, TypeOK
  <2> QED BY <2>1, <2>2, GaugeTypes DEF TypeOK, tasks, scaler
<1>6. ASSUME NEW w \in Workers, Handle(w) PROVE TypeOK'
  <2>1. depth' \in [Shards -> Nat]
    BY <1>6 DEF Handle, TypeOK
  <2> QED BY <1>6, <2>1 DEF Handle, TypeOK, counts, scaler
<1>7. CASE Wake
  <2>1. at' \in 0..Len(Ring)
    BY <1>7, Types DEF Wake
  <2> QED BY <1>7, <2>1 DEF Wake, TypeOK, tasks, counts
<1>8. CASE Inspect
  <2>1. at' \in 0..Len(Ring) /\ target' \in Shards /\ left' \in 0..Burst
    <3>1. at \in 1..Len(Ring)
      BY <1>8, Types DEF Inspect, TypeOK
    <3>2. After(at) \in 0..Len(Ring)
      <4>1. at = Len(Ring) \/ at + 1 \in 0..Len(Ring)
        <5>1. \A n \in Nat : \A i \in 1..n : i = n \/ i + 1 \in 0..n
          OBVIOUS
        <5>2. Len(Ring) \in Nat
          BY Types
        <5> QED BY <3>1, <5>1, <5>2
      <4> QED BY <4>1, Types DEF After
    <3>3. left' \in {0, Burst}
      BY <1>8 DEF Inspect
    <3> QED BY <1>8, <3>1, <3>2, <3>3, Types DEF Inspect
  <2> QED BY <1>8, <2>1 DEF Inspect, TypeOK, tasks, counts
<1>9. ASSUME NEW w \in Extra, Spawn(w) PROVE TypeOK'
  <2>1. w \in Workers /\ Add(w, 1)
    BY <1>9 DEF Spawn, Workers
  <2>2. /\ pc' \in [Workers -> {"off", "starting", "counted", "idle", "leaving", "gone"}]
        /\ shard' \in [Workers -> Shards]
    BY <1>9, <2>1 DEF Spawn, Goto, TypeOK
  <2>3. left' \in 0..Burst /\ fresh' \in Workers \cup {NoWorker}
    <3>1. left \in 0..Burst /\ left > 0 /\ left' = left - 1 /\ fresh' = w
      BY <1>9 DEF Spawn, TypeOK
    <3> QED BY <2>1, <3>1, Types
  <2> QED BY <1>9, <2>1, <2>2, <2>3, AddTypes DEF Spawn, TypeOK, tasks
<1>10. CASE UNCHANGED vars
  BY <1>10 DEF vars, TypeOK
<1> QED BY <1>1, <1>2, <1>3, <1>4, <1>5, <1>6, <1>7, <1>8, <1>9, <1>10
        DEF Next, Work, Scale

-----------------------------------------------------------------------------
(* The count and the gauge                                                 *)

Pending == At({"counted", "leaving"})

\* Without overlap at most one worker stands between its add and its Set,
\* and what it is about to set is the count. A gateway that ended did so
\* before a Set was followed up.
Pool ==
  /\ CountIsPool
  /\ ~alive => Pending # {}
  /\ ~overlapped /\ Pending = {} => LiveWorkers = WorkerCount
  /\ alive /\ ~overlapped =>
       \A w \in Pending : Pending = {w} /\ newCount[w] = WorkerCount

\* A worker that starts, on its own or for the autoscaler.
LEMMA StartStep ==
  ASSUME TypeOK, Pool, NEW w \in Workers, alive, alive' = alive,
         pc[w] \notin {"counted", "idle", "leaving"}, Add(w, 1), Goto(w, "counted")
  PROVE  Pool'
<1>1. Counted' = Counted \cup {w} /\ w \notin Counted
  BY DEF Counted, At, Goto, TypeOK
<1>2. IsFiniteSet(Counted)
  BY WorkersFinite, FS_Subset DEF Counted, At
<1>3. CountIsPool'
  BY <1>1, <1>2, FS_AddElement, FS_CardinalityType DEF Pool, CountIsPool, Add
<1>4. Pending' = Pending \cup {w}
  BY DEF Pending, At, Goto, TypeOK
<1>5. ~overlapped' => Pending = {} /\ ~overlapped
  BY DEF Add, Pending
<1>6. newCount'[w] = WorkerCount'
  BY DEF Add, TypeOK
<1> QED BY <1>3, <1>4, <1>5, <1>6 DEF Pool

\* A worker that sets the gauge.
LEMMA SetStep ==
  ASSUME TypeOK, Pool, NEW w \in Workers, alive, alive' = alive,
         SetGauge(w),
         \/ pc[w] = "counted" /\ Goto(w, "idle")
         \/ pc[w] = "leaving" /\ Goto(w, "gone")
  PROVE  Pool'
<1>1. Counted' = Counted
  BY DEF Counted, At, Goto, TypeOK
<1>2. Pending' = Pending \ {w} /\ w \in Pending
  BY DEF Pending, At, Goto, TypeOK
<1>3. CountIsPool'
  BY <1>1 DEF Pool, CountIsPool, SetGauge
<1>4. overlapped' = overlapped /\ WorkerCount' = WorkerCount /\ LiveWorkers' = newCount[w]
  BY DEF SetGauge
<1>5. ~overlapped => Pending = {w} /\ newCount[w] = WorkerCount
  BY <1>2 DEF Pool
<1> QED BY <1>2, <1>3, <1>4, <1>5 DEF Pool

LEMMA PoolStep == TypeOK /\ Pool /\ [Next]_vars => Pool'
<1> SUFFICES ASSUME TypeOK, Pool, [Next]_vars PROVE Pool'
  OBVIOUS
<1>1. CASE UNCHANGED <<alive, pc, counts>>
  BY <1>1 DEF Pool, CountIsPool, Counted, Pending, At, counts
<1>2. ASSUME NEW w \in Workers, Begin(w) PROVE Pool'
  BY <1>2, StartStep DEF Begin
<1>3. ASSUME NEW w \in Extra, Spawn(w) PROVE Pool'
  <2>1. w \in Workers /\ pc[w] = "off"
    BY <1>3 DEF Spawn, Free, Workers
  <2> QED BY <1>3, <2>1, StartStep DEF Spawn
<1>4. ASSUME NEW w \in Workers, Subscribe(w) \/ SetDown(w) PROVE Pool'
  BY <1>4, SetStep DEF Subscribe, SetDown
<1>5. ASSUME NEW w \in Workers, SubscribeFails(w) PROVE Pool'
  <2>1. Counted' = Counted /\ Pending' = Pending /\ w \in Pending
    BY <1>5 DEF SubscribeFails, Counted, Pending, At
  <2> QED BY <1>5, <2>1 DEF SubscribeFails, SetGauge, Pool, CountIsPool
<1>6. ASSUME NEW w \in Workers, Quit(w) PROVE Pool'
  <2>1. Counted' = Counted \ {w} /\ w \in Counted
    BY <1>6 DEF Quit, Counted, At, Goto, TypeOK
  <2>2. IsFiniteSet(Counted)
    BY WorkersFinite, FS_Subset DEF Counted, At
  <2>3. CountIsPool'
    BY <1>6, <2>1, <2>2, FS_RemoveElement, FS_CardinalityType
       DEF Pool, CountIsPool, Quit, Add
  <2>4. Pending' = Pending \cup {w}
    BY <1>6 DEF Quit, Pending, At, Goto, TypeOK
  <2>5. ~overlapped' => Pending = {} /\ ~overlapped
    BY <1>6 DEF Quit, Add, Pending
  <2>6. newCount'[w] = WorkerCount'
    BY <1>6 DEF Quit, Add, TypeOK
  <2> QED BY <1>6, <2>3, <2>4, <2>5, <2>6 DEF Pool, Quit
<1>7. ASSUME \/ \E h \in 0..(HashSize - 1) : Publish(h)
             \/ \E q \in Shards : TakenElsewhere(q)
             \/ CloseChannel \/ Wake \/ Inspect
             \/ \E w \in Workers : Handle(w)
             \/ UNCHANGED vars
      PROVE  UNCHANGED <<alive, pc, counts>>
  BY <1>7 DEF Publish, TakenElsewhere, CloseChannel, Wake, Inspect, Handle, vars, counts
<1> QED BY <1>1, <1>2, <1>3, <1>4, <1>5, <1>6, <1>7 DEF Next, Work, Scale

\* pickShard always finds a shard.
LEMMA ShardStep == TypeOK /\ EveryTaskHasShard /\ [Next]_vars => EveryTaskHasShard'
<1> SUFFICES ASSUME ~panicked, [Next]_vars PROVE ~panicked'
  BY DEF EveryTaskHasShard
<1>1. ASSUME NEW h \in 0..(HashSize - 1), Publish(h) PROVE ~panicked'
  BY <1>1, IndexInRing DEF Publish
<1>2. ASSUME ~\E h \in 0..(HashSize - 1) : Publish(h) PROVE UNCHANGED panicked
  BY <1>2 DEF Next, Work, Scale, TakenElsewhere, CloseChannel, Begin, Subscribe,
              SubscribeFails, Handle, Quit, SetDown, Wake, Inspect, Spawn, tasks, vars
<1> QED BY <1>1, <1>2

-----------------------------------------------------------------------------
(* The shards' workers                                                     *)

\* The worker that main starts for a shard consumes no other, and it leaves
\* only when the channel has closed.
MainWorkers ==
  \A q \in Shards :
    shard[q] = q /\ (open => pc[q] \in {"starting", "counted", "idle"})

LEMMA MainWorkersStep == TypeOK /\ MainWorkers /\ [Next]_vars => MainWorkers'
<1> SUFFICES ASSUME TypeOK, MainWorkers, [Next]_vars, NEW q \in Shards
             PROVE  /\ shard'[q] = q
                    /\ open' => pc'[q] \in {"starting", "counted", "idle"}
  BY DEF MainWorkers
<1>1. /\ q \in Workers /\ shard[q] = q
      /\ open => pc[q] \in {"starting", "counted", "idle"}
  BY Types DEF MainWorkers
<1>2. ASSUME NEW w \in Workers, Work(w)
      PROVE  /\ UNCHANGED <<open, shard>>
             /\ \/ UNCHANGED pc
                \/ Goto(w, "counted") /\ pc[w] = "starting"
                \/ Goto(w, "idle")
                \/ ~open
                \/ Goto(w, "gone") /\ pc[w] = "leaving"
  BY <1>2 DEF Work, Begin, Subscribe, SubscribeFails, Handle, Quit, SetDown
<1>3. ASSUME NEW w \in Extra, Spawn(w)
      PROVE  /\ UNCHANGED open
             /\ pc' = [pc EXCEPT ![w] = "counted"] /\ shard' = [shard EXCEPT ![w] = target]
             /\ w # q
  BY <1>3, PoolAssumption DEF Spawn, Goto
<1>4. ASSUME ~\E w \in Workers : Work(w), ~\E w \in Extra : Spawn(w)
      PROVE  UNCHANGED <<pc, shard>> /\ (open' => open)
  BY <1>4 DEF Next, Scale, Publish, TakenElsewhere, CloseChannel, Wake, Inspect, vars
<1>5. CASE \E w \in Workers : Work(w)
  BY <1>1, <1>2, <1>5 DEF Goto, TypeOK
<1>6. CASE \E w \in Extra : Spawn(w)
  BY <1>1, <1>3, <1>6 DEF TypeOK
<1>7. CASE ~(\E w \in Workers : Work(w)) /\ ~\E w \in Extra : Spawn(w)
  BY <1>1, <1>4, <1>7
<1> QED BY <1>5, <1>6, <1>7

-----------------------------------------------------------------------------
(* Theorems                                                                *)

\* The invariant of the pool: types, the count, what the gauge is about to
\* be set to, and the shards of the tasks.
THEOREM PoolInvariant == Spec => [](TypeOK /\ Pool /\ EveryTaskHasShard)
<1>1. Init => TypeOK /\ Pool /\ EveryTaskHasShard
  <2> SUFFICES ASSUME Init PROVE Pool /\ EveryTaskHasShard
    BY InitTypes
  <2>1. Counted = {} /\ Pending = {}
    BY DEF Init, Counted, Pending, At
  <2> QED BY <2>1, FS_EmptySet DEF Init, Pool, CountIsPool, EveryTaskHasShard
<1>2. TypeOK /\ Pool /\ EveryTaskHasShard /\ [Next]_vars
        => (TypeOK /\ Pool /\ EveryTaskHasShard)'
  BY TypeStep, PoolStep, ShardStep
<1> QED BY <1>1, <1>2, PTL DEF Spec

\* The state of the pool keeps its types.
THEOREM PoolTypeCorrect == Spec => []TypeOK
  BY PoolInvariant, PTL

\* WorkerCount counts the workers on every path of StartTaskQueueWorker.
THEOREM CountCorrect == Spec => []CountIsPool
<1>1. Pool => CountIsPool
  BY DEF Pool
<1> QED BY <1>1, PoolInvariant, PTL

\* The LiveWorkers gauge is right when no two workers overlapped.
THEOREM GaugeCorrect == Spec => []GaugeSettles
<1>1. Pool => GaugeSettles
  BY DEF Pool, GaugeSettles, Pending
<1> QED BY <1>1, PoolInvariant, PTL

\* pickShard's index is in the ring for every hash.
THEOREM ShardsFound == Spec => []EveryTaskHasShard
  BY PoolInvariant, PTL

\* No shard is left without a worker while the gateway has its channel.
THEOREM ShardsNotAbandoned == Spec => []ShardsServed
<1>1. Init => MainWorkers
  BY Types DEF Init, MainWorkers
<1>2. TypeOK /\ MainWorkers => ShardsServed
  BY Types DEF MainWorkers, ShardsServed, At
<1> QED BY <1>1, <1>2, MainWorkersStep, PoolTypeCorrect, PTL DEF Spec
=============================================================================
