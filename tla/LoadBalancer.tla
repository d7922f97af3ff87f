---------------------------- MODULE LoadBalancer ----------------------------
(***************************************************************************)
(* load_balancer.go: a registry of gateways behind one RWMutex. Gateways   *)
(* register when they start, the pruner drops those that fail a health     *)
(* check, every proxied request walks the registry round robin, and        *)
(* /metrics is answered by the first healthy gateway. Handlers hold the    *)
(* read lock until the answer is written; getNextBackend takes it again.   *)
(***************************************************************************)
EXTENDS Naturals, Sequences, SequencesExt, Functions

CONSTANTS
  Gateways,    \* addresses; every start of a gateway listens on a new port
  Proxies,     \* goroutines that run proxyHandler
  Scrapers,    \* goroutines that run the /metrics handler
  Pruner,      \* the goroutine of startPruneDeadGateways
  NoThread,
  NoTarget,    \* no backend chosen
  MaxTries,    \* registration attempts of a gateway (5)
  MaxSlow,     \* bound: health checks that a live gateway answers too late
  CounterMod   \* bound: current is kept modulo a multiple of all lengths

Threads == Gateways \cup Proxies \cup Scrapers \cup {Pruner}

ASSUME BalancerAssumption ==
  /\ NoThread \notin Threads
  /\ NoTarget \notin Gateways
  /\ Pruner \notin Gateways \cup Proxies \cup Scrapers
  /\ Gateways \cap (Proxies \cup Scrapers) = {} /\ Proxies \cap Scrapers = {}
  /\ MaxTries \in Nat /\ MaxSlow \in Nat
  /\ IsFiniteSet(Gateways) /\ CounterMod \in Nat \ {0}
  /\ \A n \in 1..Cardinality(Gateways) : \E k \in 1..CounterMod : CounterMod = n * k

VARIABLES
  backends,   \* the registry, in the order of registration
  current,    \* the round-robin counter
  rw,         \* backendMutex
  pc,         \* pc[t]: where goroutine t is
  tries,      \* proxies: retries left; gateways: registration attempts made
  target,     \* target[p]: the backend chosen for proxy p
  answer,     \* answer[p]: the last answer of proxy p
  todo, kept, \* the pruner's range over backends, and newBackends
  alive,      \* alive[g]: "off", "up" or "down"; an address comes up once
  slow,       \* health checks that timed out though the gateway was up
  untried,    \* history: untried[p], the backends that proxy p found when it
              \* entered and has not checked since
  mixed       \* history: the proxies that others took turns between

vars == <<backends, current, rw, pc, tries, target, answer, todo, kept, alive, slow,
          untried, mixed>>

Mutex == INSTANCE RWMutex

Init ==
  /\ backends = << >>
  /\ current = 0
  /\ Mutex!RWMutexInit
  /\ pc = [t \in Threads |-> "idle"]
  /\ tries = [t \in Threads |-> 0]
  /\ target = [p \in Proxies |-> NoTarget]
  /\ answer = [p \in Proxies |-> "none"]
  /\ todo = << >> /\ kept = << >>
  /\ alive = [g \in Gateways |-> "off"]
  /\ slow = 0
  /\ untried = [p \in Proxies |-> {}] /\ mixed = {}

Goto(t, label) == pc' = [pc EXCEPT ![t] = label]

-----------------------------------------------------------------------------
(* Gateways come and go; their health checks can come late.                *)

\* A gateway starts to listen and posts its address to /register.
StartGateway(g) ==
  /\ alive[g] = "off"
  /\ alive' = [alive EXCEPT ![g] = "up"]
  /\ Goto(g, "posting")
  /\ UNCHANGED <<backends, current, rw, tries, target, answer, todo, kept, slow, untried, mixed>>

StopGateway(g) ==
  /\ alive[g] = "up"
  /\ alive' = [alive EXCEPT ![g] = "down"]
  /\ UNCHANGED <<backends, current, rw, pc, tries, target, answer, todo, kept, slow,
                 untried, mixed>>

\* healthCheck(g) = ok: a dead gateway fails, a live one passes unless it
\* needs more than the client's timeout of a second.
HealthCheck(g, ok) ==
  /\ ok => alive[g] = "up"
  /\ IF ~ok /\ alive[g] = "up" THEN slow < MaxSlow /\ slow' = slow + 1
     ELSE UNCHANGED slow

-----------------------------------------------------------------------------
(* registerHandler                                                         *)

RegisterAsk(g) ==
  /\ pc[g] = "posting" /\ alive[g] = "up"
  /\ Mutex!AskLock(g)
  /\ Goto(g, "asking")
  /\ tries' = [tries EXCEPT ![g] = @ + 1]
  /\ UNCHANGED <<backends, current, target, answer, todo, kept, alive, slow, untried, mixed>>

RegisterLock(g) ==
  /\ pc[g] = "asking"
  /\ Mutex!GetLock(g)
  /\ Goto(g, "registering")
  /\ UNCHANGED <<backends, current, tries, target, answer, todo, kept, alive, slow, untried, mixed>>

\* Variant: the address is appended without a look at the registry.
AnyBackend(g) == Append(backends, g)
WithBackend(g) == IF g \in Range(backends) THEN backends ELSE Append(backends, g)

\* Variant: "Already registered" returns with the lock held.
RegisterOnce(g) ==
  /\ pc[g] = "registering"
  /\ backends' = WithBackend(g)
  /\ IF g \in Range(backends) THEN UNCHANGED rw ELSE Mutex!Unlock(g)
  /\ \/ Goto(g, "registered")
     \/ tries[g] < MaxTries /\ Goto(g, "posting")
  /\ UNCHANGED <<current, tries, target, answer, todo, kept, alive, slow, untried, mixed>>

\* The gateway is content, or its answer got lost and it posts again.
Register(g) ==
  /\ pc[g] = "registering"
  /\ backends' = WithBackend(g)
  /\ Mutex!Unlock(g)
  /\ \/ Goto(g, "registered")
     \/ tries[g] < MaxTries /\ Goto(g, "posting")
  /\ UNCHANGED <<current, tries, target, answer, todo, kept, alive, slow, untried, mixed>>

-----------------------------------------------------------------------------
(* startPruneDeadGateways                                                  *)

PruneAsk ==
  /\ pc[Pruner] = "idle"
  /\ Mutex!AskLock(Pruner)
  /\ Goto(Pruner, "asking")
  /\ UNCHANGED <<backends, current, tries, target, answer, todo, kept, alive, slow, untried, mixed>>

PruneLock ==
  /\ pc[Pruner] = "asking"
  /\ Mutex!GetLock(Pruner)
  /\ Goto(Pruner, "pruning")
  /\ todo' = backends /\ kept' = << >>
  /\ UNCHANGED <<backends, current, tries, target, answer, alive, slow, untried, mixed>>

\* Variant: the loop stops at the first dead gateway.
PruneCheckStops ==
  /\ pc[Pruner] = "pruning" /\ todo # << >>
  /\ \E ok \in BOOLEAN :
       /\ HealthCheck(Head(todo), ok)
       /\ kept' = IF ok THEN Append(kept, Head(todo)) ELSE kept
       /\ todo' = IF ok THEN Tail(todo) ELSE << >>
  /\ UNCHANGED <<backends, current, rw, pc, tries, target, answer, alive, untried, mixed>>

\* Variant: the new list is filled from the front.
PruneCheckInFront ==
  /\ pc[Pruner] = "pruning" /\ todo # << >>
  /\ \E ok \in BOOLEAN :
       /\ HealthCheck(Head(todo), ok)
       /\ kept' = IF ok THEN << Head(todo) >> \o kept ELSE kept
  /\ todo' = Tail(todo)
  /\ UNCHANGED <<backends, current, rw, pc, tries, target, answer, alive, untried, mixed>>

PruneCheck ==
  /\ pc[Pruner] = "pruning" /\ todo # << >>
  /\ \E ok \in BOOLEAN :
       /\ HealthCheck(Head(todo), ok)
       /\ kept' = IF ok THEN Append(kept, Head(todo)) ELSE kept
  /\ todo' = Tail(todo)
  /\ UNCHANGED <<backends, current, rw, pc, tries, target, answer, alive, untried, mixed>>

PruneStore ==
  /\ pc[Pruner] = "pruning" /\ todo = << >>
  /\ backends' = kept
  /\ kept' = << >>
  /\ Mutex!Unlock(Pruner)
  /\ Goto(Pruner, "idle")
  /\ UNCHANGED <<current, tries, target, answer, todo, alive, slow, untried, mixed>>

-----------------------------------------------------------------------------
(* proxyHandler                                                            *)

ProxyLock(p) ==
  /\ pc[p] = "idle"
  /\ Mutex!RLock(p)
  /\ Goto(p, "entering")
  /\ answer' = [answer EXCEPT ![p] = "none"]
  /\ mixed' = mixed \ {p}
  /\ UNCHANGED <<backends, current, tries, target, todo, kept, alive, slow, untried>>

\* All ways out of the handler run the deferred RUnlock.
Leave(p, result) ==
  /\ Mutex!RUnlock(p)
  /\ Goto(p, "idle")
  /\ answer' = [answer EXCEPT ![p] = result]
  /\ target' = [target EXCEPT ![p] = NoTarget]

\* 503 on an empty registry, 500 when the body cannot be read.
ProxyRefuse(p) ==
  /\ pc[p] = "entering" /\ ~Mutex!Blocked(p)
  /\ Leave(p, IF backends = << >> THEN "noGateways" ELSE "badBody")
  /\ UNCHANGED <<backends, current, tries, todo, kept, alive, slow, untried, mixed>>

\* Variant: the first try counts as a retry.
ProxyEnterShort(p) ==
  /\ pc[p] = "entering" /\ ~Mutex!Blocked(p)
  /\ backends # << >>
  /\ tries' = [tries EXCEPT ![p] = Len(backends) - 1]
  /\ untried' = [untried EXCEPT ![p] = Range(backends)]
  /\ Goto(p, "looping")
  /\ UNCHANGED <<backends, current, rw, target, answer, todo, kept, alive, slow, mixed>>

\* As many retries as there are backends.
ProxyEnter(p) ==
  /\ pc[p] = "entering" /\ ~Mutex!Blocked(p)
  /\ backends # << >>
  /\ tries' = [tries EXCEPT ![p] = Len(backends)]
  /\ untried' = [untried EXCEPT ![p] = Range(backends)]
  /\ Goto(p, "looping")
  /\ UNCHANGED <<backends, current, rw, target, answer, todo, kept, alive, slow, mixed>>

\* getNextBackend takes the read lock a second time.
NextLock(p) ==
  /\ pc[p] = "looping" /\ tries[p] > 0
  /\ Mutex!RLock(p)
  /\ Goto(p, "choosing")
  /\ UNCHANGED <<backends, current, tries, target, answer, todo, kept, alive, slow, untried, mixed>>

\* A turn that p takes comes between those of the other requests in the loop.
TurnBetween(p) ==
  mixed' = mixed \cup {q \in Proxies \ {p} : pc[q] \notin {"idle", "entering"}}

BackendAt(n) == backends[(n % Len(backends)) + 1]

\* Variant: the second read lock is tried, and its result ignored.
NextBackendTried(p) ==
  /\ pc[p] = "choosing"
  /\ current' = IF backends = << >> THEN current ELSE (current + 1) % CounterMod
  /\ target' = [target EXCEPT ![p] = IF backends = << >> THEN NoTarget
                                     ELSE BackendAt(current')]
  /\ tries' = [tries EXCEPT ![p] = @ - 1]
  /\ Mutex!RUnlock(p)
  /\ Goto(p, "checking")
  /\ TurnBetween(p)
  /\ UNCHANGED <<backends, answer, todo, kept, alive, slow, untried>>

\* The counter is added to atomically: no two requests use the same value.
\* An empty registry gives no target.
NextBackend(p) ==
  /\ pc[p] = "choosing" /\ ~Mutex!Blocked(p)
  /\ current' = IF backends = << >> THEN current ELSE (current + 1) % CounterMod
  /\ target' = [target EXCEPT ![p] = IF backends = << >> THEN NoTarget
                                     ELSE BackendAt(current')]
  /\ tries' = [tries EXCEPT ![p] = @ - 1]
  /\ Mutex!RUnlock(p)
  /\ Goto(p, "checking")
  /\ TurnBetween(p)
  /\ UNCHANGED <<backends, answer, todo, kept, alive, slow, untried>>

ProxyCheck(p) ==
  /\ pc[p] = "checking"
  /\ IF target[p] = NoTarget THEN Goto(p, "looping") /\ UNCHANGED slow
     ELSE \E ok \in BOOLEAN :
            /\ HealthCheck(target[p], ok)
            /\ Goto(p, IF ok THEN "forwarding" ELSE "looping")
  /\ untried' = [untried EXCEPT ![p] = @ \ {target[p]}]
  /\ UNCHANGED <<backends, current, rw, tries, target, answer, todo, kept, alive, mixed>>

\* Variant: the read lock is released before the next retry.
ForwardFailsUnlocks(p) ==
  /\ pc[p] = "forwarding"
  /\ Mutex!RUnlock(p)
  /\ Goto(p, "looping")
  /\ UNCHANGED <<backends, current, tries, target, answer, todo, kept, alive, slow, untried, mixed>>

\* The gateway answers.
Forward(p) ==
  /\ pc[p] = "forwarding" /\ alive[target[p]] = "up"
  /\ Leave(p, "forwarded")
  /\ UNCHANGED <<backends, current, tries, todo, kept, alive, slow, untried, mixed>>

\* The request cannot be made, or gets no answer: the gateway has died since
\* its health check, or it lives and closes the connection.
ForwardFails(p) ==
  /\ pc[p] = "forwarding"
  /\ Goto(p, "looping")
  /\ UNCHANGED <<backends, current, rw, tries, target, answer, todo, kept, alive,
                 slow, untried, mixed>>

ProxyGiveUp(p) ==
  /\ pc[p] = "looping" /\ tries[p] = 0
  /\ Leave(p, "allUnhealthy")
  /\ UNCHANGED <<backends, current, tries, todo, kept, alive, slow, untried, mixed>>

-----------------------------------------------------------------------------
(* /metrics: the read lock is held while gateways are asked in order.      *)

ScrapeLock(s) ==
  /\ pc[s] = "idle"
  /\ Mutex!RLock(s)
  /\ Goto(s, "scraping")
  /\ UNCHANGED <<backends, current, tries, target, answer, todo, kept, alive, slow, untried, mixed>>

Scrape(s) ==
  /\ pc[s] = "scraping" /\ ~Mutex!Blocked(s)
  /\ Mutex!RUnlock(s)
  /\ Goto(s, "idle")
  /\ UNCHANGED <<backends, current, tries, target, answer, todo, kept, alive, slow, untried, mixed>>

-----------------------------------------------------------------------------
Registration(g) == RegisterAsk(g) \/ RegisterLock(g) \/ Register(g)
Prune == PruneAsk \/ PruneLock \/ PruneCheck \/ PruneStore

\* What a proxied request does once it has arrived.
Proxy(p) ==
  \/ ProxyRefuse(p) \/ ProxyEnter(p) \/ NextLock(p) \/ NextBackend(p)
  \/ ProxyCheck(p) \/ Forward(p) \/ ForwardFails(p) \/ ProxyGiveUp(p)

Next ==
  \/ \E g \in Gateways : StartGateway(g) \/ StopGateway(g) \/ Registration(g)
  \/ Prune
  \/ \E p \in Proxies : ProxyLock(p) \/ Proxy(p)
  \/ \E s \in Scrapers : ScrapeLock(s) \/ Scrape(s)

Spec == Init /\ [][Next]_vars

\* Goroutines that can run do run; requests, starts and stops need not come.
Fairness ==
  /\ \A g \in Gateways : WF_vars(Registration(g))
  /\ WF_vars(Prune)
  /\ \A p \in Proxies : WF_vars(Proxy(p))
  /\ \A s \in Scrapers : WF_vars(Scrape(s))

FairSpec == Spec /\ Fairness

-----------------------------------------------------------------------------
(* Properties.                                                             *)

\* Types of the registry, the mutex and the goroutines.
TypeOK ==
  /\ backends \in Seq(Gateways)
  /\ current \in 0..(CounterMod - 1)
  /\ rw \in Mutex!RWMutexType
  /\ pc \in [Threads -> {"idle", "posting", "asking", "registering", "registered",
                         "pruning", "entering", "looping", "choosing", "checking",
                         "forwarding", "scraping"}]
  /\ tries \in [Threads -> Nat]
  /\ target \in [Proxies -> Gateways \cup {NoTarget}]
  /\ answer \in [Proxies -> {"none", "noGateways", "badBody", "forwarded", "allUnhealthy"}]
  /\ todo \in Seq(Gateways) /\ kept \in Seq(Gateways)
  /\ alive \in [Gateways -> {"off", "up", "down"}]
  /\ slow \in Nat
  /\ untried \in [Proxies -> SUBSET Gateways] /\ mixed \subseteq Proxies

\* A gateway is in the registry once, although its registrations may be
\* repeated and meet each other and the pruner.
NoDuplicates == IsInjective(backends)

\* As long as all live gateways answer their checks in time, none that has
\* registered is lost, whatever the pruner stores meanwhile (load_balancer.go:64).
RegisteredStay ==
  slow = 0 => \A g \in Gateways :
    pc[g] = "registered" /\ alive[g] = "up" => g \in Range(backends)

\* A request is only sent to a backend that is registered while it is sent:
\* the read lock keeps the pruner out until the answer is back.
TargetRegistered ==
  \A p \in Proxies :
    pc[p] \in {"checking", "forwarding"} => target[p] \in Range(backends)

\* "All backends unhealthy" (load_balancer.go:132) is only answered when no
\* backend is alive that the request has not tried.
AllUnhealthyIsTrue ==
  \A p \in Proxies : answer[p] = "allUnhealthy" =>
    \A g \in untried[p] : alive[g] # "up"

\* A request between whose turns no other took one has tried them all, alive or
\* not, before it gives up: whether checks fail or what is sent, its retries go
\* once round the registry (load_balancer.go:101), wherever the counter stands.
LoneRequestTriesAll ==
  \A p \in Proxies : answer[p] = "allUnhealthy" /\ p \notin mixed => untried[p] = {}

\* "Auto-remove dead gateways every 5 seconds" (load_balancer.go:139): a dead
\* gateway does not stay in the registry.
DeadGatewaysRemoved ==
  \A g \in Gateways :
    (alive[g] = "down" /\ g \in Range(backends)) ~> g \notin Range(backends)

\* A request caught between its two read locks by a writer (load_balancer.go:23).
Stuck(p) == rw.writer # NoThread /\ Mutex!Blocked(p) /\ rw.readers[p] > 0

\* One such request is the end of the balancer: it stays where it is, the
\* registry never changes again, and no goroutine gets another read lock.
StuckForGood ==
  [][\A p \in Proxies : Stuck(p) =>
       /\ Stuck(p)' /\ UNCHANGED backends
       /\ \A t \in Threads : rw'.readers[t] <= rw.readers[t]]_vars

\* Goroutine t, which holds the mutex or asks for it, has a step to take.
Runs(t) ==
  \/ pc[t] \in {"registering", "pruning", "looping", "checking", "forwarding"}
  \/ pc[t] \in {"entering", "choosing", "scraping"} /\ ~Mutex!Blocked(t)
  \/ pc[t] = "asking" /\ \A u \in Threads : rw.readers[u] = 0

\* Such a request is the only deadlock: as long as there is none, whoever
\* waits for the mutex waits for a goroutine that can go on.
OnlyStuckBlock ==
  rw.writer # NoThread \/ rw.blocked # {} =>
    \/ \E p \in Proxies : Stuck(p)
    \/ \E t \in Threads : (rw.readers[t] > 0 \/ rw.writer = t) /\ Runs(t)

\* The backend that is in use by each request.
Using == [p \in Proxies |-> IF pc[p] \in {"checking", "forwarding"} THEN target[p]
                            ELSE NoTarget]

\* The locks make the registry atomic: registrations, prunings and choices
\* of backends happen one at a time, and none while a backend is in use.
Registry == INSTANCE BackendRegistry WITH
  list <- backends, turn <- current, late <- slow > 0, use <- Using

ImplementsRegistry == Registry!Spec

-----------------------------------------------------------------------------
(* The inductive invariant of LoadBalancerProofs.                          *)

\* How many read locks each handler holds where it is, and that a
\* writer holds the lock alone.
ReadLocks ==
  /\ rw.held => rw.writer # NoThread /\ \A t \in Threads : rw.readers[t] = 0
  /\ \A t \in Proxies \cup Scrapers :
       /\ pc[t] = "idle" => rw.readers[t] = 0 /\ ~Mutex!Blocked(t)
       /\ pc[t] \in {"entering", "scraping"} =>
            rw.readers[t] = IF Mutex!Blocked(t) THEN 0 ELSE 1
  /\ \A p \in Proxies :
       /\ pc[p] = "choosing" => rw.readers[p] = IF Mutex!Blocked(p) THEN 1 ELSE 2
       /\ pc[p] \in {"looping", "checking", "forwarding"} =>
            rw.readers[p] = 1 /\ ~Mutex!Blocked(p)
       /\ pc[p] \in {"looping", "choosing", "checking", "forwarding"} => backends # << >>
       /\ pc[p] = "choosing" => tries[p] > 0

\* Where the writer is, which goroutines read, and that the door is only shut
\* for a writer.
WriterInPlace ==
  /\ rw.blocked \subseteq IF rw.writer = NoThread THEN {} ELSE Proxies \cup Scrapers
  /\ rw.writer # NoThread =>
       /\ rw.writer \in Gateways \cup {Pruner}
       /\ pc[rw.writer] \in IF rw.held THEN {"registering", "pruning"} ELSE {"asking"}
  /\ \A t \in Gateways \cup {Pruner} : rw.readers[t] = 0
  /\ \A s \in Scrapers : pc[s] \in {"idle", "scraping"}
  /\ \A p \in Proxies :
       pc[p] \in {"idle", "entering", "looping", "choosing", "checking", "forwarding"}

\* The pruner splits a registry without duplicates in two.
PruneSplits ==
  /\ IsInjective(todo) /\ IsInjective(kept)
  /\ Range(todo) \cap Range(kept) = {}

\* The pruner works alone, and what it has not kept it has yet to check.
PruneAlone ==
  pc[Pruner] = "pruning" =>
    /\ rw.writer = Pruner /\ rw.held
    /\ slow = 0 => \A g \in Gateways :
         pc[g] = "registered" /\ alive[g] = "up" => g \in Range(todo) \cup Range(kept)

\* The pruner has come to the rest of the registry, and has kept, in order,
\* those before it that live and have not been late.
Checked == Len(backends) - Len(todo)

PruneInOrder ==
  pc[Pruner] = "pruning" =>
    /\ Len(todo) <= Len(backends)
    /\ \A i \in 1..Len(todo) : todo[i] = backends[Checked + i]
    /\ Registry!LeftOf(kept, backends, Checked)
    /\ slow = 0 => \A i \in 1..Checked :
         alive[backends[i]] = "up" => backends[i] \in Range(kept)

\* What p has still to try: the backends of its remaining turns, and the one
\* it has chosen.
ToTry(p) ==
  {BackendAt(current + j) : j \in 1..tries[p]}
    \cup IF pc[p] = "checking" THEN {target[p]} ELSE {}

TurnsSuffice ==
  \A p \in Proxies :
    /\ pc[p] # "idle" => answer[p] = "none"
    /\ pc[p] \in {"looping", "choosing", "checking", "forwarding"} /\ p \notin mixed
         => untried[p] \subseteq ToTry(p)

\* Only gateways that have been started register.
Started ==
  \A g \in Gateways : alive[g] = "off" => pc[g] = "idle" /\ g \notin Range(backends)

BalancerInv ==
  /\ TypeOK /\ ReadLocks /\ PruneSplits /\ PruneAlone /\ PruneInOrder /\ Started
  /\ NoDuplicates /\ RegisteredStay /\ TargetRegistered
  /\ TurnsSuffice /\ LoneRequestTriesAll
=============================================================================
