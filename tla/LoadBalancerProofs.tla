------------------------- MODULE LoadBalancerProofs -------------------------
(***************************************************************************)
(* The registry of the load balancer, for any number of gateways,          *)
(* concurrent requests and repeated registrations: it has no duplicates,   *)
(* requests use what is registered, one that is alone tries all of it, a   *)
(* writer between two read locks is the end, and it is atomic otherwise.   *)
(***************************************************************************)
EXTENDS LoadBalancer, FiniteSetTheorems, TLAPS

\* Goroutines are threads of the mutex.
LEMMA ThreadsOfKinds ==
  /\ Gateways \subseteq Threads /\ Proxies \subseteq Threads /\ Scrapers \subseteq Threads
  /\ Pruner \in Threads /\ NoThread \notin Threads
  BY BalancerAssumption DEF Threads

\* The kinds of goroutines are different.
LEMMA KindsApart ==
  /\ Pruner \notin Gateways /\ Pruner \notin Proxies /\ Pruner \notin Scrapers
  /\ \A p \in Proxies : p \notin Gateways /\ p \notin Scrapers
  BY BalancerAssumption

\* What the operations of the mutex do to its type.
LEMMA MutexType ==
  ASSUME rw \in Mutex!RWMutexType, NEW t \in Threads,
         \/ Mutex!RLock(t) \/ (Mutex!RUnlock(t) /\ rw.readers[t] > 0)
         \/ Mutex!AskLock(t) \/ Mutex!GetLock(t) \/ Mutex!Unlock(t)
  PROVE  rw' \in Mutex!RWMutexType
<1> USE DEF Mutex!RWMutexType
<1>1. CASE Mutex!RLock(t)
  BY <1>1 DEF Mutex!RLock
<1>2. CASE Mutex!RUnlock(t) /\ rw.readers[t] > 0
  <2>1. rw.readers[t] - 1 \in Nat
    BY <1>2
  <2> QED BY <1>2, <2>1 DEF Mutex!RUnlock
<1>3. CASE Mutex!AskLock(t)
  BY <1>3 DEF Mutex!AskLock
<1>4. CASE Mutex!GetLock(t)
  BY <1>4 DEF Mutex!GetLock
<1>5. CASE Mutex!Unlock(t)
  BY <1>5 DEF Mutex!Unlock
<1> QED BY <1>1, <1>2, <1>3, <1>4, <1>5

\* RLock and RUnlock change one thread's count, or keep the thread out.
LEMMA RLockFacts ==
  ASSUME rw \in Mutex!RWMutexType, NEW t \in Threads, Mutex!RLock(t)
  PROVE  /\ rw'.held = rw.held /\ rw'.writer = rw.writer
         /\ \A u \in Threads : u # t =>
              rw'.readers[u] = rw.readers[u] /\ (u \in rw'.blocked <=> u \in rw.blocked)
         /\ rw.writer = NoThread => rw'.readers[t] = rw.readers[t] + 1 /\ rw'.blocked = rw.blocked
         /\ rw.writer # NoThread => rw'.readers[t] = rw.readers[t] /\ t \in rw'.blocked
<1>1. CASE rw.writer = NoThread
  BY <1>1 DEF Mutex!RWMutexType, Mutex!RLock
<1>2. CASE rw.writer # NoThread
  BY <1>2 DEF Mutex!RWMutexType, Mutex!RLock
<1> QED BY <1>1, <1>2

LEMMA RUnlockFacts ==
  ASSUME rw \in Mutex!RWMutexType, NEW t \in Threads, Mutex!RUnlock(t)
  PROVE  /\ rw'.held = rw.held /\ rw'.writer = rw.writer /\ rw'.blocked = rw.blocked
         /\ \A u \in Threads : u # t => rw'.readers[u] = rw.readers[u]
         /\ rw'.readers[t] = rw.readers[t] - 1
  BY DEF Mutex!RWMutexType, Mutex!RUnlock

\* A writer that asks for the lock, or gets it, leaves the readers alone.
LEMMA WriterFacts ==
  ASSUME rw \in Mutex!RWMutexType, NEW t \in Threads, Mutex!AskLock(t) \/ Mutex!GetLock(t)
  PROVE  /\ rw'.readers = rw.readers /\ rw'.blocked = rw.blocked /\ rw'.writer = t
         /\ rw'.held => rw.held \/ \A u \in Threads : rw.readers[u] = 0
<1>1. CASE Mutex!AskLock(t)
  BY <1>1 DEF Mutex!RWMutexType, Mutex!AskLock
<1>2. CASE Mutex!GetLock(t)
  BY <1>2 DEF Mutex!RWMutexType, Mutex!GetLock
<1> QED BY <1>1, <1>2

\* A new address, or the end of the registry, keeps it free of duplicates.
LEMMA AppendNew ==
  ASSUME NEW S, NEW s \in Seq(S), NEW e \in S, IsInjective(s), e \notin Range(s)
  PROVE  /\ Append(s, e) \in Seq(S) /\ IsInjective(Append(s, e))
         /\ Range(Append(s, e)) = Range(s) \cup {e}
<1>1. /\ Len(Append(s, e)) = Len(s) + 1 /\ Append(s, e)[Len(s) + 1] = e
      /\ DOMAIN Append(s, e) = 1..(Len(s) + 1) /\ DOMAIN s = 1..Len(s)
      /\ \A i \in 1..Len(s) : Append(s, e)[i] = s[i]
  OBVIOUS
<1>2. IsInjective(Append(s, e))
  BY <1>1 DEF IsInjective, Range
<1>3. Range(Append(s, e)) = Range(s) \cup {e}
  BY <1>1 DEF Range
<1> QED BY <1>2, <1>3

\* The head of the pruner's list is not in the rest of it.
LEMMA TailApart ==
  ASSUME NEW S, NEW s \in Seq(S), s # << >>, IsInjective(s)
  PROVE  /\ Tail(s) \in Seq(S) /\ IsInjective(Tail(s)) /\ Head(s) \in S
         /\ Range(Tail(s)) \subseteq Range(s) /\ Head(s) \in Range(s)
         /\ Head(s) \notin Range(Tail(s))
<1>1. /\ DOMAIN s = 1..Len(s) /\ DOMAIN Tail(s) = 1..(Len(s) - 1) /\ Head(s) = s[1]
      /\ 1 \in DOMAIN s /\ \A i \in 1..(Len(s) - 1) : Tail(s)[i] = s[i + 1]
  OBVIOUS
<1>2. \A i \in DOMAIN Tail(s) : i + 1 \in DOMAIN s /\ i + 1 # 1
  BY <1>1
<1>3. IsInjective(Tail(s))
  BY <1>1, <1>2 DEF IsInjective
<1>4. Range(Tail(s)) \subseteq Range(s) /\ Head(s) \in Range(s)
  BY <1>1, <1>2 DEF Range
<1>5. Head(s) \notin Range(Tail(s))
  BY <1>1, <1>2 DEF Range, IsInjective
<1> QED BY <1>3, <1>4, <1>5

\* Round robin stays within the registry.
LEMMA BackendRegistered ==
  ASSUME backends \in Seq(Gateways), backends # << >>, NEW n \in Nat
  PROVE  BackendAt(n) \in Range(backends) /\ BackendAt(n) \in Gateways
<1>1. Len(backends) \in Nat /\ Len(backends) > 0
  OBVIOUS
<1>2. (n % Len(backends)) \in 0..(Len(backends) - 1)
  BY <1>1
<1>3. (n % Len(backends)) + 1 \in DOMAIN backends
  BY <1>1, <1>2
<1> QED BY <1>3 DEF BackendAt, Range

-----------------------------------------------------------------------------
(* Type correctness, one step per action.                                  *)

\* The labels that Goto writes are labels.
LEMMA GotoType ==
  ASSUME TypeOK, NEW t \in Threads,
         NEW l \in {"idle", "posting", "asking", "registering", "registered", "pruning",
                    "entering", "looping", "choosing", "checking", "forwarding", "scraping"},
         Goto(t, l)
  PROVE  pc' \in [Threads -> {"idle", "posting", "asking", "registering", "registered",
                   "pruning", "entering", "looping", "choosing", "checking",
                   "forwarding", "scraping"}]
  BY DEF TypeOK, Goto

\* Every step of a goroutine or a gateway preserves the types.
LEMMA TypeStep == TypeOK /\ ReadLocks /\ PruneSplits /\ [Next]_vars => TypeOK'
<1> SUFFICES ASSUME TypeOK, ReadLocks, PruneSplits, [Next]_vars PROVE TypeOK'
  OBVIOUS
<1> USE ThreadsOfKinds DEF TypeOK
<1>1. ASSUME NEW g \in Gateways, StartGateway(g) PROVE TypeOK'
  BY <1>1, GotoType DEF StartGateway
<1>2. ASSUME NEW g \in Gateways, StopGateway(g) PROVE TypeOK'
  BY <1>2 DEF StopGateway
<1>3. ASSUME NEW g \in Gateways, RegisterAsk(g) PROVE TypeOK'
  BY <1>3, GotoType, MutexType DEF RegisterAsk
<1>4. ASSUME NEW g \in Gateways, RegisterLock(g) PROVE TypeOK'
  BY <1>4, GotoType, MutexType DEF RegisterLock
<1>5. ASSUME NEW g \in Gateways, Register(g) PROVE TypeOK'
  <2>1. backends' \in Seq(Gateways)
    BY <1>5 DEF Register, WithBackend
  <2>2. rw' \in Mutex!RWMutexType
    BY <1>5, MutexType DEF Register
  <2> QED BY <1>5, <2>1, <2>2, GotoType DEF Register
<1>6. CASE PruneAsk
  BY <1>6, GotoType, MutexType DEF PruneAsk
<1>7. CASE PruneLock
  BY <1>7, GotoType, MutexType DEF PruneLock
<1>8. CASE PruneCheck
  <2>1. Head(todo) \in Gateways /\ Tail(todo) \in Seq(Gateways)
    BY <1>8 DEF PruneCheck
  <2>2. kept' \in Seq(Gateways)
    BY <1>8, <2>1 DEF PruneCheck
  <2>3. slow' \in Nat
    BY <1>8 DEF PruneCheck, HealthCheck
  <2> QED BY <1>8, <2>1, <2>2, <2>3 DEF PruneCheck
<1>9. CASE PruneStore
  <2>1. rw' \in Mutex!RWMutexType
    BY <1>9, MutexType DEF PruneStore
  <2> QED BY <1>9, <2>1, GotoType DEF PruneStore
<1>10. ASSUME NEW p \in Proxies, ProxyLock(p) PROVE TypeOK'
  BY <1>10, GotoType, MutexType DEF ProxyLock
<1>11. ASSUME NEW p \in Proxies, NEW a \in {"noGateways", "badBody", "forwarded", "allUnhealthy"},
              Leave(p, a), rw.readers[p] > 0,
              UNCHANGED <<backends, current, tries, todo, kept, alive, slow, untried, mixed>>
       PROVE  TypeOK'
  <2>1. rw' \in Mutex!RWMutexType
    BY <1>11, MutexType DEF Leave
  <2>2. /\ target' \in [Proxies -> Gateways \cup {NoTarget}]
        /\ answer' \in [Proxies -> {"none", "noGateways", "badBody", "forwarded",
                                   "allUnhealthy"}]
    BY <1>11 DEF Leave
  <2> QED BY <1>11, <2>1, <2>2, GotoType DEF Leave
<1>12. ASSUME NEW p \in Proxies, ProxyRefuse(p) PROVE TypeOK'
  <2>1. /\ Leave(p, IF backends = << >> THEN "noGateways" ELSE "badBody")
        /\ rw.readers[p] > 0
        /\ UNCHANGED <<backends, current, tries, todo, kept, alive, slow, untried, mixed>>
    BY <1>12 DEF ProxyRefuse, ReadLocks
  <2> QED BY <1>11, <2>1
<1>13. ASSUME NEW p \in Proxies, ProxyEnter(p) PROVE TypeOK'
  <2>1. Len(backends) \in Nat /\ Range(backends) \subseteq Gateways
    BY DEF Range
  <2>2. untried' \in [Proxies -> SUBSET Gateways]
    BY <1>13, <2>1 DEF ProxyEnter
  <2> QED BY <1>13, <2>1, <2>2, GotoType DEF ProxyEnter
<1>14. ASSUME NEW p \in Proxies, NextLock(p) PROVE TypeOK'
  BY <1>14, GotoType, MutexType DEF NextLock
<1>15. ASSUME NEW p \in Proxies, NextBackend(p) PROVE TypeOK'
  <2>1. rw.readers[p] > 0 /\ backends # << >>
    BY <1>15 DEF NextBackend, ReadLocks
  <2>2. current' \in 0..(CounterMod - 1)
    <3>1. current + 1 \in Nat /\ CounterMod \in Nat \ {0}
      BY BalancerAssumption
    <3>2. (current + 1) % CounterMod \in 0..(CounterMod - 1)
      BY <3>1
    <3> QED BY <1>15, <3>2 DEF NextBackend
  <2>3. BackendAt(current') \in Gateways
    BY <2>1, <2>2, BackendRegistered
  <2>4. rw' \in Mutex!RWMutexType
    BY <1>15, <2>1, MutexType DEF NextBackend
  <2>5. tries[p] > 0
    BY <1>15 DEF NextBackend, ReadLocks
  <2>6. /\ target' \in [Proxies -> Gateways \cup {NoTarget}]
        /\ tries' \in [Threads -> Nat]
    BY <1>15, <2>3, <2>5 DEF NextBackend
  <2> QED BY <1>15, <2>2, <2>4, <2>6, GotoType DEF NextBackend, TurnBetween
<1>16. ASSUME NEW p \in Proxies, ProxyCheck(p) PROVE TypeOK'
  <2>1. slow' \in Nat
    BY <1>16 DEF ProxyCheck, HealthCheck
  <2>2. untried' \in [Proxies -> SUBSET Gateways]
    BY <1>16 DEF ProxyCheck
  <2> QED BY <2>2, <1>16, <2>1, GotoType DEF ProxyCheck
<1>17. ASSUME NEW p \in Proxies, Forward(p) PROVE TypeOK'
  <2>1. /\ Leave(p, "forwarded")
        /\ rw.readers[p] > 0
        /\ UNCHANGED <<backends, current, tries, todo, kept, alive, slow, untried, mixed>>
    BY <1>17 DEF Forward, ReadLocks
  <2> QED BY <1>11, <2>1
<1>18. ASSUME NEW p \in Proxies, ForwardFails(p) PROVE TypeOK'
  BY <1>18, GotoType DEF ForwardFails
<1>19. ASSUME NEW p \in Proxies, ProxyGiveUp(p) PROVE TypeOK'
  <2>1. /\ Leave(p, "allUnhealthy")
        /\ rw.readers[p] > 0
        /\ UNCHANGED <<backends, current, tries, todo, kept, alive, slow, untried, mixed>>
    BY <1>19 DEF ProxyGiveUp, ReadLocks
  <2> QED BY <1>11, <2>1
<1>20. ASSUME NEW s \in Scrapers, ScrapeLock(s) PROVE TypeOK'
  BY <1>20, GotoType, MutexType DEF ScrapeLock
<1>21. ASSUME NEW s \in Scrapers, Scrape(s) PROVE TypeOK'
  <2>1. rw.readers[s] > 0
    BY <1>21 DEF Scrape, ReadLocks
  <2> QED BY <1>21, <2>1, GotoType, MutexType DEF Scrape
<1>22. CASE UNCHANGED vars
  BY <1>22 DEF vars
<1> QED
  BY <1>1, <1>2, <1>3, <1>4, <1>5, <1>6, <1>7, <1>8, <1>9, <1>10, <1>12, <1>13, <1>14,
     <1>15, <1>16, <1>17, <1>18, <1>19, <1>20, <1>21, <1>22
     DEF Next, Registration, Prune, Proxy

-----------------------------------------------------------------------------
(* The read locks, and what they protect.                                  *)

\* A step that leaves the mutex and the handlers' places alone, or is a
\* writer's asking for the lock, keeps every handler's read locks.
LEMMA ReadLocksKept ==
  ASSUME TypeOK, ReadLocks, NEW g \in Threads \ (Proxies \cup Scrapers), NEW l,
         pc' = pc \/ Goto(g, l),
         rw' = rw \/ Mutex!AskLock(g) \/ Mutex!GetLock(g),
         backends' = backends, \A p \in Proxies : tries'[p] = tries[p]
  PROVE  ReadLocks'
<1>1. \A t \in Proxies \cup Scrapers : pc'[t] = pc[t]
  BY ThreadsOfKinds DEF TypeOK, Goto
<1>2. /\ rw'.readers = rw.readers /\ rw'.blocked = rw.blocked
      /\ rw'.held => rw'.writer # NoThread /\ \A t \in Threads : rw'.readers[t] = 0
  <2>1. CASE rw' = rw
    BY <2>1 DEF ReadLocks
  <2>2. CASE Mutex!AskLock(g) \/ Mutex!GetLock(g)
    BY <2>2, WriterFacts, ThreadsOfKinds DEF TypeOK, ReadLocks
  <2> QED BY <2>1, <2>2
<1> QED BY <1>1, <1>2 DEF ReadLocks, Mutex!Blocked

\* A writer's unlock finds no reader, and lets in those it had kept out.
LEMMA ReadLocksUnlock ==
  ASSUME TypeOK, ReadLocks, NEW g \in Threads \ (Proxies \cup Scrapers), NEW l,
         Goto(g, l), Mutex!Unlock(g), tries' = tries
  PROVE  ReadLocks'
<1>1. \A t \in Proxies \cup Scrapers : pc'[t] = pc[t]
  BY ThreadsOfKinds DEF TypeOK, Goto
<1>2. \A t \in Threads : rw.readers[t] = 0
  BY DEF Mutex!Unlock, ReadLocks
<1>3. /\ ~rw'.held /\ rw'.blocked = {}
      /\ \A t \in Threads : rw'.readers[t] = IF t \in rw.blocked THEN 1 ELSE 0
  BY <1>2 DEF Mutex!Unlock
<1>4. \A p \in Proxies : pc[p] \notin {"looping", "choosing", "checking", "forwarding"}
  <2> SUFFICES ASSUME NEW p \in Proxies, pc[p] \in {"looping", "choosing", "checking", "forwarding"}
               PROVE  FALSE
    OBVIOUS
  <2> QED BY <1>2, ThreadsOfKinds DEF ReadLocks
<1> QED BY <1>1, <1>2, <1>3, <1>4, ThreadsOfKinds DEF ReadLocks, Mutex!Blocked

\* Where a handler is says which read locks it holds.
LEMMA ReadLocksMoved ==
  ASSUME TypeOK, ReadLocks, NEW t \in Proxies \cup Scrapers, NEW l, Goto(t, l),
         backends' = backends, \A p \in Proxies : p # t => tries'[p] = tries[p],
         rw' \in Mutex!RWMutexType, rw'.held = rw.held, rw'.writer = rw.writer,
         \A u \in Threads : u # t =>
           rw'.readers[u] = rw.readers[u] /\ (u \in rw'.blocked <=> u \in rw.blocked),
         rw.held => rw'.readers[t] = 0,
         l = "idle" => rw'.readers[t] = 0 /\ ~Mutex!Blocked(t)',
         l \in {"entering", "scraping"} =>
           rw'.readers[t] = IF Mutex!Blocked(t)' THEN 0 ELSE 1,
         t \in Proxies =>
           /\ l = "choosing" =>
                rw'.readers[t] = (IF Mutex!Blocked(t)' THEN 1 ELSE 2) /\ tries'[t] > 0
           /\ l \in {"looping", "checking", "forwarding"} =>
                rw'.readers[t] = 1 /\ ~Mutex!Blocked(t)'
           /\ l \in {"looping", "choosing", "checking", "forwarding"} => backends # << >>
  PROVE  ReadLocks'
<1>1. /\ pc'[t] = l /\ t \in Threads
      /\ \A u \in Proxies \cup Scrapers : u # t => pc'[u] = pc[u]
  BY ThreadsOfKinds DEF TypeOK, Goto
<1>2. rw'.held => rw'.writer # NoThread /\ \A u \in Threads : rw'.readers[u] = 0
  BY DEF ReadLocks
<1> QED BY <1>1, <1>2, ThreadsOfKinds DEF ReadLocks, Mutex!Blocked

\* A handler that takes a read lock is counted, or kept out.
LEMMA ReadLocksTaken ==
  ASSUME TypeOK, ReadLocks, NEW t \in Proxies \cup Scrapers, NEW l, Goto(t, l),
         backends' = backends, tries' = tries, Mutex!RLock(t),
         \/ l \in {"entering", "scraping"} /\ pc[t] = "idle"
         \/ l = "choosing" /\ pc[t] = "looping" /\ t \in Proxies /\ tries[t] > 0
  PROVE  ReadLocks'
<1>1. t \in Threads /\ rw \in Mutex!RWMutexType /\ rw' \in Mutex!RWMutexType
  BY ThreadsOfKinds, MutexType DEF TypeOK
<1>2. rw.readers[t] = (IF pc[t] = "idle" THEN 0 ELSE 1) /\ ~Mutex!Blocked(t)
  BY DEF ReadLocks
<1>3. rw.held => rw'.readers[t] = 0
  BY <1>1, RLockFacts DEF ReadLocks
<1>4. /\ l \in {"entering", "scraping"} => rw'.readers[t] = IF Mutex!Blocked(t)' THEN 0 ELSE 1
      /\ l = "choosing" => rw'.readers[t] = IF Mutex!Blocked(t)' THEN 1 ELSE 2
  BY <1>1, <1>2, RLockFacts DEF Mutex!Blocked
<1>5. l = "choosing" => backends # << >>
  BY DEF ReadLocks
<1> QED BY <1>1, <1>3, <1>4, <1>5, RLockFacts, ReadLocksMoved

\* A handler that gives back a read lock had one.
LEMMA ReadLocksGiven ==
  ASSUME TypeOK, ReadLocks, NEW t \in Proxies \cup Scrapers, NEW l, Goto(t, l),
         backends' = backends, \A p \in Proxies : p # t => tries'[p] = tries[p],
         Mutex!RUnlock(t), ~Mutex!Blocked(t),
         \/ l = "checking" /\ pc[t] = "choosing" /\ t \in Proxies
         \/ l = "idle" /\ pc[t] \in {"entering", "scraping"}
         \/ l = "idle" /\ pc[t] \in {"looping", "forwarding"} /\ t \in Proxies
  PROVE  ReadLocks'
<1>1. t \in Threads /\ rw \in Mutex!RWMutexType
  BY ThreadsOfKinds DEF TypeOK
<1>2. rw.readers[t] = (IF pc[t] = "choosing" THEN 2 ELSE 1) /\ ~rw.held
  BY <1>1 DEF ReadLocks
<1>3. rw' \in Mutex!RWMutexType
  BY <1>1, <1>2, MutexType
<1>4. rw'.readers[t] = (IF l = "checking" THEN 1 ELSE 0) /\ ~Mutex!Blocked(t)'
  BY <1>1, <1>2, RUnlockFacts DEF Mutex!Blocked
<1>5. l = "checking" => backends # << >>
  BY DEF ReadLocks
<1> QED BY <1>1, <1>2, <1>3, <1>4, <1>5, RUnlockFacts, ReadLocksMoved

\* Every step keeps the account of the read locks.
LEMMA ReadLocksStep == TypeOK /\ ReadLocks /\ [Next]_vars => ReadLocks'
<1> SUFFICES ASSUME TypeOK, ReadLocks, [Next]_vars PROVE ReadLocks'
  OBVIOUS
<1> USE ThreadsOfKinds
<1>1. ASSUME NEW g \in Gateways, StartGateway(g) \/ StopGateway(g) \/ Registration(g)
      PROVE  ReadLocks'
  <2>1. g \in Threads \ (Proxies \cup Scrapers)
    BY BalancerAssumption
  <2>2. CASE StartGateway(g) \/ StopGateway(g)
    BY <2>1, <2>2, ReadLocksKept DEF StartGateway, StopGateway
  <2>3. CASE RegisterAsk(g)
    <3>1. \A p \in Proxies : tries'[p] = tries[p]
      BY <2>1, <2>3 DEF RegisterAsk, TypeOK
    <3> QED BY <2>1, <2>3, <3>1, ReadLocksKept DEF RegisterAsk
  <2>4. CASE RegisterLock(g)
    BY <2>1, <2>4, ReadLocksKept DEF RegisterLock
  <2>5. CASE Register(g)
    BY <2>1, <2>5, ReadLocksUnlock DEF Register
  <2> QED BY <1>1, <2>2, <2>3, <2>4, <2>5 DEF Registration
<1>2. CASE Prune
  <2>1. Pruner \in Threads \ (Proxies \cup Scrapers)
    BY BalancerAssumption
  <2>2. CASE PruneAsk \/ PruneLock \/ PruneCheck
    BY <2>1, <2>2, ReadLocksKept DEF PruneAsk, PruneLock, PruneCheck
  <2>3. CASE PruneStore
    BY <2>1, <2>3, ReadLocksUnlock DEF PruneStore
  <2> QED BY <1>2, <2>2, <2>3 DEF Prune
<1>3. ASSUME NEW p \in Proxies, ProxyLock(p) \/ NextLock(p) PROVE ReadLocks'
  BY <1>3, ReadLocksTaken DEF ProxyLock, NextLock
<1>4. ASSUME NEW p \in Proxies, ProxyRefuse(p) \/ Forward(p) \/ ProxyGiveUp(p)
      PROVE  ReadLocks'
  <2>1. /\ \E a : Leave(p, a)
        /\ backends' = backends /\ tries' = tries
        /\ pc[p] \in {"entering", "forwarding", "looping"} /\ ~Mutex!Blocked(p)
    BY <1>4 DEF ProxyRefuse, Forward, ProxyGiveUp, ReadLocks
  <2> QED BY <2>1, ReadLocksGiven DEF Leave
<1>5. ASSUME NEW p \in Proxies, NextBackend(p) PROVE ReadLocks'
  <2>1. \A u \in Proxies : u # p => tries'[u] = tries[u]
    BY <1>5 DEF NextBackend, TypeOK
  <2> QED BY <1>5, <2>1, ReadLocksGiven DEF NextBackend
<1>6. ASSUME NEW p \in Proxies, ProxyEnter(p) \/ ProxyCheck(p) \/ ForwardFails(p)
      PROVE  ReadLocks'
  <2>1. PICK l \in {"looping", "forwarding"} : Goto(p, l)
    BY <1>6 DEF ProxyEnter, ProxyCheck, ForwardFails
  <2>2. /\ backends' = backends /\ rw' = rw /\ backends # << >>
        /\ pc[p] \in {"entering", "checking", "forwarding"} /\ ~Mutex!Blocked(p)
        /\ \A u \in Proxies : u # p => tries'[u] = tries[u]
    BY <1>6 DEF ProxyEnter, ProxyCheck, ForwardFails, ReadLocks, TypeOK
  <2>3. rw.readers[p] = 1 /\ rw' \in Mutex!RWMutexType /\ ~rw.held
    BY <2>2 DEF ReadLocks, TypeOK
  <2>4. ~Mutex!Blocked(p)'
    BY <2>2 DEF Mutex!Blocked
  <2> QED BY <2>1, <2>2, <2>3, <2>4, ReadLocksMoved
<1>7. ASSUME NEW s \in Scrapers, ScrapeLock(s) PROVE ReadLocks'
  BY <1>7, ReadLocksTaken DEF ScrapeLock
<1>8. ASSUME NEW s \in Scrapers, Scrape(s) PROVE ReadLocks'
  BY <1>8, ReadLocksGiven DEF Scrape
<1>9. CASE UNCHANGED vars
  BY <1>9 DEF vars, ReadLocks, Mutex!Blocked
<1> QED BY <1>1, <1>2, <1>3, <1>4, <1>5, <1>6, <1>7, <1>8, <1>9 DEF Next, Proxy

\* Registering looks first; pruning splits the registry and keeps a part.
LEMMA RegistryStep ==
  TypeOK /\ PruneSplits /\ NoDuplicates /\ [Next]_vars => PruneSplits' /\ NoDuplicates'
<1> SUFFICES ASSUME TypeOK, PruneSplits, NoDuplicates, [Next]_vars
             PROVE  PruneSplits' /\ NoDuplicates'
  OBVIOUS
<1> USE DEF PruneSplits, NoDuplicates
<1>1. ASSUME NEW g \in Gateways, Register(g) PROVE PruneSplits' /\ NoDuplicates'
  <2>1. CASE g \in Range(backends)
    BY <1>1, <2>1 DEF Register, WithBackend
  <2>2. CASE g \notin Range(backends)
    BY <1>1, <2>2, AppendNew DEF Register, WithBackend, TypeOK
  <2> QED BY <2>1, <2>2
<1>2. CASE PruneLock
  <2>1. IsInjective(<< >>) /\ Range(<< >>) = {}
    BY DEF IsInjective, Range
  <2> QED BY <1>2, <2>1 DEF PruneLock
<1>3. CASE PruneCheck
  <2> DEFINE g == Head(todo)
  <2>1. /\ IsInjective(Tail(todo)) /\ g \in Gateways
        /\ Range(Tail(todo)) \subseteq Range(todo) /\ g \in Range(todo)
        /\ g \notin Range(Tail(todo))
    BY <1>3, TailApart DEF PruneCheck, TypeOK
  <2>2. /\ IsInjective(Append(kept, g))
        /\ Range(Append(kept, g)) = Range(kept) \cup {g}
    BY <2>1, AppendNew DEF TypeOK
  <2>3. UNCHANGED backends /\ todo' = Tail(todo) /\ (kept' = kept \/ kept' = Append(kept, g))
    BY <1>3 DEF PruneCheck
  <2> QED BY <2>1, <2>2, <2>3
<1>4. CASE PruneStore
  <2>1. IsInjective(<< >>) /\ Range(<< >>) = {}
    BY DEF IsInjective, Range
  <2> QED BY <1>4, <2>1 DEF PruneStore
<1>5. CASE UNCHANGED <<backends, todo, kept>>
  BY <1>5
<1>6. \A g \in Gateways :
        StartGateway(g) \/ StopGateway(g) \/ RegisterAsk(g) \/ RegisterLock(g)
          => UNCHANGED <<backends, todo, kept>>
  BY DEF StartGateway, StopGateway, RegisterAsk, RegisterLock
<1>7. \A p \in Proxies : ProxyLock(p) \/ Proxy(p) => UNCHANGED <<backends, todo, kept>>
  BY DEF ProxyLock, Proxy, ProxyRefuse, ProxyEnter, NextLock, NextBackend, ProxyCheck,
         Forward, ForwardFails, ProxyGiveUp
<1>8. /\ \A s \in Scrapers : ScrapeLock(s) \/ Scrape(s) => UNCHANGED <<backends, todo, kept>>
      /\ PruneAsk \/ UNCHANGED vars => UNCHANGED <<backends, todo, kept>>
  BY DEF ScrapeLock, Scrape, PruneAsk, vars
<1> QED
  BY <1>1, <1>2, <1>3, <1>4, <1>5, <1>6, <1>7, <1>8 DEF Next, Registration, Prune

\* While a request is checked or forwarded its read lock keeps writers out.
LEMMA TargetStep ==
  TypeOK /\ ReadLocks /\ TargetRegistered /\ [Next]_vars => TargetRegistered'
<1> SUFFICES ASSUME TypeOK, ReadLocks, TargetRegistered, [Next]_vars PROVE TargetRegistered'
  OBVIOUS
<1> USE ThreadsOfKinds, KindsApart DEF TargetRegistered
<1>1. ASSUME NEW p \in Proxies, NextBackend(p) PROVE TargetRegistered'
  <2>1. current' \in Nat /\ backends # << >>
    <3>1. current + 1 \in Nat /\ CounterMod \in Nat \ {0}
      BY BalancerAssumption DEF TypeOK
    <3>2. (current + 1) % CounterMod \in Nat
      BY <3>1
    <3> QED BY <1>1, <3>2 DEF NextBackend, ReadLocks
  <2>2. BackendAt(current') \in Range(backends)
    BY <2>1, BackendRegistered DEF TypeOK
  <2>3. /\ backends' = backends /\ target' = [target EXCEPT ![p] = BackendAt(current')]
        /\ Goto(p, "checking")
    BY <1>1, <2>1 DEF NextBackend
  <2> QED BY <2>2, <2>3 DEF Goto, TypeOK
<1>2. ASSUME NEW t \in Threads, Mutex!Unlock(t), NEW l, l \notin {"checking", "forwarding"},
             Goto(t, l), UNCHANGED target
      PROVE  TargetRegistered'
  <2>1. \A p \in Proxies : pc[p] \notin {"checking", "forwarding"}
    BY <1>2 DEF Mutex!Unlock, ReadLocks
  <2> QED BY <1>2, <2>1 DEF Goto, TypeOK
<1>3. ASSUME NEW g \in Gateways, StartGateway(g) \/ StopGateway(g) \/ Registration(g)
      PROVE  TargetRegistered'
  <2>1. CASE Register(g)
    BY <1>2, <2>1 DEF Register
  <2>2. CASE ~Register(g)
    BY <1>3, <2>2 DEF StartGateway, StopGateway, Registration, RegisterAsk, RegisterLock,
                      Goto, TypeOK
  <2> QED BY <2>1, <2>2
<1>4. CASE Prune
  <2>1. CASE PruneStore
    BY <1>2, <2>1 DEF PruneStore
  <2>2. CASE ~PruneStore
    BY <1>4, <2>2 DEF Prune, PruneAsk, PruneLock, PruneCheck, Goto, TypeOK
  <2> QED BY <2>1, <2>2
<1>5. ASSUME NEW p \in Proxies, ProxyLock(p) \/ ProxyEnter(p) \/ NextLock(p)
      PROVE  TargetRegistered'
  BY <1>5 DEF ProxyLock, ProxyEnter, NextLock, Goto, TypeOK
<1>6. ASSUME NEW p \in Proxies, ProxyRefuse(p) \/ Forward(p) \/ ProxyGiveUp(p)
      PROVE  TargetRegistered'
  <2>1. backends' = backends /\ \E a : Leave(p, a)
    BY <1>6 DEF ProxyRefuse, Forward, ProxyGiveUp
  <2> QED BY <2>1 DEF Leave, Goto, TypeOK
<1>7. ASSUME NEW p \in Proxies, ProxyCheck(p) \/ ForwardFails(p) PROVE TargetRegistered'
  BY <1>7 DEF ProxyCheck, ForwardFails, Goto, TypeOK
<1>8. ASSUME NEW s \in Scrapers, ScrapeLock(s) \/ Scrape(s) PROVE TargetRegistered'
  BY <1>8 DEF ScrapeLock, Scrape, Goto, TypeOK
<1>9. CASE UNCHANGED vars
  BY <1>9 DEF vars
<1> QED
  BY <1>1, <1>3, <1>4, <1>5, <1>6, <1>7, <1>8, <1>9 DEF Next, Proxy

\* The elements of a list are its head and the elements of its tail.
LEMMA HeadOrTail ==
  ASSUME NEW S, NEW s \in Seq(S), s # << >>
  PROVE  Range(s) \subseteq {Head(s)} \cup Range(Tail(s))
<1>1. /\ DOMAIN s = 1..Len(s) /\ DOMAIN Tail(s) = 1..(Len(s) - 1) /\ Head(s) = s[1]
      /\ \A i \in 1..(Len(s) - 1) : Tail(s)[i] = s[i + 1]
  OBVIOUS
<1>2. SUFFICES ASSUME NEW i \in DOMAIN s PROVE s[i] \in {Head(s)} \cup Range(Tail(s))
  BY DEF Range
<1>3. CASE i = 1
  BY <1>1, <1>3
<1>4. CASE i # 1
  <2>1. i - 1 \in DOMAIN Tail(s) /\ s[i] = Tail(s)[i - 1]
    BY <1>1, <1>4
  <2> QED BY <2>1 DEF Range
<1> QED BY <1>3, <1>4

\* An element at the end of a list is added to what is in it.
LEMMA RangeAppend ==
  ASSUME NEW S, NEW s \in Seq(S), NEW e \in S
  PROVE  Range(Append(s, e)) = Range(s) \cup {e}
<1>1. /\ Append(s, e)[Len(s) + 1] = e
      /\ DOMAIN Append(s, e) = 1..(Len(s) + 1) /\ DOMAIN s = 1..Len(s)
      /\ \A i \in 1..Len(s) : Append(s, e)[i] = s[i]
  OBVIOUS
<1> QED BY <1>1 DEF Range

\* Nobody but the pruner changes its lists, and nobody registers meanwhile.
LEMMA StayStep ==
  TypeOK /\ PruneAlone /\ RegisteredStay /\ [Next]_vars => PruneAlone' /\ RegisteredStay'
<1> SUFFICES ASSUME TypeOK, PruneAlone, RegisteredStay, [Next]_vars
             PROVE  PruneAlone' /\ RegisteredStay'
  OBVIOUS
<1> USE ThreadsOfKinds, KindsApart DEF PruneAlone, RegisteredStay
<1>1. ASSUME NEW g \in Gateways, StartGateway(g) \/ StopGateway(g)
      PROVE  PruneAlone' /\ RegisteredStay'
  <2>1. UNCHANGED <<backends, rw, todo, kept, slow>> /\ pc'[Pruner] = pc[Pruner]
    BY <1>1 DEF StartGateway, StopGateway, Goto, TypeOK
  <2>2. ASSUME NEW f \in Gateways, pc'[f] = "registered", alive'[f] = "up"
        PROVE  pc[f] = "registered" /\ alive[f] = "up"
    BY <1>1, <2>2 DEF StartGateway, StopGateway, Goto, TypeOK
  <2> QED BY <2>1, <2>2
<1>2. ASSUME NEW g \in Gateways, RegisterAsk(g)
      PROVE  PruneAlone' /\ RegisteredStay'
  <2>1. pc[Pruner] # "pruning"
    BY <1>2 DEF RegisterAsk, Mutex!AskLock
  <2> QED BY <1>2, <2>1 DEF RegisterAsk, Goto, TypeOK
<1>3. ASSUME NEW g \in Gateways, RegisterLock(g)
      PROVE  PruneAlone' /\ RegisteredStay'
  <2>1. pc[Pruner] # "pruning"
    BY <1>3 DEF RegisterLock, Mutex!GetLock
  <2> QED BY <1>3, <2>1 DEF RegisterLock, Goto, TypeOK
<1>4. ASSUME NEW g \in Gateways, Register(g)
      PROVE  PruneAlone' /\ RegisteredStay'
  <2>1. pc[Pruner] # "pruning" /\ pc'[Pruner] = pc[Pruner]
    BY <1>4 DEF Register, Mutex!Unlock, Goto, TypeOK
  <2>2. Range(backends') = Range(backends) \cup {g}
    BY <1>4, RangeAppend DEF Register, WithBackend, TypeOK
  <2>3. \A f \in Gateways : f # g => pc'[f] = pc[f]
    BY <1>4 DEF Register, Goto, TypeOK
  <2> QED BY <1>4, <2>1, <2>2, <2>3 DEF Register
<1>5. CASE PruneAsk
  BY <1>5 DEF PruneAsk, Goto, TypeOK
<1>6. CASE PruneLock
  <2>1. rw'.writer = Pruner /\ rw'.held
    BY <1>6 DEF PruneLock, Mutex!GetLock, Mutex!RWMutexType, TypeOK
  <2>2. \A g \in Gateways : pc'[g] = pc[g]
    BY <1>6 DEF PruneLock, Goto, TypeOK
  <2> QED BY <1>6, <2>1, <2>2 DEF PruneLock
<1>7. CASE PruneCheck
  <2> DEFINE h == Head(todo)
  <2>1. PICK ok \in BOOLEAN : HealthCheck(h, ok) /\ kept' = IF ok THEN Append(kept, h) ELSE kept
    BY <1>7 DEF PruneCheck
  <2>2. h \in Gateways /\ Range(todo) \subseteq {h} \cup Range(Tail(todo))
    BY <1>7, HeadOrTail DEF PruneCheck, TypeOK
  <2>3. Range(kept') = IF ok THEN Range(kept) \cup {h} ELSE Range(kept)
    <3>1. Range(Append(kept, h)) = Range(kept) \cup {h}
      BY <2>2, RangeAppend DEF TypeOK
    <3> QED BY <2>1, <3>1
  <2>4. (slow' = 0 => slow = 0) /\ (slow' = 0 /\ ~ok => alive[h] # "up")
    BY <2>1 DEF HealthCheck, TypeOK
  <2>5. todo' = Tail(todo) /\ UNCHANGED <<backends, rw, pc, alive>>
    BY <1>7 DEF PruneCheck
  <2> QED BY <2>2, <2>3, <2>4, <2>5
<1>8. CASE PruneStore
  <2>1. pc'[Pruner] = "idle" /\ \A g \in Gateways : pc'[g] = pc[g]
    BY <1>8 DEF PruneStore, Goto, TypeOK
  <2>2. Range(todo) = {} /\ pc[Pruner] = "pruning"
    BY <1>8 DEF PruneStore, Range
  <2>3. backends' = kept /\ UNCHANGED <<slow, alive>>
    BY <1>8 DEF PruneStore
  <2> QED BY <2>1, <2>2, <2>3
<1>9. ASSUME NEW p \in Proxies, ProxyLock(p) \/ Proxy(p)
      PROVE  PruneAlone' /\ RegisteredStay'
  <2>1. rw'.writer = rw.writer /\ rw'.held = rw.held
    BY <1>9, RLockFacts, RUnlockFacts
    DEF ProxyLock, Proxy, ProxyRefuse, ProxyEnter, NextLock, NextBackend, ProxyCheck,
        Forward, ForwardFails, ProxyGiveUp, Leave, TypeOK
  <2>2. pc'[Pruner] = pc[Pruner] /\ \A g \in Gateways : pc'[g] = pc[g]
    BY <1>9
    DEF ProxyLock, Proxy, ProxyRefuse, ProxyEnter, NextLock, NextBackend, ProxyCheck,
        Forward, ForwardFails, ProxyGiveUp, Leave, Goto, TypeOK
  <2>3. UNCHANGED <<backends, todo, kept, alive>> /\ (slow' = 0 => slow = 0)
    BY <1>9
    DEF ProxyLock, Proxy, ProxyRefuse, ProxyEnter, NextLock, NextBackend, ProxyCheck,
        Forward, ForwardFails, ProxyGiveUp, HealthCheck, TypeOK
  <2> QED BY <2>1, <2>2, <2>3
<1>10. ASSUME NEW s \in Scrapers, ScrapeLock(s) \/ Scrape(s)
       PROVE  PruneAlone' /\ RegisteredStay'
  <2>1. rw'.writer = rw.writer /\ rw'.held = rw.held
    BY <1>10, RLockFacts, RUnlockFacts DEF ScrapeLock, Scrape, TypeOK
  <2>2. pc'[Pruner] = pc[Pruner] /\ \A g \in Gateways : pc'[g] = pc[g]
    BY <1>10, BalancerAssumption DEF ScrapeLock, Scrape, Goto, TypeOK
  <2> QED BY <1>10, <2>1, <2>2 DEF ScrapeLock, Scrape
<1>11. CASE UNCHANGED vars
  BY <1>11 DEF vars
<1> QED
  BY <1>1, <1>2, <1>3, <1>4, <1>5, <1>6, <1>7, <1>8, <1>9, <1>10, <1>11
  DEF Next, Registration, Prune

-----------------------------------------------------------------------------
(* What the pruner has kept is left of the registry, in its order.         *)

\* Nothing is left of any list.
LEMMA LeftOfNothing ==
  ASSUME NEW t, NEW n \in Nat
  PROVE  Registry!LeftOf(<< >>, t, n)
<1> DEFINE at == [i \in DOMAIN << >> |-> 1]
<1>1. at \in [DOMAIN << >> -> 1..n] /\ \A i \in DOMAIN << >> : FALSE
  OBVIOUS
<1> QED BY <1>1 DEF Registry!LeftOf

\* A member that is taken out leaves what was left before.
LEMMA LeftOfSkip ==
  ASSUME NEW s, NEW t, NEW n \in Nat, Registry!LeftOf(s, t, n)
  PROVE  Registry!LeftOf(s, t, n + 1)
<1>1. PICK at \in [DOMAIN s -> 1..n] :
        /\ \A i \in DOMAIN s : s[i] = t[at[i]]
        /\ \A i, j \in DOMAIN s : i < j => at[i] < at[j]
  BY DEF Registry!LeftOf
<1>2. at \in [DOMAIN s -> 1..(n + 1)]
  BY <1>1
<1> QED BY <1>1, <1>2 DEF Registry!LeftOf

\* A member that is not taken out comes last.
LEMMA LeftOfMore ==
  ASSUME NEW S, NEW s \in Seq(S), NEW t, NEW n \in Nat, Registry!LeftOf(s, t, n),
         t[n + 1] \in S
  PROVE  Registry!LeftOf(Append(s, t[n + 1]), t, n + 1)
<1> DEFINE e == Append(s, t[n + 1])
<1>1. PICK at \in [DOMAIN s -> 1..n] :
        /\ \A i \in DOMAIN s : s[i] = t[at[i]]
        /\ \A i, j \in DOMAIN s : i < j => at[i] < at[j]
  BY DEF Registry!LeftOf
<1>2. /\ Len(s) \in Nat /\ DOMAIN s = 1..Len(s) /\ DOMAIN e = 1..(Len(s) + 1)
      /\ e[Len(s) + 1] = t[n + 1] /\ \A i \in 1..Len(s) : e[i] = s[i]
  OBVIOUS
<1> DEFINE more == [i \in DOMAIN e |-> IF i = Len(s) + 1 THEN n + 1 ELSE at[i]]
<1>3. \A i \in DOMAIN e :
        /\ i = Len(s) + 1 => more[i] = n + 1
        /\ i # Len(s) + 1 => i \in DOMAIN s /\ more[i] = at[i] /\ at[i] \in 1..n
  BY <1>1, <1>2
<1>4. more \in [DOMAIN e -> 1..(n + 1)]
  <2>1. \A i \in DOMAIN e : more[i] \in 1..(n + 1)
    BY <1>3
  <2> QED BY <2>1
<1>5. \A i \in DOMAIN e : e[i] = t[more[i]]
  BY <1>1, <1>2, <1>3
<1>6. \A i, j \in DOMAIN e : i < j => more[i] < more[j]
  BY <1>1, <1>2, <1>3
<1> HIDE DEF more, e
<1>7. Registry!LeftOf(e, t, n + 1)
  BY <1>4, <1>5, <1>6 DEF Registry!LeftOf
<1> QED BY <1>7 DEF e

\* What is left of a list has no other members than the list.
LEMMA LeftOfRange ==
  ASSUME NEW S, NEW s, NEW t \in Seq(S), Registry!LeftOf(s, t, Len(t))
  PROVE  Range(s) \subseteq Range(t)
<1>1. PICK at \in [DOMAIN s -> 1..Len(t)] : \A i \in DOMAIN s : s[i] = t[at[i]]
  BY DEF Registry!LeftOf
<1>2. DOMAIN t = 1..Len(t)
  OBVIOUS
<1> QED BY <1>1, <1>2 DEF Range

\* Only the pruner changes what it has kept, and only the holder of the lock
\* the registry.
LEMMA PrunerWorks ==
  ASSUME TypeOK, PruneAlone, [Next]_vars
  PROVE  /\ \/ Prune
            \/ UNCHANGED <<todo, kept>> /\ pc'[Pruner] = pc[Pruner]
         /\ \/ UNCHANGED backends
            \/ PruneStore
            \/ pc[Pruner] # "pruning" /\ \E g \in Gateways : Register(g)
         /\ slow' >= slow
<1> USE ThreadsOfKinds, KindsApart
<1>1. ASSUME NEW g \in Gateways, StartGateway(g) \/ StopGateway(g) \/ Registration(g)
      PROVE  UNCHANGED <<todo, kept, slow>> /\ pc'[Pruner] = pc[Pruner]
  BY <1>1 DEF StartGateway, StopGateway, Registration, RegisterAsk, RegisterLock, Register,
              Goto, TypeOK
<1>2. ASSUME NEW g \in Gateways, StartGateway(g) \/ StopGateway(g) \/ Registration(g)
      PROVE  UNCHANGED backends \/ (Register(g) /\ pc[Pruner] # "pruning")
  BY <1>2 DEF StartGateway, StopGateway, Registration, RegisterAsk, RegisterLock, Register,
              PruneAlone, Mutex!Unlock
<1>3. ASSUME NEW p \in Proxies, ProxyLock(p) \/ Proxy(p)
      PROVE  UNCHANGED <<backends, todo, kept>> /\ pc'[Pruner] = pc[Pruner] /\ slow' >= slow
  BY <1>3
  DEF ProxyLock, Proxy, ProxyRefuse, ProxyEnter, NextLock, NextBackend, ProxyCheck,
      Forward, ForwardFails, ProxyGiveUp, Leave, HealthCheck, Goto, TypeOK
<1>4. ASSUME NEW s \in Scrapers, ScrapeLock(s) \/ Scrape(s)
      PROVE  UNCHANGED <<backends, todo, kept, slow>> /\ pc'[Pruner] = pc[Pruner]
  BY <1>4 DEF ScrapeLock, Scrape, Goto, TypeOK
<1>5. CASE Prune
  <2>1. UNCHANGED backends \/ PruneStore
    BY <1>5 DEF Prune, PruneAsk, PruneLock, PruneCheck
  <2>2. slow' >= slow
    BY <1>5 DEF Prune, PruneAsk, PruneLock, PruneCheck, PruneStore, HealthCheck, TypeOK
  <2> QED BY <1>5, <2>1, <2>2
<1>6. CASE UNCHANGED vars
  BY <1>6 DEF vars, TypeOK
<1> QED BY <1>1, <1>2, <1>3, <1>4, <1>5, <1>6 DEF Next, TypeOK

\* Gateways come up once, and register only then.
LEMMA StartedStep ==
  TypeOK /\ PruneAlone /\ PruneInOrder /\ Started /\ [Next]_vars => Started'
<1> SUFFICES ASSUME TypeOK, PruneAlone, PruneInOrder, Started, [Next]_vars PROVE Started'
  OBVIOUS
<1> USE ThreadsOfKinds, KindsApart DEF Started
<1>1. \A g \in Gateways : alive'[g] = "off" => alive[g] = "off"
  <2>1. ASSUME NEW g \in Gateways, StartGateway(g) \/ StopGateway(g)
        PROVE  \A f \in Gateways : alive'[f] = "off" => alive[f] = "off"
    BY <2>1 DEF StartGateway, StopGateway, TypeOK
  <2>2. (\E g \in Gateways : StartGateway(g) \/ StopGateway(g)) \/ UNCHANGED alive
    BY DEF Next, Registration, RegisterAsk, RegisterLock, Register,
           Prune, PruneAsk, PruneLock, PruneCheck, PruneStore,
           ProxyLock, Proxy, ProxyRefuse, ProxyEnter, NextLock, NextBackend, ProxyCheck,
           Forward, ForwardFails, ProxyGiveUp, ScrapeLock, Scrape, vars
  <2> QED BY <2>1, <2>2
<1>2. ASSUME NEW g \in Gateways, alive'[g] = "off" PROVE pc'[g] = "idle"
  <2>1. alive[g] = "off" /\ pc[g] = "idle"
    BY <1>1, <1>2
  <2>2. ASSUME NEW f \in Gateways, StartGateway(f) \/ StopGateway(f) \/ Registration(f)
        PROVE  pc'[g] = pc[g]
    BY <1>2, <2>1, <2>2
    DEF StartGateway, StopGateway, Registration, RegisterAsk, RegisterLock, Register,
        Goto, TypeOK
  <2>3. ASSUME NEW p \in Proxies, ProxyLock(p) \/ Proxy(p) PROVE pc'[g] = pc[g]
    BY <2>3
    DEF ProxyLock, Proxy, ProxyRefuse, ProxyEnter, NextLock, NextBackend, ProxyCheck,
        Forward, ForwardFails, ProxyGiveUp, Leave, Goto, TypeOK
  <2>4. ASSUME NEW s \in Scrapers, ScrapeLock(s) \/ Scrape(s) PROVE pc'[g] = pc[g]
    BY <2>4, BalancerAssumption DEF ScrapeLock, Scrape, Goto, TypeOK
  <2>5. CASE Prune
    BY <2>1, <2>5 DEF Prune, PruneAsk, PruneLock, PruneCheck, PruneStore, Goto, TypeOK
  <2> QED BY <2>1, <2>2, <2>3, <2>4, <2>5 DEF Next, vars
<1>3. ASSUME NEW g \in Gateways, alive'[g] = "off" PROVE g \notin Range(backends')
  <2>1. alive[g] = "off" /\ pc[g] = "idle" /\ g \notin Range(backends)
    BY <1>1, <1>3
  <2>2. ASSUME NEW f \in Gateways, Register(f) PROVE g \notin Range(backends')
    <3>1. g # f
      BY <2>1, <2>2 DEF Register
    <3>2. Range(Append(backends, f)) = Range(backends) \cup {f}
      BY RangeAppend DEF TypeOK
    <3> QED BY <2>1, <2>2, <3>1, <3>2 DEF Register, WithBackend
  <2>3. CASE PruneStore
    <3>1. Registry!LeftOf(kept, backends, Len(backends)) /\ backends' = kept
      BY <2>3 DEF PruneStore, PruneInOrder, Checked, TypeOK
    <3> QED BY <2>1, <3>1, LeftOfRange DEF TypeOK
  <2> QED BY <2>1, <2>2, <2>3, PrunerWorks
<1> QED BY <1>2, <1>3

\* The pruner goes through the registry from the front; meanwhile no
\* gateway it has dropped comes up.
LEMMA InOrderStep ==
  TypeOK /\ PruneAlone /\ PruneInOrder /\ Started /\ [Next]_vars => PruneInOrder'
<1> SUFFICES ASSUME TypeOK, PruneAlone, PruneInOrder, Started, [Next]_vars,
                    pc'[Pruner] = "pruning"
             PROVE  PruneInOrder'
  BY DEF PruneInOrder
<1> USE ThreadsOfKinds, KindsApart
<1>1. CASE PruneLock
  <2>1. todo' = backends' /\ kept' = << >> /\ Len(todo') \in Nat /\ Checked' = 0
    BY <1>1 DEF PruneLock, Checked, TypeOK
  <2> QED BY <2>1, LeftOfNothing DEF PruneInOrder
<1>2. CASE PruneCheck
  <2> DEFINE h == Head(todo)
             n == Checked
  <2>1. PICK ok \in BOOLEAN : HealthCheck(h, ok) /\ kept' = IF ok THEN Append(kept, h) ELSE kept
    BY <1>2 DEF PruneCheck
  <2>2. /\ todo' = Tail(todo) /\ UNCHANGED <<backends, alive>>
        /\ pc[Pruner] = "pruning" /\ todo # << >>
    BY <1>2 DEF PruneCheck
  <2>3. /\ n \in Nat /\ Len(todo) \in Nat /\ Len(todo) > 0 /\ Len(backends) \in Nat
        /\ Len(todo') = Len(todo) - 1 /\ Checked' = n + 1
        /\ \A i \in 1..Len(todo') : todo'[i] = todo[i + 1]
        /\ h = todo[1] /\ h \in Gateways
    BY <2>2 DEF PruneInOrder, Checked, TypeOK
  <2>4. h = backends[n + 1] /\ \A i \in 1..Len(todo') : todo'[i] = backends'[Checked' + i]
    BY <2>2, <2>3 DEF PruneInOrder
  <2>5. Registry!LeftOf(kept', backends, n + 1)
    <3>1. /\ Registry!LeftOf(kept, backends, n)
          /\ kept \in Seq(Gateways) /\ backends[n + 1] \in Gateways
      BY <2>2, <2>3, <2>4 DEF PruneInOrder, TypeOK
    <3> HIDE DEF n, h
    <3>2. Registry!LeftOf(kept, backends, n + 1)
      BY <2>3, <3>1, LeftOfSkip
    <3>3. Registry!LeftOf(Append(kept, backends[n + 1]), backends, n + 1)
      BY <2>3, <3>1, LeftOfMore
    <3> QED BY <2>1, <2>4, <3>2, <3>3
  <2>6. ASSUME slow' = 0, NEW i \in 1..(n + 1), alive[backends[i]] = "up"
        PROVE  backends[i] \in Range(kept')
    <3>1. slow = 0 /\ (alive[h] = "up" => ok)
      BY <2>1, <2>6 DEF HealthCheck, TypeOK
    <3>2. Range(Append(kept, h)) = Range(kept) \cup {h}
      BY <2>3, RangeAppend DEF TypeOK
    <3>3. CASE i = n + 1
      BY <2>1, <2>4, <2>6, <3>1, <3>2, <3>3
    <3>4. CASE i \in 1..n
      BY <2>1, <2>2, <2>6, <3>1, <3>2, <3>4 DEF PruneInOrder
    <3> QED BY <2>3, <3>3, <3>4
  <2> HIDE DEF n, h
  <2> QED BY <2>2, <2>3, <2>4, <2>5, <2>6 DEF PruneInOrder
<1>3. CASE ~PruneLock /\ ~PruneCheck
  <2>1. UNCHANGED <<todo, kept>> /\ pc[Pruner] = "pruning"
    BY <1>3, PrunerWorks DEF Prune, PruneAsk, PruneStore, Goto, TypeOK
  <2>2. UNCHANGED backends
    <3>1. PruneStore => pc'[Pruner] = "idle"
      BY DEF PruneStore, Goto, TypeOK
    <3> QED BY <2>1, <3>1, PrunerWorks
  <2>3. \A g \in Gateways : alive'[g] = "up" => alive[g] = "up" \/ g \notin Range(backends)
    <3>1. ASSUME NEW g \in Gateways, StartGateway(g) \/ StopGateway(g)
          PROVE  \A f \in Gateways : alive'[f] = "up" => alive[f] = "up" \/ alive[f] = "off"
      BY <3>1 DEF StartGateway, StopGateway, TypeOK
    <3>2. (\E g \in Gateways : StartGateway(g) \/ StopGateway(g)) \/ UNCHANGED alive
      BY DEF Next, Registration, RegisterAsk, RegisterLock, Register,
             Prune, PruneAsk, PruneLock, PruneCheck, PruneStore,
             ProxyLock, Proxy, ProxyRefuse, ProxyEnter, NextLock, NextBackend, ProxyCheck,
             Forward, ForwardFails, ProxyGiveUp, ScrapeLock, Scrape, vars
    <3> QED BY <3>1, <3>2 DEF Started
  <2>4. \A i \in 1..Checked : backends[i] \in Gateways /\ backends[i] \in Range(backends)
    <3>1. DOMAIN backends = 1..Len(backends) /\ Checked <= Len(backends) /\ Len(backends) \in Nat
      BY <2>1 DEF PruneInOrder, Checked, TypeOK
    <3>2. \A i \in 1..Checked : i \in DOMAIN backends
      BY <3>1 DEF Checked, TypeOK
    <3> QED BY <3>2 DEF Range, TypeOK
  <2>5. Checked' = Checked /\ (slow' = 0 => slow = 0)
    BY <2>1, <2>2, PrunerWorks DEF Checked, TypeOK
  <2> QED BY <2>1, <2>2, <2>3, <2>4, <2>5 DEF PruneInOrder
<1> QED BY <1>1, <1>2, <1>3

-----------------------------------------------------------------------------
(* A request between whose turns no other takes one.                       *)

LEMMA ModOf ==
  ASSUME NEW n \in Nat, n > 0, NEW q \in Nat, NEW r \in 0..(n - 1)
  PROVE  (n * q + r) % n = r
  OBVIOUS

LEMMA DivMod ==
  ASSUME NEW n \in Nat, n > 0, NEW a \in Nat
  PROVE  a = n * (a \div n) + (a % n) /\ a \div n \in Nat /\ a % n \in 0..(n - 1)
  OBVIOUS

\* The registry is no longer than there are gateways.
LEMMA RegistryLength ==
  ASSUME TypeOK, NoDuplicates, backends # << >>
  PROVE  Len(backends) \in 1..Cardinality(Gateways)
<1>1. Len(backends) \in Nat /\ Len(backends) > 0 /\ DOMAIN backends = 1..Len(backends)
  BY DEF TypeOK
<1>2. IsFiniteSet(Gateways) /\ Cardinality(Gateways) \in Nat
  BY BalancerAssumption, FS_CardinalityType
<1>3. backends \in Injection(1..Len(backends), Gateways)
  <2>1. backends \in [1..Len(backends) -> Gateways]
    BY DEF TypeOK
  <2>2. \A i, j \in 1..Len(backends) : backends[i] = backends[j] => i = j
    BY <1>1 DEF NoDuplicates, IsInjective
  <2> QED BY <2>1, <2>2 DEF Injection, IsInjective
<1>4. Cardinality(1..Len(backends)) <= Cardinality(Gateways)
  BY <1>2, <1>3, FS_Injection
<1>5. Cardinality(1..Len(backends)) = Len(backends)
  BY <1>1, FS_Interval
<1> QED BY <1>1, <1>2, <1>4, <1>5

\* The bound on the counter changes no index.
LEMMA TurnShift ==
  ASSUME TypeOK, NoDuplicates, backends # << >>, NEW j \in Nat
  PROVE  BackendAt(((current + 1) % CounterMod) + j) = BackendAt(current + (j + 1))
<1> DEFINE n == Len(backends)
<1>1. n \in 1..Cardinality(Gateways) /\ n \in Nat /\ n > 0
  BY RegistryLength DEF TypeOK
<1>2. CounterMod \in Nat /\ CounterMod > 0 /\ current \in Nat /\ current + 1 <= CounterMod
  BY BalancerAssumption DEF TypeOK
<1>3. CASE current + 1 < CounterMod
  <2>1. (current + 1) % CounterMod = current + 1
    BY <1>2, <1>3
  <2> QED BY <1>2, <2>1
<1>4. CASE current + 1 = CounterMod
  <2>1. (current + 1) % CounterMod = 0
    BY <1>2, <1>4
  <2>2. PICK k \in 1..CounterMod : CounterMod = n * k
    BY <1>1, BalancerAssumption
  <2>3. /\ j = n * (j \div n) + (j % n) /\ j \div n \in Nat /\ j % n \in 0..(n - 1)
        /\ k \in Nat
    BY <1>1, DivMod
  <2> HIDE DEF n
  <2>4. n * k + j = n * (k + (j \div n)) + (j % n)
    BY <1>1, <2>3
  <2>5. (n * k + j) % n = j % n
    <3>1. k + (j \div n) \in Nat
      BY <2>3
    <3>2. (n * (k + (j \div n)) + (j % n)) % n = j % n
      BY <1>1, <2>3, <3>1, ModOf
    <3> QED BY <2>4, <3>2
  <2>6. current + (j + 1) = n * k + j
    BY <1>2, <1>4, <2>2
  <2> QED BY <2>1, <2>5, <2>6 DEF BackendAt, n
<1> QED BY <1>2, <1>3, <1>4

\* As many turns as there are backends meet every one of them.
LEMMA RoundTrip ==
  ASSUME TypeOK, backends # << >>
  PROVE  Range(backends) \subseteq {BackendAt(current + j) : j \in 1..Len(backends)}
<1> DEFINE n == Len(backends)
           r == current % n
<1>1. n \in Nat /\ n > 0 /\ current \in Nat /\ DOMAIN backends = 1..n
  BY BalancerAssumption DEF TypeOK
<1>2. current = n * (current \div n) + r /\ current \div n \in Nat /\ r \in 0..(n - 1)
  BY <1>1, DivMod
<1>3. ASSUME NEW i \in 1..n
      PROVE  \E j \in 1..n : backends[i] = BackendAt(current + j)
  <2> HIDE DEF n, r
  <2>1. i - 1 \in 0..(n - 1)
    BY <1>1
  <2>2. CASE i - 1 > r
    <3>1. (i - 1) - r \in 1..n
      BY <1>1, <1>2, <2>2
    <3>2. current + ((i - 1) - r) = n * (current \div n) + (i - 1)
      BY <1>1, <1>2, <2>2
    <3>3. (current + ((i - 1) - r)) % n = i - 1
      <4>1. (n * (current \div n) + (i - 1)) % n = i - 1
        BY <1>1, <1>2, <2>1, ModOf
      <4> QED BY <3>2, <4>1
    <3> QED BY <1>1, <3>1, <3>3 DEF BackendAt, n
  <2>3. CASE ~(i - 1 > r)
    <3>1. ((i - 1) + n) - r \in 1..n
      BY <1>1, <1>2, <2>3
    <3>2. current + (((i - 1) + n) - r) = n * ((current \div n) + 1) + (i - 1)
      BY <1>1, <1>2, <2>3
    <3>3. (current + (((i - 1) + n) - r)) % n = i - 1
      <4>1. (current \div n) + 1 \in Nat
        BY <1>2
      <4>2. (n * ((current \div n) + 1) + (i - 1)) % n = i - 1
        BY <1>1, <2>1, <4>1, ModOf
      <4> QED BY <3>2, <4>2
    <3> QED BY <1>1, <3>1, <3>3 DEF BackendAt, n
  <2> QED BY <2>2, <2>3
<1> QED BY <1>1, <1>3 DEF Range

\* The part of TurnsSuffice about p.
Suffices(p) ==
  /\ pc[p] # "idle" => answer[p] = "none"
  /\ pc[p] \in {"looping", "choosing", "checking", "forwarding"} /\ p \notin mixed
       => untried[p] \subseteq ToTry(p)

Lone(p) == answer[p] = "allUnhealthy" /\ p \notin mixed => untried[p] = {}

\* Nobody writes the registry while a request is in its loop.
LEMMA LoopKeepsRegistry ==
  ASSUME TypeOK, ReadLocks, NEW t \in Threads, Mutex!Unlock(t), NEW p \in Proxies
  PROVE  pc[p] \notin {"looping", "choosing", "checking", "forwarding"}
<1>1. rw.readers[p] = 0
  BY ThreadsOfKinds DEF Mutex!Unlock, ReadLocks
<1> QED BY <1>1 DEF ReadLocks

\* A step that leaves p and its turns alone leaves it with enough turns.
LEMMA OtherStep ==
  ASSUME NEW p \in Proxies, Suffices(p), Lone(p),
         UNCHANGED <<current, pc[p], tries[p], target[p], answer[p], untried[p]>>,
         p \in mixed <=> p \in mixed',
         \/ UNCHANGED backends
         \/ pc[p] \notin {"looping", "choosing", "checking", "forwarding"}
  PROVE  Suffices(p)' /\ Lone(p)'
<1>1. UNCHANGED backends => ToTry(p)' = ToTry(p)
  BY DEF ToTry, BackendAt
<1> QED BY <1>1 DEF Suffices, Lone

\* Steps of gateways, of the pruner and of scrapes.
LEMMA SufficesWriters ==
  ASSUME TypeOK, ReadLocks, NEW p \in Proxies, Suffices(p), Lone(p),
         \/ \E g \in Gateways : StartGateway(g) \/ StopGateway(g) \/ Registration(g)
         \/ Prune \/ UNCHANGED vars
         \/ \E s \in Scrapers : ScrapeLock(s) \/ Scrape(s)
  PROVE  Suffices(p)' /\ Lone(p)'
<1> USE ThreadsOfKinds, KindsApart
<1>1. UNCHANGED <<current, target, answer, untried, mixed, tries[p], pc[p]>>
  BY DEF StartGateway, StopGateway, Registration, RegisterAsk, RegisterLock, Register,
         Prune, PruneAsk, PruneLock, PruneCheck, PruneStore,
         ScrapeLock, Scrape, Goto, TypeOK, vars
<1>2. \/ UNCHANGED backends
      \/ pc[p] \notin {"looping", "choosing", "checking", "forwarding"}
  BY LoopKeepsRegistry
     DEF StartGateway, StopGateway, Registration, RegisterAsk, RegisterLock, Register,
         Prune, PruneAsk, PruneLock, PruneCheck, PruneStore, ScrapeLock, Scrape, vars
<1> QED BY <1>1, <1>2, OtherStep

\* Steps of other requests, whose turns are noticed.
LEMMA SufficesOthers ==
  ASSUME TypeOK, NEW p \in Proxies, Suffices(p), Lone(p),
         NEW q \in Proxies, q # p, ProxyLock(q) \/ Proxy(q)
  PROVE  Suffices(p)' /\ Lone(p)'
<1> USE ThreadsOfKinds, KindsApart
<1>1. UNCHANGED <<backends, pc[p], tries[p], target[p], answer[p], untried[p]>>
  BY DEF ProxyLock, Proxy, ProxyRefuse, ProxyEnter, NextLock, NextBackend, ProxyCheck,
         Forward, ForwardFails, ProxyGiveUp, Leave, Goto, TypeOK
<1>2. CASE NextBackend(q)
  <2>1. mixed' = mixed \cup {o \in Proxies \ {q} : pc[o] \notin {"idle", "entering"}}
    BY <1>2 DEF NextBackend, TurnBetween
  <2>2. pc[p] \in {"looping", "choosing", "checking", "forwarding"} => p \in mixed'
    BY <2>1
  <2> QED BY <1>1, <2>1, <2>2 DEF Suffices, Lone
<1>3. CASE ~NextBackend(q)
  <2>1. UNCHANGED current /\ (p \in mixed <=> p \in mixed')
    BY <1>3 DEF ProxyLock, Proxy, ProxyRefuse, ProxyEnter, NextLock, ProxyCheck,
                Forward, ForwardFails, ProxyGiveUp
  <2> QED BY <1>1, <2>1, OtherStep
<1> QED BY <1>2, <1>3

\* Steps of the request itself.
LEMMA SufficesOwn ==
  ASSUME TypeOK, ReadLocks, NoDuplicates,
         NEW p \in Proxies, Suffices(p), Lone(p), ProxyLock(p) \/ Proxy(p)
  PROVE  Suffices(p)' /\ Lone(p)'
<1> USE ThreadsOfKinds DEF Suffices, Lone
<1>1. CASE ProxyLock(p)
  <2>1. pc'[p] = "entering" /\ answer'[p] = "none"
    BY <1>1 DEF ProxyLock, Goto, TypeOK
  <2> QED BY <2>1
<1>2. CASE ProxyRefuse(p) \/ Forward(p)
  <2>1. pc'[p] = "idle" /\ answer'[p] # "allUnhealthy"
    BY <1>2 DEF ProxyRefuse, Forward, Leave, Goto, TypeOK
  <2> QED BY <2>1
<1>3. CASE ProxyEnter(p)
  <2>1. /\ pc[p] = "entering" /\ pc'[p] = "looping" /\ answer' = answer /\ backends # << >>
        /\ UNCHANGED <<backends, current>> /\ tries'[p] = Len(backends)
        /\ untried'[p] = Range(backends)
    BY <1>3 DEF ProxyEnter, Goto, TypeOK
  <2>2. ToTry(p)' = {BackendAt(current + j) : j \in 1..Len(backends)}
    BY <2>1 DEF ToTry, BackendAt
  <2> QED BY <2>1, <2>2, RoundTrip
<1>4. CASE NextLock(p)
  <2>1. /\ pc[p] = "looping" /\ pc'[p] = "choosing"
        /\ UNCHANGED <<backends, current, tries, target, answer, untried, mixed>>
    BY <1>4 DEF NextLock, Goto, TypeOK
  <2>2. ToTry(p)' = ToTry(p)
    BY <2>1 DEF ToTry, BackendAt
  <2> QED BY <2>1, <2>2
<1>5. CASE NextBackend(p)
  <2>1. pc[p] = "choosing" /\ backends # << >> /\ tries[p] > 0 /\ tries[p] \in Nat
    BY <1>5 DEF NextBackend, ReadLocks, TypeOK
  <2>2. /\ pc'[p] = "checking" /\ target'[p] = BackendAt(current') /\ tries'[p] = tries[p] - 1
        /\ UNCHANGED <<backends, answer, untried>>
        /\ current' = (current + 1) % CounterMod
        /\ p \notin mixed' => p \notin mixed
    BY <1>5, <2>1 DEF NextBackend, TurnBetween, Goto, TypeOK
  <2>3. current \in Nat /\ current' \in Nat
    <3>1. current \in Nat /\ CounterMod \in Nat /\ CounterMod > 0
      BY BalancerAssumption DEF TypeOK
    <3> QED BY <2>2, <3>1
  <2>4. ASSUME NEW i \in 1..tries[p] PROVE BackendAt(current + i) \in ToTry(p)'
    <3>1. i - 1 \in Nat /\ current + ((i - 1) + 1) = current + i
      BY <2>1, <2>3
    <3>2. BackendAt(current + i) = BackendAt(current' + (i - 1))
      BY <2>1, <2>2, <3>1, TurnShift
    <3>3. CASE i = 1
      <4>1. current' + (i - 1) = current'
        <5>1. i - 1 = 0
          BY <3>3
        <5>2. \A n \in Nat : n + 0 = n
          OBVIOUS
        <5> QED BY <2>3, <5>1, <5>2
      <4> QED BY <2>2, <3>2, <4>1 DEF ToTry
    <3>4. CASE i # 1
      <4>1. i - 1 \in 1..tries'[p]
        BY <2>1, <2>2, <3>4
      <4> QED BY <2>2, <3>2, <4>1 DEF ToTry, BackendAt
    <3> QED BY <3>3, <3>4
  <2>5. p \notin mixed => untried[p] \subseteq {BackendAt(current + i) : i \in 1..tries[p]}
    BY <2>1 DEF ToTry
  <2> QED BY <2>1, <2>2, <2>4, <2>5
<1>6. CASE ProxyCheck(p)
  <2>1. /\ pc[p] = "checking" /\ pc'[p] \in {"forwarding", "looping"}
        /\ UNCHANGED <<backends, current, tries, answer, mixed>>
        /\ untried'[p] = untried[p] \ {target[p]}
    BY <1>6 DEF ProxyCheck, Goto, TypeOK
  <2>2. ToTry(p) = {BackendAt(current + j) : j \in 1..tries[p]} \cup {target[p]}
    BY <2>1 DEF ToTry
  <2>3. ToTry(p)' = {BackendAt(current + j) : j \in 1..tries[p]}
    BY <2>1 DEF ToTry, BackendAt
  <2> QED BY <2>1, <2>2, <2>3
<1>7. CASE ForwardFails(p)
  <2>1. /\ pc[p] = "forwarding" /\ pc'[p] = "looping"
        /\ UNCHANGED <<backends, current, tries, answer, untried, mixed>>
    BY <1>7 DEF ForwardFails, Goto, TypeOK
  <2>2. ToTry(p)' = ToTry(p)
    BY <2>1 DEF ToTry, BackendAt
  <2> QED BY <2>1, <2>2
<1>8. CASE ProxyGiveUp(p)
  <2>1. /\ pc[p] = "looping" /\ tries[p] = 0 /\ pc'[p] = "idle"
        /\ UNCHANGED <<untried, mixed>>
    BY <1>8 DEF ProxyGiveUp, Leave, Goto, TypeOK
  <2>2. ToTry(p) = {}
    BY <2>1 DEF ToTry
  <2> QED BY <2>1, <2>2
<1> QED BY <1>1, <1>2, <1>3, <1>4, <1>5, <1>6, <1>7, <1>8 DEF Proxy

LEMMA TurnsStep ==
  ASSUME TypeOK, ReadLocks, NoDuplicates, TurnsSuffice, LoneRequestTriesAll, [Next]_vars
  PROVE  TurnsSuffice' /\ LoneRequestTriesAll'
<1>1. ASSUME NEW p \in Proxies PROVE Suffices(p)' /\ Lone(p)'
  <2>1. Suffices(p) /\ Lone(p)
    BY DEF TurnsSuffice, LoneRequestTriesAll, Suffices, Lone
  <2> QED BY <2>1, SufficesWriters, SufficesOthers, SufficesOwn DEF Next
<1> QED BY <1>1 DEF TurnsSuffice, LoneRequestTriesAll, Suffices, Lone

-----------------------------------------------------------------------------
\* The invariant that the theorems below rest on holds in every state.
THEOREM BalancerInvariant == Spec => []BalancerInv
<1>1. Init => BalancerInv
  BY ThreadsOfKinds, BalancerAssumption
     DEF Init, BalancerInv, TypeOK, ReadLocks, PruneSplits, PruneAlone, PruneInOrder, Started,
         NoDuplicates, RegisteredStay, TargetRegistered, TurnsSuffice, LoneRequestTriesAll,
         Mutex!RWMutexInit, Mutex!RWMutexType, Mutex!Blocked, IsInjective, Range
<1>2. BalancerInv /\ [Next]_vars => BalancerInv'
  BY TypeStep, ReadLocksStep, RegistryStep, StayStep, TargetStep, InOrderStep, StartedStep,
     TurnsStep
  DEF BalancerInv
<1> QED BY <1>1, <1>2, PTL DEF Spec

\* What the registry, the mutex and the goroutines hold are values of their types.
THEOREM BalancerTypeCorrect == Spec => []TypeOK
<1>1. BalancerInv => TypeOK
  BY DEF BalancerInv
<1> QED BY <1>1, BalancerInvariant, PTL

\* The list the pruner stores has lost no registration and no live gateway
\* whose checks are answered in time.
THEOREM RegisteredKept == Spec => []RegisteredStay
<1>1. BalancerInv => RegisteredStay
  BY DEF BalancerInv
<1> QED BY <1>1, BalancerInvariant, PTL

\* The registry holds each gateway once, whatever registrations are repeated
\* and however they meet the pruner.
THEOREM RegistryWithoutDuplicates == Spec => []NoDuplicates
<1>1. BalancerInv => NoDuplicates
  BY DEF BalancerInv
<1> QED BY <1>1, BalancerInvariant, PTL

\* proxyHandler checks and forwards to registered backends only: the pruner
\* cannot take a backend away between its choice and the answer.
THEOREM TargetsRegistered == Spec => []TargetRegistered
<1>1. BalancerInv => TargetRegistered
  BY DEF BalancerInv
<1> QED BY <1>1, BalancerInvariant, PTL

\* A request that says all backends are unhealthy has checked each of those it
\* found, whatever became of its checks and of what it sent, unless another
\* request took a turn between its own.
THEOREM LoneRequestsTryAll == Spec => []LoneRequestTriesAll
<1>1. BalancerInv => LoneRequestTriesAll
  BY DEF BalancerInv
<1> QED BY <1>1, BalancerInvariant, PTL

-----------------------------------------------------------------------------
(* The deadlock of the two read locks.                                     *)

\* Steps of other readers leave a stuck request stuck, and let nobody in.
LEMMA StuckReaders ==
  ASSUME rw \in Mutex!RWMutexType, NEW p \in Threads, NEW t \in Threads, Stuck(p),
         UNCHANGED rw \/ Mutex!RLock(t) \/ (Mutex!RUnlock(t) /\ t # p)
  PROVE  Stuck(p)' /\ \A u \in Threads : rw'.readers[u] <= rw.readers[u]
<1> USE DEF Stuck, Mutex!Blocked
<1>0. \A u \in Threads : rw.readers[u] \in Nat
  BY DEF Mutex!RWMutexType
<1>1. CASE UNCHANGED rw
  BY <1>0, <1>1
<1>2. CASE Mutex!RLock(t)
  BY <1>0, <1>2 DEF Mutex!RLock, Mutex!RWMutexType
<1>3. CASE Mutex!RUnlock(t) /\ t # p
  BY <1>0, <1>3, RUnlockFacts
<1> QED BY <1>1, <1>2, <1>3

\* A stuck request stops every writer, and waits for one itself.
LEMMA StuckStep ==
  ASSUME TypeOK, ReadLocks, [Next]_vars, NEW p \in Proxies, Stuck(p)
  PROVE  /\ Stuck(p)' /\ UNCHANGED backends
         /\ \A t \in Threads : rw'.readers[t] <= rw.readers[t]
<1> USE ThreadsOfKinds, KindsApart
<1>1. /\ rw \in Mutex!RWMutexType /\ rw.writer # NoThread /\ ~rw.held
      /\ Mutex!Blocked(p) /\ rw.readers[p] > 0
  <2>1. rw.readers[p] > 0 => rw.readers[p] # 0
    OBVIOUS
  <2> QED BY <2>1 DEF Stuck, TypeOK, ReadLocks
<1>2. pc[p] \notin {"idle", "entering", "looping", "checking", "forwarding"}
  <2>1. rw.readers[p] # 0
    BY <1>1
  <2> QED BY <1>1, <2>1 DEF ReadLocks
<1>3. \A t \in Threads : ~Mutex!AskLock(t) /\ ~Mutex!GetLock(t) /\ ~Mutex!Unlock(t)
  <2>1. rw.readers[p] # 0
    BY <1>1
  <2> QED BY <1>1, <2>1 DEF Mutex!AskLock, Mutex!GetLock, Mutex!Unlock
<1>4. ASSUME NEW g \in Gateways, StartGateway(g) \/ StopGateway(g) \/ Registration(g)
      PROVE  UNCHANGED <<backends, rw>>
  BY <1>3, <1>4 DEF StartGateway, StopGateway, Registration, RegisterAsk, RegisterLock, Register
<1>5. CASE Prune
  <2>1. UNCHANGED <<backends, rw>>
    BY <1>3, <1>5 DEF Prune, PruneAsk, PruneLock, PruneCheck, PruneStore
  <2> QED BY <1>1, <2>1, StuckReaders
<1>6. ASSUME NEW q \in Proxies, ProxyLock(q) \/ Proxy(q)
      PROVE  UNCHANGED backends /\ (UNCHANGED rw \/ Mutex!RLock(q) \/ (Mutex!RUnlock(q) /\ q # p))
  <2>1. q # p
    BY <1>1, <1>2, <1>6
    DEF ProxyLock, Proxy, ProxyRefuse, ProxyEnter, NextLock, NextBackend, ProxyCheck,
        Forward, ForwardFails, ProxyGiveUp
  <2> QED
    BY <1>6, <2>1
    DEF ProxyLock, Proxy, ProxyRefuse, ProxyEnter, NextLock, NextBackend, ProxyCheck,
        Forward, ForwardFails, ProxyGiveUp, Leave
<1>7. ASSUME NEW s \in Scrapers, ScrapeLock(s) \/ Scrape(s)
      PROVE  UNCHANGED backends /\ (Mutex!RLock(s) \/ (Mutex!RUnlock(s) /\ s # p))
  BY <1>7 DEF ScrapeLock, Scrape
<1>8. CASE UNCHANGED vars
  BY <1>1, <1>8, StuckReaders DEF vars
<1> QED BY <1>1, <1>4, <1>5, <1>6, <1>7, <1>8, StuckReaders DEF Next

\* A request that a writer catches between its read locks (load_balancer.go:23)
\* stays there, and the registry as it is, whatever anybody does.
THEOREM StuckIsFinal == Spec => StuckForGood
<1>1. BalancerInv /\ [Next]_vars =>
        [\A p \in Proxies : Stuck(p) =>
           /\ Stuck(p)' /\ UNCHANGED backends
           /\ \A t \in Threads : rw'.readers[t] <= rw.readers[t]]_vars
  BY StuckStep DEF BalancerInv
<1> QED BY <1>1, BalancerInvariant, PTL DEF Spec, StuckForGood

-----------------------------------------------------------------------------
(* The two read locks are the only deadlock.                               *)

\* A handler that takes a read lock, gives one up or goes on is no writer.
LEMMA ReadersInPlace ==
  ASSUME TypeOK, WriterInPlace, NEW t \in Proxies \cup Scrapers, NEW l, Goto(t, l),
         t \in Scrapers => l \in {"idle", "scraping"},
         t \in Proxies =>
           l \in {"idle", "entering", "looping", "choosing", "checking", "forwarding"},
         UNCHANGED rw \/ Mutex!RLock(t) \/ Mutex!RUnlock(t)
  PROVE  WriterInPlace'
<1> USE ThreadsOfKinds, KindsApart
<1>1. t \in Threads /\ t \notin Gateways /\ t # Pruner /\ (t \in Proxies => t \notin Scrapers)
  BY BalancerAssumption
<1>2. \A u \in Threads : u # t => pc'[u] = pc[u]
  BY <1>1 DEF Goto, TypeOK
<1>3. pc'[t] = l
  BY <1>1 DEF Goto, TypeOK
<1>4. /\ rw'.writer = rw.writer /\ rw'.held = rw.held
      /\ \A u \in Threads : u # t => rw'.readers[u] = rw.readers[u]
  BY <1>1, RLockFacts, RUnlockFacts DEF TypeOK
<1>5. rw'.blocked \subseteq IF rw'.writer = NoThread THEN {} ELSE Proxies \cup Scrapers
  <2>1. UNCHANGED rw \/ Mutex!RUnlock(t) => rw'.blocked = rw.blocked
    BY <1>1, RUnlockFacts DEF TypeOK
  <2>2. Mutex!RLock(t) =>
          rw'.blocked = IF rw.writer = NoThread THEN rw.blocked ELSE rw.blocked \cup {t}
    BY DEF Mutex!RLock, Mutex!RWMutexType, TypeOK
  <2> QED BY <1>4, <2>1, <2>2 DEF WriterInPlace
<1>6. rw.writer # NoThread => rw.writer \in Threads /\ rw.writer # t
  BY <1>1 DEF WriterInPlace
<1>7. \A s \in Scrapers : pc'[s] \in {"idle", "scraping"}
  BY <1>2, <1>3 DEF WriterInPlace
<1>8. \A p \in Proxies :
        pc'[p] \in {"idle", "entering", "looping", "choosing", "checking", "forwarding"}
  BY <1>2, <1>3 DEF WriterInPlace
<1>9. \A u \in Gateways \cup {Pruner} : rw'.readers[u] = 0
  BY <1>1, <1>4 DEF WriterInPlace
<1>10. rw'.writer # NoThread =>
         /\ rw'.writer \in Gateways \cup {Pruner}
         /\ pc'[rw'.writer] \in IF rw'.held THEN {"registering", "pruning"} ELSE {"asking"}
  BY <1>2, <1>4, <1>6 DEF WriterInPlace
<1> QED BY <1>5, <1>7, <1>8, <1>9, <1>10 DEF WriterInPlace

\* A writer asks, gets the lock and gives it up where the invariant says.
LEMMA WritersInPlace ==
  ASSUME TypeOK, ReadLocks, WriterInPlace, NEW t \in Gateways \cup {Pruner}, NEW l,
         \/ Mutex!AskLock(t) /\ l = "asking"
         \/ Mutex!GetLock(t) /\ l \in {"registering", "pruning"}
         \/ Mutex!Unlock(t)
         \/ UNCHANGED rw /\ rw.writer # t,
         Goto(t, l)
  PROVE  WriterInPlace'
<1> USE ThreadsOfKinds, KindsApart
<1>1. t \in Threads /\ t \notin Proxies /\ t \notin Scrapers /\ t # NoThread
  BY BalancerAssumption
<1>2. (\A u \in Threads : u # t => pc'[u] = pc[u]) /\ pc'[t] = l
  BY <1>1 DEF Goto, TypeOK
<1>3. /\ \A s \in Scrapers : pc'[s] \in {"idle", "scraping"}
      /\ \A p \in Proxies :
           pc'[p] \in {"idle", "entering", "looping", "choosing", "checking", "forwarding"}
  BY <1>1, <1>2 DEF WriterInPlace
<1>4. CASE Mutex!AskLock(t) /\ l = "asking"
  <2>1. rw.writer = NoThread /\ ~rw.held
    BY <1>4 DEF Mutex!AskLock, ReadLocks
  <2>2. rw'.writer = t /\ rw'.held = rw.held /\ rw'.readers = rw.readers /\ rw'.blocked = rw.blocked
    BY <1>4 DEF Mutex!AskLock, Mutex!RWMutexType, TypeOK
  <2> QED BY <1>1, <1>2, <1>3, <1>4, <2>1, <2>2 DEF WriterInPlace
<1>5. CASE Mutex!GetLock(t) /\ l \in {"registering", "pruning"}
  <2>1. rw'.writer = rw.writer /\ rw.writer = t /\ rw'.held
        /\ rw'.readers = rw.readers /\ rw'.blocked = rw.blocked
    BY <1>5 DEF Mutex!GetLock, Mutex!RWMutexType, TypeOK
  <2> QED BY <1>1, <1>2, <1>3, <1>5, <2>1 DEF WriterInPlace
<1>6. CASE Mutex!Unlock(t)
  <2>1. rw'.writer = NoThread /\ rw'.blocked = {}
        /\ \A u \in Threads : u \notin rw.blocked => rw'.readers[u] = rw.readers[u]
    BY <1>6 DEF Mutex!Unlock
  <2>2. \A u \in Gateways \cup {Pruner} : u \notin rw.blocked
    BY BalancerAssumption DEF WriterInPlace
  <2>3. \A u \in Gateways \cup {Pruner} : rw'.readers[u] = 0
    BY <2>1, <2>2 DEF WriterInPlace
  <2> QED BY <1>3, <2>1, <2>3 DEF WriterInPlace
<1>7. CASE UNCHANGED rw /\ rw.writer # t
  <2>1. rw.writer # NoThread => rw.writer \in Threads
    BY DEF WriterInPlace
  <2> QED BY <1>2, <1>3, <1>7, <2>1 DEF WriterInPlace
<1> QED BY <1>4, <1>5, <1>6, <1>7

\* Every step keeps the writer in its place.
LEMMA WriterStep ==
  TypeOK /\ ReadLocks /\ Started /\ WriterInPlace /\ [Next]_vars => WriterInPlace'
<1> SUFFICES ASSUME TypeOK, ReadLocks, Started, WriterInPlace, [Next]_vars
             PROVE  WriterInPlace'
  OBVIOUS
<1> USE ThreadsOfKinds, KindsApart
<1>1. ASSUME NEW g \in Gateways, StartGateway(g) PROVE WriterInPlace'
  <2>1. rw.writer # g
    <3>1. pc[g] = "idle"
      BY <1>1 DEF StartGateway, Started
    <3>2. g # NoThread
      OBVIOUS
    <3> QED BY <3>1, <3>2 DEF WriterInPlace
  <2> QED BY <1>1, <2>1, WritersInPlace DEF StartGateway
<1>2. CASE UNCHANGED <<rw, pc>>
  BY <1>2 DEF WriterInPlace
<1>3. ASSUME NEW g \in Gateways, Registration(g) PROVE WriterInPlace'
  <2>1. CASE RegisterAsk(g)
    BY <2>1, WritersInPlace DEF RegisterAsk
  <2>2. CASE RegisterLock(g)
    BY <2>2, WritersInPlace DEF RegisterLock
  <2>3. CASE Register(g)
    BY <2>3, WritersInPlace DEF Register
  <2> QED BY <1>3, <2>1, <2>2, <2>3 DEF Registration
<1>4. CASE Prune
  <2>1. CASE PruneAsk
    BY <2>1, WritersInPlace DEF PruneAsk
  <2>2. CASE PruneLock
    BY <2>2, WritersInPlace DEF PruneLock
  <2>3. CASE PruneCheck
    BY <2>3, <1>2 DEF PruneCheck
  <2>4. CASE PruneStore
    BY <2>4, WritersInPlace DEF PruneStore
  <2> QED BY <1>4, <2>1, <2>2, <2>3, <2>4 DEF Prune
<1>5. ASSUME NEW p \in Proxies, ProxyLock(p) \/ Proxy(p) PROVE WriterInPlace'
  <2>1. PICK l \in {"idle", "entering", "looping", "choosing", "checking", "forwarding"} :
          Goto(p, l)
    BY <1>5 DEF ProxyLock, Proxy, ProxyRefuse, ProxyEnter, NextLock, NextBackend, ProxyCheck,
                Forward, ForwardFails, ProxyGiveUp, Leave
  <2>2. UNCHANGED rw \/ Mutex!RLock(p) \/ Mutex!RUnlock(p)
    BY <1>5 DEF ProxyLock, Proxy, ProxyRefuse, ProxyEnter, NextLock, NextBackend, ProxyCheck,
                Forward, ForwardFails, ProxyGiveUp, Leave
  <2> QED BY <2>1, <2>2, ReadersInPlace
<1>6. ASSUME NEW s \in Scrapers, ScrapeLock(s) \/ Scrape(s) PROVE WriterInPlace'
  <2>1. s \notin Proxies
    OBVIOUS
  <2> QED BY <1>6, <2>1, ReadersInPlace DEF ScrapeLock, Scrape
<1>7. ASSUME NEW g \in Gateways, StopGateway(g) PROVE WriterInPlace'
  BY <1>7, <1>2 DEF StopGateway
<1>8. CASE UNCHANGED vars
  BY <1>8, <1>2 DEF vars
<1> QED BY <1>1, <1>3, <1>4, <1>5, <1>6, <1>7, <1>8 DEF Next

\* Nobody who holds a read lock waits, save a request caught between two.
LEMMA ReaderRuns ==
  ASSUME ReadLocks, WriterInPlace, NEW t \in Threads, rw.readers[t] # 0
  PROVE  Runs(t) \/ (t \in Proxies /\ pc[t] = "choosing" /\ Mutex!Blocked(t))
<1>1. t \in Proxies \/ t \in Scrapers
  BY DEF WriterInPlace, Threads
<1>2. CASE t \in Scrapers
  BY <1>2 DEF WriterInPlace, ReadLocks, Runs
<1>3. CASE t \in Proxies
  <2>1. pc[t] \in {"entering", "looping", "choosing", "checking", "forwarding"}
    BY <1>3 DEF WriterInPlace, ReadLocks
  <2>2. CASE pc[t] = "entering"
    BY <1>3, <2>2 DEF ReadLocks, Runs
  <2> QED BY <1>3, <2>1, <2>2 DEF Runs
<1> QED BY <1>1, <1>2, <1>3

\* Whoever waits for the mutex waits for a goroutine that can go on, unless a
\* request is caught between its two read locks.
THEOREM NoOtherDeadlock == Spec => []OnlyStuckBlock
<1>1. Init => WriterInPlace
  BY ThreadsOfKinds DEF Init, WriterInPlace, Mutex!RWMutexInit
<1>2. BalancerInv /\ WriterInPlace /\ [Next]_vars => WriterInPlace'
  BY WriterStep DEF BalancerInv
<1>3. BalancerInv /\ WriterInPlace => OnlyStuckBlock
  <2> SUFFICES ASSUME TypeOK, ReadLocks, WriterInPlace,
                      rw.writer # NoThread \/ rw.blocked # {}
               PROVE  \/ \E p \in Proxies : Stuck(p)
                      \/ \E t \in Threads : (rw.readers[t] > 0 \/ rw.writer = t) /\ Runs(t)
    BY DEF BalancerInv, OnlyStuckBlock
  <2>1. rw.writer # NoThread /\ rw.writer \in Threads
    BY ThreadsOfKinds DEF WriterInPlace
  <2>2. CASE rw.held \/ \A u \in Threads : rw.readers[u] = 0
    <3>1. Runs(rw.writer)
      BY <2>1, <2>2 DEF WriterInPlace, Runs
    <3> QED BY <2>1, <3>1
  <2>3. CASE ~rw.held /\ \E u \in Threads : rw.readers[u] # 0
    <3>1. PICK u \in Threads : rw.readers[u] # 0
      BY <2>3
    <3>2. rw.readers[u] > 0
      BY <3>1 DEF TypeOK, Mutex!RWMutexType
    <3>3. CASE Runs(u)
      BY <3>2, <3>3
    <3>4. CASE u \in Proxies /\ Mutex!Blocked(u)
      BY <2>1, <3>2, <3>4 DEF Stuck
    <3> QED BY <3>1, <3>3, <3>4, ReaderRuns
  <2> QED BY <2>2, <2>3
<1> QED BY <1>1, <1>2, <1>3, BalancerInvariant, PTL DEF Spec

-----------------------------------------------------------------------------
(* LoadBalancer implements BackendRegistry.                                *)

\* A step that moves no request to or from a backend changes nobody's use.
LEMMA UseKept ==
  ASSUME \A p \in Proxies :
           \/ pc'[p] = pc[p] /\ target'[p] = target[p]
           \/ /\ pc[p] \notin {"checking", "forwarding"}
              /\ pc'[p] \notin {"checking", "forwarding"}
  PROVE  Using' = Using
  BY DEF Using

\* The writer that holds the lock meets no request that uses a backend.
LEMMA WriterMeetsNoUse ==
  ASSUME TypeOK, ReadLocks, NEW t \in Threads, Mutex!Unlock(t)
  PROVE  Registry!NotInUse
<1>1. \A p \in Proxies : pc[p] \notin {"checking", "forwarding"}
  BY ThreadsOfKinds DEF Mutex!Unlock, ReadLocks
<1> QED BY <1>1 DEF Registry!NotInUse, Using

\* Starts, stops and registrations of gateways.
LEMMA GatewayImplements ==
  ASSUME TypeOK, ReadLocks, Started, NEW g \in Gateways,
         StartGateway(g) \/ StopGateway(g) \/ Registration(g)
  PROVE  [Registry!Next]_(Registry!registry)
<1> USE ThreadsOfKinds, KindsApart
<1>1. Using' = Using
  <2>1. \A p \in Proxies : pc'[p] = pc[p] /\ target'[p] = target[p]
    BY DEF StartGateway, StopGateway, Registration, RegisterAsk, RegisterLock, Register,
           Goto, TypeOK
  <2> QED BY <2>1, UseKept
<1>2. CASE StartGateway(g)
  BY <1>1, <1>2 DEF StartGateway, Registry!Next, Registry!Start
<1>3. CASE StopGateway(g)
  BY <1>1, <1>3 DEF StopGateway, Registry!Next, Registry!Stop
<1>4. CASE RegisterAsk(g) \/ RegisterLock(g)
  BY <1>1, <1>4 DEF RegisterAsk, RegisterLock, Registry!registry
<1>5. CASE Register(g)
  <2>1. Registry!NotInUse /\ alive[g] # "off"
    BY <1>5, WriterMeetsNoUse DEF Register, Started
  <2>2. CASE g \in Range(backends)
    BY <1>1, <1>5, <2>2 DEF Register, WithBackend, Registry!registry
  <2>3. CASE g \notin Range(backends)
    <3>1. Registry!Join(g)
      BY <1>1, <1>5, <2>1, <2>3 DEF Register, WithBackend, Registry!Join, Registry!Range, Range
    <3> QED BY <3>1 DEF Registry!Next
  <2> QED BY <2>2, <2>3
<1> QED BY <1>2, <1>3, <1>4, <1>5 DEF Registration

\* The pruner's round is one sweep, at its end.
LEMMA PruneImplements ==
  ASSUME TypeOK, ReadLocks, PruneInOrder, Prune
  PROVE  [Registry!Next]_(Registry!registry)
<1> USE ThreadsOfKinds, KindsApart
<1>1. Using' = Using
  <2>1. \A p \in Proxies : pc'[p] = pc[p] /\ target'[p] = target[p]
    BY DEF Prune, PruneAsk, PruneLock, PruneCheck, PruneStore, Goto, TypeOK
  <2> QED BY <2>1, UseKept
<1>2. CASE PruneAsk \/ PruneLock
  BY <1>1, <1>2 DEF PruneAsk, PruneLock, Registry!registry
<1>3. CASE PruneCheck
  <2>1. UNCHANGED <<backends, current, alive>>
    BY <1>3 DEF PruneCheck
  <2>2. CASE slow' = slow
    BY <1>1, <2>1, <2>2 DEF Registry!registry
  <2>3. CASE slow' # slow
    <3>1. alive[Head(todo)] = "up" /\ slow' = slow + 1 /\ Head(todo) \in Gateways
      BY <1>3, <2>3 DEF PruneCheck, HealthCheck, TypeOK
    <3>2. slow' > 0
      BY <3>1 DEF TypeOK
    <3>3. Registry!Miss
      BY <1>1, <2>1, <3>1, <3>2 DEF Registry!Miss
    <3> QED BY <3>3 DEF Registry!Next
  <2> QED BY <2>2, <2>3
<1>4. CASE PruneStore
  <2>1. Registry!NotInUse
    BY <1>4, WriterMeetsNoUse DEF PruneStore
  <2>2. /\ pc[Pruner] = "pruning" /\ backends' = kept
        /\ UNCHANGED <<current, alive, slow>>
    BY <1>4 DEF PruneStore
  <2>3. Checked = Len(backends) /\ Len(backends) \in Nat
    BY <1>4 DEF PruneStore, Checked, TypeOK
  <2>4. Registry!LeftOf(backends', backends, Len(backends))
    BY <2>2, <2>3 DEF PruneInOrder
  <2>5. ~(slow > 0) => \A g \in Range(backends) : alive[g] = "up" => g \in Range(backends')
    <3>1. ~(slow > 0) => slow = 0
      BY DEF TypeOK
    <3>2. DOMAIN backends = 1..Len(backends)
      BY DEF TypeOK
    <3> QED BY <2>2, <2>3, <3>1, <3>2 DEF PruneInOrder, Range
  <2>6. Registry!Sweep
    BY <1>1, <2>1, <2>2, <2>4, <2>5 DEF Registry!Sweep, Registry!Range, Range
  <2> QED BY <2>6 DEF Registry!Next
<1> QED BY <1>2, <1>3, <1>4 DEF Prune

\* A request chooses in turn, and releases what it has chosen.
LEMMA ProxyImplements ==
  ASSUME TypeOK, ReadLocks, TargetRegistered, NEW p \in Proxies, ProxyLock(p) \/ Proxy(p)
  PROVE  [Registry!Next]_(Registry!registry)
<1> USE ThreadsOfKinds
<1>1. \A q \in Proxies : q # p => pc'[q] = pc[q] /\ target'[q] = target[q]
  BY DEF ProxyLock, Proxy, ProxyRefuse, ProxyEnter, NextLock, NextBackend, ProxyCheck,
         Forward, ForwardFails, ProxyGiveUp, Leave, Goto, TypeOK
<1>2. CASE ProxyLock(p) \/ ProxyRefuse(p) \/ ProxyEnter(p) \/ NextLock(p) \/ ProxyGiveUp(p)
  <2>1. pc[p] \notin {"checking", "forwarding"} /\ pc'[p] \notin {"checking", "forwarding"}
    BY <1>2 DEF ProxyLock, ProxyRefuse, ProxyEnter, NextLock, ProxyGiveUp, Leave, Goto, TypeOK
  <2>2. Using' = Using
    BY <1>1, <2>1, UseKept
  <2> QED BY <1>2, <2>2
          DEF ProxyLock, ProxyRefuse, ProxyEnter, NextLock, ProxyGiveUp, Registry!registry
<1>3. CASE NextBackend(p)
  <2>1. backends # << >> /\ pc[p] = "choosing"
    BY <1>3 DEF NextBackend, ReadLocks
  <2>2. pc'[p] = "checking" /\ target'[p] = BackendAt(current')
    BY <1>3, <2>1 DEF NextBackend, Goto, TypeOK
  <2>3. Using[p] = NoTarget /\ Using' = [Using EXCEPT ![p] = BackendAt(current')]
    BY <1>1, <2>1, <2>2 DEF Using
  <2>4. current' = (current + 1) % CounterMod /\ UNCHANGED <<backends, alive, slow>>
    BY <1>3, <2>1 DEF NextBackend
  <2>5. Registry!Choose(p)
    BY <2>1, <2>3, <2>4 DEF Registry!Choose, BackendAt
  <2> QED BY <2>5 DEF Registry!Next
<1>4. CASE ProxyCheck(p) \/ Forward(p) \/ ForwardFails(p)
  <2>1. pc[p] \in {"checking", "forwarding"} /\ target[p] \in Gateways /\ target[p] # NoTarget
    <3>1. pc[p] \in {"checking", "forwarding"}
      BY <1>4 DEF ProxyCheck, Forward, ForwardFails
    <3>2. Range(backends) \subseteq Gateways
      BY DEF Range, TypeOK
    <3> QED BY <3>1, <3>2, BalancerAssumption DEF TargetRegistered
  <2>2. Using[p] = target[p] /\ UNCHANGED <<backends, current, alive>>
    BY <1>4, <2>1 DEF Using, ProxyCheck, Forward, ForwardFails
  <2>3. CASE pc'[p] = "forwarding"
    <3>1. target' = target /\ slow' = slow
      BY <1>4, <2>3, <2>1 DEF ProxyCheck, HealthCheck, Forward, ForwardFails, Leave, Goto, TypeOK
    <3>2. Using' = Using
      BY <1>1, <2>1, <2>3, <3>1 DEF Using
    <3> QED BY <2>2, <3>1, <3>2 DEF Registry!registry
  <2>4. CASE pc'[p] # "forwarding"
    <3>1. pc'[p] \in {"looping", "idle"}
      BY <1>4, <2>4 DEF ProxyCheck, Forward, ForwardFails, Leave, Goto, TypeOK
    <3>2. Using' = [Using EXCEPT ![p] = NoTarget]
      BY <1>1, <3>1 DEF Using
    <3>3. slow' = slow \/ (slow' = slow + 1 /\ alive[target[p]] = "up")
      BY <1>4, <2>1 DEF ProxyCheck, HealthCheck, Forward, ForwardFails
    <3>4. (slow' > 0) \in {slow > 0, slow > 0 \/ alive[Using[p]] = "up"}
      BY <2>2, <3>3 DEF TypeOK
    <3>5. Registry!Release(p)
      BY <2>1, <2>2, <3>2, <3>4 DEF Registry!Release
    <3> QED BY <3>5 DEF Registry!Next
  <2> QED BY <2>3, <2>4
<1> QED BY <1>2, <1>3, <1>4 DEF Proxy

\* The registry behind its locks is the atomic registry: what the goroutines
\* do is a registration, a sweep, a choice or a release, or not to be seen.
THEOREM RegistryIsAtomic == Spec => ImplementsRegistry
<1>1. Init => Registry!Init
  BY ThreadsOfKinds DEF Init, Registry!Init, Using
<1>2. BalancerInv /\ [Next]_vars => [Registry!Next]_(Registry!registry)
  <2> SUFFICES ASSUME TypeOK, ReadLocks, PruneInOrder, Started, TargetRegistered, [Next]_vars
               PROVE  [Registry!Next]_(Registry!registry)
    BY DEF BalancerInv
  <2>1. ASSUME NEW s \in Scrapers, ScrapeLock(s) \/ Scrape(s) PROVE UNCHANGED Registry!registry
    <3>1. \A p \in Proxies : pc'[p] = pc[p] /\ target'[p] = target[p]
      BY <2>1, KindsApart, ThreadsOfKinds DEF ScrapeLock, Scrape, Goto, TypeOK
    <3> QED BY <2>1, <3>1, UseKept DEF ScrapeLock, Scrape, Registry!registry
  <2>2. CASE UNCHANGED vars
    BY <2>2, UseKept DEF vars, Registry!registry
  <2> QED BY <2>1, <2>2, GatewayImplements, PruneImplements, ProxyImplements DEF Next
<1> QED BY <1>1, <1>2, BalancerInvariant, PTL DEF Spec, ImplementsRegistry, Registry!Spec
=============================================================================
