------------------------ MODULE QuorumRecoveryProofs ------------------------
(***************************************************************************)
(* What the quorum monitors preserve, for any number of gateways, nodes,   *)
(* failures and retries: the data of the members, and the nodes that run.  *)
(***************************************************************************)
EXTENDS QuorumRecovery, FiniteSetTheorems, TLAPS

\* Members that run do so in a container that runs; all have a container.
Housed ==
  /\ up \subseteq cluster
  /\ \A n \in up : container[n] = "running"
  /\ MembersHaveContainers

\* A container that is about to be removed is that of one monitor, is no
\* member and is not about to join; neither is a container that two
\* monitors wait for.
Exclusive ==
  \A m \in Monitors :
    /\ pc[m] = "remove" =>
         /\ node[m] \notin cluster /\ container[node[m]] # "none"
         /\ \A k \in Monitors : pc[k] = "remove" /\ k # m => node[k] # node[m]
         /\ \A k \in Monitors : pc[k] = "join" => new[k] # node[m]
    /\ pc[m] = "join" =>
         /\ new[m] \notin cluster /\ container[new[m]] # "none"
         /\ \A k \in Monitors : pc[k] = "join" /\ k # m => new[k] # new[m]

\* The names that a recovery works on.
Named ==
  \A m \in Monitors :
    /\ pc[m] \in {"stop", "forget", "remove"} => node[m] \in Nodes
    /\ pc[m] \in {"join", "start"} => new[m] \in Spares

\* A node that runs since the round began is live, and expected unless the
\* monitor is blind, and is not among the nodes found dead.
Judged ==
  \A m \in Monitors :
    /\ steady[m] \subseteq up
    /\ pc[m] \in {"idle", "fetch"} => todo[m] = {}
    /\ pc[m] \notin {"idle", "fetch"} => Seed \in live[m] /\ steady[m] \subseteq live[m]
    /\ pc[m] # "idle" => m \in blind \/ steady[m] \subseteq expected[m]
    /\ \A n \in todo[m] : n # Seed /\ (n \in steady[m] => m \in blind /\ n \in Spares)

\* A monitor has noted the node it recovers.
Noted ==
  \A m \in Monitors :
    pc[m] \in {"stop", "forget", "remove", "create"} => node[m] \in forgotten[m]

IInv ==
  /\ TypeOK /\ Housed /\ Exclusive /\ Named /\ Judged /\ Noted
  /\ HealthyUntouched /\ SeedNeverRecovered /\ PlacesKept

-----------------------------------------------------------------------------
(* Types                                                                   *)

LEMMA InitTypes == Init => TypeOK
<1> SUFFICES ASSUME Init PROVE TypeOK
  OBVIOUS
<1>1. /\ container \in [Nodes -> {"none", "stopped", "running"}]
      /\ cluster \subseteq Nodes /\ up \subseteq Nodes
  BY DEF Init, Nodes
<1>2. pc \in [Monitors -> {"idle", "fetch", "judge"} \cup Recovering]
  BY DEF Init
<1>3. tries \in [Monitors -> 0..(MaxRetries - 1)]
  BY RecoveryAssumption DEF Init
<1> QED BY <1>1, <1>2, <1>3 DEF Init, TypeOK

\* NextJudgement ends the round, or finds a set of nodes dead.
LEMMA JudgementCases ==
  ASSUME TypeOK, NEW m \in Monitors, NextJudgement(m)
  PROVE  \/ EndRound(m)
         \/ \E next \in {"expected", "vanished", "queues"}, dead \in SUBSET Nodes :
              Judge(m, next, dead)
<1>1. CASE stage[m] = "known"
  <2>1. expected[m] \ live[m] \in SUBSET Nodes
    BY DEF TypeOK
  <2> QED BY <1>1, <2>1 DEF NextJudgement
<1>2. CASE stage[m] = "expected"
  <2>1. (previous[m] \ expected[m]) \cap Spares \in SUBSET Nodes
    BY DEF TypeOK
  <2> QED BY <1>2, <2>1 DEF NextJudgement
<1>3. CASE stage[m] = "vanished"
  <2>1. \A members \in SUBSET cluster : members \ live[m] \in SUBSET Nodes
    BY DEF TypeOK
  <2> QED BY <1>3, <2>1 DEF NextJudgement
<1>4. CASE stage[m] = "queues"
  BY <1>4 DEF NextJudgement
<1>5. stage[m] \in {"known", "expected", "vanished", "queues"}
  BY DEF TypeOK
<1> QED BY <1>1, <1>2, <1>3, <1>4, <1>5

\* A round leaves the types as they are.
LEMMA RoundTypes ==
  ASSUME TypeOK, NEW m \in Monitors,
         List(m) \/ Fetch(m) \/ NextJudgement(m) \/ Crash(m)
  PROVE  TypeOK'
<1>1. CASE List(m)
  BY <1>1 DEF List, TypeOK, Recovering, Goto, Running, Error, NoError, world, recovery
<1>2. CASE Fetch(m)
  <2>1. errors' \in Nat
    BY <1>2 DEF Fetch, TypeOK, Error, NoError
  <2>2. CASE EndRound(m) /\ UNCHANGED <<world, recovery, mishap, failures, returns, crashes>>
    BY <2>1, <2>2 DEF EndRound, Goto, TypeOK, world, recovery
  <2>3. CASE ~EndRound(m)
    <3>1. live' \in [Monitors -> SUBSET Nodes] /\ todo' \in [Monitors -> SUBSET Nodes]
      BY <1>2, <2>3 DEF Fetch, TypeOK
    <3>2. pc' \in [Monitors -> {"idle", "fetch", "judge"} \cup Recovering]
      BY <1>2, <2>3 DEF Fetch, Goto, TypeOK
    <3>3. UNCHANGED <<world, recovery, mishap, failures, returns, crashes>>
          /\ UNCHANGED <<stage, expected, previous, blind, steady>>
      BY <1>2, <2>3 DEF Fetch
    <3> QED BY <2>1, <3>1, <3>2, <3>3 DEF TypeOK, world, recovery
  <2> QED BY <1>2, <2>2, <2>3 DEF Fetch
<1>3. CASE NextJudgement(m)
  <2>0. errors \in Nat /\ stage[m] \in {"known", "expected", "vanished", "queues"}
    BY DEF TypeOK
  <2>1. errors' \in Nat /\ UNCHANGED <<world, recovery, mishap, failures, returns, crashes>>
    <3>1. UNCHANGED <<world, recovery, mishap, failures, returns, crashes>>
      BY <1>3 DEF NextJudgement
    <3>2. errors' = errors \/ errors' = errors + 1
      BY <1>3, <2>0 DEF NextJudgement, Error, NoError
    <3> QED BY <2>0, <3>1, <3>2
  <2>2. CASE EndRound(m)
    BY <2>1, <2>2 DEF EndRound, Goto, TypeOK, Recovering, world, recovery
  <2>3. CASE \E next \in {"expected", "vanished", "queues"}, dead \in SUBSET Nodes :
               Judge(m, next, dead)
    BY <2>1, <2>3 DEF Judge, TypeOK, world, recovery
  <2> QED BY <1>3, <2>2, <2>3, JudgementCases
<1>4. CASE Crash(m)
  BY <1>4, RecoveryAssumption DEF Crash, TypeOK, Goto, world
<1> QED BY <1>1, <1>2, <1>3, <1>4

\* So does a recovery.
LEMMA RecoveryTypes ==
  ASSUME TypeOK, Named, NEW m \in Monitors,
         \/ \E n \in Nodes : Trigger(m, n)
         \/ Stop(m) \/ ForgetSucceeds(m) \/ ForgetFails(m) \/ Remove(m)
         \/ \E s \in Spares : Create(m, s)
         \/ Join(m) \/ Start(m)
  PROVE  TypeOK'
<1>1. ASSUME NEW n \in Nodes, Trigger(m, n) PROVE TypeOK'
  BY <1>1 DEF Trigger, TypeOK, Goto, Recovering, world, history, budgets
<1>2. CASE Stop(m)
  BY <1>2 DEF Stop, TypeOK, Goto, UpIs, Recovering, Error, NoError, round, recovery
<1>3. CASE ForgetSucceeds(m)
  BY <1>3, RecoveryAssumption
     DEF ForgetSucceeds, TypeOK, Goto, Recovering, round, history, budgets
<1>4. CASE ForgetFails(m)
  BY <1>4, RecoveryAssumption
     DEF ForgetFails, TypeOK, Goto, Recovering, Error, NoError, world, round, history
<1>5. CASE Remove(m)
  BY <1>5 DEF Remove, TypeOK, Goto, UpIs, Recovering, Error, NoError, round, recovery
<1>6. ASSUME NEW s \in Spares, Create(m, s) PROVE TypeOK'
  <2>1. pc' \in [Monitors -> {"idle", "fetch", "judge"} \cup Recovering]
    BY <1>6 DEF Create, Done, TypeOK, Goto, Recovering
  <2>2. /\ node' \in [Monitors -> Nodes \cup {NoNode}]
        /\ new' \in [Monitors -> Nodes \cup {NoNode}]
        /\ UNCHANGED <<forgotten, tries>>
    BY <1>6 DEF Create, Done, TypeOK, Nodes
  <2>3. errors' \in Nat
    BY <1>6 DEF Create, Error, NoError, TypeOK
  <2>4. container' \in [Nodes -> {"none", "stopped", "running"}]
    BY <1>6 DEF Create, TypeOK, Nodes
  <2>5. mishap' \in BOOLEAN
    BY <1>6 DEF Create, TypeOK
  <2> QED BY <1>6, <2>1, <2>2, <2>3, <2>4, <2>5 DEF Create, TypeOK, round
<1>7. CASE Join(m)
  <2>1. pc' \in [Monitors -> {"idle", "fetch", "judge"} \cup Recovering]
    BY <1>7 DEF Join, Done, TypeOK, Goto, Recovering
  <2>2. /\ node' \in [Monitors -> Nodes \cup {NoNode}]
        /\ new' \in [Monitors -> Nodes \cup {NoNode}]
        /\ UNCHANGED <<forgotten, tries>>
    BY <1>7 DEF Join, Done, TypeOK, recovery
  <2>3. errors' \in Nat
    BY <1>7 DEF Join, Error, NoError, TypeOK
  <2>4. cluster' \subseteq Nodes
    BY <1>7 DEF Join, Named, Nodes, TypeOK
  <2> QED BY <1>7, <2>1, <2>2, <2>3, <2>4 DEF Join, TypeOK, round, history
<1>8. CASE Start(m)
  BY <1>8 DEF Start, CanStart, Done, TypeOK, Goto, UpIs, Error, NoError, round
<1> QED BY <1>1, <1>2, <1>3, <1>4, <1>5, <1>6, <1>7, <1>8

LEMMA TypeStep == TypeOK /\ Named /\ [Next]_vars => TypeOK'
<1> SUFFICES ASSUME TypeOK, Named, [Next]_vars PROVE TypeOK'
  OBVIOUS
<1>1. ASSUME NEW m \in Monitors, Monitor(m) \/ Crash(m) PROVE TypeOK'
  BY <1>1, RoundTypes, RecoveryTypes DEF Monitor
<1>2. ASSUME NEW n \in Nodes, Fail(n) PROVE TypeOK'
  <2>1. container' \in [Nodes -> {"none", "stopped", "running"}] /\ up' \subseteq Nodes
    BY <1>2 DEF Fail, UpIs, TypeOK
  <2>2. steady' \in [Monitors -> SUBSET Nodes] /\ mishap' \in BOOLEAN
    BY <1>2 DEF Fail, UpIs, TypeOK
  <2> QED BY <1>2, <2>1, <2>2 DEF Fail, TypeOK, round, recovery
<1>3. ASSUME NEW n \in Nodes, Return(n) PROVE TypeOK'
  BY <1>3 DEF Return, TypeOK, UpIs, round, recovery
<1>4. CASE UNCHANGED vars
  BY <1>4 DEF vars, TypeOK, world, round, recovery, history, budgets
<1> QED BY <1>1, <1>2, <1>3, <1>4 DEF Next

-----------------------------------------------------------------------------
(* Names: a recovery works on the node it was triggered for, and a join on *)
(* the name that was drawn.                                                *)

\* The steps of a round are not inside a recovery.
LEMMA RoundOutside ==
  ASSUME TypeOK, NEW m \in Monitors,
         List(m) \/ Fetch(m) \/ NextJudgement(m) \/ Crash(m)
  PROVE  /\ pc' = [pc EXCEPT ![m] = pc'[m]] /\ pc'[m] \in {"idle", "fetch", "judge"}
         /\ UNCHANGED world
         /\ \A k \in Monitors : k # m => node'[k] = node[k] /\ new'[k] = new[k]
<1>1. CASE List(m)
  BY <1>1 DEF List, Goto, TypeOK, recovery
<1>2. CASE Fetch(m)
  BY <1>2 DEF Fetch, EndRound, Goto, TypeOK, recovery
<1>3. CASE NextJudgement(m)
  <2>1. UNCHANGED <<world, recovery>> /\ pc[m] = "judge"
    BY <1>3 DEF NextJudgement
  <2>2. pc' = [pc EXCEPT ![m] = pc'[m]] /\ pc'[m] \in {"idle", "judge"}
    BY <1>3, <2>1, JudgementCases DEF Judge, EndRound, Goto, TypeOK
  <2> QED BY <2>1, <2>2 DEF recovery
<1>4. CASE Crash(m)
  BY <1>4 DEF Crash, Goto, TypeOK
<1> QED BY <1>1, <1>2, <1>3, <1>4

LEMMA NamedStep == TypeOK /\ Named /\ [Next]_vars => Named'
<1> SUFFICES ASSUME TypeOK, Named, [Next]_vars PROVE Named'
  OBVIOUS
<1>1. ASSUME NEW m \in Monitors, List(m) \/ Fetch(m) \/ NextJudgement(m) \/ Crash(m)
      PROVE  Named'
  BY <1>1, RoundOutside DEF Named, TypeOK
<1>2. ASSUME NEW m \in Monitors, NEW n \in Nodes, Trigger(m, n) PROVE Named'
  BY <1>2 DEF Trigger, Goto, Named, TypeOK
<1>3. ASSUME NEW m \in Monitors,
             Stop(m) \/ ForgetSucceeds(m) \/ ForgetFails(m) \/ Remove(m)
      PROVE  Named'
  BY <1>3 DEF Stop, ForgetSucceeds, ForgetFails, Remove, Goto, Named, TypeOK, recovery
<1>4. ASSUME NEW m \in Monitors, NEW s \in Spares, Create(m, s) PROVE Named'
  BY <1>4 DEF Create, Done, Goto, Named, TypeOK
<1>5. ASSUME NEW m \in Monitors, Join(m) \/ Start(m) PROVE Named'
  BY <1>5 DEF Join, Start, Done, Goto, Named, TypeOK, recovery
<1>6. ASSUME NEW n \in Nodes, Fail(n) \/ Return(n) PROVE Named'
  BY <1>6 DEF Fail, Return, Named, recovery
<1>7. CASE UNCHANGED vars
  BY <1>7 DEF vars, Named, recovery
<1> QED BY <1>1, <1>2, <1>3, <1>4, <1>5, <1>6, <1>7 DEF Next, Monitor

-----------------------------------------------------------------------------
(* Data: members have containers.                                          *)

LEMMA HousedStep ==
  TypeOK /\ Named /\ Exclusive /\ Housed /\ [Next]_vars => Housed'
<1> SUFFICES ASSUME TypeOK, Named, Exclusive, Housed, [Next]_vars PROVE Housed'
  OBVIOUS
<1> USE DEF Housed, MembersHaveContainers
<1>1. CASE UNCHANGED world
  BY <1>1 DEF world
<1>2. ASSUME NEW m \in Monitors, Stop(m) PROVE Housed'
  BY <1>2 DEF Stop, UpIs, TypeOK
<1>3. ASSUME NEW m \in Monitors, ForgetSucceeds(m) PROVE Housed'
  BY <1>3 DEF ForgetSucceeds, CanForget
<1>4. ASSUME NEW m \in Monitors, Remove(m) PROVE Housed'
  BY <1>4 DEF Remove, UpIs, Exclusive, TypeOK
<1>5. ASSUME NEW m \in Monitors, NEW s \in Spares, Create(m, s) PROVE Housed'
  BY <1>5 DEF Create, TypeOK
<1>6. ASSUME NEW m \in Monitors, Join(m) PROVE Housed'
  BY <1>6 DEF Join, CanJoin
<1>7. ASSUME NEW m \in Monitors, Start(m) PROVE Housed'
  BY <1>7 DEF Start, CanStart, UpIs
<1>8. ASSUME NEW n \in Nodes, Fail(n) \/ Return(n) PROVE Housed'
  BY <1>8 DEF Fail, Return, UpIs, TypeOK
<1>9. ASSUME NEW m \in Monitors, List(m) \/ Fetch(m) \/ NextJudgement(m) \/ Crash(m)
      PROVE  UNCHANGED world
  BY <1>9, RoundOutside
<1>10. ASSUME NEW m \in Monitors, ForgetFails(m) \/ \E n \in Nodes : Trigger(m, n)
       PROVE  UNCHANGED world
  BY <1>10 DEF ForgetFails, Trigger
<1>11. UNCHANGED vars => UNCHANGED world
  BY DEF vars
<1> QED BY <1>1, <1>2, <1>3, <1>4, <1>5, <1>6, <1>7, <1>8, <1>9, <1>10, <1>11
        DEF Next, Monitor

LEMMA ExclusiveStep ==
  TypeOK /\ Named /\ Exclusive /\ Housed /\ [Next]_vars => Exclusive'
<1> SUFFICES ASSUME TypeOK, Named, Exclusive, Housed, [Next]_vars PROVE Exclusive'
  OBVIOUS
<1>1. ASSUME NEW m \in Monitors, List(m) \/ Fetch(m) \/ NextJudgement(m) \/ Crash(m)
      PROVE  Exclusive'
  <2>1. /\ pc' = [pc EXCEPT ![m] = pc'[m]] /\ pc'[m] \in {"idle", "fetch", "judge"}
        /\ container' = container /\ cluster' = cluster
        /\ \A k \in Monitors : k # m => node'[k] = node[k] /\ new'[k] = new[k]
    BY <1>1, RoundOutside DEF world
  <2>2. \A k \in Monitors : pc'[k] \in {"remove", "join"} =>
          k # m /\ pc[k] = pc'[k] /\ node'[k] = node[k] /\ new'[k] = new[k]
    BY <2>1 DEF TypeOK
  <2> QED BY <2>1, <2>2 DEF Exclusive
<1>2. ASSUME NEW m \in Monitors, NEW n \in Nodes, Trigger(m, n) PROVE Exclusive'
  BY <1>2 DEF Trigger, Goto, Exclusive, TypeOK, world
<1>3. ASSUME NEW m \in Monitors, Stop(m) PROVE Exclusive'
  BY <1>3 DEF Stop, Goto, Exclusive, Named, TypeOK, Nodes, recovery
<1>4. ASSUME NEW m \in Monitors, ForgetSucceeds(m) PROVE Exclusive'
  BY <1>4 DEF ForgetSucceeds, CanForget, Goto, Exclusive, Housed, MembersHaveContainers, TypeOK
<1>5. ASSUME NEW m \in Monitors, ForgetFails(m) PROVE Exclusive'
  BY <1>5 DEF ForgetFails, Goto, Exclusive, TypeOK, world
<1>6. ASSUME NEW m \in Monitors, Remove(m) PROVE Exclusive'
  BY <1>6 DEF Remove, Goto, Exclusive, Named, TypeOK, Nodes, recovery
<1>7. ASSUME NEW m \in Monitors, NEW s \in Spares, Create(m, s) PROVE Exclusive'
  BY <1>7 DEF Create, Done, Goto, Exclusive, Housed, MembersHaveContainers, Named, TypeOK, Nodes
<1>8. ASSUME NEW m \in Monitors, Join(m) PROVE Exclusive'
  BY <1>8 DEF Join, Done, Goto, Exclusive, TypeOK, recovery
<1>9. ASSUME NEW m \in Monitors, Start(m) PROVE Exclusive'
  BY <1>9 DEF Start, Done, Goto, Exclusive, TypeOK
<1>10. ASSUME NEW n \in Nodes, Fail(n) \/ Return(n) PROVE Exclusive'
  BY <1>10 DEF Fail, Return, Exclusive, Named, TypeOK, Nodes, recovery
<1>11. CASE UNCHANGED vars
  BY <1>11 DEF vars, Exclusive, world, recovery
<1> QED BY <1>1, <1>2, <1>3, <1>4, <1>5, <1>6, <1>7, <1>8, <1>9, <1>10, <1>11
        DEF Next, Monitor

-----------------------------------------------------------------------------
(* Judgement: a node that runs throughout the round is not found dead.     *)

\* A judgement never finds rabbit1 dead, nor a node that has run since the
\* round began, except for a recovery container the monitor did not see.
LEMMA DeadFound ==
  ASSUME TypeOK, Judged, NEW m \in Monitors, NextJudgement(m), ~EndRound(m)
  PROVE  \E next \in {"expected", "vanished", "queues"}, dead \in SUBSET Nodes :
           /\ Judge(m, next, dead)
           /\ \A n \in dead : n # Seed /\ (n \in steady[m] => m \in blind /\ n \in Spares)
<1>0. /\ pc[m] = "judge" /\ Seed \in live[m] /\ steady[m] \subseteq live[m]
      /\ m \in blind \/ steady[m] \subseteq expected[m]
      /\ Seed \notin Spares
  BY RecoveryAssumption DEF NextJudgement, Judged
<1>1. CASE stage[m] = "known"
  <2>1. expected[m] \ live[m] \in SUBSET Nodes
    BY DEF TypeOK
  <2> QED BY <1>0, <1>1, <2>1 DEF NextJudgement
<1>2. CASE stage[m] = "expected"
  <2>1. (previous[m] \ expected[m]) \cap Spares \in SUBSET Nodes
    BY DEF TypeOK
  <2> QED BY <1>0, <1>2, <2>1 DEF NextJudgement
<1>3. CASE stage[m] = "vanished"
  <2>1. \A members \in SUBSET cluster : members \ live[m] \in SUBSET Nodes
    BY DEF TypeOK
  <2> QED BY <1>0, <1>3, <2>1 DEF NextJudgement
<1>4. CASE stage[m] = "queues"
  BY <1>4 DEF NextJudgement
<1>5. stage[m] \in {"known", "expected", "vanished", "queues"}
  BY DEF TypeOK
<1> QED BY <1>1, <1>2, <1>3, <1>4, <1>5

\* What the steps of a recovery leave alone.
LEMMA RecoveryKeepsJudgement ==
  ASSUME TypeOK, Named, Judged, NEW m \in Monitors,
         \/ Stop(m) \/ ForgetSucceeds(m) \/ ForgetFails(m) \/ Remove(m)
         \/ \E s \in Spares : Create(m, s)
         \/ Join(m) \/ Start(m)
  PROVE  /\ UNCHANGED <<expected, live, todo, blind>>
         /\ \A k \in Monitors : steady'[k] \subseteq steady[k] /\ steady'[k] \subseteq up'
         /\ pc' = [pc EXCEPT ![m] = pc'[m]]
         /\ pc[m] \notin {"idle", "fetch"} /\ pc'[m] \notin {"idle", "fetch", "stop"}
         /\ \A k \in Monitors : node'[k] = node[k] \/ node'[k] = NoNode
<1>1. CASE Stop(m)
  BY <1>1 DEF Stop, Goto, UpIs, Judged, TypeOK, round, recovery
<1>2. CASE ForgetSucceeds(m)
  BY <1>2 DEF ForgetSucceeds, Goto, Judged, TypeOK, round, history
<1>3. CASE ForgetFails(m)
  BY <1>3 DEF ForgetFails, Goto, Judged, TypeOK, round, history, world
<1>4. CASE Remove(m)
  BY <1>4 DEF Remove, Goto, UpIs, Judged, TypeOK, round, recovery
<1>5. ASSUME NEW s \in Spares, Create(m, s)
      PROVE  /\ UNCHANGED <<expected, live, todo, blind, steady, up>>
             /\ pc' = [pc EXCEPT ![m] = pc'[m]]
             /\ pc[m] = "create" /\ pc'[m] \in {"join", "judge"}
             /\ \A k \in Monitors : node'[k] = node[k] \/ node'[k] = NoNode
  BY <1>5 DEF Create, Done, Goto, TypeOK, round
<1>6. CASE Join(m)
  BY <1>6 DEF Join, Done, Goto, Judged, TypeOK, round, recovery, history
<1>7. CASE Start(m)
  BY <1>7 DEF Start, Done, Goto, UpIs, Judged, TypeOK, round
<1> QED BY <1>1, <1>2, <1>3, <1>4, <1>5, <1>6, <1>7 DEF Judged

Judgement == Judged /\ HealthyUntouched /\ SeedNeverRecovered

LEMMA JudgementStep ==
  TypeOK /\ Named /\ Housed /\ Judgement /\ [Next]_vars => Judgement'
<1> SUFFICES ASSUME TypeOK, Named, Housed, Judgement, [Next]_vars PROVE Judgement'
  OBVIOUS
<1>0. Seed # NoNode /\ Seed \notin Spares
  BY RecoveryAssumption DEF Nodes
<1>1. ASSUME NEW m \in Monitors, List(m) PROVE Judgement'
  <2>1. up \subseteq Running
    BY DEF Housed, Running, TypeOK
  <2> QED BY <1>1, <2>1 DEF List, Goto, Judgement, Judged, HealthyUntouched,
                            SeedNeverRecovered, TypeOK, world, recovery
<1>2. ASSUME NEW m \in Monitors, Fetch(m) PROVE Judgement'
  BY <1>2 DEF Fetch, EndRound, Goto, Judgement, Judged, HealthyUntouched,
              SeedNeverRecovered, TypeOK, world, recovery
<1>3. ASSUME NEW m \in Monitors, NextJudgement(m) PROVE Judgement'
  <2>1. UNCHANGED <<world, recovery>> /\ pc[m] = "judge"
    BY <1>3 DEF NextJudgement
  <2>2. CASE EndRound(m)
    BY <2>1, <2>2 DEF EndRound, Goto, Judgement, Judged, HealthyUntouched,
                      SeedNeverRecovered, TypeOK, world, recovery
  <2>3. ASSUME NEW next \in {"expected", "vanished", "queues"}, NEW dead \in SUBSET Nodes,
               Judge(m, next, dead),
               \A n \in dead : n # Seed /\ (n \in steady[m] => m \in blind /\ n \in Spares)
        PROVE  Judgement'
    BY <2>1, <2>3 DEF Judge, Judgement, Judged, HealthyUntouched, SeedNeverRecovered,
                      TypeOK, world, recovery
  <2> QED BY <1>3, <2>2, <2>3, DeadFound DEF Judgement
<1>4. ASSUME NEW m \in Monitors, NEW n \in Nodes, Trigger(m, n) PROVE Judgement'
  BY <1>4 DEF Trigger, Goto, Judgement, Judged, HealthyUntouched, SeedNeverRecovered,
              TypeOK, world, history
<1>5. ASSUME NEW m \in Monitors,
             \/ Stop(m) \/ ForgetSucceeds(m) \/ ForgetFails(m) \/ Remove(m)
             \/ \E s \in Spares : Create(m, s)
             \/ Join(m) \/ Start(m)
      PROVE  Judgement'
  <2>1. /\ UNCHANGED <<expected, live, todo, blind>>
        /\ \A k \in Monitors : steady'[k] \subseteq steady[k] /\ steady'[k] \subseteq up'
        /\ pc' = [pc EXCEPT ![m] = pc'[m]]
        /\ pc[m] \notin {"idle", "fetch"} /\ pc'[m] \notin {"idle", "fetch", "stop"}
        /\ \A k \in Monitors : node'[k] = node[k] \/ node'[k] = NoNode
    BY <1>5, RecoveryKeepsJudgement DEF Judgement
  <2>2. \A k \in Monitors : pc'[k] = "stop" => k # m /\ pc[k] = "stop"
    BY <2>1 DEF TypeOK
  <2>3. \A k \in Monitors : pc[k] = "stop" => node[k] # NoNode
    BY RecoveryAssumption DEF Named
  <2>4. ASSUME NEW k \in Monitors, k # m, pc[k] = "stop" PROVE node'[k] = node[k]
    BY <1>5, <2>4 DEF Stop, ForgetSucceeds, ForgetFails, Remove, Create, Join, Start, Done,
                      TypeOK, recovery
  <2>5. Judged'
    BY <2>1 DEF Judgement, Judged, TypeOK
  <2>6. SeedNeverRecovered'
    BY <1>0, <2>1 DEF Judgement, SeedNeverRecovered
  <2>7. HealthyUntouched'
    BY <2>1, <2>2, <2>4 DEF Judgement, HealthyUntouched
  <2> QED BY <2>5, <2>6, <2>7 DEF Judgement
<1>6. ASSUME NEW n \in Nodes, Fail(n) \/ Return(n) PROVE Judgement'
  BY <1>6 DEF Fail, Return, UpIs, Judgement, Judged, HealthyUntouched, SeedNeverRecovered,
              TypeOK, round, recovery
<1>7. ASSUME NEW m \in Monitors, Crash(m) PROVE Judgement'
  BY <1>0, <1>7 DEF Crash, Goto, Judgement, Judged, HealthyUntouched, SeedNeverRecovered,
                    TypeOK, world
<1>8. CASE UNCHANGED vars
  BY <1>8 DEF vars, Judgement, Judged, HealthyUntouched, SeedNeverRecovered, world, round,
              recovery, history
<1> QED BY <1>1, <1>2, <1>3, <1>4, <1>5, <1>6, <1>7, <1>8 DEF Next, Monitor

-----------------------------------------------------------------------------
(* Places: what a monitor takes out of the cluster it replaces.            *)

LEMMA NotedStep == TypeOK /\ Noted /\ [Next]_vars => Noted'
<1> SUFFICES ASSUME TypeOK, Noted, [Next]_vars PROVE Noted'
  OBVIOUS
<1>1. ASSUME NEW m \in Monitors, List(m) \/ Fetch(m) \/ NextJudgement(m) \/ Crash(m)
      PROVE  Noted'
  <2>1. \A k \in Monitors : k # m => forgotten'[k] = forgotten[k]
    BY <1>1 DEF List, Fetch, NextJudgement, Crash, TypeOK, recovery
  <2> QED BY <1>1, <2>1, RoundOutside DEF Noted, TypeOK
<1>2. ASSUME NEW m \in Monitors, NEW n \in Nodes, Trigger(m, n) PROVE Noted'
  BY <1>2 DEF Trigger, Goto, Noted, TypeOK
<1>3. ASSUME NEW m \in Monitors,
             Stop(m) \/ ForgetSucceeds(m) \/ ForgetFails(m) \/ Remove(m)
      PROVE  Noted'
  BY <1>3 DEF Stop, ForgetSucceeds, ForgetFails, Remove, Goto, Noted, TypeOK, recovery
<1>4. ASSUME NEW m \in Monitors,
             Join(m) \/ Start(m) \/ \E s \in Spares : Create(m, s)
      PROVE  Noted'
  BY <1>4 DEF Create, Join, Start, Done, Goto, Noted, TypeOK, recovery
<1>5. ASSUME NEW n \in Nodes, Fail(n) \/ Return(n) PROVE Noted'
  BY <1>5 DEF Fail, Return, Noted, recovery
<1>6. CASE UNCHANGED vars
  BY <1>6 DEF vars, Noted, recovery
<1> QED BY <1>1, <1>2, <1>3, <1>4, <1>5, <1>6 DEF Next, Monitor

\* Places and debts are finite sets.
LEMMA PlacesFinite ==
  TypeOK /\ Named => Places \subseteq Nodes /\ IsFiniteSet(Places) /\ IsFiniteSet(Owed)
<1> SUFFICES ASSUME TypeOK, Named
             PROVE  Places \subseteq Nodes /\ IsFiniteSet(Places) /\ IsFiniteSet(Owed)
  OBVIOUS
<1>1. Places \subseteq Nodes
  BY DEF Places, Named, TypeOK
<1>2. IsFiniteSet(Nodes) /\ IsFiniteSet(Monitors)
  BY RecoveryAssumption, FS_Union DEF Nodes
<1>3. Owed \subseteq Monitors
  BY DEF Owed
<1> QED BY <1>1, <1>2, <1>3, FS_Subset

\* A place more or a place fewer.
LEMMA OneMore ==
  ASSUME NEW S, IsFiniteSet(S), NEW T, IsFiniteSet(T), NEW x, x \notin S, S \cup {x} \subseteq T
  PROVE  Cardinality(T) >= Cardinality(S) + 1
<1>1. IsFiniteSet(S \cup {x}) /\ Cardinality(S \cup {x}) = Cardinality(S) + 1
  BY FS_AddElement
<1>2. Cardinality(S \cup {x}) <= Cardinality(T)
  BY FS_Subset
<1> QED BY <1>1, <1>2, FS_CardinalityType

LEMMA OneFewer ==
  ASSUME NEW S, IsFiniteSet(S), NEW T, IsFiniteSet(T), NEW x, S \ {x} \subseteq T
  PROVE  Cardinality(T) + 1 >= Cardinality(S)
<1>1. CASE x \in S
  <2>1. IsFiniteSet(S \ {x}) /\ Cardinality(S \ {x}) = Cardinality(S) - 1
    BY <1>1, FS_RemoveElement
  <2>2. Cardinality(S \ {x}) <= Cardinality(T)
    BY FS_Subset
  <2> QED BY <2>1, <2>2, FS_CardinalityType
<1>2. CASE x \notin S
  <2>1. S \subseteq T
    BY <1>2
  <2>2. Cardinality(S) <= Cardinality(T)
    BY <2>1, FS_Subset
  <2> QED BY <2>2, FS_CardinalityType
<1> QED BY <1>1, <1>2

\* A step keeps the balance when it loses no place and no debt, when it gives
\* up one place for a new debt, or when it pays a debt with a new place.
LEMMA Balance ==
  ASSUME TypeOK, Named, TypeOK', Named', PlacesKept, mishap => mishap',
         ~mishap' =>
           \/ Places \subseteq Places' /\ Owed \subseteq Owed'
           \/ \E n, m : /\ Places \ {n} \subseteq Places'
                        /\ m \notin Owed /\ Owed \cup {m} \subseteq Owed'
           \/ \E n, m : /\ n \notin Places /\ Places \cup {n} \subseteq Places'
                        /\ Owed \ {m} \subseteq Owed'
  PROVE  PlacesKept'
<1> SUFFICES ASSUME ~mishap'
             PROVE  Cardinality(Places') + Cardinality(Owed') >= Cardinality(Originals)
  BY DEF PlacesKept
<1>0. (TypeOK /\ Named => Places \subseteq Nodes /\ IsFiniteSet(Places) /\ IsFiniteSet(Owed))'
  BY PlacesFinite, PTL
<1>1. IsFiniteSet(Places) /\ IsFiniteSet(Owed) /\ IsFiniteSet(Places') /\ IsFiniteSet(Owed')
  BY <1>0, PlacesFinite
<1>2. /\ Cardinality(Places) \in Nat /\ Cardinality(Owed) \in Nat
      /\ Cardinality(Places') \in Nat /\ Cardinality(Owed') \in Nat
      /\ Cardinality(Originals) \in Nat
  BY <1>1, FS_CardinalityType, RecoveryAssumption
<1>3. Cardinality(Places) + Cardinality(Owed) >= Cardinality(Originals)
  BY DEF PlacesKept
<1>4. CASE Places \subseteq Places' /\ Owed \subseteq Owed'
  <2>1. Cardinality(Places) <= Cardinality(Places') /\ Cardinality(Owed) <= Cardinality(Owed')
    BY <1>1, <1>4, FS_Subset
  <2> QED BY <1>2, <1>3, <2>1
<1>5. ASSUME NEW n, NEW m, Places \ {n} \subseteq Places',
             m \notin Owed, Owed \cup {m} \subseteq Owed'
      PROVE  Cardinality(Places') + Cardinality(Owed') >= Cardinality(Originals)
  <2>1. /\ Cardinality(Places') + 1 >= Cardinality(Places)
        /\ Cardinality(Owed') >= Cardinality(Owed) + 1
    BY <1>1, <1>5, OneMore, OneFewer
  <2> QED BY <1>2, <1>3, <2>1
<1>6. ASSUME NEW n, NEW m, n \notin Places, Places \cup {n} \subseteq Places',
             Owed \ {m} \subseteq Owed'
      PROVE  Cardinality(Places') + Cardinality(Owed') >= Cardinality(Originals)
  <2>1. /\ Cardinality(Places') >= Cardinality(Places) + 1
        /\ Cardinality(Owed') + 1 >= Cardinality(Owed)
    BY <1>1, <1>6, OneMore, OneFewer
  <2> QED BY <1>2, <1>3, <2>1
<1> QED BY <1>4, <1>5, <1>6

\* A step that neither ends a container, nor forgets or notes a node, nor
\* touches a monitor that has something to give up or to replace.
LEMMA PlacesSame ==
  ASSUME TypeOK, TypeOK', Named, NEW m \in Monitors,
         UNCHANGED <<container, cluster>>,
         \A k \in Monitors : k # m =>
           pc'[k] = pc[k] /\ node'[k] = node[k] /\ forgotten'[k] = forgotten[k],
         pc[m] \notin {"stop", "forget", "remove", "create"},
         forgotten'[m] \subseteq forgotten[m]
  PROVE  Places \subseteq Places' /\ Owed \subseteq Owed'
<1>1. \A n \in Nodes : Waiting(n) => Waiting(n)'
  BY DEF Waiting, TypeOK
<1>2. \A k \in Monitors : pc[k] = "forget" => pc'[k] = "forget" /\ node'[k] = node[k]
  OBVIOUS
<1>3. Places \subseteq Places'
  BY <1>1, <1>2 DEF Places
<1> QED BY <1>3 DEF Owed

LEMMA PlacesStep ==
  TypeOK /\ TypeOK' /\ Named /\ Named' /\ Housed /\ Exclusive /\ Noted /\ PlacesKept /\ [Next]_vars
    => PlacesKept'
<1> SUFFICES ASSUME TypeOK, TypeOK', Named, Named', Housed, Exclusive, Noted, PlacesKept,
                    [Next]_vars
             PROVE  PlacesKept'
  OBVIOUS
<1>1. ASSUME NEW m \in Monitors, List(m) \/ Fetch(m) \/ NextJudgement(m) PROVE PlacesKept'
  <2>1. UNCHANGED <<container, cluster, forgotten, node, mishap>>
    BY <1>1 DEF List, Fetch, NextJudgement, world, recovery
  <2>2. pc[m] \in {"idle", "fetch", "judge"}
    BY <1>1 DEF List, Fetch, NextJudgement
  <2>3. \A k \in Monitors : k # m => pc'[k] = pc[k]
    <3>1. pc' = [pc EXCEPT ![m] = pc'[m]]
      BY <1>1, RoundOutside
    <3> QED BY <3>1 DEF TypeOK
  <2> QED BY <2>1, <2>2, <2>3, PlacesSame, Balance
<1>2. ASSUME NEW m \in Monitors, NEW n \in Nodes, Trigger(m, n) PROVE PlacesKept'
  <2>1. UNCHANGED <<container, cluster, mishap>> /\ pc[m] = "judge"
    BY <1>2 DEF Trigger, world, history
  <2>2. CASE n \in forgotten[m]
    BY <1>2, <2>1, <2>2, PlacesSame, Balance DEF Trigger
  <2>3. CASE n \notin forgotten[m]
    <3>1. /\ pc' = [pc EXCEPT ![m] = "stop"] /\ node' = [node EXCEPT ![m] = n]
          /\ forgotten' = [forgotten EXCEPT ![m] = @ \cup {n}]
      BY <1>2, <2>3 DEF Trigger, Goto
    <3>2. \A l \in Nodes : Waiting(l) => Waiting(l)'
      BY <2>1, <3>1 DEF Waiting, TypeOK
    <3>3. \A k \in Monitors : pc[k] = "forget" => pc'[k] = "forget" /\ node'[k] = node[k]
      BY <2>1, <3>1 DEF TypeOK
    <3>4. Places \subseteq Places'
      BY <2>1, <3>2, <3>3 DEF Places
    <3>5. Owed \subseteq Owed'
      BY <2>1, <3>1 DEF Owed, TypeOK
    <3> QED BY <2>1, <3>4, <3>5, Balance
  <2> QED BY <2>2, <2>3
<1>3. ASSUME NEW m \in Monitors, Stop(m) PROVE PlacesKept'
  <2>1. /\ UNCHANGED <<cluster, forgotten, node, mishap>> /\ pc[m] = "stop"
        /\ pc' = [pc EXCEPT ![m] = "forget"]
        /\ \A n \in Nodes : n # node[m] => container'[n] = container[n]
    BY <1>3 DEF Stop, Goto, recovery, TypeOK
  <2>2. \A n \in Nodes : Waiting(n) /\ n # node[m] => Waiting(n)'
    BY <2>1 DEF Waiting, TypeOK
  <2>3. node[m] \in Places'
    BY <2>1 DEF Places, TypeOK
  <2>4. \A k \in Monitors : pc[k] = "forget" => pc'[k] = "forget"
    BY <2>1 DEF TypeOK
  <2>5. Places \subseteq Places'
    BY <2>1, <2>2, <2>3, <2>4 DEF Places
  <2>6. Owed \subseteq Owed'
    BY <2>1 DEF Owed, TypeOK
  <2> QED BY <2>1, <2>5, <2>6, Balance
<1>4. ASSUME NEW m \in Monitors, ForgetSucceeds(m) \/ ForgetFails(m) PROVE PlacesKept'
  <2>1. /\ UNCHANGED <<container, forgotten, node, mishap>> /\ pc[m] = "forget"
        /\ cluster \ {node[m]} \subseteq cluster' /\ cluster' \subseteq cluster
        /\ \/ pc' = [pc EXCEPT ![m] = "remove"] \/ pc' = [pc EXCEPT ![m] = "create"]
           \/ pc' = pc /\ cluster' = cluster
    BY <1>4 DEF ForgetSucceeds, ForgetFails, Goto, world, history
  <2>2. \A n \in Nodes : Waiting(n) => Waiting(n)'
    BY <2>1 DEF Waiting, TypeOK
  <2>3. \A k \in Monitors : pc[k] = "forget" /\ k # m => pc'[k] = "forget"
    BY <2>1 DEF TypeOK
  <2>4. Places \ {node[m]} \subseteq Places'
    BY <2>1, <2>2, <2>3 DEF Places
  <2>5. CASE pc' = pc /\ cluster' = cluster
    BY <2>1, <2>2, <2>5, Balance DEF Places, Owed
  <2>6. CASE pc' = [pc EXCEPT ![m] = "remove"] \/ pc' = [pc EXCEPT ![m] = "create"]
    <3>1. m \notin Owed /\ Owed \cup {m} \subseteq Owed'
      BY <2>1, <2>6 DEF Owed, TypeOK
    <3> QED BY <2>1, <2>4, <3>1, Balance
  <2> QED BY <2>1, <2>5, <2>6
<1>5. ASSUME NEW m \in Monitors, Remove(m) PROVE PlacesKept'
  <2>1. /\ UNCHANGED <<cluster, forgotten, node, mishap>> /\ pc[m] = "remove"
        /\ pc' = [pc EXCEPT ![m] = "create"]
        /\ \A n \in Nodes : n # node[m] => container'[n] = container[n]
    BY <1>5 DEF Remove, Goto, recovery, TypeOK
  <2>2. ~Waiting(node[m])
    BY <2>1 DEF Waiting, Noted
  <2>3. \A n \in Nodes : Waiting(n) => Waiting(n)'
    BY <2>1, <2>2 DEF Waiting, TypeOK
  <2>4. \A k \in Monitors : pc[k] = "forget" => pc'[k] = "forget"
    BY <2>1 DEF TypeOK
  <2>5. Places \subseteq Places' /\ Owed \subseteq Owed'
    BY <2>1, <2>3, <2>4 DEF Places, Owed, TypeOK
  <2> QED BY <2>1, <2>5, Balance
<1>6. ASSUME NEW m \in Monitors, NEW s \in Spares, Create(m, s) PROVE PlacesKept'
  <2>1. mishap => mishap'
    BY <1>6 DEF Create
  <2>2. ASSUME ~mishap'
        PROVE  \E n, k : /\ n \notin Places /\ Places \cup {n} \subseteq Places'
                         /\ Owed \ {k} \subseteq Owed'
    <3>1. /\ container[s] = "none" /\ container' = [container EXCEPT ![s] = "running"]
          /\ pc[m] = "create" /\ pc' = [pc EXCEPT ![m] = "join"]
          /\ \A k \in Monitors : s \notin forgotten[k]
          /\ UNCHANGED <<forgotten, node, cluster>>
      BY <1>6, <2>2 DEF Create, Goto
    <3>2. s \in Nodes /\ s \notin cluster
      BY <3>1 DEF Nodes, Housed, MembersHaveContainers
    <3>3. \A k \in Monitors : pc[k] = "forget" => node[k] # s
      BY <3>1 DEF Noted
    <3>4. s \notin Places
      BY <3>1, <3>2, <3>3 DEF Places, Waiting
    <3>5. Waiting(s)'
      BY <3>1, <3>2 DEF Waiting, TypeOK
    <3>6. \A n \in Nodes : Waiting(n) => Waiting(n)'
      BY <3>1 DEF Waiting, TypeOK
    <3>7. \A k \in Monitors : pc[k] = "forget" => pc'[k] = "forget"
      BY <3>1 DEF TypeOK
    <3>8. Places \cup {s} \subseteq Places'
      BY <3>1, <3>2, <3>5, <3>6, <3>7 DEF Places
    <3>9. Owed \ {m} \subseteq Owed'
      BY <3>1 DEF Owed, TypeOK
    <3> QED BY <3>4, <3>8, <3>9
  <2> QED BY <2>1, <2>2, Balance
<1>7. ASSUME NEW m \in Monitors, Join(m) \/ Start(m) PROVE PlacesKept'
  <2>1. /\ UNCHANGED <<container, forgotten, mishap>> /\ cluster \subseteq cluster'
        /\ cluster' \subseteq cluster \cup {new[m]}
        /\ pc[m] \in {"join", "start"}
        /\ \A k \in Monitors : k # m => pc'[k] = pc[k] /\ node'[k] = node[k]
    BY <1>7 DEF Join, Start, Done, Goto, recovery, history, TypeOK
  <2>2. \A n \in Nodes : Waiting(n) => Waiting(n)' \/ n \in cluster'
    BY <2>1 DEF Waiting, TypeOK
  <2>3. \A k \in Monitors : pc[k] = "forget" => pc'[k] = "forget" /\ node'[k] = node[k]
    BY <2>1
  <2>4. Places \subseteq Places'
    BY <2>1, <2>2, <2>3 DEF Places
  <2>5. Owed \subseteq Owed'
    BY <2>1 DEF Owed
  <2> QED BY <2>1, <2>4, <2>5, Balance
<1>8. ASSUME NEW n \in Nodes, Fail(n) \/ Return(n) PROVE PlacesKept'
  <2>1. /\ UNCHANGED <<cluster, pc, forgotten, node>> /\ (mishap => mishap')
        /\ ~mishap' => \A l \in Nodes : l \notin cluster /\ container[l] = "running"
                                          => container'[l] = "running"
    BY <1>8 DEF Fail, Return, recovery, TypeOK
  <2>2. ~mishap' => \A l \in Nodes : Waiting(l) => Waiting(l)'
    BY <2>1 DEF Waiting
  <2>3. ~mishap' => Places \subseteq Places'
    BY <2>1, <2>2 DEF Places
  <2>4. Owed \subseteq Owed'
    BY <2>1 DEF Owed
  <2> QED BY <2>1, <2>3, <2>4, Balance
<1>9. ASSUME NEW m \in Monitors, Crash(m) PROVE PlacesKept'
  <2>1. /\ UNCHANGED <<container, cluster>> /\ pc'[m] = "idle" /\ forgotten'[m] = {}
        /\ \A k \in Monitors : k # m =>
             pc'[k] = pc[k] /\ node'[k] = node[k] /\ forgotten'[k] = forgotten[k]
        /\ mishap => mishap'
        /\ ~mishap' => /\ pc[m] \notin {"remove", "create"}
                       /\ pc[m] = "forget" => node[m] \in cluster
    BY <1>9 DEF Crash, Goto, world, TypeOK
  <2>2. \A l \in Nodes : Waiting(l) => Waiting(l)'
    BY <2>1 DEF Waiting
  <2>3. \A k \in Monitors : k # m /\ pc[k] = "forget" => pc'[k] = "forget" /\ node'[k] = node[k]
    BY <2>1
  <2>4. ~mishap' => Places \subseteq Places'
    BY <2>1, <2>2, <2>3 DEF Places
  <2>5. ~mishap' => Owed \subseteq Owed'
    BY <2>1 DEF Owed
  <2> QED BY <2>1, <2>4, <2>5, Balance
<1>10. CASE UNCHANGED vars
  BY <1>10 DEF vars, PlacesKept, Places, Owed, Waiting, world, recovery, history
<1> QED BY <1>1, <1>2, <1>3, <1>4, <1>5, <1>6, <1>7, <1>8, <1>9, <1>10 DEF Next, Monitor

-----------------------------------------------------------------------------
(* Theorems                                                                *)

\* The invariant that ties the monitors' views to the cluster and to each
\* other: who works on which container, and what a round may conclude.
THEOREM RecoveryInvariant == Spec => []IInv
<1>1. Init => IInv
  <2> SUFFICES ASSUME Init PROVE IInv
    OBVIOUS
  <2>1. TypeOK
    BY InitTypes
  <2>2. Housed /\ Exclusive /\ Named
    BY RecoveryAssumption
       DEF Init, Housed, MembersHaveContainers, Exclusive, Named, Nodes
  <2>3. Judged /\ HealthyUntouched /\ SeedNeverRecovered
    BY RecoveryAssumption DEF Init, Judged, HealthyUntouched, SeedNeverRecovered, Nodes
  <2>4. Noted /\ PlacesKept
    <3>1. Cardinality(Places) \in Nat /\ Cardinality(Owed) \in Nat
      BY <2>1, <2>2, PlacesFinite, FS_CardinalityType
    <3>2. Originals \subseteq Places
      BY DEF Init, Places
    <3>3. Cardinality(Originals) <= Cardinality(Places) /\ Cardinality(Originals) \in Nat
      BY <2>1, <2>2, <3>2, PlacesFinite, FS_Subset, FS_CardinalityType, RecoveryAssumption
    <3> QED BY <3>1, <3>3 DEF Init, Noted, PlacesKept
  <2> QED BY <2>1, <2>2, <2>3, <2>4 DEF IInv
<1>2. IInv /\ [Next]_vars => IInv'
  BY TypeStep, NamedStep, HousedStep, ExclusiveStep, JudgementStep, NotedStep, PlacesStep
     DEF IInv, Judgement
<1> QED BY <1>1, <1>2, PTL DEF Spec

\* The state of Docker, the cluster and the monitors keeps its types.
THEOREM RecoveryTypeCorrect == Spec => []TypeOK
<1>1. IInv => TypeOK
  BY DEF IInv
<1> QED BY <1>1, RecoveryInvariant, PTL

\* triggerRecovery deletes no data of a member, however many gateways recover.
THEOREM DataKept == Spec => []MembersHaveContainers
<1>1. IInv => MembersHaveContainers
  BY DEF IInv, Housed
<1> QED BY <1>1, RecoveryInvariant, PTL

\* checkQuorumStatus condemns no node that runs throughout the round, save
\* the recovery nodes of a monitor that could not list the containers.
THEOREM HealthyNodesKept == Spec => []HealthyUntouched
<1>1. IInv => HealthyUntouched
  BY DEF IInv
<1> QED BY <1>1, RecoveryInvariant, PTL

\* However recoveries overlap and fail half way, what monitors have taken out
\* of the cluster they replace or still owe, save the mishaps.
THEOREM PlacesReplaced == Spec => []PlacesKept
<1>1. IInv => PlacesKept
  BY DEF IInv
<1> QED BY <1>1, RecoveryInvariant, PTL

\* rabbit1 is never the node to recover.
THEOREM SeedKept == Spec => []SeedNeverRecovered
<1>1. IInv => SeedNeverRecovered
  BY DEF IInv
<1> QED BY <1>1, RecoveryInvariant, PTL
=============================================================================
