--------------------------- MODULE QuorumRecovery ---------------------------
(***************************************************************************)
(* The quorum monitors (quorum_recovery/handler.go). Every gateway runs    *)
(* one: a round lists the running containers, asks rabbit1 for the nodes   *)
(* of the cluster and for the members of its queues, and replaces the      *)
(* nodes it takes for dead: stop the container, forget the node, remove    *)
(* the container, create another under a random name, join it.             *)
(* Containers, and the nodes in them, fail and return at any point, and    *)
(* so do the gateways.                                                     *)
(***************************************************************************)
EXTENDS Naturals, FiniteSets

CONSTANTS
  Monitors,    \* the gateways' monitors
  Originals,   \* the nodes of docker-compose.yml
  Seed,        \* rabbit1: serves the API, and runs forget_cluster_node
  Spares,      \* the names rabbit-recover-<n>
  NoNode,
  MaxRetries,  \* maxRetries (5)
  MaxFailures, MaxReturns, MaxErrors, MaxCrashes  \* bounds on what goes wrong

Nodes == Originals \cup Spares

ASSUME RecoveryAssumption ==
  /\ Seed \in Originals /\ Originals \cap Spares = {} /\ NoNode \notin Nodes
  /\ IsFiniteSet(Originals) /\ IsFiniteSet(Spares) /\ IsFiniteSet(Monitors)
  /\ MaxRetries \in Nat \ {0}
  /\ {MaxFailures, MaxReturns, MaxErrors, MaxCrashes} \subseteq Nat

VARIABLES
  \* Docker and the cluster
  container,   \* container[n] : "none", "stopped" or "running"
  cluster,     \* the members of the cluster
  up,          \* the members that run
  \* the monitors
  pc, stage,   \* where the monitor is, and which judgement of its round it is in
  expected, previous,   \* expectedNodes, previousExpectedNodes
  live,        \* the nodes the API answered were running
  todo,        \* the nodes this judgement has still to recover
  forgotten,
  node, tries, \* deadNode of the recovery under way, forgets that failed
  new,         \* newNode
  \* histories and budgets
  blind,       \* the monitors that could not list the containers in this round
  steady,      \* steady[m]: the nodes that have run since this round began
  mishap,      \* a dead node is left without a replacement
  failures, returns, errors, crashes

world == <<container, cluster, up>>
round == <<stage, expected, previous, live, todo, blind>>
recovery == <<forgotten, node, tries, new>>
history == <<steady, mishap>>
budgets == <<failures, returns, errors, crashes>>
vars == <<world, pc, round, recovery, history, budgets>>

Init ==
  /\ container = [n \in Nodes |-> IF n \in Originals THEN "running" ELSE "none"]
  /\ cluster = Originals /\ up = Originals
  /\ pc = [m \in Monitors |-> "idle"]
  /\ stage = [m \in Monitors |-> "known"]
  /\ expected = [m \in Monitors |-> {}] /\ previous = [m \in Monitors |-> {}]
  /\ live = [m \in Monitors |-> {}] /\ todo = [m \in Monitors |-> {}]
  /\ forgotten = [m \in Monitors |-> {}]
  /\ node = [m \in Monitors |-> NoNode] /\ new = [m \in Monitors |-> NoNode]
  /\ tries = [m \in Monitors |-> 0]
  /\ blind = {}
  /\ steady = [m \in Monitors |-> {}]
  /\ mishap = FALSE
  /\ failures = 0 /\ returns = 0 /\ errors = 0 /\ crashes = 0

Goto(m, label) == pc' = [pc EXCEPT ![m] = label]
Running == {n \in Nodes : container[n] = "running"}

\* The running members become U.
UpIs(U) ==
  /\ up' = U
  /\ steady' = [m \in Monitors |-> steady[m] \cap U]

\* Whether a call fails that could have succeeded.
Error ==
  /\ errors < MaxErrors
  /\ errors' = errors + 1
NoError == UNCHANGED errors

-----------------------------------------------------------------------------
(* A round: updateExpectedNodes and checkQuorumStatus                      *)

\* Back to the sleep; of the round only expectedNodes is used again.
EndRound(m) ==
  /\ Goto(m, "idle")
  /\ stage' = [stage EXCEPT ![m] = "known"]
  /\ previous' = [previous EXCEPT ![m] = {}]
  /\ live' = [live EXCEPT ![m] = {}]
  /\ todo' = [todo EXCEPT ![m] = {}]
  /\ blind' = blind \ {m}
  /\ steady' = [steady EXCEPT ![m] = {}]
  /\ UNCHANGED expected

\* A listing that fails leaves the list empty.
List(m) ==
  /\ pc[m] = "idle"
  /\ Goto(m, "fetch")
  /\ previous' = [previous EXCEPT ![m] = expected[m]]
  /\ \/ /\ expected' = [expected EXCEPT ![m] = Running]
        /\ UNCHANGED blind /\ NoError
     \/ /\ expected' = [expected EXCEPT ![m] = {}]
        /\ blind' = blind \cup {m} /\ Error
  /\ steady' = [steady EXCEPT ![m] = up]
  /\ UNCHANGED <<world, stage, live, todo, recovery, mishap, failures, returns, crashes>>

\* Variant: the monitor goes on when it gets no answer.
FetchAnyway(m) ==
  /\ pc[m] = "fetch"
  /\ Goto(m, "judge")
  /\ IF Seed \in up
     THEN /\ live' = [live EXCEPT ![m] = up]
          /\ todo' = [todo EXCEPT ![m] = cluster \ up]
     ELSE UNCHANGED <<live, todo>>
  /\ UNCHANGED <<world, stage, expected, previous, blind, recovery, history, budgets>>

\* /api/nodes. Without an answer, or with one that cannot be decoded, the
\* round is over; otherwise the members that do not run come first.
Fetch(m) ==
  /\ pc[m] = "fetch"
  /\ \/ /\ Seed \in up
        /\ Goto(m, "judge")
        /\ live' = [live EXCEPT ![m] = up]
        /\ todo' = [todo EXCEPT ![m] = cluster \ up]
        /\ NoError
        /\ UNCHANGED <<stage, expected, previous, blind, steady>>
     \/ Seed \notin up /\ NoError /\ EndRound(m)
     \/ Seed \in up /\ Error /\ EndRound(m)
  /\ UNCHANGED <<world, recovery, mishap, failures, returns, crashes>>

\* The next judgement, with the nodes it finds dead.
Judge(m, next, dead) ==
  /\ stage' = [stage EXCEPT ![m] = next]
  /\ todo' = [todo EXCEPT ![m] = dead]
  /\ UNCHANGED <<pc, expected, previous, live, blind, steady>>

\* After the members that do not run: the containers whose node is not live,
\* the recovery containers that have vanished from the list, and the members
\* of the queues, asked for only now and judged by the first answer.
NextJudgement(m) ==
  /\ pc[m] = "judge" /\ todo[m] = {}
  /\ CASE stage[m] = "known" ->
            Judge(m, "expected", expected[m] \ live[m]) /\ NoError
       [] stage[m] = "expected" ->
            Judge(m, "vanished", (previous[m] \ expected[m]) \cap Spares) /\ NoError
       [] stage[m] = "vanished" ->
            \/ /\ Seed \in up /\ NoError
               /\ \E members \in SUBSET cluster : Judge(m, "queues", members \ live[m])
            \/ Seed \notin up /\ NoError /\ EndRound(m)
            \/ Seed \in up /\ Error /\ EndRound(m)
       [] stage[m] = "queues" -> EndRound(m) /\ NoError
  /\ UNCHANGED <<world, recovery, mishap, failures, returns, crashes>>

-----------------------------------------------------------------------------
(* A recovery: triggerRecovery, one at a time                              *)

Trigger(m, n) ==
  /\ pc[m] = "judge" /\ n \in todo[m]
  /\ todo' = [todo EXCEPT ![m] = @ \ {n}]
  /\ IF n \in forgotten[m]
     THEN UNCHANGED <<pc, forgotten, node>>
     ELSE /\ Goto(m, "stop")
          /\ forgotten' = [forgotten EXCEPT ![m] = @ \cup {n}]
          /\ node' = [node EXCEPT ![m] = n]
  /\ UNCHANGED <<world, stage, expected, previous, live, blind, tries, new, history, budgets>>

\* The node's container stops, and the node with it; an error is ignored.
Stop(m) ==
  /\ pc[m] = "stop"
  /\ Goto(m, "forget")
  /\ \/ /\ container[node[m]] # "none" /\ NoError
        /\ container' = [container EXCEPT ![node[m]] = "stopped"]
        /\ UpIs(up \ {node[m]})
     \/ /\ IF container[node[m]] # "none" THEN Error ELSE NoError
        /\ UNCHANGED <<container, up, steady>>
  /\ UNCHANGED <<cluster, round, recovery, mishap, failures, returns, crashes>>

\* rabbit1 forgets a member that does not run.
CanForget(m) == Seed \in up /\ node[m] \in cluster \ up

ForgetSucceeds(m) ==
  /\ pc[m] = "forget" /\ CanForget(m)
  /\ cluster' = cluster \ {node[m]}
  /\ tries' = [tries EXCEPT ![m] = 0]
  /\ Goto(m, "remove")
  /\ UNCHANGED <<container, up, round, forgotten, node, new, history, budgets>>

\* Variant: giving up goes on with the removal.
ForgetFailsOn(m) ==
  /\ pc[m] = "forget"
  /\ IF CanForget(m) THEN Error ELSE NoError
  /\ IF tries[m] + 1 < MaxRetries
     THEN tries' = [tries EXCEPT ![m] = @ + 1] /\ UNCHANGED pc
     ELSE tries' = [tries EXCEPT ![m] = 0] /\ Goto(m, "remove")
  /\ UNCHANGED <<world, round, forgotten, node, new, history, failures, returns, crashes>>

\* Variant: one try too many.
ForgetFailsMore(m) ==
  /\ pc[m] = "forget"
  /\ IF CanForget(m) THEN Error ELSE NoError
  /\ IF tries[m] < MaxRetries
     THEN tries' = [tries EXCEPT ![m] = @ + 1] /\ UNCHANGED pc
     ELSE tries' = [tries EXCEPT ![m] = 0] /\ Goto(m, "create")
  /\ UNCHANGED <<world, round, forgotten, node, new, history, failures, returns, crashes>>

\* Variant: giving up creates no replacement.
ForgetFailsOnly(m) ==
  /\ pc[m] = "forget"
  /\ IF CanForget(m) THEN Error ELSE NoError
  /\ IF tries[m] + 1 < MaxRetries
     THEN tries' = [tries EXCEPT ![m] = @ + 1] /\ UNCHANGED pc
     ELSE tries' = [tries EXCEPT ![m] = 0] /\ Goto(m, "judge")
  /\ UNCHANGED <<world, round, forgotten, node, new, history, failures, returns, crashes>>

\* After MaxRetries the monitor leaves the node as it is, and replaces it.
ForgetFails(m) ==
  /\ pc[m] = "forget"
  /\ IF CanForget(m) THEN Error ELSE NoError
  /\ IF tries[m] + 1 < MaxRetries
     THEN tries' = [tries EXCEPT ![m] = @ + 1] /\ UNCHANGED pc
     ELSE tries' = [tries EXCEPT ![m] = 0] /\ Goto(m, "create")
  /\ UNCHANGED <<world, round, forgotten, node, new, history, failures, returns, crashes>>

\* The container and its volume; an error is ignored.
Remove(m) ==
  /\ pc[m] = "remove"
  /\ Goto(m, "create")
  /\ \/ /\ container' = [container EXCEPT ![node[m]] = "none"]
        /\ UpIs(up \ {node[m]}) /\ NoError
     \/ /\ container[node[m]] # "none" /\ Error
        /\ UNCHANGED <<container, up, steady>>
  /\ UNCHANGED <<cluster, round, recovery, mishap, failures, returns, crashes>>

\* triggerRecovery returns.
Done(m) ==
  /\ Goto(m, "judge")
  /\ node' = [node EXCEPT ![m] = NoNode]
  /\ new' = [new EXCEPT ![m] = NoNode]
  /\ UNCHANGED <<forgotten, tries>>

\* addTestNode, up to the start of the container. A name in use, or an
\* error, and there is no replacement; a name that was forgotten before
\* belongs to a node that will not be recovered.
Create(m, s) ==
  /\ pc[m] = "create"
  /\ \/ /\ container[s] = "none" /\ NoError
        /\ container' = [container EXCEPT ![s] = "running"]
        /\ Goto(m, "join")
        /\ new' = [new EXCEPT ![m] = s]
        /\ mishap' = (mishap \/ \E k \in Monitors : s \in forgotten[k])
        /\ UNCHANGED <<forgotten, node, tries>>
     \/ /\ Done(m)
        /\ IF container[s] = "none"
           THEN Error /\ \E c \in {"none", "stopped"} : container' = [container EXCEPT ![s] = c]
           ELSE NoError /\ UNCHANGED container
        /\ mishap' = TRUE
  /\ UNCHANGED <<cluster, up, round, steady, failures, returns, crashes>>

\* The wait until RabbitMQ is ready, stop_app and join_cluster.
CanJoin(m) == container[new[m]] = "running" /\ Seed \in up

Join(m) ==
  /\ pc[m] = "join"
  /\ \/ /\ CanJoin(m) /\ NoError
        /\ cluster' = cluster \cup {new[m]}
        /\ Goto(m, "start")
        /\ UNCHANGED recovery
     \/ /\ IF CanJoin(m) THEN Error ELSE NoError
        /\ Done(m)
        /\ UNCHANGED cluster
  /\ UNCHANGED <<container, up, round, history, failures, returns, crashes>>

\* start_app
CanStart(m) == container[new[m]] = "running" /\ new[m] \in cluster

Start(m) ==
  /\ pc[m] = "start"
  /\ \/ CanStart(m) /\ NoError /\ UpIs(up \cup {new[m]})
     \/ /\ IF CanStart(m) THEN Error ELSE NoError
        /\ UNCHANGED <<up, steady>>
  /\ Done(m)
  /\ UNCHANGED <<container, cluster, round, mishap, failures, returns, crashes>>

-----------------------------------------------------------------------------
(* Failures                                                                *)

\* A node stops, alone or with its container.
Fail(n) ==
  /\ failures < MaxFailures /\ n \in Running
  /\ failures' = failures + 1
  /\ UpIs(up \ {n})
  /\ \/ UNCHANGED <<container, mishap>>
     \/ /\ container' = [container EXCEPT ![n] = "stopped"]
        /\ mishap' = (mishap \/ n \notin cluster)
  /\ UNCHANGED <<cluster, pc, round, recovery, returns, errors, crashes>>

\* It is started again: as a member, if it has not been forgotten.
Return(n) ==
  /\ returns < MaxReturns /\ n \notin up /\ container[n] # "none"
  /\ returns' = returns + 1
  /\ container' = [container EXCEPT ![n] = "running"]
  /\ UpIs(IF n \in cluster THEN up \cup {n} ELSE up)
  /\ UNCHANGED <<cluster, pc, round, recovery, mishap, failures, errors, crashes>>

\* A gateway dies, and its monitor with all it knows; started again it
\* begins afresh.
Crash(m) ==
  /\ crashes < MaxCrashes
  /\ crashes' = crashes + 1
  /\ Goto(m, "idle")
  /\ stage' = [stage EXCEPT ![m] = "known"]
  /\ expected' = [expected EXCEPT ![m] = {}] /\ previous' = [previous EXCEPT ![m] = {}]
  /\ live' = [live EXCEPT ![m] = {}] /\ todo' = [todo EXCEPT ![m] = {}]
  /\ forgotten' = [forgotten EXCEPT ![m] = {}]
  /\ node' = [node EXCEPT ![m] = NoNode] /\ new' = [new EXCEPT ![m] = NoNode]
  /\ tries' = [tries EXCEPT ![m] = 0]
  /\ blind' = blind \ {m}
  /\ steady' = [steady EXCEPT ![m] = {}]
  /\ mishap' = (\/ mishap \/ pc[m] \in {"remove", "create"}
                \/ pc[m] = "forget" /\ node[m] \notin cluster)
  /\ UNCHANGED <<world, failures, returns, errors>>

-----------------------------------------------------------------------------
Monitor(m) ==
  \/ List(m) \/ Fetch(m) \/ NextJudgement(m)
  \/ \E n \in Nodes : Trigger(m, n)
  \/ Stop(m) \/ ForgetSucceeds(m) \/ ForgetFails(m) \/ Remove(m)
  \/ \E s \in Spares : Create(m, s)
  \/ Join(m) \/ Start(m)

Next ==
  \/ \E m \in Monitors : Monitor(m) \/ Crash(m)
  \/ \E n \in Nodes : Fail(n) \/ Return(n)

\* A monitor goes on as long as its gateway runs; nothing has to fail, and
\* nothing that failed has to return.
Spec == Init /\ [][Next]_vars /\ \A m \in Monitors : WF_vars(Monitor(m))

-----------------------------------------------------------------------------
(* Properties                                                              *)

Recovering == {"stop", "forget", "remove", "create", "join", "start"}

\* Types of Docker, the cluster and the monitors.
TypeOK ==
  /\ container \in [Nodes -> {"none", "stopped", "running"}]
  /\ cluster \subseteq Nodes /\ up \subseteq Nodes
  /\ pc \in [Monitors -> {"idle", "fetch", "judge"} \cup Recovering]
  /\ stage \in [Monitors -> {"known", "expected", "vanished", "queues"}]
  /\ expected \in [Monitors -> SUBSET Nodes] /\ previous \in [Monitors -> SUBSET Nodes]
  /\ live \in [Monitors -> SUBSET Nodes] /\ todo \in [Monitors -> SUBSET Nodes]
  /\ forgotten \in [Monitors -> SUBSET Nodes] /\ steady \in [Monitors -> SUBSET Nodes]
  /\ node \in [Monitors -> Nodes \cup {NoNode}] /\ new \in [Monitors -> Nodes \cup {NoNode}]
  /\ tries \in [Monitors -> 0..(MaxRetries - 1)]
  /\ blind \subseteq Monitors /\ mishap \in BOOLEAN
  /\ failures \in Nat /\ returns \in Nat /\ errors \in Nat /\ crashes \in Nat

\* The data of a member is deleted only after the cluster has forgotten it,
\* whatever other monitors do meanwhile (handler.go:361).
MembersHaveContainers == \A n \in cluster : container[n] # "none"

\* A monitor stops only nodes that were down at some time in its round, or
\* that came up in it, unless it could not list the containers (handler.go:42).
HealthyUntouched ==
  \A m \in Monitors :
    pc[m] = "stop" => node[m] \notin steady[m] \/ (m \in blind /\ node[m] \in Spares)

\* The node that answers for the cluster is never recovered (handler.go:330).
SeedNeverRecovered == \A m \in Monitors : node[m] # Seed

\* A container outside the cluster that no monitor has seen the end of: the
\* rounds to come will judge it.
Waiting(n) ==
  /\ n \notin cluster /\ container[n] = "running"
  /\ \A m \in Monitors : n \in forgotten[m] => pc[m] = "stop" /\ node[m] = n

\* The places of the cluster: its members, those waiting to be one, and those
\* that a monitor is about to give up; and the replacements it owes.
Places == cluster \cup {n \in Nodes : Waiting(n)}
            \cup {node[m] : m \in {k \in Monitors : pc[k] = "forget"}}
Owed == {m \in Monitors : pc[m] \in {"remove", "create"}}

\* However monitors meet, fail half way (handler.go:359) or start again, every
\* place of the original cluster is taken or owed, up to the mishaps.
PlacesKept ==
  ~mishap => Cardinality(Places) + Cardinality(Owed) >= Cardinality(Originals)

\* As long as rabbit1 comes back and no dead node is left without a
\* replacement, the cluster regains its size (README, "Fault Tolerance").
QuorumRestored ==
  <>[](Seed \in up) /\ []~mishap => <>[](Cardinality(up) >= Cardinality(Originals))

\* "Quorum recovery when any RabbitMQ node fails" (README.md:128).
AnyNodeRecovered == []~mishap => <>[](Cardinality(up) >= Cardinality(Originals))
=============================================================================
