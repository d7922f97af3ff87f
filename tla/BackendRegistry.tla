--------------------------- MODULE BackendRegistry ---------------------------
(***************************************************************************)
(* What load_balancer.go promises of its registry, with no locks in sight: *)
(* an atomic list that gateways join at the end, from which a sweep takes  *)
(* dead gateways without touching the order of the others, and from which  *)
(* requests choose in turn. Nothing joins or leaves while one is in use.   *)
(***************************************************************************)
EXTENDS Naturals, Sequences, Functions

CONSTANTS
  Gateways,   \* addresses
  Proxies,    \* requests that use a gateway
  NoTarget,   \* a request uses none
  CounterMod  \* bound: the turn is kept modulo a multiple of all lengths

VARIABLES
  list,       \* the registered gateways in the order of their turns
  turn,       \* the turn taken last
  use,        \* use[p]: the gateway that request p checks or is sent to
  alive,      \* alive[g]: "off", "up" or "down"; an address comes up once
  late        \* some live gateway has missed a health check

registry == <<list, turn, use, alive, late>>

Init ==
  /\ list = << >> /\ turn = 0
  /\ use = [p \in Proxies |-> NoTarget]
  /\ alive = [g \in Gateways |-> "off"]
  /\ late = FALSE

Start(g) ==
  /\ alive[g] = "off"
  /\ alive' = [alive EXCEPT ![g] = "up"]
  /\ UNCHANGED <<list, turn, use, late>>

Stop(g) ==
  /\ alive[g] = "up"
  /\ alive' = [alive EXCEPT ![g] = "down"]
  /\ UNCHANGED <<list, turn, use, late>>

Miss ==
  /\ \E g \in Gateways : alive[g] = "up"
  /\ late' = TRUE
  /\ UNCHANGED <<list, turn, use, alive>>

NotInUse == \A p \in Proxies : use[p] = NoTarget

Join(g) ==
  /\ NotInUse
  /\ alive[g] # "off" /\ g \notin Range(list)
  /\ list' = Append(list, g)
  /\ UNCHANGED <<turn, use, alive, late>>

\* s is what is left when some of the first n members of t are taken out.
LeftOf(s, t, n) ==
  \E at \in [DOMAIN s -> 1..n] :
    /\ \A i \in DOMAIN s : s[i] = t[at[i]]
    /\ \A i, j \in DOMAIN s : i < j => at[i] < at[j]

Sweep ==
  /\ NotInUse
  /\ LeftOf(list', list, Len(list))
  /\ ~late => \A g \in Range(list) : alive[g] = "up" => g \in Range(list')
  /\ UNCHANGED <<turn, use, alive, late>>

Choose(p) ==
  /\ use[p] = NoTarget /\ list # << >>
  /\ turn' = (turn + 1) % CounterMod
  /\ use' = [use EXCEPT ![p] = list[(turn' % Len(list)) + 1]]
  /\ UNCHANGED <<list, alive, late>>

\* The answer is back, or the gateway has failed; it may only have been late.
Release(p) ==
  /\ use[p] # NoTarget
  /\ use' = [use EXCEPT ![p] = NoTarget]
  /\ late' \in {late, late \/ alive[use[p]] = "up"}
  /\ UNCHANGED <<list, turn, alive>>

Next ==
  \/ \E g \in Gateways : Start(g) \/ Stop(g) \/ Join(g)
  \/ Miss \/ Sweep
  \/ \E p \in Proxies : Choose(p) \/ Release(p)

Spec == Init /\ [][Next]_registry
=============================================================================
