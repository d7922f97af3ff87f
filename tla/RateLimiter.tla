---------------------------- MODULE RateLimiter ----------------------------
(***************************************************************************)
(* limiter/rate_limit.go: the counter of one user in Redis. Allow sends    *)
(* INCR and EXPIRE in one transaction, so every call, a refused one too,   *)
(* pushes the expiry a whole window into the future.                       *)
(***************************************************************************)
EXTENDS Naturals, Sequences

CONSTANTS
  MaxRequests,   \* 10
  Window,        \* a minute, in units of the clock
  Horizon,       \* bound: the clock stops there
  MaxCalls       \* bound: calls in a behaviour

ASSUME LimiterAssumption ==
  /\ MaxRequests \in Nat \ {0} /\ Window \in Nat \ {0}
  /\ Horizon \in Nat /\ MaxCalls \in Nat

VARIABLES
  now,       \* the clock of Redis
  count,     \* the value of the key, 0 when there is no key
  expires,   \* when the key is deleted, if there is one
  calls,     \* history: times of all calls
  granted,   \* history: times of the calls that were allowed
  denied     \* history: the calls that were refused over the limit (429)

vars == <<now, count, expires, calls, granted, denied>>

Init ==
  /\ now = 0 /\ count = 0 /\ expires = 0
  /\ calls = << >> /\ granted = << >> /\ denied = {}

\* Time passes, and the key goes when its time to live is over.
Tick ==
  /\ now < Horizon
  /\ now' = now + 1
  /\ count' = IF now' >= expires THEN 0 ELSE count
  /\ UNCHANGED <<expires, calls, granted, denied>>

\* Variants: the expiry is set by the first call only, or never.
FixedExpiry == IF count = 0 THEN now + Window ELSE expires
NoExpiry == Horizon + 1
Expiry == now + Window

\* INCR and EXPIRE have been executed.
Count ==
  /\ Len(calls) < MaxCalls
  /\ count' = count + 1
  /\ expires' = Expiry
  /\ calls' = Append(calls, now)
  /\ UNCHANGED now

OverLimit == count' > MaxRequests

Grant ==
  /\ Count /\ ~OverLimit
  /\ granted' = Append(granted, now)
  /\ UNCHANGED denied

Deny ==
  /\ Count /\ OverLimit
  /\ denied' = denied \cup {Len(calls')}
  /\ UNCHANGED granted

\* Exec fails: the caller answers 500, whether Redis has counted or not.
FailCounted == Count /\ UNCHANGED <<granted, denied>>

FailUncounted ==
  /\ Len(calls) < MaxCalls
  /\ calls' = Append(calls, now)
  /\ UNCHANGED <<now, count, expires, granted, denied>>

Next == Tick \/ Grant \/ Deny \/ FailCounted \/ FailUncounted

Spec == Init /\ [][Next]_vars

-----------------------------------------------------------------------------
\* Types of the counter and of the histories.
TypeOK ==
  /\ now \in Nat /\ count \in Nat /\ expires \in Nat
  /\ calls \in Seq(Nat) /\ granted \in Seq(Nat)
  /\ denied \subseteq Nat

\* No window, wherever it starts, has more than MaxRequests allowed calls:
\* MaxRequests + 1 of them never fit into less than a window.
SlidingLimit ==
  \A i \in 1..Len(granted) :
    i + MaxRequests \in 1..Len(granted) =>
      granted[i] + Window <= granted[i + MaxRequests]

\* A user who has been quiet for a window is not refused.
QuietUserAllowed ==
  \A i \in denied : i > 1 /\ calls[i - 1] + Window > calls[i]

\* A refused call renews the key as every call does (rate_limit.go:37): after it
\* no call is allowed until a whole window has passed without one.
RefusedUntilPause ==
  [][Len(calls) \in denied /\ now < calls[Len(calls)] + Window
       => granted' = granted]_vars

\* "checking if rate limit exceeded": a refused user has made MaxRequests
\* calls in the window before.
RefusedOverLimit ==
  \A i \in denied : i > MaxRequests /\ calls[i - MaxRequests] + Window > calls[i]

-----------------------------------------------------------------------------
(* The inductive invariant of RateLimiterProofs.                           *)

\* The calls allowed since the key was created, at most count of them, come a
\* window or more after all calls allowed before.
Generations ==
  \E base \in 0..Len(granted) :
    /\ Len(granted) - base <= count
    /\ \A i \in 1..base : granted[i] + Window <= now
    /\ \A i \in 1..base : \A j \in (base + 1)..Len(granted) :
         granted[i] + Window <= granted[j]

\* The key outlives each allowed call by a window.
KeyLives ==
  /\ \A i \in 1..Len(granted) : granted[i] <= now /\ granted[i] + Window <= expires
  /\ count > 0 => now < expires
  /\ count = 0 => expires <= now

\* No call is later than now, and the key is gone a window after the last one.
CallsAgo ==
  /\ \A i \in 1..Len(calls) : calls[i] <= now
  /\ denied \subseteq 1..Len(calls)
  /\ count > 0 => Len(calls) > 0 /\ expires <= calls[Len(calls)] + Window

\* When the last call was refused, the key outlives it by a window, and its
\* count stays over the limit.
LockedOut ==
  Len(calls) \in denied =>
    /\ expires = calls[Len(calls)] + Window
    /\ now < expires => count > MaxRequests

LimiterInv ==
  /\ TypeOK /\ Generations /\ KeyLives /\ SlidingLimit /\ CallsAgo /\ QuietUserAllowed
  /\ LockedOut
=============================================================================
