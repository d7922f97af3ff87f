------------------------- MODULE RateLimiterProofs -------------------------
(***************************************************************************)
(* The limit that the counter keeps in any window, for every limit and     *)
(* every length of the window.                                             *)
(***************************************************************************)
EXTENDS RateLimiter, TLAPS

\* A counted call makes the key live for another window.
LEMMA CountFacts ==
  ASSUME TypeOK, Count
  PROVE  /\ now' = now /\ now \in Nat /\ count' = count + 1 /\ count \in Nat
         /\ expires' = now + Window /\ expires' \in Nat
         /\ calls' \in Seq(Nat) /\ Window \in Nat \ {0} /\ MaxRequests \in Nat \ {0}
  BY LimiterAssumption DEF TypeOK, Count, Expiry

\* What the history of allowed calls looks like after one more.
LEMMA GrantFacts ==
  ASSUME TypeOK, Grant
  PROVE  /\ Len(granted) \in Nat /\ Len(granted') = Len(granted) + 1
         /\ granted' \in Seq(Nat) /\ granted'[Len(granted) + 1] = now
         /\ \A i \in 1..Len(granted) : granted'[i] = granted[i] /\ granted[i] \in Nat
  BY DEF TypeOK, Grant

LEMMA TypeStep == TypeOK /\ [Next]_vars => TypeOK'
<1> SUFFICES ASSUME TypeOK, [Next]_vars PROVE TypeOK'
  OBVIOUS
<1>1. CASE Tick
  BY <1>1 DEF Tick, TypeOK
<1>2. CASE Grant
  BY <1>2, CountFacts, GrantFacts DEF Grant, TypeOK
<1>3. CASE Deny
  <2>1. /\ now' = now /\ count' \in Nat /\ expires' \in Nat /\ calls' \in Seq(Nat)
        /\ granted' = granted /\ denied' = denied \cup {Len(calls')}
    BY <1>3, CountFacts DEF Deny
  <2>2. Len(calls') \in Nat
    BY <2>1
  <2> QED BY <2>1, <2>2 DEF TypeOK
<1>4. CASE FailCounted
  BY <1>4, CountFacts DEF FailCounted, TypeOK
<1>5. CASE FailUncounted
  BY <1>5 DEF FailUncounted, TypeOK
<1>6. CASE UNCHANGED vars
  BY <1>6 DEF vars, TypeOK
<1> QED BY <1>1, <1>2, <1>3, <1>4, <1>5, <1>6 DEF Next

\* The key lives for a window after every call, and Tick deletes it in time.
LEMMA KeyLivesStep == TypeOK /\ KeyLives /\ [Next]_vars => KeyLives'
<1> SUFFICES ASSUME TypeOK, KeyLives, [Next]_vars PROVE KeyLives'
  OBVIOUS
<1>1. CASE Tick
  <2>1. granted \in Seq(Nat) /\ \A i \in 1..Len(granted) : granted[i] \in Nat
    BY DEF TypeOK
  <2> QED BY <1>1, <2>1 DEF Tick, TypeOK, KeyLives
<1>2. CASE Grant
  <2>1. Count
    BY <1>2 DEF Grant
  <2>2. \A i \in 1..Len(granted') : granted'[i] <= now /\ granted'[i] + Window <= now + Window
    <3> SUFFICES ASSUME NEW i \in 1..Len(granted')
                 PROVE  granted'[i] <= now /\ granted'[i] + Window <= now + Window
      OBVIOUS
    <3>1. now \in Nat /\ Window \in Nat
      BY <2>1, CountFacts
    <3>2. CASE i = Len(granted) + 1
      BY <1>2, <3>1, <3>2, GrantFacts
    <3>3. CASE i # Len(granted) + 1
      <4>1. i \in 1..Len(granted)
        <5>1. Len(granted) \in Nat /\ Len(granted') = Len(granted) + 1
          BY <1>2, GrantFacts
        <5> QED BY <3>3, <5>1
      <4>2. granted'[i] = granted[i] /\ granted[i] \in Nat
        BY <1>2, <4>1, GrantFacts
      <4>3. granted[i] <= now
        BY <4>1 DEF KeyLives
      <4> QED BY <3>1, <4>2, <4>3
    <3> QED BY <3>2, <3>3
  <2> QED BY <2>1, <2>2, CountFacts DEF KeyLives
<1>3. CASE Deny \/ FailCounted
  <2>1. Count /\ granted' = granted
    BY <1>3 DEF Deny, FailCounted
  <2>2. \A i \in 1..Len(granted) : granted[i] \in Nat
    BY DEF TypeOK
  <2> QED BY <2>1, <2>2, CountFacts DEF KeyLives
<1>4. CASE FailUncounted \/ UNCHANGED vars
  BY <1>4 DEF FailUncounted, vars, KeyLives
<1> QED BY <1>1, <1>2, <1>3, <1>4 DEF Next

\* A key that was deleted begins a new generation: everything allowed before
\* is a window old. Calls only add to the present generation.
LEMMA GenerationsStep == TypeOK /\ KeyLives /\ Generations /\ [Next]_vars => Generations'
<1> SUFFICES ASSUME TypeOK, KeyLives, Generations, [Next]_vars PROVE Generations'
  OBVIOUS
<1>0. /\ Len(granted) \in Nat /\ now \in Nat /\ count \in Nat /\ Window \in Nat
      /\ \A i \in 1..Len(granted) : granted[i] \in Nat
  BY LimiterAssumption DEF TypeOK
<1>1. PICK base \in 0..Len(granted) :
        /\ Len(granted) - base <= count
        /\ \A i \in 1..base : granted[i] + Window <= now
        /\ \A i \in 1..base : \A j \in (base + 1)..Len(granted) :
             granted[i] + Window <= granted[j]
  BY DEF Generations
<1>2. CASE Tick /\ now' >= expires
  <2>1. granted' = granted /\ count' = 0 /\ now' \in Nat
    BY <1>0, <1>2 DEF Tick
  <2>2. \A i \in 1..Len(granted) : granted[i] + Window <= now'
    <3> SUFFICES ASSUME NEW i \in 1..Len(granted) PROVE granted[i] + Window <= now'
      OBVIOUS
    <3>1. expires \in Nat /\ expires <= now'
      BY <1>2, <2>1 DEF TypeOK
    <3>2. granted[i] + Window \in Nat /\ granted[i] + Window <= expires
      BY <1>0 DEF KeyLives
    <3> QED BY <2>1, <3>1, <3>2
  <2> QED BY <1>0, <2>1, <2>2 DEF Generations
<1>3. CASE Tick /\ ~(now' >= expires)
  <2>1. granted' = granted /\ count' = count /\ now' = now + 1
    BY <1>3 DEF Tick
  <2>2. \A i \in 1..base : granted[i] + Window <= now'
    BY <1>0, <1>1, <2>1
  <2> QED BY <1>1, <2>1, <2>2 DEF Generations
<1>4. CASE Grant
  <2>1. count' = count + 1 /\ now' = now
    BY <1>4, CountFacts DEF Grant
  <2>2. base \in 0..Len(granted') /\ Len(granted') - base <= count'
    BY <1>0, <1>1, <1>4, <2>1, GrantFacts
  <2>3. /\ Len(granted') = Len(granted) + 1 /\ granted'[Len(granted) + 1] = now
        /\ \A i \in 1..Len(granted) : granted'[i] = granted[i]
    BY <1>4, GrantFacts
  <2>4. \A i \in 1..base : i \in 1..Len(granted)
    BY <1>0
  <2>5. \A i \in 1..base : granted'[i] + Window <= now'
    BY <1>1, <2>1, <2>3, <2>4
  <2>6. \A i \in 1..base : \A j \in (base + 1)..Len(granted') :
          granted'[i] + Window <= granted'[j]
    <3> SUFFICES ASSUME NEW i \in 1..base, NEW j \in (base + 1)..Len(granted')
                 PROVE  granted'[i] + Window <= granted'[j]
      OBVIOUS
    <3>1. CASE j = Len(granted) + 1
      BY <2>1, <2>5, <2>3, <3>1
    <3>2. CASE j # Len(granted) + 1
      <4>1. j \in (base + 1)..Len(granted) /\ j \in 1..Len(granted)
        BY <1>0, <2>3, <3>2
      <4> QED BY <1>1, <2>3, <2>4, <4>1
    <3> QED BY <3>1, <3>2
  <2> QED BY <2>2, <2>5, <2>6 DEF Generations
<1>5. CASE Deny \/ FailCounted
  <2>1. count' = count + 1 /\ now' = now /\ granted' = granted
    BY <1>5, CountFacts DEF Deny, FailCounted
  <2>2. Len(granted) - base <= count'
    BY <1>0, <1>1, <2>1
  <2> QED BY <1>1, <2>1, <2>2 DEF Generations
<1>6. CASE FailUncounted \/ UNCHANGED vars
  <2>1. UNCHANGED <<now, count, granted>>
    BY <1>6 DEF FailUncounted, vars
  <2> QED BY <1>1, <2>1 DEF Generations
<1> QED BY <1>2, <1>3, <1>4, <1>5, <1>6 DEF Next

\* An allowed call is one of the first MaxRequests of its generation, so the
\* one MaxRequests before it is a window old.
LEMMA LimitStep == TypeOK /\ Generations /\ SlidingLimit /\ [Next]_vars => SlidingLimit'
<1> SUFFICES ASSUME TypeOK, Generations, SlidingLimit, [Next]_vars PROVE SlidingLimit'
  OBVIOUS
<1>1. CASE Grant
  <2>1. PICK base \in 0..Len(granted) :
          /\ Len(granted) - base <= count
          /\ \A i \in 1..base : granted[i] + Window <= now
    BY DEF Generations
  <2>2. count + 1 <= MaxRequests /\ count \in Nat /\ MaxRequests \in Nat /\ now \in Nat
    BY <1>1, CountFacts DEF Grant, OverLimit
  <2>3. /\ Len(granted) \in Nat /\ Len(granted') = Len(granted) + 1
        /\ granted'[Len(granted) + 1] = now
        /\ \A i \in 1..Len(granted) : granted'[i] = granted[i]
    BY <1>1, GrantFacts
  <2> SUFFICES ASSUME NEW i \in 1..Len(granted'), i + MaxRequests \in 1..Len(granted')
               PROVE  granted'[i] + Window <= granted'[i + MaxRequests]
    BY DEF SlidingLimit
  <2>4. CASE i + MaxRequests = Len(granted) + 1
    <3>1. i \in 1..base /\ i \in 1..Len(granted)
      BY <2>1, <2>2, <2>4, <2>3
    <3> QED BY <2>1, <2>4, <2>3, <3>1
  <2>5. CASE i + MaxRequests # Len(granted) + 1
    <3>1. i \in 1..Len(granted) /\ i + MaxRequests \in 1..Len(granted)
      BY <2>2, <2>5, <2>3
    <3> QED BY <2>3, <3>1 DEF SlidingLimit
  <2> QED BY <2>4, <2>5
<1>2. CASE ~Grant
  <2>1. granted' = granted
    BY <1>2 DEF Next, Tick, Deny, FailCounted, FailUncounted, vars
  <2> QED BY <2>1 DEF SlidingLimit
<1> QED BY <1>1, <1>2

\* A call that is made now, counted or not.
LEMMA CallFacts ==
  ASSUME TypeOK, calls' = Append(calls, now)
  PROVE  /\ Len(calls) \in Nat /\ Len(calls') = Len(calls) + 1
         /\ calls'[Len(calls) + 1] = now /\ now \in Nat
         /\ \A i \in 1..Len(calls) : calls'[i] = calls[i] /\ calls[i] \in Nat
  BY DEF TypeOK

\* Calls are made in the order of the clock, and each counted one renews the key.
LEMMA CallsAgoStep == TypeOK /\ CallsAgo /\ [Next]_vars => CallsAgo'
<1> SUFFICES ASSUME TypeOK, CallsAgo, [Next]_vars PROVE CallsAgo'
  OBVIOUS
<1>0. /\ Len(calls) \in Nat /\ now \in Nat /\ expires \in Nat /\ count \in Nat
      /\ Window \in Nat /\ \A i \in 1..Len(calls) : calls[i] \in Nat
  BY LimiterAssumption DEF TypeOK
<1>1. CASE Tick
  BY <1>0, <1>1 DEF Tick, CallsAgo
<1>2. CASE Grant \/ Deny \/ FailCounted
  <2>1. /\ Count /\ calls' = Append(calls, now)
        /\ denied' \subseteq denied \cup {Len(calls')}
    BY <1>2 DEF Grant, Deny, FailCounted, Count
  <2>2. \A i \in 1..Len(calls') : calls'[i] <= now'
    <3> SUFFICES ASSUME NEW i \in 1..Len(calls') PROVE calls'[i] <= now'
      OBVIOUS
    <3>1. i = Len(calls) + 1 \/ i \in 1..Len(calls)
      BY <2>1, CallFacts
    <3> QED BY <2>1, <3>1, CallFacts, CountFacts DEF CallsAgo
  <2>3. denied' \subseteq 1..Len(calls')
    BY <2>1, CallFacts DEF CallsAgo
  <2>4. Len(calls') > 0 /\ expires' <= calls'[Len(calls')] + Window
    BY <2>1, CallFacts, CountFacts
  <2> QED BY <2>2, <2>3, <2>4 DEF CallsAgo
<1>3. CASE FailUncounted
  <2>1. calls' = Append(calls, now) /\ UNCHANGED <<now, count, expires, denied>>
    BY <1>3 DEF FailUncounted
  <2>2. \A i \in 1..Len(calls') : calls'[i] <= now'
    <3> SUFFICES ASSUME NEW i \in 1..Len(calls') PROVE calls'[i] <= now'
      OBVIOUS
    <3>1. i = Len(calls) + 1 \/ i \in 1..Len(calls)
      BY <2>1, CallFacts
    <3> QED BY <2>1, <3>1, CallFacts DEF CallsAgo
  <2>3. denied' \subseteq 1..Len(calls')
    BY <2>1, CallFacts DEF CallsAgo
  <2>4. count' > 0 => expires' <= calls'[Len(calls')] + Window
    <3> SUFFICES ASSUME count > 0 PROVE expires <= now + Window
      BY <2>1, CallFacts
    <3>1. calls[Len(calls)] <= now /\ calls[Len(calls)] \in Nat
      BY <1>0 DEF CallsAgo
    <3> QED BY <1>0, <3>1 DEF CallsAgo
  <2>5. Len(calls') > 0
    BY <2>1, CallFacts
  <2> QED BY <2>2, <2>3, <2>4, <2>5 DEF CallsAgo
<1>4. CASE UNCHANGED vars
  BY <1>4 DEF vars, CallsAgo
<1> QED BY <1>1, <1>2, <1>3, <1>4 DEF Next

\* A call is refused only while a key lives, which is less than a window
\* after the call before.
LEMMA QuietStep ==
  TypeOK /\ KeyLives /\ CallsAgo /\ QuietUserAllowed /\ [Next]_vars => QuietUserAllowed'
<1> SUFFICES ASSUME TypeOK, KeyLives, CallsAgo, QuietUserAllowed, [Next]_vars,
                    NEW i \in denied'
             PROVE  i > 1 /\ calls'[i - 1] + Window > calls'[i]
  BY DEF QuietUserAllowed
<1>0. /\ Len(calls) \in Nat /\ now \in Nat /\ expires \in Nat /\ count \in Nat
      /\ Window \in Nat /\ \A j \in 1..Len(calls) : calls[j] \in Nat
  BY LimiterAssumption DEF TypeOK
<1>1. CASE i \in denied
  <2>1. i \in 1..Len(calls) /\ i > 1 /\ calls[i - 1] + Window > calls[i]
    BY <1>1 DEF CallsAgo, QuietUserAllowed
  <2>2. calls' = calls \/ calls' = Append(calls, now)
    BY DEF Next, Tick, Grant, Deny, FailCounted, FailUncounted, Count, vars
  <2>3. i - 1 \in 1..Len(calls)
    BY <1>0, <2>1
  <2> QED BY <2>1, <2>2, <2>3, CallFacts
<1>2. CASE i \notin denied
  <2>1. Deny /\ i = Len(calls')
    BY <1>2 DEF Next, Tick, Grant, Deny, FailCounted, FailUncounted, vars
  <2>2. Count /\ OverLimit /\ calls' = Append(calls, now)
    BY <2>1 DEF Deny, Count
  <2>3. count > 0
    BY <2>2, CountFacts DEF OverLimit
  <2>4. now < expires /\ Len(calls) > 0 /\ expires <= calls[Len(calls)] + Window
    BY <2>3 DEF KeyLives, CallsAgo
  <2>5. i = Len(calls) + 1 /\ calls'[i] = now /\ calls'[i - 1] = calls[Len(calls)]
    BY <1>0, <2>1, <2>2, <2>4, CallFacts
  <2> QED BY <1>0, <2>4, <2>5
<1> QED BY <1>1, <1>2

\* Only a refusal makes the last call a refused one, and it renews the key;
\* the clock then only runs the key down.
LEMMA LockedOutStep ==
  TypeOK /\ CallsAgo /\ LockedOut /\ [Next]_vars => LockedOut'
<1> SUFFICES ASSUME TypeOK, CallsAgo, LockedOut, [Next]_vars, Len(calls') \in denied'
             PROVE  /\ expires' = calls'[Len(calls')] + Window
                    /\ now' < expires' => count' > MaxRequests
  BY DEF LockedOut
<1>1. CASE Tick
  <2>1. UNCHANGED <<calls, denied, expires>> /\ now' = now + 1 /\ now \in Nat /\ expires \in Nat
    BY <1>1 DEF Tick, TypeOK
  <2>2. now' < expires' => now < expires /\ count' = count
    BY <1>1, <2>1 DEF Tick
  <2> QED BY <2>1, <2>2 DEF LockedOut
<1>2. CASE Deny
  <2>1. Count /\ OverLimit /\ calls' = Append(calls, now)
    BY <1>2 DEF Deny, Count
  <2> QED BY <2>1, CallFacts, CountFacts DEF OverLimit
<1>3. CASE Grant \/ FailCounted \/ FailUncounted
  <2>1. calls' = Append(calls, now) /\ UNCHANGED denied
    BY <1>3 DEF Grant, FailCounted, FailUncounted, Count
  <2>2. Len(calls') \notin denied'
    BY <2>1, CallFacts DEF CallsAgo
  <2> QED BY <2>2
<1>4. CASE UNCHANGED vars
  BY <1>4 DEF vars, LockedOut
<1> QED BY <1>1, <1>2, <1>3, <1>4 DEF Next

\* A call is allowed only when the count of its key is at most the limit.
LEMMA AllowedBelow ==
  ASSUME TypeOK, [Next]_vars, granted' # granted
  PROVE  count < MaxRequests
<1>1. Grant
  BY DEF Next, Tick, Grant, Deny, FailCounted, FailUncounted, vars
<1> QED BY <1>1, CountFacts DEF Grant, OverLimit

\* The invariant from which the theorems follow.
LEMMA LimiterInvariant == Spec => []LimiterInv
<1>1. Init => LimiterInv
  BY LimiterAssumption
  DEF Init, LimiterInv, TypeOK, Generations, KeyLives, SlidingLimit, CallsAgo, QuietUserAllowed,
      LockedOut
<1>2. LimiterInv /\ [Next]_vars => LimiterInv'
  BY TypeStep, KeyLivesStep, GenerationsStep, LimitStep, CallsAgoStep, QuietStep,
     LockedOutStep
  DEF LimiterInv
<1> QED BY <1>1, <1>2, PTL DEF Spec

\* Redis counts a user's calls so that no window holds more than MaxRequests
\* allowed ones, whatever calls are refused or fail in between.
THEOREM LimitKept == Spec => []SlidingLimit
<1>1. LimiterInv => SlidingLimit
  BY DEF LimiterInv
<1> QED BY <1>1, LimiterInvariant, PTL

\* A user whose last call, counted or not, is a window ago is let in: the
\* counter never outlives a quiet window.
THEOREM QuietLetIn == Spec => []QuietUserAllowed
<1>1. LimiterInv => QuietUserAllowed
  BY DEF LimiterInv
<1> QED BY <1>1, LimiterInvariant, PTL

\* A user who goes on calling after a refusal stays refused: each call moves
\* the expiry, and the count is over the limit as long as the key lives.
THEOREM RefusalLasts == Spec => RefusedUntilPause
<1>1. LimiterInv /\ [Next]_vars =>
        [Len(calls) \in denied /\ now < calls[Len(calls)] + Window
           => granted' = granted]_vars
  <2>1. LimiterInv /\ Len(calls) \in denied /\ now < calls[Len(calls)] + Window
          => count > MaxRequests
    BY DEF LimiterInv, LockedOut
  <2>2. count > MaxRequests /\ TypeOK => ~(count < MaxRequests)
    BY LimiterAssumption DEF TypeOK
  <2> QED BY <2>1, <2>2, AllowedBelow DEF LimiterInv
<1> QED BY <1>1, LimiterInvariant, PTL DEF Spec, RefusedUntilPause
=============================================================================
