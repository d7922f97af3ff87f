--------------------------- MODULE AuthFlowProofs ---------------------------
(***************************************************************************)
(* Clients fetch their own tokens, and fresh ones, for any number of       *)
(* users, logins and failures, and any lives of keys and tokens.           *)
(***************************************************************************)
EXTENDS AuthFlow, TLAPS

\* An id has been drawn, is that of one user, and has tokens of that user.
IdsApart ==
  /\ \A c \in Clients :
       /\ \A u \in opened[c] : u <= counter
       /\ consenting[c] \subseteq opened[c]
       /\ id[c] \in opened[c] \cup {NoId}
  /\ \A c, d \in Clients : c # d => opened[c] \cap opened[d] = {}
  /\ \A u \in Ids : stored[u] # NoOne => u \in opened[stored[u]]

IInv == TypeOK /\ IdsApart /\ OwnToken /\ TokenFresh

LEMMA InitInv == Init => IInv
<1> SUFFICES ASSUME Init PROVE IInv
  OBVIOUS
<1>1. TypeOK
  BY AuthAssumption DEF Init, TypeOK, Ids, NoId
<1>2. IdsApart /\ OwnToken /\ TokenFresh
  BY AuthAssumption DEF Init, IdsApart, OwnToken, TokenFresh, Ids, NoId
<1> QED BY <1>1, <1>2 DEF IInv

\* An id that is drawn is new.
LEMMA GenerateStep ==
  ASSUME IInv, NEW c \in Clients,
         Generate(c) \/ GenerateFails(c) \/ GenerateLost(c)
  PROVE  IInv'
<1> USE AuthAssumption DEF IInv
<1>1. CASE Generate(c)
  <2>1. counter' = counter + 1 /\ counter' \in Ids /\ counter' # NoId
    BY <1>1 DEF Generate, TypeOK, Ids, NoId
  <2>2. TypeOK'
    <3>1. counter' \in 0..MaxIds
      BY <2>1 DEF Ids
    <3>2. opened' \in [Clients -> SUBSET Ids]
      BY <1>1, <2>1 DEF Generate, TypeOK
    <3>3. /\ pc' \in [Clients -> {"start", "polling", "polled", "paste", "accepted"}]
          /\ id' \in [Clients -> 0..MaxIds] /\ wait' \in [Clients -> 0..Poll]
          /\ spent' \in [Clients -> Nat]
      BY <1>1, <3>1 DEF Generate, StartPolling, TypeOK
    <3> QED BY <1>1, <3>1, <3>2, <3>3 DEF Generate, StartPolling, TypeOK
  <2>3. \A d \in Clients : counter' \notin opened[d] /\ opened[d] \subseteq Ids
    <3>1. \A d \in Clients : opened[d] \subseteq Ids /\ \A u \in opened[d] : u <= counter
      BY DEF IdsApart, TypeOK
    <3>2. ~(counter' <= counter)
      BY <2>1 DEF TypeOK
    <3> QED BY <3>1, <3>2
  <2>4. IdsApart'
    <3>1. opened' = [opened EXCEPT ![c] = @ \cup {counter'}]
      BY <1>1 DEF Generate
    <3>2. \A d \in Clients : \A u \in opened'[d] : u <= counter'
      <4>1. \A d \in Clients : \A u \in opened'[d] : u \in opened[d] \/ u = counter'
        BY <3>1 DEF TypeOK
      <4>2. \A d \in Clients : \A u \in opened[d] : u \in Nat /\ u <= counter
        BY <2>3 DEF IdsApart, Ids
      <4>3. counter \in Nat /\ counter' = counter + 1
        BY <2>1 DEF TypeOK
      <4> QED BY <4>1, <4>2, <4>3
    <3>3. \A d \in Clients : consenting'[d] \subseteq opened'[d]
                             /\ id'[d] \in opened'[d] \cup {NoId}
      BY <1>1, <3>1 DEF Generate, StartPolling, IdsApart, TypeOK
    <3>4. \A d, e \in Clients : d # e => opened'[d] \cap opened'[e] = {}
      BY <2>3, <3>1 DEF IdsApart, TypeOK
    <3>5. \A u \in Ids : stored'[u] # NoOne => u \in opened'[stored'[u]]
      BY <1>1, <3>1 DEF Generate, IdsApart, TypeOK
    <3> QED BY <3>2, <3>3, <3>4, <3>5 DEF IdsApart
  <2>5. OwnToken' /\ TokenFresh'
    BY <1>1 DEF Generate, StartPolling, OwnToken, TokenFresh
  <2> QED BY <2>2, <2>4, <2>5
<1>2. CASE GenerateFails(c)
  <2>1. TypeOK'
    BY <1>2 DEF GenerateFails, StartPolling, Error, TypeOK, NoId, redis, browser
  <2>2. IdsApart' /\ OwnToken' /\ TokenFresh'
    BY <1>2 DEF GenerateFails, StartPolling, IdsApart, OwnToken, TokenFresh, TypeOK,
                redis, browser
  <2> QED BY <2>1, <2>2
<1>3. CASE GenerateLost(c)
  <2>1. counter' = counter + 1 /\ counter' \in 0..MaxIds /\ counter \in Nat
    BY <1>3 DEF GenerateLost, TypeOK
  <2>2. TypeOK'
    BY <1>3, <2>1 DEF GenerateLost, Error, TypeOK, client, browser
  <2>3. IdsApart' /\ OwnToken' /\ TokenFresh'
    BY <1>3, <2>1 DEF GenerateLost, IdsApart, OwnToken, TokenFresh, TypeOK, Ids,
                      client, browser
  <2> QED BY <2>2, <2>3
<1> QED BY <1>1, <1>2, <1>3

\* What is stored under a client's id is its user's.
LEMMA FetchStep ==
  ASSUME IInv, NEW c \in Clients, Fetch(c) \/ Verify(c) \/ Exit(c)
  PROVE  IInv'
<1> USE AuthAssumption DEF IInv
<1>1. CASE FetchToken(c)
  <2>1. id[c] \in Ids /\ id[c] \in opened[c]
    BY <1>1 DEF FetchToken, Ready, IdsApart, TypeOK, Ids, NoId
  <2>2. stored[id[c]] \in {NoOne, c}
    BY <2>1 DEF IdsApart, TypeOK
  <2>3. TypeOK'
    BY <1>1, <2>2 DEF FetchToken, TypeOK, redis, browser
  <2>4. OwnToken'
    BY <1>1, <2>2 DEF FetchToken, OwnToken, TypeOK
  <2>5. IdsApart' /\ TokenFresh'
    BY <1>1 DEF FetchToken, IdsApart, TokenFresh, redis, browser
  <2> QED BY <2>3, <2>4, <2>5
<1>2. CASE FetchNothing(c)
  <2>1. errors' \in Nat
    BY <1>2 DEF FetchNothing, Error, TypeOK
  <2>2. TypeOK'
    BY <1>2, <2>1 DEF FetchNothing, TypeOK, redis, browser
  <2> QED BY <1>2, <2>2
          DEF FetchNothing, IdsApart, OwnToken, TokenFresh, redis, browser
<1>3. CASE Pause(c) \/ Verify(c) \/ Exit(c)
  <2>1. TypeOK'
    BY <1>3 DEF Pause, Verify, Exit, TypeOK, redis, browser
  <2> QED BY <1>3, <2>1
          DEF Pause, Verify, Exit, IdsApart, OwnToken, TokenFresh, redis, browser
<1> QED BY <1>1, <1>2, <1>3 DEF Fetch

\* A browser stores tokens under the ids of its own user.
LEMMA BrowserStep ==
  ASSUME IInv, NEW c \in Clients, NEW u \in Ids,
         Login(c, u) \/ Callback(c, u) \/ CallbackFails(c, u)
  PROVE  IInv'
<1> USE AuthAssumption DEF IInv
<1>1. CASE Login(c, u)
  <2>1. TypeOK'
    BY <1>1 DEF Login, TypeOK, redis, client
  <2> QED BY <1>1, <2>1 DEF Login, IdsApart, OwnToken, TokenFresh, TypeOK, redis, client
<1>2. CASE CallbackFails(c, u)
  <2>1. TypeOK'
    BY <1>2 DEF CallbackFails, Error, TypeOK, redis, client
  <2> QED BY <1>2, <2>1
          DEF CallbackFails, IdsApart, OwnToken, TokenFresh, TypeOK, redis, client
<1>3. CASE Callback(c, u)
  <2>1. u \in opened[c] /\ c # NoOne
    BY <1>3 DEF Callback, IdsApart
  <2>2. /\ UNCHANGED <<counter, pc, id, wait, got, opened>>
        /\ consenting' = [consenting EXCEPT ![c] = @ \ {u}]
        /\ page' = [page EXCEPT ![c] = Life]
        /\ errors' \in Nat
    BY <1>3 DEF Callback, Error, TypeOK
  <2>3. \/ Keep(c, u)
        \/ UNCHANGED <<stored, ttl, life, spent>>
    BY <1>3 DEF Callback
  <2>4. TypeOK'
    BY <2>2, <2>3 DEF Keep, TypeOK
  <2>5. IdsApart'
    <3>1. \A v \in Ids : stored'[v] # NoOne => v \in opened[stored'[v]]
      BY <2>1, <2>3 DEF Keep, IdsApart, TypeOK
    <3> QED BY <2>2, <3>1 DEF IdsApart, TypeOK
  <2>6. OwnToken' /\ TokenFresh'
    BY <2>2, <2>3 DEF Keep, OwnToken, TokenFresh, TypeOK
  <2> QED BY <2>4, <2>5, <2>6
<1> QED BY <1>1, <1>2, <1>3

\* Keys and tokens run down together.
LEMMA TickStep == ASSUME IInv, Tick PROVE IInv'
<1> USE AuthAssumption DEF IInv
<1> DEFINE Less(f) == [x \in DOMAIN f |-> IF f[x] > 0 THEN f[x] - 1 ELSE 0]
<1>1. /\ ttl' = Less(ttl) /\ life' = Less(life) /\ wait' = Less(wait) /\ page' = Less(page)
      /\ UNCHANGED <<counter, stored, pc, id, got, opened, consenting, errors>>
  BY DEF Tick
<1>2. ttl' \in [Ids -> 0..TTL] /\ life' \in [Ids -> 0..Life]
  BY <1>1 DEF TypeOK
<1>3. wait' \in [Clients -> 0..Poll] /\ page' \in [Clients -> 0..Life]
  BY <1>1 DEF TypeOK
<1>4. spent' \in [Clients -> Nat]
  BY DEF Tick, TypeOK
<1>5. TypeOK'
  BY <1>1, <1>2, <1>3, <1>4 DEF TypeOK
<1>6. TokenFresh'
  BY <1>1 DEF TokenFresh, TypeOK
<1>7. IdsApart' /\ OwnToken'
  BY <1>1 DEF IdsApart, OwnToken
<1> QED BY <1>5, <1>6, <1>7

-----------------------------------------------------------------------------
(* A client that polls in time                                             *)

\* A key with a life has a token in it.
KeysHoldTokens == \A u \in Ids : ttl[u] > 0 => stored[u] # NoOne

\* The pause that c has before it: what is left of it, or all of it.
Owed(c) == IF pc[c] = "polled" THEN Poll ELSE wait[c]

\* A token that waits for a client is no older than the client's pauses and
\* polls since it came, when the pause before it is over.
PollInTime ==
  \A c \in Clients : Polling(c) /\ Ready(c) => (TTL - ttl[id[c]]) + Owed(c) <= Used(c)

LEMMA OnePauseMore ==
  ASSUME NEW e \in Nat
  PROVE  /\ Poll * (e + 1) \in Nat /\ Poll <= Poll * (e + 1)
         /\ Poll * ((e + 1) + 1) = Poll * (e + 1) + Poll
<1>1. Poll \in Nat
  BY AuthAssumption
<1>2. \A n \in Nat : Poll * (n + 1) = Poll * n + Poll /\ Poll * n \in Nat
  BY <1>1
<1> QED BY <1>1, <1>2

\* No step takes an error back, and so none shortens the time that is given.
LEMMA PausesGrow ==
  ASSUME TypeOK, [Next]_vars
  PROVE  /\ errors \in Nat /\ errors' \in {errors, errors + 1}
         /\ Poll * (errors + 1) \in Nat /\ Poll * (errors' + 1) \in Nat
         /\ Poll <= Poll * (errors' + 1)
         /\ Poll * (errors + 1) <= Poll * (errors' + 1)
<1>1. errors \in Nat
  BY DEF TypeOK
<1>2. errors' \in {errors, errors + 1}
  BY DEF Next, Generate, GenerateFails, GenerateLost, Fetch, FetchToken, FetchNothing,
         Pause, Verify, Exit, Login, Callback, CallbackFails, Tick, Error, vars
<1>3. Poll \in Nat
  BY AuthAssumption
<1>4. CASE errors' = errors
  BY <1>1, <1>4, OnePauseMore
<1>5. CASE errors' = errors + 1
  <2>1. Poll * (errors' + 1) = Poll * (errors + 1) + Poll
    BY <1>1, <1>5, OnePauseMore
  <2>2. Poll * (errors + 1) \in Nat
    BY <1>1, OnePauseMore
  <2> QED BY <1>1, <1>3, <1>5, <2>1, <2>2
<1> QED BY <1>2, <1>4, <1>5

LEMMA KeysStep == IInv /\ KeysHoldTokens /\ [Next]_vars => KeysHoldTokens'
<1> SUFFICES ASSUME IInv, KeysHoldTokens, [Next]_vars PROVE KeysHoldTokens'
  OBVIOUS
<1> USE AuthAssumption DEF IInv, KeysHoldTokens
<1>1. ASSUME NEW c \in Clients, NEW u \in Ids, Keep(c, u) PROVE KeysHoldTokens'
  BY <1>1 DEF Keep, TypeOK
<1>2. CASE UNCHANGED <<stored, ttl>>
  BY <1>2
<1>3. CASE Tick
  BY <1>3 DEF Tick, TypeOK
<1>4. \/ Tick \/ UNCHANGED <<stored, ttl>>
      \/ \E c \in Clients, u \in Ids : Keep(c, u)
  BY DEF Next, Generate, GenerateFails, GenerateLost, Fetch, FetchToken, FetchNothing,
         Pause, Verify, Exit, Login, Callback, CallbackFails, vars, redis
<1> QED BY <1>1, <1>2, <1>3, <1>4

\* An id that has just been drawn has no token yet.
LEMMA NewIdNotReady ==
  ASSUME IInv, KeysHoldTokens, NEW c \in Clients, Generate(c)
  PROVE  ~Ready(c)'
<1>1. counter' = counter + 1 /\ counter' \in Ids /\ counter \in Nat
  BY AuthAssumption DEF Generate, IInv, TypeOK, Ids
<1>2. \A d \in Clients : counter' \notin opened[d]
  BY <1>1 DEF IInv, IdsApart
<1>3. stored[counter'] = NoOne
  BY <1>1, <1>2 DEF IInv, IdsApart, TypeOK
<1>4. id'[c] = counter' /\ ttl' = ttl
  BY DEF Generate, StartPolling, IInv, TypeOK
<1>5. ttl[counter'] \in Nat /\ ~(ttl[counter'] > 0)
  BY <1>1, <1>3 DEF KeysHoldTokens, IInv, TypeOK
<1> QED BY <1>4, <1>5 DEF Ready

\* What a step can do to the poll of client c and to the token it waits for.
LEMMA PollCases ==
  ASSUME TypeOK, Next, NEW c \in Clients, Polling(c)', Ready(c)'
  PROVE  \/ Generate(c) \/ GenerateFails(c) \/ FetchNothing(c) \/ Pause(c) \/ Tick
         \/ /\ UNCHANGED <<pc[c], id[c], wait[c]>>
            /\ \/ UNCHANGED <<ttl, spent[c]>>
               \/ \E d \in Clients, u \in Ids : Keep(d, u)
<1> DEFINE Same == UNCHANGED <<pc[c], id[c], wait[c]>>
<1>1. ASSUME NEW d \in Clients, Generate(d) \/ GenerateFails(d), d # c
      PROVE  Same /\ UNCHANGED <<ttl, spent[c]>>
  BY <1>1 DEF Generate, GenerateFails, StartPolling, redis, TypeOK
<1>2. ASSUME NEW d \in Clients, FetchNothing(d) \/ Pause(d), d # c
      PROVE  Same /\ UNCHANGED <<ttl, spent[c]>>
  BY <1>2 DEF FetchNothing, Pause, redis, TypeOK
<1>3. ASSUME NEW d \in Clients, GenerateLost(d)
      PROVE  Same /\ UNCHANGED <<ttl, spent[c]>>
  BY <1>3 DEF GenerateLost, client
<1>4. ASSUME NEW d \in Clients, FetchToken(d) \/ Verify(d) \/ Exit(d)
      PROVE  Same /\ UNCHANGED <<ttl, spent[c]>>
  <2>1. d # c
    BY <1>4 DEF FetchToken, Verify, Exit, Polling, TypeOK
  <2> QED BY <1>4, <2>1 DEF FetchToken, Verify, Exit, redis, TypeOK
<1>5. ASSUME NEW d \in Clients, NEW u \in Ids, Login(d, u) \/ CallbackFails(d, u)
      PROVE  Same /\ UNCHANGED <<ttl, spent[c]>>
  BY <1>5 DEF Login, CallbackFails, redis, client
<1>6. ASSUME NEW d \in Clients, NEW u \in Ids, Callback(d, u)
      PROVE  Same /\ (UNCHANGED <<ttl, spent[c]>> \/ Keep(d, u))
  BY <1>6 DEF Callback
<1> HIDE DEF Same
<1>7. \/ Generate(c) \/ GenerateFails(c) \/ FetchNothing(c) \/ Pause(c) \/ Tick
      \/ Same /\ UNCHANGED <<ttl, spent[c]>>
      \/ Same /\ \E d \in Clients, u \in Ids : Keep(d, u)
  BY <1>1, <1>2, <1>3, <1>4, <1>5, <1>6 DEF Next, Fetch
<1> QED BY <1>7 DEF Same

\* A token that is kept makes c's reckoning start again.
LEMMA KeepResets ==
  ASSUME TypeOK, NEW c \in Clients, NEW d \in Clients, NEW u \in Ids, Keep(d, u),
         id[c] \in Ids
  PROVE  \/ ttl'[id[c]] = TTL /\ spent'[c] = 0
         \/ ttl'[id[c]] = ttl[id[c]] /\ spent'[c] = spent[c]
BY DEF Keep, TypeOK

LEMMA PollStep ==
  IInv /\ KeysHoldTokens /\ PollInTime /\ [Next]_vars => PollInTime'
<1> SUFFICES ASSUME IInv, KeysHoldTokens, PollInTime, [Next]_vars,
                    NEW c \in Clients, Polling(c)', Ready(c)'
             PROVE  (TTL - ttl'[id'[c]]) + Owed(c)' <= Used(c)'
  BY DEF PollInTime
<1>1. TypeOK /\ TypeOK' /\ TTL \in Nat /\ Poll \in Nat
  <2>1. IInv'
    BY GenerateStep, FetchStep, BrowserStep, TickStep
       DEF Next, vars, redis, client, browser, IInv, TypeOK, IdsApart, OwnToken, TokenFresh
  <2> QED BY <2>1, AuthAssumption DEF IInv
<1>2. id'[c] \in Ids /\ ttl'[id'[c]] \in 1..TTL
  <2>1. id'[c] \in 0..MaxIds /\ ttl' \in [Ids -> 0..TTL]
    BY <1>1 DEF TypeOK
  <2>2. id'[c] # 0 /\ ttl'[id'[c]] > 0
    BY DEF Ready, NoId
  <2>3. id'[c] \in Ids
    BY <2>1, <2>2, AuthAssumption DEF Ids
  <2>4. ttl'[id'[c]] \in 0..TTL
    BY <2>1, <2>3
  <2> QED BY <1>1, <2>2, <2>3, <2>4
<1>3. Owed(c) \in 0..Poll /\ Owed(c)' \in 0..Poll /\ spent[c] \in Nat /\ spent'[c] \in Nat
  BY <1>1 DEF Owed, TypeOK
<1>4. Polling(c) /\ Ready(c) => (TTL - ttl[id[c]]) + Owed(c) <= Used(c)
  BY DEF PollInTime
<1>5. id[c] \in Ids => ttl[id[c]] \in 0..TTL
  BY <1>1 DEF TypeOK
<1>6. CASE Generate(c) \/ GenerateFails(c)
  BY <1>1, <1>6, NewIdNotReady DEF GenerateFails, StartPolling, Ready, TypeOK
<1>7. CASE FetchNothing(c)
  <2>1. Polling(c) /\ wait[c] = 0 /\ Owed(c) = 0 /\ Owed(c)' = Poll
        /\ UNCHANGED <<ttl, id, spent>>
    BY <1>1, <1>7 DEF FetchNothing, Asking, Polling, Owed, redis, TypeOK
  <2>2. Ready(c) /\ errors' = errors + 1
    BY <1>7, <2>1 DEF FetchNothing, Ready, Error
  <2>3. errors \in Nat /\ Poll * (errors' + 1) = Poll * (errors + 1) + Poll
    BY <2>2, <1>1, OnePauseMore DEF TypeOK
  <2>4. TTL - ttl[id[c]] <= Poll * (errors + 1) + spent[c]
    BY <2>1, <2>2, <1>1, <1>2, <1>4 DEF Used
  <2>5. TTL - ttl[id[c]] \in Nat /\ Poll * (errors + 1) \in Nat
    BY <2>1, <2>3, <1>1, <1>2, OnePauseMore
  <2>6. Used(c)' = Poll * (errors + 1) + Poll + spent[c]
    BY <2>1, <2>3 DEF Used
  <2> QED BY <2>1, <2>4, <2>5, <2>6, <1>1, <1>3
<1>8. CASE Pause(c)
  <2>1. Polling(c) /\ Owed(c) = Poll /\ Owed(c)' = Poll
        /\ UNCHANGED <<ttl, id, spent, errors>>
    BY <1>1, <1>8 DEF Pause, Polling, Owed, redis, TypeOK
  <2> QED BY <2>1, <1>4 DEF Ready, Used
<1>9. CASE Tick
  <2>1. id[c] \in Ids /\ ttl[id[c]] \in Nat /\ ttl[id[c]] > 0
        /\ ttl'[id[c]] = ttl[id[c]] - 1 /\ UNCHANGED <<pc, id, errors>>
    BY <1>1, <1>2, <1>9 DEF Tick, TypeOK
  <2>2. Polling(c) /\ Ready(c)
    BY <2>1 DEF Polling, Ready, Ids, NoId
  <2>3. \/ spent'[c] = spent[c] + 1 /\ Owed(c)' = Owed(c)
        \/ spent'[c] = spent[c] /\ Owed(c)' = Owed(c) - 1
    <3>1. CASE Asking(c) \/ pc[c] = "polled"
      BY <3>1, <2>1, <2>2, <1>1, <1>9 DEF Tick, Asking, Owed, TypeOK
    <3>2. CASE ~(Asking(c) \/ pc[c] = "polled")
      BY <3>2, <2>1, <2>2, <1>1, <1>9 DEF Tick, Asking, Polling, Owed, TypeOK
    <3> QED BY <3>1, <3>2
  <2>4. Poll * (errors + 1) \in Nat
    BY PausesGrow, <1>1
  <2>5. Used(c) = Poll * (errors + 1) + spent[c] /\ Used(c)' = Poll * (errors + 1) + spent'[c]
    BY <2>1 DEF Used
  <2> QED BY <2>1, <2>2, <2>3, <2>4, <2>5, <1>1, <1>3, <1>4
<1>10. CASE UNCHANGED <<pc[c], id[c], wait[c]>>
            /\ \/ ttl'[id[c]] = TTL /\ spent'[c] = 0
               \/ ttl'[id[c]] = ttl[id[c]] /\ spent'[c] = spent[c]
  <2>1. Owed(c)' = Owed(c) /\ id'[c] = id[c] /\ (Polling(c)' <=> Polling(c))
    BY <1>10 DEF Owed, Polling
  <2>2. Used(c)' = Poll * (errors' + 1) + spent'[c] /\ Used(c) = Poll * (errors + 1) + spent[c]
    BY DEF Used
  <2>3. CASE ttl'[id[c]] = TTL
    BY <2>1, <2>2, <2>3, <1>1, <1>3, PausesGrow
  <2>4. CASE ttl'[id[c]] = ttl[id[c]] /\ spent'[c] = spent[c]
    <3>1. Polling(c) /\ Ready(c)
      BY <2>1, <2>4 DEF Ready
    <3>2. (TTL - ttl[id[c]]) + Owed(c) <= Poll * (errors + 1) + spent[c]
      BY <3>1, <2>2, <1>4
    <3> QED BY <3>2, <2>1, <2>2, <2>4, <1>1, <1>2, <1>3, PausesGrow
  <2> QED BY <1>10, <2>3, <2>4
<1>11. CASE UNCHANGED vars
  <2>1. UNCHANGED <<pc[c], id[c], wait[c]>> /\ ttl'[id[c]] = ttl[id[c]] /\ spent'[c] = spent[c]
    BY <1>11 DEF vars, redis, client
  <2> QED BY <2>1, <1>10
<1>12. CASE /\ UNCHANGED <<pc[c], id[c], wait[c]>>
            /\ \/ UNCHANGED <<ttl, spent[c]>>
               \/ \E d \in Clients, u \in Ids : Keep(d, u)
  BY <1>1, <1>2, <1>10, <1>12, KeepResets
<1> QED BY <1>1, <1>6, <1>7, <1>8, <1>9, <1>11, <1>12, PollCases

-----------------------------------------------------------------------------
(* Theorems                                                                *)

\* The invariant: ids belong to one user each, and so do their tokens.
THEOREM AuthInvariant == Spec => []IInv
<1>1. IInv /\ [Next]_vars => IInv'
  <2> SUFFICES ASSUME IInv, [Next]_vars PROVE IInv'
    OBVIOUS
  <2>1. CASE Next
    BY <2>1, GenerateStep, FetchStep, BrowserStep, TickStep DEF Next
  <2>2. CASE UNCHANGED vars
    BY <2>2 DEF vars, redis, client, browser, IInv, TypeOK, IdsApart, OwnToken, TokenFresh
  <2> QED BY <2>1, <2>2
<1> QED BY <1>1, InitInv, PTL DEF Spec

\* The state of Redis, the clients and the browsers keeps its types.
THEOREM AuthTypeCorrect == Spec => []TypeOK
<1>1. IInv => TypeOK
  BY DEF IInv
<1> QED BY <1>1, AuthInvariant, PTL

\* /fetch-token gives a client a token of its own user only.
THEOREM TokensOwn == Spec => []OwnToken
<1>1. IInv => OwnToken
  BY DEF IInv
<1> QED BY <1>1, AuthInvariant, PTL

\* A token that can be fetched outlives its key by Life - TTL.
THEOREM TokensFresh == Spec => []TokenFresh
<1>1. IInv => TokenFresh
  BY DEF IInv
<1> QED BY <1>1, AuthInvariant, PTL

\* A token expires unread before a client that polls for it only when the time
\* of its polls and the pauses, one for each failed call and one more, add up
\* to the life of the key.
THEOREM TokensNotMissed == Spec => TokenNotMissed
<1>1. Init => KeysHoldTokens /\ PollInTime
  BY AuthAssumption DEF Init, KeysHoldTokens, PollInTime, Polling
<1>2. ASSUME IInv, KeysHoldTokens, PollInTime, [Next]_vars, NEW c \in Clients,
             Polling(c), Ready(c), Polling(c)', Used(c)' < TTL
      PROVE  Ready(c)'
  <2>1. TypeOK /\ id[c] \in Ids /\ id[c] # NoId /\ ttl[id[c]] \in 1..TTL
    <3>1. TypeOK /\ id[c] # NoId /\ ttl[id[c]] > 0
      BY <1>2 DEF Ready, IInv
    <3>2. id[c] \in Ids
      BY <3>1, AuthAssumption DEF TypeOK, Ids, NoId
    <3>3. ttl[id[c]] \in 0..TTL
      BY <3>1, <3>2 DEF TypeOK
    <3> QED BY <3>1, <3>2, <3>3, AuthAssumption
  <2>2. SUFFICES ASSUME Next, ~Ready(c)' PROVE FALSE
    BY <1>2 DEF vars, redis, client, Ready
  <2>3. CASE Tick
    <3>1. UNCHANGED <<pc, id, errors>> /\ ttl[id[c]] = 1
      BY <2>1, <2>2, <2>3 DEF Tick, Ready, TypeOK
    <3>2. /\ TTL \in Nat /\ Poll \in Nat /\ wait[c] \in Nat /\ spent[c] \in Nat
          /\ Poll * (errors + 1) \in Nat
      BY <1>2, <2>1, PausesGrow, AuthAssumption DEF TypeOK
    <3>3. (TTL - 1) + Owed(c) <= Poll * (errors + 1) + spent[c]
      BY <1>2, <3>1 DEF PollInTime, Used
    <3>4. Poll * (errors + 1) + spent'[c] < TTL
      BY <1>2, <3>1 DEF Used
    <3>5. CASE Asking(c) \/ pc[c] = "polled"
      <4>1. spent'[c] = spent[c] + 1 /\ Owed(c) \in Nat
        BY <3>5, <3>2, <1>2, <2>3, AuthAssumption DEF Tick, Owed
      <4> QED BY <4>1, <3>2, <3>3, <3>4
    <3>6. CASE ~(Asking(c) \/ pc[c] = "polled")
      <4>1. spent'[c] = spent[c] /\ Owed(c) \in Nat \ {0}
        BY <3>6, <3>2, <1>2, <2>3 DEF Tick, Owed, Asking, Polling
      <4> QED BY <4>1, <3>2, <3>3, <3>4
    <3> QED BY <3>5, <3>6
  <2>4. CASE ~Tick
    <3>1. id'[c] = id[c]
      BY <1>2, <2>1, <2>2, <2>4 DEF Next, Generate, GenerateFails, GenerateLost,
         StartPolling, Fetch, FetchToken, FetchNothing, Pause, Verify, Exit, Login,
         Callback, CallbackFails, Polling, redis, client, TypeOK
    <3>2. \/ UNCHANGED ttl
          \/ \E d \in Clients, u \in Ids : Keep(d, u)
      BY <2>2, <2>4 DEF Next, Generate, GenerateFails, GenerateLost, Fetch, FetchToken,
         FetchNothing, Pause, Verify, Exit, Login, Callback, CallbackFails, redis
    <3>3. ttl'[id[c]] \in {ttl[id[c]], TTL} /\ TTL > 0
      BY <2>1, <3>2, AuthAssumption DEF Keep, TypeOK
    <3> QED BY <2>1, <2>2, <3>1, <3>3 DEF Ready
  <2> QED BY <2>3, <2>4
<1>3. IInv /\ KeysHoldTokens /\ PollInTime /\ [Next]_vars =>
        [\A c \in Clients :
           Polling(c) /\ Ready(c) /\ Polling(c)' /\ Used(c)' < TTL => Ready(c)']_vars
  BY <1>2
<1> QED BY <1>1, <1>3, AuthInvariant, KeysStep, PollStep, PTL DEF Spec, TokenNotMissed
=============================================================================
