------------------------------ MODULE AuthFlow ------------------------------
(***************************************************************************)
(* Logging in (google_authentication/auth_server.go and the start of       *)
(* main.go): a client gets a user id, opens a login page for it and polls  *)
(* for the token; the browser comes back from Google with the id in its    *)
(* state, and the server signs a token and keeps it in Redis for a while.  *)
(* Times are what is left of them, and Tick lets them run down together,   *)
(* in calls as well as in pauses: nothing bounds how long a poll takes.    *)
(***************************************************************************)
EXTENDS Naturals

CONSTANTS
  Clients,     \* the users, each with a client and a browser
  NoOne,
  Poll,        \* a client's pause between two polls (2 s)
  TTL,         \* the life of login:token keys (10 min)
  Life,        \* the life of a token (1 h)
  MaxIds,      \* bound: user ids drawn
  MaxErrors    \* bound: calls of Redis or Google that fail

ASSUME AuthAssumption ==
  /\ NoOne \notin Clients
  /\ {Poll, TTL, Life} \subseteq Nat \ {0} /\ Life >= TTL
  /\ MaxIds \in Nat /\ MaxErrors \in Nat

Ids == 1..MaxIds
NoId == 0      \* what main.go decodes from an answer that has no id

VARIABLES
  counter,     \* user_id_counter
  stored,      \* login:token:<id>, the user the token was signed for
  ttl,         \* ttl[u]: what is left of the key, 0: there is none
  life,        \* life[u]: what is left of the token stored last under u
  pc,          \* where main.go is; it has "polled" when a poll found nothing
               \* and the answer to it is on its way
  id,          \* userId
  wait,        \* the rest of its pause; with none left, it polls
  opened,      \* opened[c]: the ids whose login page c's browser has opened
  consenting,  \* those for which it is at Google
  page,        \* page[c]: what is left of the token shown to c last
  got,         \* history: the user of the token c fetched last
  spent,       \* history: the time c's polls took while a token was there
  errors

redis == <<counter, stored, ttl, life>>
client == <<pc, id, wait, got, spent>>
browser == <<opened, consenting, page>>
vars == <<redis, client, browser, errors>>

Init ==
  /\ counter = 0
  /\ stored = [u \in Ids |-> NoOne]
  /\ ttl = [u \in Ids |-> 0] /\ life = [u \in Ids |-> 0]
  /\ pc = [c \in Clients |-> "start"]
  /\ id = [c \in Clients |-> NoId] /\ wait = [c \in Clients |-> 0]
  /\ opened = [c \in Clients |-> {}] /\ consenting = [c \in Clients |-> {}]
  /\ page = [c \in Clients |-> 0]
  /\ got = [c \in Clients |-> NoOne] /\ spent = [c \in Clients |-> 0]
  /\ errors = 0

Error ==
  /\ errors < MaxErrors
  /\ errors' = errors + 1

-----------------------------------------------------------------------------
(* The client, and the handlers it calls                                   *)

\* Goes on with id u, and with the login page for it in the browser.
StartPolling(c, u) ==
  /\ pc' = [pc EXCEPT ![c] = "polling"]
  /\ id' = [id EXCEPT ![c] = u]
  /\ wait' = [wait EXCEPT ![c] = 0]
  /\ spent' = [spent EXCEPT ![c] = 0]
  /\ UNCHANGED got

\* Variant: the id is read and not incremented.
GenerateRead(c) ==
  /\ pc[c] = "start" /\ counter < MaxIds
  /\ StartPolling(c, counter + 1)
  /\ opened' = [opened EXCEPT ![c] = @ \cup {counter + 1}]
  /\ UNCHANGED <<counter, stored, ttl, life, consenting, page, errors>>

\* /generate-id: INCR.
Generate(c) ==
  /\ pc[c] = "start" /\ counter < MaxIds
  /\ counter' = counter + 1
  /\ StartPolling(c, counter')
  /\ opened' = [opened EXCEPT ![c] = @ \cup {counter'}]
  /\ UNCHANGED <<stored, ttl, life, consenting, page, errors>>

\* Redis fails: the client takes the error page for an answer.
GenerateFails(c) ==
  /\ pc[c] = "start" /\ Error
  /\ StartPolling(c, NoId)
  /\ UNCHANGED <<redis, browser>>

\* The answer is lost and the client ends; its id is used up.
GenerateLost(c) ==
  /\ pc[c] = "start" /\ counter < MaxIds /\ Error
  /\ counter' = counter + 1
  /\ UNCHANGED <<stored, ttl, life, client, browser>>

\* The pause is over: a poll is under way, and has not been to Redis.
Asking(c) == pc[c] = "polling" /\ wait[c] = 0
Polling(c) == pc[c] \in {"polling", "polled"}
Ready(c) == id[c] # NoId /\ ttl[id[c]] > 0

\* /fetch-token: the token is there.
FetchToken(c) ==
  /\ Asking(c) /\ Ready(c)
  /\ pc' = [pc EXCEPT ![c] = "paste"]
  /\ got' = [got EXCEPT ![c] = stored[id[c]]]
  /\ UNCHANGED <<redis, id, wait, spent, browser, errors>>

\* It is not, the id is missing, or the call fails.
FetchNothing(c) ==
  /\ Asking(c)
  /\ IF Ready(c) THEN Error ELSE UNCHANGED errors
  /\ pc' = [pc EXCEPT ![c] = "polled"]
  /\ UNCHANGED <<redis, id, wait, got, spent, browser>>

\* Variant: the pause is as long as the key lives.
PauseLong(c) ==
  /\ pc[c] = "polled"
  /\ pc' = [pc EXCEPT ![c] = "polling"]
  /\ wait' = [wait EXCEPT ![c] = TTL]
  /\ UNCHANGED <<redis, id, got, spent, browser, errors>>

\* http.Get has returned with nothing.
Pause(c) ==
  /\ pc[c] = "polled"
  /\ pc' = [pc EXCEPT ![c] = "polling"]
  /\ wait' = [wait EXCEPT ![c] = Poll]
  /\ UNCHANGED <<redis, id, got, spent, browser, errors>>

\* The user pastes the token of the page, and /verify-token looks at its
\* expiry: the client goes on or ends.
Verify(c) ==
  /\ pc[c] = "paste"
  /\ pc' = [pc EXCEPT ![c] = IF page[c] > 0 THEN "accepted" ELSE "start"]
  /\ UNCHANGED <<redis, id, wait, got, spent, browser, errors>>

\* The client ends, after its task or before; it can be started again.
Exit(c) ==
  /\ pc[c] # "start"
  /\ pc' = [pc EXCEPT ![c] = "start"]
  /\ UNCHANGED <<redis, id, wait, got, spent, browser, errors>>

-----------------------------------------------------------------------------
(* The browser, and the handlers it calls                                  *)

\* /login: on to Google with the id as state; the page can be opened again.
Login(c, u) ==
  /\ u \in opened[c] \ consenting[c]
  /\ consenting' = [consenting EXCEPT ![c] = @ \cup {u}]
  /\ UNCHANGED <<redis, client, opened, page, errors>>

\* Variant: the key lives as long as the token.
KeepForLife(c, u) ==
  /\ stored' = [stored EXCEPT ![u] = c]
  /\ ttl' = [ttl EXCEPT ![u] = Life]
  /\ life' = [life EXCEPT ![u] = Life]
  /\ spent' = [d \in Clients |-> IF id[d] = u THEN 0 ELSE spent[d]]

Keep(c, u) ==
  /\ stored' = [stored EXCEPT ![u] = c]
  /\ ttl' = [ttl EXCEPT ![u] = TTL]
  /\ life' = [life EXCEPT ![u] = Life]
  /\ spent' = [d \in Clients |-> IF id[d] = u THEN 0 ELSE spent[d]]

\* /oauth2/callback: a token is signed, kept and shown. When Redis fails it
\* is shown all the same.
Callback(c, u) ==
  /\ u \in consenting[c]
  /\ consenting' = [consenting EXCEPT ![c] = @ \ {u}]
  /\ page' = [page EXCEPT ![c] = Life]
  /\ \/ Keep(c, u) /\ UNCHANGED errors
     \/ Error /\ UNCHANGED <<stored, ttl, life, spent>>
  /\ UNCHANGED <<counter, pc, id, wait, got, opened>>

\* Google refuses the code, or does not tell who the user is.
CallbackFails(c, u) ==
  /\ u \in consenting[c] /\ Error
  /\ consenting' = [consenting EXCEPT ![c] = @ \ {u}]
  /\ UNCHANGED <<redis, client, opened, page>>

-----------------------------------------------------------------------------
\* Time passes, also while polls are under way.
Tick ==
  LET Less(f) == [x \in DOMAIN f |-> IF f[x] > 0 THEN f[x] - 1 ELSE 0] IN
  /\ ttl' = Less(ttl) /\ life' = Less(life)
  /\ wait' = Less(wait) /\ page' = Less(page)
  /\ spent' = [c \in Clients |->
       IF Ready(c) /\ (Asking(c) \/ pc[c] = "polled") THEN spent[c] + 1 ELSE spent[c]]
  /\ UNCHANGED <<counter, stored, pc, id, got, opened, consenting, errors>>

Fetch(c) == FetchToken(c) \/ FetchNothing(c) \/ Pause(c)

Next ==
  \/ \E c \in Clients :
       \/ Generate(c) \/ GenerateFails(c) \/ GenerateLost(c)
       \/ Fetch(c) \/ Verify(c) \/ Exit(c)
       \/ \E u \in Ids : Login(c, u) \/ Callback(c, u) \/ CallbackFails(c, u)
  \/ Tick

\* Clients poll on, in their own time, and time passes; users need not do
\* anything.
Spec == Init /\ [][Next]_vars /\ WF_vars(Tick) /\ \A c \in Clients : WF_vars(Fetch(c))

-----------------------------------------------------------------------------
(* Properties                                                              *)

\* Types of Redis, the clients and the browsers.
TypeOK ==
  /\ counter \in 0..MaxIds /\ errors \in Nat
  /\ stored \in [Ids -> Clients \cup {NoOne}]
  /\ ttl \in [Ids -> 0..TTL] /\ life \in [Ids -> 0..Life]
  /\ pc \in [Clients -> {"start", "polling", "polled", "paste", "accepted"}]
  /\ id \in [Clients -> 0..MaxIds] /\ wait \in [Clients -> 0..Poll]
  /\ opened \in [Clients -> SUBSET Ids] /\ consenting \in [Clients -> SUBSET Ids]
  /\ page \in [Clients -> 0..Life]
  /\ got \in [Clients -> Clients \cup {NoOne}] /\ spent \in [Clients -> Nat]

\* A client fetches the token of its own user's login, whoever logs in when
\* and however often clients are started ("a unique user ID",
\* auth_server.go:60).
OwnToken == \A c \in Clients : got[c] \in {NoOne, c}

\* A token that can be fetched is good for as long as the token outlives its
\* key, however late the client comes (auth_server.go:126, :228).
TokenFresh == \A u \in Ids : ttl[u] > 0 => life[u] >= ttl[u] + (Life - TTL)

\* What client c can have used up of a token's life: the pause in which it
\* came, one for each call that failed, and the time its polls took.
Used(c) == Poll * (errors + 1) + spent[c]

\* A client that polls for a token does not let it expire unread, however long
\* its polls take, before their time and the pauses add up to the key's life
\* (main.go:46, auth_server.go:228).
TokenNotMissed ==
  [][\A c \in Clients :
       Polling(c) /\ Ready(c) /\ Polling(c)' /\ Used(c)' < TTL => Ready(c)']_vars

\* A token that has been stored reaches the client that polls for it, unless
\* pauses and polls have taken the life of the key by then (main.go:46).
TokenReachesClient ==
  \A c \in Clients : Polling(c) /\ Ready(c) ~> ~Polling(c) \/ Used(c) >= TTL
=============================================================================
