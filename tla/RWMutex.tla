------------------------------ MODULE RWMutex ------------------------------
(***************************************************************************)
(* Go's sync.RWMutex as load_balancer.go uses it (backendMutex). A writer  *)
(* that has asked keeps new readers out while it waits for the present     *)
(* ones to leave; the readers it kept out go before the next writer. The   *)
(* mutex does not know which goroutine holds it: a second read lock of the *)
(* same goroutine is one more reader.                                      *)
(***************************************************************************)
EXTENDS Naturals

CONSTANTS Threads, NoThread

VARIABLE rw

RWMutexType ==
  [readers: [Threads -> Nat],            \* read locks that a thread holds
   blocked: SUBSET Threads,              \* threads kept out in RLock
   writer: Threads \cup {NoThread},      \* the writer that has asked, or holds
   held: BOOLEAN]                        \* the writer holds the lock

RWMutexInit ==
  rw = [readers |-> [t \in Threads |-> 0], blocked |-> {}, writer |-> NoThread,
        held |-> FALSE]

\* RLock: let in at once, or kept out until the writer is done.
RLock(t) ==
  rw' = IF rw.writer = NoThread THEN [rw EXCEPT !.readers[t] = @ + 1]
        ELSE [rw EXCEPT !.blocked = @ \cup {t}]

Blocked(t) == t \in rw.blocked

RUnlock(t) == rw' = [rw EXCEPT !.readers[t] = @ - 1]

\* Lock, first half: one writer at a time shuts the door to new readers.
AskLock(t) ==
  /\ rw.writer = NoThread
  /\ rw' = [rw EXCEPT !.writer = t]

\* Lock, second half: the readers that were inside have left.
GetLock(t) ==
  /\ rw.writer = t /\ ~rw.held
  /\ \A u \in Threads : rw.readers[u] = 0
  /\ rw' = [rw EXCEPT !.held = TRUE]

\* Unlock lets in everyone who was kept out.
Unlock(t) ==
  /\ rw.writer = t /\ rw.held
  /\ rw' = [readers |-> [u \in Threads |-> IF u \in rw.blocked THEN rw.readers[u] + 1
                                           ELSE rw.readers[u]],
            blocked |-> {}, writer |-> NoThread, held |-> FALSE]
=============================================================================
