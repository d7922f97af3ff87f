--------------------------- MODULE MCMessageFlow ---------------------------
(* Constants of MessageFlow for the model checker.                         *)
EXTENDS MessageFlow, TLC

PlainForm == [task |-> TRUE, retry |-> FALSE, fail |-> FALSE,
              broadcast |-> FALSE, headers |-> "", key |-> ""]

\* One form for every destination, and the two that are refused.
RouteForms ==
  {PlainForm,
   [PlainForm EXCEPT !.retry = TRUE],
   [PlainForm EXCEPT !.fail = TRUE],
   [PlainForm EXCEPT !.broadcast = TRUE],
   [PlainForm EXCEPT !.headers = "prod"],
   [PlainForm EXCEPT !.headers = "invalid"],
   [PlainForm EXCEPT !.key = "info"],
   [PlainForm EXCEPT !.key = "debug"],
   [PlainForm EXCEPT !.key = "app.*"],
   [PlainForm EXCEPT !.task = FALSE]}

\* The forms that go to the retry workers.
RetryForms == {f \in RouteForms : f.retry}

\* Every task hashes to one shard, the worst case for a shard's worker.
OneShard == [r \in Requests |-> CHOOSE s \in Shards : TRUE]

\* Requests hash to one shard and gateways run one program: both can be renamed.
Symmetry == Permutations(Requests) \cup Permutations(Gateways)
=============================================================================
