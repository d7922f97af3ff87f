---------------------------- MODULE MCWorkerPool ----------------------------
(* A ring of two shards for WorkerPool.                                     *)
EXTENDS WorkerPool

CONSTANTS q1, q2
TwoShards == <<q1, q2>>
=============================================================================
