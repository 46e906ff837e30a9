---------------------------- MODULE MCBatchWorkers ----------------------------
(* A small instance of BatchWorkers: batches of one or two jobs under a cap  *)
(* of one or two, with three tasks, next to one delegation elsewhere.        *)
EXTENDS BatchWorkers, TLC

CONSTANTS t1, t2, t3, other
===============================================================================
