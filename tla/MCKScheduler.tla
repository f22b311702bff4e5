----------------------------- MODULE MCKScheduler -----------------------------
(* The scheduler for the model checker: a process with two threads, one of *)
(* which changes its priority and one its affinity, and one with a third.  *)
EXTENDS KScheduler, TLC

CONSTANTS t1, t2, t3, application, service

MCOwner == (t1 :> application) @@ (t2 :> service) @@ (t3 :> application)
MCPriorities == (t1 :> {1, 2}) @@ (t2 :> {2}) @@ (t3 :> {2})
MCMasks == (t1 :> {{0, 1}}) @@ (t2 :> {{0, 1}}) @@ (t3 :> {{0}, {0, 1}})
===============================================================================
