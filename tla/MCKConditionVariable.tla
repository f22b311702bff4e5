------------------------ MODULE MCKConditionVariable ------------------------
(* KConditionVariable for TLC: one mutex protects all predicates.          *)
EXTENDS KConditionVariable, TLC

CONSTANT m1

OneMutex == [k \in CondVars |-> m1]

=============================================================================
