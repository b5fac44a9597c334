-------------------------- MODULE MCTurnExecution --------------------------
(* TLC instances of TurnExecution. *)
EXTENDS TurnExecution

CONSTANTS s1, k1, q1, t1, c1, c2
=============================================================================
