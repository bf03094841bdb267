-------------------------- MODULE MCGuardedRollout --------------------------
(* A small instance of GuardedRollout: two rollouts compete for one slot,   *)
(* each permitted or not.                                                   *)
EXTENDS GuardedRollout
=============================================================================
