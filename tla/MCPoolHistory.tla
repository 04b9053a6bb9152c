----------------------------- MODULE MCPoolHistory -----------------------------
(* The history of a small pool for TLC. *)
EXTENDS PoolHistory
=============================================================================
