------------------------------ MODULE MCTicks ------------------------------
(* Ticks with one or two units and ticks that overlap.                      *)
EXTENDS Ticks, TLC

CONSTANTS u1, u2, t1, t2
=============================================================================
