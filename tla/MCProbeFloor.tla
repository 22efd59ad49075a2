---------------------------- MODULE MCProbeFloor ----------------------------
(* Every predicate on the blocks of chains of up to seven blocks, monotone *)
(* or not, and every pair of limits of the node's state.                   *)
EXTENDS ProbeFloor

MCMaxTip == 6
=============================================================================
