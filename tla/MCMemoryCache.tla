----------------------------- MODULE MCMemoryCache -----------------------------
(***************************************************************************)
(* MemoryCache for TLC: two calls that wait for one key or for different   *)
(* ones, values that replace one another, times of zero, one and two ticks.*)
(***************************************************************************)
EXTENDS MemoryCache

CONSTANTS k1, k2, v1, v2, w1, w2
===============================================================================
