-------------------------------- MODULE MCTimers --------------------------------
(***************************************************************************)
(* Timers for TLC.  Two calls wait for one key of the cache or for         *)
(* different ones, while values replace one another, with times of zero,   *)
(* one and two ticks.  A station connects twice, with a ping interval of a *)
(* few ticks, longer than a pong may take.  Two handlers let an event meet *)
(* the one before it or a repetition of itself, beside a cost run that may *)
(* take longer than either, one answer not waited for and one status call. *)
(***************************************************************************)
EXTENDS Timers

CONSTANTS k1, k2, v1, v2, w1, w2, s1, s2, h1, h2, n1
===============================================================================
