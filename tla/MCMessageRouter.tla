--------------------------- MODULE MCMessageRouter ---------------------------
(***************************************************************************)
(* Instances of MessageRouter for TLC: one station with two Calls of each  *)
(* side, so that a Call meets another of its own side and one of the other.*)
(***************************************************************************)
EXTENDS MessageRouter

CONSTANTS c1, c2, c3, m1, m2, m3

===============================================================================
