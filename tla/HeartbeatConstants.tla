-------------------------- MODULE HeartbeatConstants --------------------------
(***************************************************************************)
(* The parameters of the connections of one station.                       *)
(***************************************************************************)
EXTENDS Naturals

CONSTANTS
  Sockets,   \* the connections the station makes, each used once
  NoSocket,
  Interval   \* pingInterval in ticks

ASSUME HeartbeatAssumption == NoSocket \notin Sockets /\ Interval \in Nat \ {0}
===============================================================================
