------------------------- MODULE MCStationConnection -------------------------
(***************************************************************************)
(* Instances of StationConnection for TLC: a station that connects twice   *)
(* or three times, which lets a connection meet one before and one after.  *)
(***************************************************************************)
EXTENDS StationConnection

CONSTANTS s1, s2, s3
===============================================================================
