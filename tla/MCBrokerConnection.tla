-------------------------- MODULE MCBrokerConnection --------------------------
(***************************************************************************)
(* BrokerConnection for TLC.  Four runs let the first run, one of the      *)
(* interval and one of the OPEN callback meet, and leave one connection    *)
(* over from an earlier time.                                              *)
(***************************************************************************)
EXTENDS BrokerConnection

CONSTANTS r1, r2, r3, r4
===============================================================================
