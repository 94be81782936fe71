---------------------------- MODULE BrokerConstants ----------------------------
(***************************************************************************)
(* The parameters of an endpoint of the broker.                            *)
(***************************************************************************)
CONSTANTS
  Runs,     \* runs of _connectWithRetry, and the connections they made
  Undefined

ASSUME BrokerConnectionAssumption == Undefined \notin Runs
===============================================================================
