-------------------------- MODULE TransactionConstants --------------------------
(***************************************************************************)
(* The parameters of one OCPP 2.0.1 transaction.                           *)
(***************************************************************************)
EXTENDS Integers

CONSTANTS
  Last,         \* the number of the Ended event
  Handlers,     \* executions of _handleTransactionEvent
  Runs,         \* executions of _tryNotify
  None,         \* no row, no handler, no answer
  MaxTimeouts,  \* bound: answers the station does not wait for
  MaxQueries    \* bound: GetTransactionStatus calls

ASSUME LastAssumption == Last \in Nat \ {0}
ASSUME BoundsAssumption == MaxTimeouts \in Nat /\ MaxQueries \in Nat
ASSUME NoneAssumption ==
  /\ None \notin Handlers \cup BOOLEAN
  /\ None \notin [isActive : BOOLEAN, totalKwh : Int, totalCost : Int]
===============================================================================
