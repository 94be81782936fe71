---------------------------- MODULE MCAuthorizations ---------------------------
(***************************************************************************)
(* Authorizations for model checking: rows that disallow EVSEs.            *)
(***************************************************************************)
EXTENDS Authorizations

CONSTANTS a1, a2

TwoEvses == {a1, a2}
SameType == [e \in TwoEvses |-> "cCCS2"]

SomeRows ==
  {[status |-> "Accepted", expired |-> FALSE, concurrentTransaction |-> FALSE,
    realTime |-> realTime, allowedTypes |-> None, disallowedEvses |-> evses] :
     realTime \in {"Allowed", "Never"}, evses \in SUBSET TwoEvses \union {None}}
===============================================================================
