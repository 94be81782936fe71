----------------------------- MODULE CallExchange -----------------------------
(***************************************************************************)
(* What the router promises about one station: an RPC exchange (a Call and *)
(* its CallResult or CallError) is open from the moment the Call is taken  *)
(* on until it is answered or given up, and at most one exchange is open   *)
(* at a time, whichever side started it.  "Ensure only one call is         *)
(* processed at a time" (router.ts).  MessageRouter is shown to implement  *)
(* this specification when its peers keep the call timeout.                *)
(***************************************************************************)
CONSTANT Calls       \* every Call of either side

VARIABLES open,      \* the exchanges now in progress
          closed     \* the exchanges that are over

absVars == <<open, closed>>

Init == open = {} /\ closed = {}

(* A Call is taken on: only when nothing else is in progress, and once. *)
Begin(x) ==
  /\ open = {}
  /\ x \notin closed
  /\ open' = {x}
  /\ UNCHANGED closed

(* Its answer has been delivered, or it has been given up. *)
End(x) ==
  /\ x \in open
  /\ open' = open \ {x}
  /\ closed' = closed \union {x}

Next == \E x \in Calls : Begin(x) \/ End(x)

Spec == Init /\ [][Next]_absVars

(* An exchange does not stay open for ever. *)
FairSpec == Spec /\ \A x \in Calls : WF_absVars(End(x))
===============================================================================
