------------------------- MODULE MessageRouter_proofs -------------------------
(***************************************************************************)
(* Theorems about MessageRouter, for any sets of Calls.                    *)
(***************************************************************************)
EXTENDS MessageRouter, TLAPS

USE DEF Calls, AllRouteOutcomes

(* An answer is counted at most once per path of a station Call, which is  *)
(* why two are the most there can be.                                      *)
ReplyBound ==
  \A m \in StationCalls :
    /\ replies[m] <= 1 \/ (stn[m] \notin {"incoming", "allowed", "claimed", "failing", "failRead"}
                           /\ module[m] \notin {"handling", "read"})
    /\ replies[m] = 0 \/ stn[m] \notin {"incoming", "allowed", "claimed"}
    /\ replies[m] = 0 \/ module[m] = "replied" \/ stn[m] \notin {"failing", "failRead", "forwarded"}
    /\ stn[m] \in {"incoming", "allowed", "refused", "claimed"} => module[m] = "none"
    /\ module[m] \in {"handling", "read"} => replies[m] = 0 \/ stn[m] \in {"releasing", "closed"}

TypeInv == TypeOK /\ ReplyBound

(* Every variable keeps its type: in particular a station Call is never    *)
(* answered more than twice (the module's path and the failure path).      *)
THEOREM TypeCorrect == Spec => []TypeOK
<1>1. Init => TypeInv
  BY DEF Init, TypeInv, TypeOK, ReplyBound, CsmsPhase, StationPhase, ModulePhase
<1>2. TypeInv /\ [Next]_vars => TypeInv'
  <2> SUFFICES ASSUME TypeInv, [Next]_vars PROVE TypeInv'
    OBVIOUS
  <2> USE CallsAssumption, OutcomesAssumption
      DEF TypeInv, TypeOK, ReplyBound, CsmsPhase, StationPhase, ModulePhase,
          CsmsStep, StationStep, ModuleStep, Claim, Occupied, Release, Reply
  <2>1. CASE Expire
    BY <2>1 DEF Expire
  <2>2. ASSUME NEW c \in CsmsCalls, CsmsNext(c) PROVE TypeInv'
    <3>1. CASE SendCallCheck(c)     BY <3>1 DEF SendCallCheck
    <3>2. CASE SendCallClaim(c)     BY <3>2 DEF SendCallClaim
    <3>3. CASE SendCallTransmit(c)  BY <3>3 DEF SendCallTransmit
    <3>4. CASE OnAnswerRead(c)      BY <3>4 DEF OnAnswerRead
    <3>5. CASE OnAnswerRelease(c)   BY <3>5 DEF OnAnswerRelease
    <3>6. CASE RouteCallResult(c)   BY <3>6 DEF RouteCallResult
    <3>7. CASE RouteCallError(c)    BY <3>7 DEF RouteCallError
    <3> QED BY <2>2, <3>1, <3>2, <3>3, <3>4, <3>5, <3>6, <3>7 DEF CsmsNext
  <2>3. ASSUME NEW m \in StationCalls, StationNext(m) PROVE TypeInv'
    <3>1. CASE OnCallCheck(m)        BY <3>1 DEF OnCallCheck
    <3>2. CASE OnCallClaim(m)        BY <3>2 DEF OnCallClaim
    <3>3. CASE RouteCall(m)          BY <3>3 DEF RouteCall
    <3>4. CASE RouteFailedRead(m)    BY <3>4 DEF RouteFailedRead
    <3>5. CASE RouteFailedReply(m)   BY <3>5 DEF RouteFailedReply
    <3>6. CASE RouteFailedRelease(m) BY <3>6 DEF RouteFailedRelease
    <3>7. CASE ModuleReplyRead(m)    BY <3>7 DEF ModuleReplyRead
    <3>8. CASE ModuleReplySend(m)    BY <3>8 DEF ModuleReplySend
    <3> QED BY <2>3, <3>1, <3>2, <3>3, <3>4, <3>5, <3>6, <3>7, <3>8 DEF StationNext
  <2>4. CASE Idle \/ UNCHANGED vars
    BY <2>4 DEF Idle, vars
  <2> QED BY <2>1, <2>2, <2>3, <2>4 DEF Next
<1>3. TypeInv => TypeOK BY DEF TypeInv
<1> QED BY <1>1, <1>2, <1>3, PTL DEF Spec

-----------------------------------------------------------------------------
(* When the peers keep the call timeout and the broker accepts every       *)
(* message, an open exchange holds the slot and what a handler read of the *)
(* slot before its last await is still true.                               *)
OpenHoldsSlot == \A x \in Calls : Open(x) => slot = x

ReadIsCurrent ==
  /\ \A c \in CsmsCalls : csms[c] = "answered" => seen[c] = c
  /\ \A m \in StationCalls : module[m] = "read" => moduleSeen[m] = m

NoFailurePath ==
  \A m \in StationCalls :
    /\ stn[m] \notin {"failing", "failRead", "releasing", "closed"}
    /\ module[m] # "none" => stn[m] = "forwarded"

TimelyInv == TypeOK /\ OpenHoldsSlot /\ ReadIsCurrent /\ NoFailurePath /\ NoTimelyAnswerLost

Timely == TimelyPeers /\ RouteOutcomes \subseteq {"ok"}

(* TimelyInv is inductive under these assumptions. *)
LEMMA TimelyInvInductive ==
  ASSUME Timely
  PROVE  /\ Init => TimelyInv
         /\ TimelyInv /\ TypeOK' /\ [Next]_vars => TimelyInv'
<1> USE CallsAssumption, OutcomesAssumption
    DEF Timely, TimelyInv, OpenHoldsSlot, Open, ReadIsCurrent, NoFailurePath,
        NoTimelyAnswerLost
<1>1. Init => TimelyInv
  BY DEF Init, TypeOK, CsmsPhase, StationPhase, ModulePhase
<1>2. ASSUME TimelyInv, TypeOK', [Next]_vars PROVE TimelyInv'
  <2> USE <1>2 DEF CsmsStep, StationStep, ModuleStep, Claim, Occupied, Release
  <2>1. CASE Expire
    BY <2>1 DEF Expire, TypeOK
  <2>2. ASSUME NEW c \in CsmsCalls, CsmsNext(c) PROVE TimelyInv'
    <3> USE DEF TypeOK
    <3>1. CASE SendCallCheck(c)     BY <3>1 DEF SendCallCheck
    <3>2. CASE SendCallClaim(c)     BY <3>2 DEF SendCallClaim
    <3>3. CASE SendCallTransmit(c)  BY <3>3 DEF SendCallTransmit
    <3>4. CASE OnAnswerRead(c)      BY <3>4 DEF OnAnswerRead
    <3>5. CASE OnAnswerRelease(c)   BY <3>5 DEF OnAnswerRelease
    <3>6. CASE RouteCallResult(c)   BY <3>6 DEF RouteCallResult
    <3>7. CASE RouteCallError(c)    BY <3>7 DEF RouteCallError
    <3> QED BY <2>2, <3>1, <3>2, <3>3, <3>4, <3>5, <3>6, <3>7 DEF CsmsNext
  <2>3. ASSUME NEW m \in StationCalls, StationNext(m) PROVE TimelyInv'
    <3> USE DEF TypeOK
    <3>1. CASE OnCallCheck(m)        BY <3>1 DEF OnCallCheck
    <3>2. CASE OnCallClaim(m)        BY <3>2 DEF OnCallClaim
    <3>3. CASE RouteCall(m)          BY <3>3 DEF RouteCall
    <3>4. CASE RouteFailedRead(m)    BY <3>4 DEF RouteFailedRead
    <3>5. CASE RouteFailedReply(m)   BY <3>5 DEF RouteFailedReply
    <3>6. CASE RouteFailedRelease(m) BY <3>6 DEF RouteFailedRelease
    <3>7. CASE ModuleReplyRead(m)    BY <3>7 DEF ModuleReplyRead
    <3>8. CASE ModuleReplySend(m)    BY <3>8 DEF ModuleReplySend
    <3> QED BY <2>3, <3>1, <3>2, <3>3, <3>4, <3>5, <3>6, <3>7, <3>8 DEF StationNext
  <2>4. CASE Idle \/ UNCHANGED vars
    BY <2>4 DEF Idle, vars, TypeOK
  <2> QED BY <2>1, <2>2, <2>3, <2>4 DEF Next
<1> QED BY <1>1, <1>2

LEMMA TimelyInvHolds == ASSUME Timely PROVE Spec => []TimelyInv
<1> Spec => []TypeOK  BY TypeCorrect
<1> Init => TimelyInv BY TimelyInvInductive
<1> TimelyInv /\ TypeOK' /\ [Next]_vars => TimelyInv' BY TimelyInvInductive
<1> QED BY PTL DEF Spec

(* One Call of the station is processed at a time, in both directions and  *)
(* for any number of Calls, provided that the peers keep the call timeout  *)
(* and that the broker takes every message.                                *)
THEOREM Exclusion == ASSUME Timely PROVE Spec => []OneAtATime
<1>1. TimelyInv => OneAtATime
  BY DEF TimelyInv, OpenHoldsSlot, OneAtATime
<1> QED BY <1>1, TimelyInvHolds, PTL

(* Under the same assumptions no answer is thrown away for not finding its *)
(* Call in the slot.                                                       *)
THEOREM AnswersKept == ASSUME Timely PROVE Spec => []NoTimelyAnswerLost
<1>1. TimelyInv => NoTimelyAnswerLost
  BY DEF TimelyInv
<1> QED BY <1>1, TimelyInvHolds, PTL

-----------------------------------------------------------------------------
(* No assumption on the peers or the broker: a handler that found another  *)
(* Call in the slot (or none) does not own the slot, and neither does a    *)
(* Call that has not claimed it yet or has removed it.                     *)
NotOwner ==
  /\ \A c \in CsmsCalls : csms[c] \in {"queued", "allowed", "barred"} => slot # c
  /\ \A m \in StationCalls :
       /\ stn[m] \in {"incoming", "allowed", "refused", "releasing", "closed"} => slot # m
       /\ stn[m] = "failRead" /\ seen[m] # m => slot # m
       /\ module[m] = "read" /\ moduleSeen[m] # m => slot # m
       /\ stn[m] \in {"incoming", "allowed", "refused", "claimed"} => module[m] = "none"
       /\ stn[m] = "forwarded" => module[m] # "none"

LeakInv == TypeOK /\ NotOwner /\ SlotNotLeaked

(* Whatever the broker, the link, the station and the timers do, the slot  *)
(* is held for an exchange in progress or by a CSMS Call that could not be *)
(* transmitted: no handler finishes a Call and leaves its slot behind.     *)
THEOREM NoLeak == Spec => []SlotNotLeaked
<1> USE CallsAssumption, OutcomesAssumption DEF LeakInv, NotOwner, SlotNotLeaked, Open
<1>1. Init => LeakInv
  BY DEF Init, TypeOK, CsmsPhase, StationPhase, ModulePhase
<1>2. ASSUME LeakInv, TypeOK', [Next]_vars PROVE LeakInv'
  <2> USE <1>2 DEF CsmsStep, StationStep, ModuleStep, Claim, Occupied, Release
  <2>1. CASE Expire
    BY <2>1 DEF Expire, TypeOK
  <2>2. ASSUME NEW c \in CsmsCalls, CsmsNext(c) PROVE LeakInv'
    <3> USE DEF TypeOK
    <3>1. CASE SendCallCheck(c)     BY <3>1 DEF SendCallCheck
    <3>2. CASE SendCallClaim(c)     BY <3>2 DEF SendCallClaim
    <3>3. CASE SendCallTransmit(c)  BY <3>3 DEF SendCallTransmit
    <3>4. CASE OnAnswerRead(c)      BY <3>4 DEF OnAnswerRead
    <3>5. CASE OnAnswerRelease(c)   BY <3>5 DEF OnAnswerRelease
    <3>6. CASE RouteCallResult(c)   BY <3>6 DEF RouteCallResult
    <3>7. CASE RouteCallError(c)    BY <3>7 DEF RouteCallError
    <3> QED BY <2>2, <3>1, <3>2, <3>3, <3>4, <3>5, <3>6, <3>7 DEF CsmsNext
  <2>3. ASSUME NEW m \in StationCalls, StationNext(m) PROVE LeakInv'
    <3> USE DEF TypeOK
    <3>1. CASE OnCallCheck(m)        BY <3>1 DEF OnCallCheck
    <3>2. CASE OnCallClaim(m)        BY <3>2 DEF OnCallClaim
    <3>3. CASE RouteCall(m)          BY <3>3 DEF RouteCall
    <3>4. CASE RouteFailedRead(m)    BY <3>4 DEF RouteFailedRead
    <3>5. CASE RouteFailedReply(m)   BY <3>5 DEF RouteFailedReply
    <3>6. CASE RouteFailedRelease(m) BY <3>6 DEF RouteFailedRelease
    <3>7. CASE ModuleReplyRead(m)    BY <3>7 DEF ModuleReplyRead
    <3>8. CASE ModuleReplySend(m)    BY <3>8 DEF ModuleReplySend
    <3> QED BY <2>3, <3>1, <3>2, <3>3, <3>4, <3>5, <3>6, <3>7, <3>8 DEF StationNext
  <2>4. CASE Idle \/ UNCHANGED vars
    BY <2>4 DEF Idle, vars, TypeOK
  <2> QED BY <2>1, <2>2, <2>3, <2>4 DEF Next
<1>3. LeakInv => SlotNotLeaked
  OBVIOUS
<1> QED BY <1>1, <1>2, <1>3, TypeCorrect, PTL DEF Spec

-----------------------------------------------------------------------------
(* How many answers a Call of the station gets.  Its module and the        *)
(* failure path both answer only when publish said false and yet the       *)
(* message was delivered ("busy").                                         *)
AnsweredAtMostOnce == \A m \in StationCalls : replies[m] <= 1

OnePath ==
  \A m \in StationCalls :
    /\ module[m] # "none" => stn[m] = "forwarded"
    /\ stn[m] \in {"incoming", "allowed", "claimed", "failing", "failRead"} => replies[m] = 0
    /\ module[m] \in {"handling", "read"} => replies[m] = 0
    /\ stn[m] = "forwarded" => module[m] # "none"

(* The router refused the Call, or its module answered it. *)
Answered(m) == stn[m] = "refused" \/ module[m] = "replied"
AnswerCounted == \A m \in StationCalls : Answered(m) => replies[m] = 1

(* Nothing is left to be done for the Call. *)
Over(m) == stn[m] \in {"refused", "closed"} \/ module[m] \in {"replied", "dropped"}
AnsweredWhenOver == \A m \in StationCalls : Over(m) => replies[m] = 1

LEMMA OnePathInductive ==
  ASSUME "busy" \notin RouteOutcomes
  PROVE  /\ Init => OnePath /\ AnsweredAtMostOnce
         /\ TypeOK /\ TypeOK' /\ OnePath /\ AnsweredAtMostOnce /\ [Next]_vars
              => (OnePath /\ AnsweredAtMostOnce)'
<1> USE CallsAssumption, OutcomesAssumption DEF OnePath, AnsweredAtMostOnce
<1>1. Init => OnePath /\ AnsweredAtMostOnce
  BY DEF Init
<1>2. ASSUME TypeOK, TypeOK', OnePath, AnsweredAtMostOnce, [Next]_vars
      PROVE  (OnePath /\ AnsweredAtMostOnce)'
  <2> USE <1>2 DEF CsmsStep, StationStep, ModuleStep, Claim, Occupied, Release, Reply
  <2>1. CASE UNCHANGED <<stn, module, replies>>
    BY <2>1
  <2>2. ASSUME NEW m \in StationCalls, StationNext(m)
        PROVE  (OnePath /\ AnsweredAtMostOnce)'
    <3> USE DEF TypeOK
    <3>1. CASE OnCallCheck(m)        BY <3>1 DEF OnCallCheck
    <3>2. CASE OnCallClaim(m)        BY <3>2 DEF OnCallClaim
    <3>3. CASE RouteCall(m)          BY <3>3 DEF RouteCall
    <3>4. CASE RouteFailedRead(m)    BY <3>4 DEF RouteFailedRead
    <3>5. CASE RouteFailedReply(m)   BY <3>5 DEF RouteFailedReply
    <3>6. CASE RouteFailedRelease(m) BY <3>6 DEF RouteFailedRelease
    <3>7. CASE ModuleReplyRead(m)    BY <3>7 DEF ModuleReplyRead
    <3>8. CASE ModuleReplySend(m)    BY <3>8 DEF ModuleReplySend
    <3> QED BY <2>2, <3>1, <3>2, <3>3, <3>4, <3>5, <3>6, <3>7, <3>8 DEF StationNext
  <2>3. ASSUME NEW c \in CsmsCalls, CsmsNext(c) PROVE UNCHANGED <<stn, module, replies>>
    BY <2>3 DEF CsmsNext, SendCallCheck, SendCallClaim, SendCallTransmit, OnAnswerRead,
                OnAnswerRelease, RouteCallResult, RouteCallError
  <2>4. ASSUME Expire \/ Idle \/ UNCHANGED vars PROVE UNCHANGED <<stn, module, replies>>
    BY <2>4 DEF Expire, Idle, vars
  <2> QED BY <2>1, <2>2, <2>3, <2>4 DEF Next
<1> QED BY <1>1, <1>2

(* No Call of the station is answered twice, whatever the peers, the link  *)
(* and the timers do, unless the broker delivers a message that publish    *)
(* refused: then its module and the failure path may both answer.          *)
THEOREM OneAnswer ==
  ASSUME "busy" \notin RouteOutcomes PROVE Spec => []AnsweredAtMostOnce
<1>1. /\ Init => OnePath /\ AnsweredAtMostOnce
      /\ TypeOK /\ TypeOK' /\ OnePath /\ AnsweredAtMostOnce /\ [Next]_vars
           => (OnePath /\ AnsweredAtMostOnce)'
  BY OnePathInductive
<1> QED BY <1>1, TypeCorrect, PTL DEF Spec

(* With a link that delivers, an answered Call has one answer. *)
LEMMA AnswerCountedInductive ==
  ASSUME "busy" \notin RouteOutcomes, LinkOutcomes = {TRUE}
  PROVE  /\ Init => AnswerCounted
         /\ TypeOK /\ TypeOK' /\ OnePath /\ AnswerCounted /\ [Next]_vars => AnswerCounted'
<1> USE CallsAssumption, OutcomesAssumption DEF AnswerCounted, Answered
<1>1. Init => AnswerCounted
  BY DEF Init
<1>2. ASSUME TypeOK, TypeOK', OnePath, AnswerCounted, [Next]_vars
      PROVE  AnswerCounted'
  <2> USE <1>2 DEF StationStep, ModuleStep, Claim, Occupied, Release, Reply
  <2>1. CASE UNCHANGED <<stn, module, replies>>
    BY <2>1
  <2>2. ASSUME NEW m \in StationCalls, StationNext(m) PROVE AnswerCounted'
    <3> USE DEF TypeOK, OnePath
    <3>1. CASE OnCallCheck(m)        BY <3>1 DEF OnCallCheck
    <3>2. CASE OnCallClaim(m)        BY <3>2 DEF OnCallClaim
    <3>3. CASE RouteCall(m)          BY <3>3 DEF RouteCall
    <3>4. CASE RouteFailedRead(m)    BY <3>4 DEF RouteFailedRead
    <3>5. CASE RouteFailedReply(m)   BY <3>5 DEF RouteFailedReply
    <3>6. CASE RouteFailedRelease(m) BY <3>6 DEF RouteFailedRelease
    <3>7. CASE ModuleReplyRead(m)    BY <3>7 DEF ModuleReplyRead
    <3>8. CASE ModuleReplySend(m)    BY <3>8 DEF ModuleReplySend
    <3> QED BY <2>2, <3>1, <3>2, <3>3, <3>4, <3>5, <3>6, <3>7, <3>8 DEF StationNext
  <2>3. ASSUME NEW c \in CsmsCalls, CsmsNext(c) PROVE UNCHANGED <<stn, module, replies>>
    BY <2>3 DEF CsmsNext, SendCallCheck, SendCallClaim, SendCallTransmit, OnAnswerRead,
                OnAnswerRelease, RouteCallResult, RouteCallError
  <2>4. ASSUME Expire \/ Idle \/ UNCHANGED vars PROVE UNCHANGED <<stn, module, replies>>
    BY <2>4 DEF Expire, Idle, vars
  <2> QED BY <2>1, <2>2, <2>3, <2>4 DEF Next
<1> QED BY <1>1, <1>2

(* With peers in time, a broker that takes every message and a link that   *)
(* delivers, each Call of the station has exactly one answer once nothing  *)
(* is left to be done for it: what StationCallsAnswered says, but for the  *)
(* claim that this moment comes.                                           *)
THEOREM ExactlyOneAnswer ==
  ASSUME Timely, LinkOutcomes = {TRUE} PROVE Spec => []AnsweredWhenOver
<1>1. "busy" \notin RouteOutcomes
  BY DEF Timely
<1>2. /\ Init => OnePath /\ AnsweredAtMostOnce
      /\ TypeOK /\ TypeOK' /\ OnePath /\ AnsweredAtMostOnce /\ [Next]_vars
           => (OnePath /\ AnsweredAtMostOnce)'
  BY <1>1, OnePathInductive
<1>3. /\ Init => AnswerCounted
      /\ TypeOK /\ TypeOK' /\ OnePath /\ AnswerCounted /\ [Next]_vars => AnswerCounted'
  BY <1>1, AnswerCountedInductive
<1>4. AnswerCounted /\ TimelyInv => AnsweredWhenOver
  BY DEF AnswerCounted, Answered, AnsweredWhenOver, Over, TimelyInv, NoFailurePath,
         NoTimelyAnswerLost
<1> QED BY <1>2, <1>3, <1>4, TypeCorrect, TimelyInvHolds, PTL DEF Spec
-----------------------------------------------------------------------------
(* A step of the router with healthy peers and broker opens one exchange   *)
(* when none is open, closes one, or leaves the exchanges as they are.     *)
LEMMA StepImplementsExchange ==
  ASSUME Timely, TimelyInv, TimelyInv', [Next]_vars
  PROVE  [Exchange!Next]_(Exchange!absVars)
<1> USE CallsAssumption, OutcomesAssumption
    DEF Timely, TimelyInv, OpenHoldsSlot, ReadIsCurrent, NoFailurePath,
        NoTimelyAnswerLost, OpenCalls, ClosedCalls, Open,
        CsmsStep, StationStep, ModuleStep, Claim, Occupied, Release,
        Exchange!absVars
<1>1. CASE Expire
  BY <1>1 DEF Expire, TypeOK
<1>2. ASSUME NEW c \in CsmsCalls, CsmsNext(c) PROVE [Exchange!Next]_(Exchange!absVars)
  <2> USE DEF TypeOK
  <2>1. CASE SendCallCheck(c)      BY <2>1 DEF SendCallCheck
  <2>2. CASE SendCallClaim(c)
    <3>1. CASE slot # None         BY <2>2, <3>1 DEF SendCallClaim
    <3>2. CASE slot = None
      <4>1. OpenCalls = {}         BY <3>2
      <4>2. OpenCalls' = {c} /\ ClosedCalls' = ClosedCalls /\ c \notin ClosedCalls
        BY <2>2, <3>2, <4>1 DEF SendCallClaim
      <4> QED BY <4>1, <4>2 DEF Exchange!Next, Exchange!Begin
    <3> QED BY <3>1, <3>2
  <2>3. CASE SendCallTransmit(c)
    <3>1. CASE csms'[c] = "sent"   BY <2>3, <3>1 DEF SendCallTransmit
    <3>2. CASE csms'[c] = "unsent"
      <4>1. c \in OpenCalls        BY <2>3 DEF SendCallTransmit
      <4>2. /\ OpenCalls' = OpenCalls \ {c}
            /\ ClosedCalls' = ClosedCalls \union {c}
        BY <2>3, <3>2 DEF SendCallTransmit
      <4> QED BY <4>1, <4>2 DEF Exchange!Next, Exchange!End
    <3> QED BY <2>3, <3>1, <3>2 DEF SendCallTransmit
  <2>4. CASE OnAnswerRead(c)       BY <2>4 DEF OnAnswerRead
  <2>5. CASE OnAnswerRelease(c)
    <3>1. c \in OpenCalls          BY <2>5 DEF OnAnswerRelease
    <3>2. /\ OpenCalls' = OpenCalls \ {c}
          /\ ClosedCalls' = ClosedCalls \union {c}
      BY <2>5 DEF OnAnswerRelease
    <3> QED BY <3>1, <3>2 DEF Exchange!Next, Exchange!End
  <2>6. CASE RouteCallResult(c)    BY <2>6 DEF RouteCallResult
  <2>7. CASE RouteCallError(c)     BY <2>7 DEF RouteCallError
  <2> QED BY <1>2, <2>1, <2>2, <2>3, <2>4, <2>5, <2>6, <2>7 DEF CsmsNext
<1>3. ASSUME NEW m \in StationCalls, StationNext(m) PROVE [Exchange!Next]_(Exchange!absVars)
  <2> USE DEF TypeOK
  <2>1. CASE OnCallCheck(m)        BY <2>1 DEF OnCallCheck
  <2>2. CASE OnCallClaim(m)
    <3>1. CASE slot # None         BY <2>2, <3>1 DEF OnCallClaim
    <3>2. CASE slot = None
      <4>1. OpenCalls = {}         BY <3>2
      <4>2. OpenCalls' = {m} /\ ClosedCalls' = ClosedCalls /\ m \notin ClosedCalls
        BY <2>2, <3>2, <4>1 DEF OnCallClaim
      <4> QED BY <4>1, <4>2 DEF Exchange!Next, Exchange!Begin
    <3> QED BY <3>1, <3>2
  <2>3. CASE RouteCall(m)          BY <2>3 DEF RouteCall
  <2>4. CASE RouteFailedRead(m)    BY <2>4 DEF RouteFailedRead
  <2>5. CASE RouteFailedReply(m)   BY <2>5 DEF RouteFailedReply
  <2>6. CASE RouteFailedRelease(m) BY <2>6 DEF RouteFailedRelease
  <2>7. CASE ModuleReplyRead(m)    BY <2>7 DEF ModuleReplyRead
  <2>8. CASE ModuleReplySend(m)
    <3>1. m \in OpenCalls          BY <2>8 DEF ModuleReplySend
    <3>2. /\ OpenCalls' = OpenCalls \ {m}
          /\ ClosedCalls' = ClosedCalls \union {m}
      BY <2>8 DEF ModuleReplySend
    <3> QED BY <3>1, <3>2 DEF Exchange!Next, Exchange!End
  <2> QED BY <1>3, <2>1, <2>2, <2>3, <2>4, <2>5, <2>6, <2>7, <2>8 DEF StationNext
<1>4. CASE Idle \/ UNCHANGED vars  BY <1>4 DEF Idle, vars
<1> QED BY <1>1, <1>2, <1>3, <1>4 DEF Next

(* The router implements CallExchange, its liveness aside, for every set   *)
(* of Calls, when the peers keep the call timeout and the broker accepts   *)
(* every message.                                                          *)
THEOREM Refinement == ASSUME Timely PROVE Spec => Exchange!Spec
<1>1. Init => Exchange!Init
  BY DEF Init, Exchange!Init, OpenCalls, ClosedCalls, Open
<1>2. TimelyInv /\ TimelyInv' /\ [Next]_vars => [Exchange!Next]_(Exchange!absVars)
  BY StepImplementsExchange
<1> QED BY <1>1, <1>2, TimelyInvHolds, PTL DEF Spec, Exchange!Spec

-----------------------------------------------------------------------------
(* The part of CsmsCallsEnd that no fairness is needed for: a Call has its *)
(* turn with the slot once.                                                *)
HadTurn(x) ==
  \/ x \in CsmsCalls /\ csms[x] \notin {"queued", "allowed"}
  \/ x \in StationCalls /\ stn[x] \notin {"incoming", "allowed"}
SlotIsTurn == \A x \in Calls : slot = x => HadTurn(x)
NoSecondTurn ==
  \A x \in Calls : HadTurn(x) => HadTurn(x)' /\ (slot # x => slot' # x)

LEMMA TurnStep ==
  ASSUME TypeOK, SlotIsTurn, [Next]_vars
  PROVE  SlotIsTurn' /\ NoSecondTurn
<1> USE CallsAssumption, OutcomesAssumption
    DEF TypeOK, SlotIsTurn, NoSecondTurn, HadTurn, CsmsStep, StationStep, Claim, Occupied, Release
<1>1. ASSUME NEW c \in CsmsCalls, CsmsNext(c) PROVE SlotIsTurn' /\ NoSecondTurn
  <2>1. CASE SendCallClaim(c)     BY <2>1 DEF SendCallClaim
  <2>2. CASE OnAnswerRelease(c)   BY <2>2 DEF OnAnswerRelease
  <2>3. CASE SendCallCheck(c) \/ SendCallTransmit(c)
    BY <2>3 DEF SendCallCheck, SendCallTransmit
  <2>4. CASE OnAnswerRead(c) \/ RouteCallResult(c) \/ RouteCallError(c)
    BY <2>4 DEF OnAnswerRead, RouteCallResult, RouteCallError
  <2> QED BY <1>1, <2>1, <2>2, <2>3, <2>4 DEF CsmsNext
<1>2. ASSUME NEW m \in StationCalls, StationNext(m) PROVE SlotIsTurn' /\ NoSecondTurn
  <2>1. CASE OnCallClaim(m)        BY <2>1 DEF OnCallClaim
  <2>2. CASE OnCallCheck(m) \/ RouteCall(m) \/ RouteFailedRead(m)
    BY <2>2 DEF OnCallCheck, RouteCall, RouteFailedRead
  <2>3. CASE RouteFailedReply(m)   BY <2>3 DEF RouteFailedReply
  <2>4. CASE RouteFailedRelease(m) BY <2>4 DEF RouteFailedRelease
  <2>5. CASE ModuleReplyRead(m) \/ ModuleReplySend(m)
    BY <2>5 DEF ModuleReplyRead, ModuleReplySend
  <2> QED BY <1>2, <2>1, <2>2, <2>3, <2>4, <2>5 DEF StationNext
<1>3. CASE Expire \/ Idle \/ UNCHANGED vars
  BY <1>3 DEF Expire, Idle, vars
<1> QED BY <1>1, <1>2, <1>3 DEF Next

(* A Call has the slot for one unbroken stretch, whatever the peers, the   *)
(* broker and the timers do: once it has claimed the slot, or was refused  *)
(* it for good, it never claims it again.  A request that                  *)
(* RetryMessageError puts back on the queue is therefore kept waiting by   *)
(* every other Call at most once.                                          *)
THEOREM OneTurnEach == Spec => []SlotIsTurn /\ [][NoSecondTurn]_vars
<1>1. Init => SlotIsTurn
  BY CallsAssumption DEF Init, SlotIsTurn
<1>2. TypeOK /\ SlotIsTurn /\ [Next]_vars => SlotIsTurn' /\ [NoSecondTurn]_vars
  BY TurnStep
<1> QED BY <1>1, <1>2, TypeCorrect, PTL DEF Spec

(* An answered Call has left the slot, and has had its turn.               *)
AnsweredHasLeft ==
  \A m \in StationCalls :
    /\ replies[m] > 0 => slot # m /\ stn[m] \notin {"incoming", "allowed"}
    /\ stn[m] \in {"incoming", "allowed", "claimed"} => module[m] = "none"

LEMMA AnswerStep ==
  ASSUME TypeOK, SlotIsTurn, AnsweredHasLeft, [Next]_vars
  PROVE  AnsweredHasLeft'
<1> USE CallsAssumption, OutcomesAssumption
    DEF TypeOK, SlotIsTurn, AnsweredHasLeft, HadTurn, CsmsStep, StationStep, ModuleStep,
        Claim, Occupied, Release, Reply
<1>1. ASSUME NEW c \in CsmsCalls, CsmsNext(c) PROVE AnsweredHasLeft'
  <2>1. UNCHANGED <<stn, module, replies>> /\ (slot' = slot \/ slot' \in {c, None})
    BY <1>1 DEF CsmsNext, SendCallCheck, SendCallClaim, SendCallTransmit, OnAnswerRead,
                OnAnswerRelease, RouteCallResult, RouteCallError
  <2> QED BY <2>1
<1>2. ASSUME NEW m \in StationCalls, StationNext(m) PROVE AnsweredHasLeft'
  <2>1. CASE OnCallCheck(m)        BY <2>1 DEF OnCallCheck
  <2>2. CASE OnCallClaim(m)        BY <2>2 DEF OnCallClaim
  <2>3. CASE RouteCall(m)          BY <2>3 DEF RouteCall
  <2>4. CASE RouteFailedRead(m)    BY <2>4 DEF RouteFailedRead
  <2>5. CASE RouteFailedReply(m)   BY <2>5 DEF RouteFailedReply
  <2>6. CASE RouteFailedRelease(m) BY <2>6 DEF RouteFailedRelease
  <2>7. CASE ModuleReplyRead(m)    BY <2>7 DEF ModuleReplyRead
  <2>8. CASE ModuleReplySend(m)    BY <2>8 DEF ModuleReplySend
  <2> QED BY <1>2, <2>1, <2>2, <2>3, <2>4, <2>5, <2>6, <2>7, <2>8 DEF StationNext
<1>3. CASE Expire \/ Idle \/ UNCHANGED vars
  BY <1>3 DEF Expire, Idle, vars
<1> QED BY <1>1, <1>2, <1>3 DEF Next

(* Whoever looks at the slot after a Call has been answered does not find  *)
(* the Call there, whatever the peers, the broker, the link and the timers *)
(* do: a second answer takes two handlers that looked before the first.    *)
THEOREM AnsweredHandlersMet == Spec => NoLateSecondAnswer
<1> DEFINE Met == \A m \in StationCalls : replies[m] > 0 => FoundBefore(m)
<1>1. Init => AnsweredHasLeft
  BY DEF Init, AnsweredHasLeft
<1>2. TypeOK /\ AnsweredHasLeft /\ [Next]_vars => Met
  <2> SUFFICES ASSUME TypeOK, AnsweredHasLeft, [Next]_vars PROVE Met
    OBVIOUS
  <2> USE CallsAssumption DEF TypeOK, AnsweredHasLeft, FoundBefore
  <2>1. ASSUME NEW c \in CsmsCalls, CsmsNext(c) PROVE Met
    <3>1. moduleSeen' = moduleSeen /\ \A m \in StationCalls : seen'[m] = seen[m]
      BY <2>1 DEF CsmsNext, SendCallCheck, SendCallClaim, SendCallTransmit, OnAnswerRead,
                  OnAnswerRelease, RouteCallResult, RouteCallError
    <3> QED BY <3>1
  <2>2. ASSUME NEW m \in StationCalls, StationNext(m) PROVE Met
    <3>1. CASE RouteFailedRead(m)  BY <3>1 DEF RouteFailedRead
    <3>2. CASE RouteFailedReply(m) BY <3>2 DEF RouteFailedReply
    <3>3. CASE ModuleReplyRead(m)  BY <3>3 DEF ModuleReplyRead
    <3>4. CASE ModuleReplySend(m)  BY <3>4 DEF ModuleReplySend
    <3>5. CASE UNCHANGED <<seen, moduleSeen>>
      BY <3>5
    <3> QED BY <2>2, <3>1, <3>2, <3>3, <3>4, <3>5
            DEF StationNext, OnCallCheck, OnCallClaim, RouteCall, RouteFailedRelease
  <2>3. CASE Expire \/ Idle \/ UNCHANGED vars
    BY <2>3 DEF Expire, Idle, vars
  <2> QED BY <2>1, <2>2, <2>3 DEF Next
<1>3. TypeOK /\ SlotIsTurn /\ AnsweredHasLeft /\ [Next]_vars => AnsweredHasLeft'
  BY AnswerStep
<1> QED BY <1>1, <1>2, <1>3, TypeCorrect, OneTurnEach, PTL DEF Spec, NoLateSecondAnswer
===============================================================================
