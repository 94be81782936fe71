---------------------------- MODULE MessageRouter ----------------------------
(***************************************************************************)
(* The OCPP message router (03_Modules/OcppRouter/src/module/router.ts)    *)
(* for one station.  The router serialises the RPC traffic of a station    *)
(* with one cache entry, the slot (namespace Transactions, key the         *)
(* connection identifier, value "action:messageId", time to live           *)
(* maxCallLengthSeconds): a Call of either side claims it with             *)
(* setIfNotExist and the answer to the Call removes it.                    *)
(*                                                                         *)
(* Every handler is an async function: the event loop runs other handlers  *)
(* at each await, so a handler is one action per section between awaits.   *)
(* A Call is identified with its action and message id, which is all the   *)
(* slot records.                                                           *)
(***************************************************************************)
EXTENDS Naturals, FiniteSets

CONSTANTS
  CsmsCalls,      \* Calls a module asks the router to send to the station
  StationCalls,   \* Calls the station sends to the CSMS
  None,           \* the slot is free; nothing read yet
  Barred,         \* Calls the cached boot status or action blacklist forbids
  RouteOutcomes,  \* what IMessageSender.send may do, of AllRouteOutcomes
  LinkOutcomes,   \* whether networkHook delivers, of BOOLEAN
  TimelyPeers     \* station and modules answer within maxCallLengthSeconds

Calls == CsmsCalls \union StationCalls

(* "ok": published.  "failed": send threw or answered {success: false}.   *)
(* "busy": publish answered false because the channel's write buffer is    *)
(* full, but the message is buffered and will be delivered all the same.   *)
AllRouteOutcomes == {"ok", "failed", "busy"}

ASSUME CallsAssumption ==
  /\ CsmsCalls \intersect StationCalls = {}
  /\ None \notin Calls
  /\ Barred \subseteq Calls

ASSUME OutcomesAssumption ==
  /\ RouteOutcomes \subseteq AllRouteOutcomes
  /\ LinkOutcomes \subseteq BOOLEAN /\ LinkOutcomes # {}
  /\ TimelyPeers \in BOOLEAN

VARIABLES
  slot,      \* the Call in the station's cache entry, or None
  csms,      \* progress of each CSMS Call
  stn,       \* progress of each station Call in _onCall
  module,    \* progress of each station Call in the module that answers it
  seen,      \* slot value a router handler has read and not yet used
  moduleSeen,\* the same, for the handler sending a module's answer
  replies    \* answers sent to the station, per station Call

vars == <<slot, csms, stn, module, seen, moduleSeen, replies>>

CsmsPhase == {"queued",    \* in the router's request queue
              "allowed",   \* _sendCallIsAllowed passed
              "barred",    \* forbidden: {success: false}
              "claimed",   \* slot claimed, not yet transmitted
              "unsent",    \* networkHook failed
              "sent",      \* the station owes an answer
              "answered",  \* answer arrived, slot read
              "matched",   \* the answer is for the Call in the slot
              "unmatched", \* the answer found no slot, or another Call in it
              "routed",    \* result published to the modules
              "errored",   \* CallError: the API callback was called
              "undelivered"} \* invalid result, or it could not be published

StationPhase == {"incoming", "allowed", "refused", "claimed", "forwarded",
                 "failing", "failRead", "releasing", "closed"}

ModulePhase == {"none", "handling", "read", "replied", "dropped"}

TypeOK ==
  /\ slot \in Calls \union {None}
  /\ csms \in [CsmsCalls -> CsmsPhase]
  /\ stn \in [StationCalls -> StationPhase]
  /\ module \in [StationCalls -> ModulePhase]
  /\ seen \in [Calls -> Calls \union {None}]
  /\ moduleSeen \in [StationCalls -> Calls \union {None}]
  /\ replies \in [StationCalls -> 0..2]

Init ==
  /\ slot = None
  /\ csms = [c \in CsmsCalls |-> "queued"]
  /\ stn = [m \in StationCalls |-> "incoming"]
  /\ module = [m \in StationCalls |-> "none"]
  /\ seen = [x \in Calls |-> None]
  /\ moduleSeen = [m \in StationCalls |-> None]
  /\ replies = [m \in StationCalls |-> 0]

-----------------------------------------------------------------------------
(* The operators named in the Mutants sections are faulty variants of the  *)
(* definition they precede: the checks put them in its place to see the    *)
(* properties fail.                                                        *)

(* Cache operations on the slot. *)

\* Mutant: a refused Call cleans up the slot as if it were its own.
OccupiedReleases == slot # None /\ slot' = None

Claim(x) == slot = None /\ slot' = x             \* setIfNotExist is true
Occupied == slot # None /\ UNCHANGED slot        \* setIfNotExist is false
Release  == slot' = None                         \* remove

(* The exchange of a Call is in progress: from claiming the slot until the *)
(* answer has been handled, or the Call has been given up.                 *)
Open(x) ==
  \/ x \in CsmsCalls /\ csms[x] \in {"claimed", "sent", "answered"}
  \/ x \in StationCalls /\ \/ stn[x] \in {"claimed", "failing", "failRead"}
                           \/ module[x] \in {"handling", "read"}

OpenCalls == {x \in Calls : Open(x)}

(* The entry's time to live runs out.  A peer that answers in time has the *)
(* exchange over before that; otherwise it may happen at any moment.       *)
Expire ==
  /\ slot # None
  /\ TimelyPeers => ~Open(slot)
  /\ Release
  /\ UNCHANGED <<csms, stn, module, seen, moduleSeen, replies>>

-----------------------------------------------------------------------------
(* Calls from the CSMS to the station. *)

CsmsStep(c, from, to) == csms[c] = from /\ csms' = [csms EXCEPT ![c] = to]

(* AbstractRouter.handle of a Request runs sendCall: read BOOT_STATUS. *)
SendCallCheck(c) ==
  /\ CsmsStep(c, "queued", IF c \in Barred THEN "barred" ELSE "allowed")
  /\ UNCHANGED <<slot, stn, module, seen, moduleSeen, replies>>

\* Mutant: a Call that finds the slot taken is not put back on the queue.
SendCallClaimDrops(c) ==
  /\ \/ Claim(c) /\ CsmsStep(c, "allowed", "claimed")
     \/ Occupied /\ CsmsStep(c, "allowed", "unmatched")
  /\ UNCHANGED <<stn, module, seen, moduleSeen, replies>>

(* setIfNotExist; when the slot is taken RetryMessageError makes the       *)
(* receiver nack the message, which puts it back on the queue.             *)
SendCallClaim(c) ==
  /\ \/ Claim(c) /\ CsmsStep(c, "allowed", "claimed")
     \/ Occupied /\ CsmsStep(c, "allowed", "queued")
  /\ UNCHANGED <<stn, module, seen, moduleSeen, replies>>

\* Mutant: the slot is given back as soon as the Call is on the wire.
SendCallTransmitReleases(c) ==
  /\ CsmsStep(c, "claimed", "sent") /\ Release
  /\ UNCHANGED <<stn, module, seen, moduleSeen, replies>>

(* _sendMessage: a failure is only reported, the slot stays claimed. *)
SendCallTransmit(c) ==
  /\ \E ok \in LinkOutcomes :
       CsmsStep(c, "claimed", IF ok THEN "sent" ELSE "unsent")
  /\ UNCHANGED <<slot, stn, module, seen, moduleSeen, replies>>

(* The station's CallResult or CallError arrives: _onCallResult and        *)
(* _onCallError start with the same read of the slot.                      *)
OnAnswerRead(c) ==
  /\ CsmsStep(c, "sent", "answered")
  /\ seen' = [seen EXCEPT ![c] = slot]
  /\ UNCHANGED <<slot, stn, module, moduleSeen, replies>>

(* "Always remove pending call transaction", then compare message ids.     *)
OnAnswerRelease(c) ==
  /\ CsmsStep(c, "answered", IF seen[c] = c THEN "matched" ELSE "unmatched")
  /\ Release
  /\ seen' = [seen EXCEPT ![c] = None]
  /\ UNCHANGED <<stn, module, moduleSeen, replies>>

(* A matching CallResult is validated and published to the modules. *)
RouteCallResult(c) ==
  /\ \/ CsmsStep(c, "matched", "undelivered")        \* fails its schema
     \/ \E outcome \in RouteOutcomes :
          CsmsStep(c, "matched",
                   IF outcome = "failed" THEN "undelivered" ELSE "routed")
  /\ UNCHANGED <<slot, stn, module, seen, moduleSeen, replies>>

(* A matching CallError is not published: only the API callback is called. *)
RouteCallError(c) ==
  /\ CsmsStep(c, "matched", "errored")
  /\ UNCHANGED <<slot, stn, module, seen, moduleSeen, replies>>

-----------------------------------------------------------------------------
(* Calls from the station to the CSMS. *)

StationStep(m, from, to) == stn[m] = from /\ stn' = [stn EXCEPT ![m] = to]

Reply(m) ==
  \E ok \in LinkOutcomes :
    replies' = IF ok THEN [replies EXCEPT ![m] = @ + 1] ELSE replies

(* _onCall: blacklist and schema; a refusal is a CallError of its own. *)
OnCallCheck(m) ==
  /\ \/ m \notin Barred /\ StationStep(m, "incoming", "allowed") /\ UNCHANGED replies
     \/ StationStep(m, "incoming", "refused") /\ Reply(m)
  /\ UNCHANGED <<slot, csms, module, seen, moduleSeen>>

\* Mutant: a colliding Call is dropped without a CallError.
OnCallClaimSilent(m) ==
  /\ \/ Claim(m) /\ StationStep(m, "allowed", "claimed")
     \/ Occupied /\ StationStep(m, "allowed", "refused")
  /\ UNCHANGED <<csms, module, seen, moduleSeen, replies>>

(* Claim the slot, or answer "Call already in progress". *)
OnCallClaim(m) ==
  /\ \/ Claim(m) /\ StationStep(m, "allowed", "claimed") /\ UNCHANGED replies
     \/ Occupied /\ StationStep(m, "allowed", "refused") /\ Reply(m)
  /\ UNCHANGED <<csms, module, seen, moduleSeen>>

(* _routeCall publishes the Call to the module queues. *)
RouteCall(m) ==
  /\ \E outcome \in RouteOutcomes :
       /\ StationStep(m, "claimed",
                      IF outcome = "ok" THEN "forwarded" ELSE "failing")
       /\ module' = IF outcome = "failed" THEN module
                    ELSE [module EXCEPT ![m] = "handling"]
  /\ UNCHANGED <<slot, csms, seen, moduleSeen, replies>>

(* The Call could not be routed: sendCallError reads the slot ... *)
RouteFailedRead(m) ==
  /\ StationStep(m, "failing", "failRead")
  /\ seen' = [seen EXCEPT ![m] = slot]
  /\ UNCHANGED <<slot, csms, module, moduleSeen, replies>>

\* Mutant: the slot is left to .finally.
RouteFailedReplyOnly(m) ==
  /\ StationStep(m, "failRead", "releasing")
  /\ IF seen[m] = m THEN Reply(m) ELSE UNCHANGED replies
  /\ seen' = [seen EXCEPT ![m] = None]
  /\ UNCHANGED <<slot, csms, module, moduleSeen>>

(* ... sends the CallError and removes the slot when it holds the Call ... *)
RouteFailedReply(m) ==
  /\ StationStep(m, "failRead", "releasing")
  /\ IF seen[m] = m THEN Release /\ Reply(m) ELSE UNCHANGED <<slot, replies>>
  /\ seen' = [seen EXCEPT ![m] = None]
  /\ UNCHANGED <<csms, module, moduleSeen>>

(* ... and .finally removes the slot again, whatever it holds by then. *)
RouteFailedRelease(m) ==
  /\ StationStep(m, "releasing", "closed")
  /\ Release
  /\ UNCHANGED <<csms, module, seen, moduleSeen, replies>>

ModuleStep(m, from, to) == module[m] = from /\ module' = [module EXCEPT ![m] = to]

(* The module's answer reaches sendCallResult or sendCallError. *)
ModuleReplyRead(m) ==
  /\ ModuleStep(m, "handling", "read")
  /\ moduleSeen' = [moduleSeen EXCEPT ![m] = slot]
  /\ UNCHANGED <<slot, csms, stn, seen, replies>>

\* Mutant: the answer is sent but the slot is not removed.
ModuleReplySendKeepsSlot(m) ==
  /\ ModuleStep(m, "read", IF moduleSeen[m] = m THEN "replied" ELSE "dropped")
  /\ IF moduleSeen[m] = m THEN Reply(m) ELSE UNCHANGED replies
  /\ moduleSeen' = [moduleSeen EXCEPT ![m] = None]
  /\ UNCHANGED <<slot, csms, stn, seen>>

(* Promise.all([_sendMessage, cache.remove]) when the slot holds the Call. *)
(* Both are issued together and the cache answers in order, so the send is *)
(* on its way before anybody can claim the slot.                           *)
ModuleReplySend(m) ==
  /\ \/ /\ moduleSeen[m] = m
        /\ ModuleStep(m, "read", "replied") /\ Release /\ Reply(m)
     \/ /\ moduleSeen[m] # m
        /\ ModuleStep(m, "read", "dropped") /\ UNCHANGED <<slot, replies>>
  /\ moduleSeen' = [moduleSeen EXCEPT ![m] = None]
  /\ UNCHANGED <<csms, stn, seen>>

-----------------------------------------------------------------------------
CsmsNext(c) ==
  \/ SendCallCheck(c) \/ SendCallClaim(c) \/ SendCallTransmit(c)
  \/ OnAnswerRead(c) \/ OnAnswerRelease(c)
  \/ RouteCallResult(c) \/ RouteCallError(c)

StationNext(m) ==
  \/ OnCallCheck(m) \/ OnCallClaim(m) \/ RouteCall(m)
  \/ RouteFailedRead(m) \/ RouteFailedReply(m) \/ RouteFailedRelease(m)
  \/ ModuleReplyRead(m) \/ ModuleReplySend(m)

(* Everything has been handled and the slot has been released. *)
Settled ==
  /\ slot = None
  /\ \A c \in CsmsCalls : csms[c] \in {"barred", "unsent", "unmatched", "routed",
                                       "errored", "undelivered"}
  /\ \A m \in StationCalls : /\ stn[m] \in {"refused", "forwarded", "closed"}
                             /\ module[m] \in {"none", "replied", "dropped"}

Idle == Settled /\ UNCHANGED vars

Next ==
  \/ Expire
  \/ \E c \in CsmsCalls : CsmsNext(c)
  \/ \E m \in StationCalls : StationNext(m)
  \/ Idle

(* The event loop runs every continuation that is ready and every timer    *)
(* that is due; a nacked message is delivered again.                       *)
RouterFairness ==
  /\ WF_vars(Expire)
  /\ \A c \in CsmsCalls :
       /\ WF_vars(SendCallCheck(c)) /\ WF_vars(SendCallClaim(c))
       /\ WF_vars(SendCallTransmit(c)) /\ WF_vars(OnAnswerRelease(c))
       /\ WF_vars(RouteCallResult(c) \/ RouteCallError(c))
  /\ \A m \in StationCalls :
       /\ WF_vars(OnCallCheck(m)) /\ WF_vars(OnCallClaim(m)) /\ WF_vars(RouteCall(m))
       /\ WF_vars(RouteFailedRead(m)) /\ WF_vars(RouteFailedReply(m))
       /\ WF_vars(RouteFailedRelease(m)) /\ WF_vars(ModuleReplySend(m))

(* A peer that answers in time answers. *)
PeerFairness ==
  /\ \A c \in CsmsCalls : WF_vars(OnAnswerRead(c))
  /\ \A m \in StationCalls : WF_vars(ModuleReplyRead(m))

Spec == Init /\ [][Next]_vars /\ RouterFairness

TimelySpec == Spec /\ PeerFairness

-----------------------------------------------------------------------------
(* Properties. *)

(* "Ensure only one call is processed at a time" (_onCall, router.ts): of  *)
(* all the Calls of the station, in both directions, at most one is in     *)
(* progress.                                                               *)
OneAtATime == \A x, y \in Calls : Open(x) /\ Open(y) => x = y

(* An answer that comes in time is used: the router finds the Call it      *)
(* answers in the slot, whatever else it handled in the meantime, so that  *)
(* neither "MessageId doesn't match" nor "missing message id" happens.     *)
NoTimelyAnswerLost ==
  /\ \A c \in CsmsCalls : csms[c] # "unmatched"
  /\ \A m \in StationCalls : module[m] # "dropped"

(* No handler leaves the slot taken by a Call it has finished: the slot    *)
(* is either held for an exchange in progress, or by a CSMS Call that      *)
(* could not be transmitted, which only the time to live removes.          *)
SlotNotLeaked ==
  slot # None => \/ Open(slot)
                 \/ slot \in CsmsCalls /\ csms[slot] = "unsent"

(* A Call that has been answered, by its module or by the failure path, is *)
(* not answered anew: a handler that looks for it in the slot from then on *)
(* does not find it.  Only two handlers that have both found it before     *)
(* either answered, which takes a "busy" broker, answer it twice.          *)
FoundBefore(m) == /\ seen'[m] = m => seen[m] = m
                  /\ moduleSeen'[m] = m => moduleSeen[m] = m
NoLateSecondAnswer ==
  [][\A m \in StationCalls : replies[m] > 0 => FoundBefore(m)]_vars

(* A Call the CSMS wants sent is not retried for ever: it ends, and when   *)
(* the boot status allows it and the link works it ends with its answer.   *)
CsmsCallsEnd ==
  \A c \in CsmsCalls :
    csms[c] = "queued" ~> csms[c] \in {"barred", "unsent", "routed", "errored",
                                       "undelivered"}

(* A Call of the station is answered once, by the module or by the router. *)
StationCallsAnswered ==
  \A m \in StationCalls : (stn[m] = "incoming") ~> [](replies[m] = 1)

(* The exchanges that are over. *)
ClosedCalls ==
  {c \in CsmsCalls : csms[c] \in {"unsent", "matched", "unmatched", "routed",
                                  "errored", "undelivered"}}
  \union {m \in StationCalls : /\ stn[m] \in {"forwarded", "releasing", "closed"}
                               /\ ~Open(m)}

Exchange == INSTANCE CallExchange WITH open <- OpenCalls, closed <- ClosedCalls

(* The router implements CallExchange: exchanges open one at a time, each  *)
(* Call has at most one, and none of them stays open.                      *)
ImplementsExchange == Exchange!FairSpec
===============================================================================
