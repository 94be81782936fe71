----------------------------- MODULE DisplayMessages ---------------------------
(***************************************************************************)
(* The messages one OCPP 2.0.1 station displays: setDisplayMessage,        *)
(* clearDisplayMessage and getDisplayMessages of the Configuration API,    *)
(* the handlers of their answers and of NotifyDisplayMessages, and the     *)
(* MessageInfo repository.                                                 *)
(*                                                                         *)
(* Nothing is stored before the station has accepted it.  Then every row   *)
(* is made inactive and the station is asked for its messages; those it    *)
(* notifies are stored as active.  It drops a message by itself when its   *)
(* time has come.                                                          *)
(***************************************************************************)
EXTENDS Naturals

CONSTANTS
  Displays,    \* the messages, by id
  MaxRequests, \* bound on the calls made through the API
  None

Requests == 1..MaxRequests

VARIABLES
  active,      \* per message: active of its row, or None
  displayCall, \* the calls, and how far their answers are handled
  notified,    \* per call: the messages asked for after it, or notified
  shown,       \* the messages the station has
  outdated     \* history: messages the rows may be wrong about (see the actions)

displayVars == <<active, displayCall, notified, shown, outdated>>

DisplayCall == [action : {"Set", "Clear", "Get"}, display : Displays,
                pc : {"sent", "accepted", "deactivated", "over"}]
Notified == [pc : {"none", "asked", "notified"}, displays : SUBSET Displays]

TypeOK ==
  /\ active \in [Displays -> BOOLEAN \union {None}]
  /\ displayCall \in [Requests -> DisplayCall \union {None}]
  /\ notified \in [Requests -> Notified]
  /\ shown \subseteq Displays /\ outdated \subseteq Displays

NotNotified == [pc |-> "none", displays |-> {}]

Init ==
  /\ active = [d \in Displays |-> None]
  /\ displayCall = [r \in Requests |-> None]
  /\ notified = [r \in Requests |-> NotNotified]
  /\ shown = {} /\ outdated = {}

At(r, pc) ==
  displayCall[r] # None /\ displayCall[r].action # "Get" /\ displayCall[r].pc = pc
GoTo(r, pc) == displayCall' = [displayCall EXCEPT ![r].pc = pc]
Awaiting(d) == \E r \in Requests : notified[r].pc = "notified" /\ d \in notified[r].displays

-----------------------------------------------------------------------------
(* The API only sends the call. *)

SendDisplayCall(r, action, d) ==
  /\ displayCall[r] = None /\ \A q \in Requests : q < r => displayCall[q] # None
  /\ displayCall' = [displayCall EXCEPT ![r] = [action |-> action, display |-> d, pc |-> "sent"]]
  /\ UNCHANGED <<active, notified, shown, outdated>>

-----------------------------------------------------------------------------
(* The station. *)

Changed(r) == IF displayCall[r].action = "Set" THEN shown \union {displayCall[r].display}
              ELSE shown \ {displayCall[r].display}

(* A message that goes while the station's notification of it has not been *)
(* handled comes back with that.                                           *)
Accept(r) ==
  /\ At(r, "sent")
  /\ GoTo(r, "accepted")
  /\ shown' = Changed(r)
  /\ outdated' = outdated \union {d \in shown \ Changed(r) : Awaiting(d)}
  /\ UNCHANGED <<active, notified>>

(* Any other status changes nothing, nor does a call that is not sent. *)
Refuse(r) ==
  /\ At(r, "sent")
  /\ GoTo(r, "over")
  /\ UNCHANGED <<active, notified, shown, outdated>>

AcceptLost(r) ==
  /\ At(r, "sent")
  /\ GoTo(r, "over")
  /\ shown' = Changed(r)
  /\ outdated' = outdated \union {displayCall[r].display}
  /\ UNCHANGED <<active, notified>>

(* The time of a message is over. *)
Expire(d) ==
  /\ d \in shown
  /\ shown' = shown \ {d}
  /\ outdated' = outdated \union {d}
  /\ UNCHANGED <<active, displayCall, notified>>

NotifyMessages(r) ==
  /\ notified' = [notified EXCEPT ![r] = [pc |-> "notified", displays |-> shown]]
  /\ outdated' = outdated \ shown

AnswerGet(r) ==
  /\ displayCall[r] # None /\ displayCall[r].action = "Get" /\ displayCall[r].pc = "sent"
  /\ GoTo(r, "over")
  /\ NotifyMessages(r)
  /\ UNCHANGED <<active, shown>>

AnswerRequest(r) ==
  /\ notified[r].pc = "asked"
  /\ NotifyMessages(r)
  /\ UNCHANGED <<active, displayCall, shown>>

LoseNotification(r) ==
  /\ notified[r].pc = "asked"
  /\ notified' = [notified EXCEPT ![r] = NotNotified]
  /\ outdated' = Displays
  /\ UNCHANGED <<active, displayCall, shown>>

-----------------------------------------------------------------------------
(* The handlers. *)

(* deactivateAllByStationId: one statement ... *)
DeactivateMessages(r) ==
  /\ At(r, "accepted")
  /\ GoTo(r, "deactivated")
  /\ active' = [d \in Displays |-> IF active[d] = TRUE THEN FALSE ELSE active[d]]
  /\ outdated' = {d \in outdated : d \in shown \/ Awaiting(d)}
  /\ UNCHANGED <<notified, shown>>

\* Mutant: the station is asked for its messages after a set only.
RequestAfterSet(r) ==
  /\ At(r, "deactivated")
  /\ GoTo(r, "over")
  /\ notified' = [notified EXCEPT ![r].pc = IF displayCall[r].action = "Set" THEN "asked" ELSE @]
  /\ UNCHANGED <<active, shown, outdated>>

(* ... and the station is asked for its messages ... *)
RequestMessages(r) ==
  /\ At(r, "deactivated")
  /\ GoTo(r, "over")
  /\ notified' = [notified EXCEPT ![r].pc = "asked"]
  /\ UNCHANGED <<active, shown, outdated>>

(* ... if it is connected. *)
MessagesNotRequested(r) ==
  /\ At(r, "deactivated")
  /\ GoTo(r, "over")
  /\ outdated' = Displays
  /\ UNCHANGED <<active, notified, shown>>

(* _handleNotifyDisplayMessages stores them one by one ... *)
StoreMessage(r, d) ==
  /\ notified[r].pc = "notified" /\ d \in notified[r].displays
  /\ active' = [active EXCEPT ![d] = TRUE]
  /\ notified' = [notified EXCEPT ![r].displays = @ \ {d}]
  /\ UNCHANGED <<displayCall, shown, outdated>>

(* ... and answers. *)
AnswerNotification(r) ==
  /\ notified[r].pc = "notified" /\ notified[r].displays = {}
  /\ notified' = [notified EXCEPT ![r] = NotNotified]
  /\ UNCHANGED <<active, displayCall, shown, outdated>>

-----------------------------------------------------------------------------
RequestNext(r) ==
  \/ \E action \in {"Set", "Clear", "Get"}, d \in Displays : SendDisplayCall(r, action, d)
  \/ Accept(r) \/ Refuse(r) \/ AcceptLost(r)
  \/ AnswerGet(r) \/ AnswerRequest(r) \/ LoseNotification(r)
  \/ DeactivateMessages(r) \/ RequestMessages(r) \/ MessagesNotRequested(r)
  \/ (\E d \in Displays : StoreMessage(r, d)) \/ AnswerNotification(r)

Next == (\E r \in Requests : RequestNext(r)) \/ (\E d \in Displays : Expire(d))

Spec == Init /\ [][Next]_displayVars

-----------------------------------------------------------------------------
(* Properties. *)

DisplaysSettled ==
  \A r \in Requests :
    (displayCall[r] # None => displayCall[r].pc = "over") /\ notified[r].pc = "none"

(* Once all answers and notifications are handled, a row is active just    *)
(* when the station has the message, although changes, answers and         *)
(* notifications of several calls interleave: for every message about      *)
(* which nothing was lost, and that has not gone by itself, since it was   *)
(* last notified.                                                          *)
ActiveIsShown ==
  DisplaysSettled => \A d \in Displays \ outdated : active[d] = TRUE <=> d \in shown
===============================================================================
