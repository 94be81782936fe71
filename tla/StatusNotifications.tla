-------------------------- MODULE StatusNotifications --------------------------
(***************************************************************************)
(* The status notifications of one station's connectors: the handlers of   *)
(* StatusNotification (OCPP 1.6 and 2.0.1), StatusNotificationService and  *)
(* the Location repository.                                                *)
(*                                                                         *)
(* A notification is added to the history, becomes the latest of its       *)
(* connector, and sets the status of the Connector row and, in OCPP 2.0.1, *)
(* the AvailabilityState of the device model.  A station waits for the     *)
(* answer; when that takes too long it goes on, and the handlers of two    *)
(* notifications interleave.  Notifications are numbered as they are sent. *)
(***************************************************************************)
EXTENDS Naturals, FiniteSets

CONSTANTS
  Connectors,         \* connectors, each with an EVSE and a number there
  ConnectorId,        \* the connectorId a notification of it has
  MaxNotifications,   \* bound on the notifications sent
  None

Notifications == 1..MaxNotifications
ConnectorIds == {ConnectorId[c] : c \in Connectors}

VARIABLES
  handler,         \* the notifications, and how far they are handled
  latest,          \* the LatestStatusNotification rows, by notification
  toDelete,        \* per handler: the rows it has read
  connectorStatus, \* per connectorId: the notification its row is from, 0 for none
  availability,    \* per connector: the one its AvailabilityState is from, or 0
  awaited,         \* the notification the station waits for an answer to, or None
  overlapped,      \* history: connectors notified while a handler was running
  failed           \* history: connectors with a handler that failed or skipped a row

statusVars == <<handler, latest, toDelete, connectorStatus, availability, awaited,
                overlapped, failed>>

Handler == [connector : Connectors,
            pc : {"received", "stored", "read", "deleted", "latest", "connector", "over"}]

TypeOK ==
  /\ handler \in [Notifications -> Handler \union {None}]
  /\ latest \subseteq Notifications
  /\ toDelete \in [Notifications -> SUBSET Notifications]
  /\ connectorStatus \in [ConnectorIds -> Notifications \union {0}]
  /\ availability \in [Connectors -> Notifications \union {0}]
  /\ awaited \in Notifications \union {None}
  /\ overlapped \subseteq Connectors /\ failed \subseteq Connectors

Init ==
  /\ handler = [n \in Notifications |-> None]
  /\ latest = {}
  /\ toDelete = [n \in Notifications |-> {}]
  /\ connectorStatus = [i \in ConnectorIds |-> 0]
  /\ availability = [c \in Connectors |-> 0]
  /\ awaited = None /\ overlapped = {} /\ failed = {}

At(n, pc) == handler[n] # None /\ handler[n].pc = pc
Of(n, c) == handler[n] # None /\ handler[n].connector = c
GoTo(n, pc) == handler' = [handler EXCEPT ![n].pc = pc]
Running == {n \in Notifications : handler[n] # None /\ handler[n].pc # "over"}

-----------------------------------------------------------------------------
(* The station. *)

Notify(n, c) ==
  /\ awaited = None
  /\ handler[n] = None /\ \A m \in Notifications : m < n => handler[m] # None
  /\ handler' = [handler EXCEPT ![n] = [connector |-> c, pc |-> "received"]]
  /\ awaited' = n
  /\ overlapped' = overlapped \union IF Running = {} THEN {} ELSE Connectors
  /\ UNCHANGED <<latest, toDelete, connectorStatus, availability, failed>>

GiveUp ==
  /\ awaited # None
  /\ awaited' = None
  /\ UNCHANGED <<handler, latest, toDelete, connectorStatus, availability, overlapped, failed>>

-----------------------------------------------------------------------------
(* The handler. *)

(* addStatusNotificationToChargingStation: the notification is stored ... *)
StoreNotification(n) ==
  /\ At(n, "received")
  /\ GoTo(n, "stored")
  /\ UNCHANGED <<latest, toDelete, connectorStatus, availability, awaited, overlapped, failed>>

(* ... updateLatestStatusNotification finds the rows of its connector ... *)
ReadLatest(n) ==
  /\ At(n, "stored")
  /\ GoTo(n, "read")
  /\ toDelete' = [toDelete EXCEPT ![n] = {m \in latest : Of(m, handler[n].connector)}]
  /\ UNCHANGED <<latest, connectorStatus, availability, awaited, overlapped, failed>>

(* ... deletes them ... *)
DeleteLatest(n) ==
  /\ At(n, "read")
  /\ GoTo(n, "deleted")
  /\ latest' = latest \ toDelete[n]
  /\ toDelete' = [toDelete EXCEPT ![n] = {}]
  /\ UNCHANGED <<connectorStatus, availability, awaited, overlapped, failed>>

\* Mutant: its own is added only when the station has none.
CreateLatestOnly(n) ==
  /\ At(n, "deleted")
  /\ GoTo(n, "latest")
  /\ latest' = IF latest = {} THEN {n} ELSE latest
  /\ UNCHANGED <<toDelete, connectorStatus, availability, awaited, overlapped, failed>>

(* ... and adds its own. *)
CreateLatest(n) ==
  /\ At(n, "deleted")
  /\ GoTo(n, "latest")
  /\ latest' = latest \union {n}
  /\ UNCHANGED <<toDelete, connectorStatus, availability, awaited, overlapped, failed>>

(* A failure in any of these steps is logged. *)
LatestFails(n) ==
  /\ At(n, "stored") \/ At(n, "read") \/ At(n, "deleted")
  /\ GoTo(n, "latest")
  /\ toDelete' = [toDelete EXCEPT ![n] = {}]
  /\ failed' = failed \union {handler[n].connector}
  /\ UNCHANGED <<latest, connectorStatus, availability, awaited, overlapped>>

(* createOrUpdateConnector: the row goes by station and connectorId. *)
UpdateConnector(n) ==
  /\ At(n, "latest")
  /\ GoTo(n, "connector")
  /\ connectorStatus' = [connectorStatus EXCEPT ![ConnectorId[handler[n].connector]] = n]
  /\ UNCHANGED <<latest, toDelete, availability, awaited, overlapped, failed>>

(* When that throws, the station gets a CallError. *)
Answered(n) == IF awaited = n THEN None ELSE awaited

ConnectorFails(n) ==
  /\ At(n, "latest")
  /\ GoTo(n, "over")
  /\ awaited' = Answered(n)
  /\ failed' = failed \union {handler[n].connector}
  /\ UNCHANGED <<latest, toDelete, connectorStatus, availability, overlapped>>

(* The AvailabilityState is stored by EVSE and connector; then the station *)
(* is answered.                                                            *)
UpdateAvailability(n) ==
  /\ At(n, "connector")
  /\ GoTo(n, "over")
  /\ availability' = [availability EXCEPT ![handler[n].connector] = n]
  /\ awaited' = Answered(n)
  /\ UNCHANGED <<latest, toDelete, connectorStatus, overlapped, failed>>

(* It is skipped where the device model has no such component or variable, *)
(* and when storing it throws, the station gets a CallError.               *)
AvailabilityNotStored(n) ==
  /\ At(n, "connector")
  /\ GoTo(n, "over")
  /\ awaited' = Answered(n)
  /\ failed' = failed \union {handler[n].connector}
  /\ UNCHANGED <<latest, toDelete, connectorStatus, availability, overlapped>>

-----------------------------------------------------------------------------
Next ==
  \/ \E n \in Notifications, c \in Connectors : Notify(n, c)
  \/ GiveUp
  \/ \E n \in Notifications :
       \/ StoreNotification(n) \/ ReadLatest(n) \/ DeleteLatest(n) \/ CreateLatest(n)
       \/ LatestFails(n) \/ UpdateConnector(n) \/ ConnectorFails(n) \/ UpdateAvailability(n)
       \/ AvailabilityNotStored(n)

Spec == Init /\ [][Next]_statusVars

-----------------------------------------------------------------------------
(* Properties. *)

Latest(c) == {n \in latest : Of(n, c)}
Replacing(c) == \E n \in Notifications : At(n, "deleted") /\ Of(n, c)
Stored(n) == handler[n] # None /\ handler[n].pc \in {"latest", "connector", "over"}
IsLast(n, c) == Of(n, c) /\ \A m \in Notifications : Of(m, c) => m <= n
Shared(c) == \E d \in Connectors \ {c} : ConnectorId[d] = ConnectorId[c]

(* However the handlers of its notifications interleave, a connector that  *)
(* has reported a status has a latest one, except while a handler replaces *)
(* it.  When they do not, it is the only one and the last, and the         *)
(* Connector row and the device model agree with it: if no other connector *)
(* of the station has the same connectorId.                                *)
LatestStatusKnown ==
  \A c \in Connectors \ failed :
    /\ ~Replacing(c) /\ (\E n \in Notifications : Stored(n) /\ Of(n, c)) => Latest(c) # {}
    /\ \A n \in Notifications :
         IsLast(n, c) /\ At(n, "over") /\ c \notin overlapped =>
           /\ Latest(c) = {n} /\ availability[c] = n
           /\ Shared(c) \/ connectorStatus[ConnectorId[c]] = n
===============================================================================
