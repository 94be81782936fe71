------------------------------- MODULE DeviceModel -----------------------------
(***************************************************************************)
(* One variable of an OCPP 2.0.1 station and its VariableAttribute in the  *)
(* device model: setVariables of the Monitoring API, the handlers of the   *)
(* answers to SetVariables and GetVariables, of NotifyReport and of        *)
(* NotifyEvent, and the DeviceModel repository.  (The variables a boot     *)
(* would set are never sent: see BootNotification.)                        *)
(*                                                                         *)
(* A value is stored before it is sent, "so that the response can find     *)
(* them"; a VariableStatus records each answer with the value stored then, *)
(* and a refused value is replaced by that of the last Accepted one, if    *)
(* there is one: else Sequelize's save() leaves the undefined value out of *)
(* the UPDATE, and the refused value stays.                                *)
(***************************************************************************)
EXTENDS Naturals

CONSTANTS
  Values,
  Factory,     \* the value the station has at first
  MaxSets,     \* bound on the SetVariables calls made
  MaxQueries,  \* bound on the GetVariables answers, the reports and the events
  None

Sets == 1..MaxSets
Reads == 1..MaxQueries
Known == Values \union {None}

VARIABLES
  attribute,    \* value of the VariableAttribute, None for null or no row
  recorded,     \* is there a VariableStatus that is Accepted?
  lastAccepted, \* the value of the latest of them, if there is
  setCall,      \* the SetVariables calls, and how far their answers are handled
  valueRead,    \* the answers to GetVariables, reports and events, likewise
  actual,       \* the value the station has
  drifted       \* history: the row may be wrong (see the actions)

deviceVars == <<attribute, recorded, lastAccepted, setCall, valueRead, actual, drifted>>

SetCall == [value : Known, seen : Known,
            pc : {"stored", "sent", "accepted", "readAccepted", "refused", "readRefused",
                  "restoring", "over"}]
ValueRead ==
  [value : Known, pc : {"reported", "got", "noticed", "refused", "stored", "answered", "over"}]

TypeOK ==
  /\ attribute \in Known /\ lastAccepted \in Known
  /\ setCall \in [Sets -> SetCall \union {None}]
  /\ valueRead \in [Reads -> ValueRead \union {None}]
  /\ recorded \in BOOLEAN /\ actual \in Values /\ drifted \in BOOLEAN

Init ==
  /\ attribute = None /\ recorded = FALSE /\ lastAccepted = None
  /\ setCall = [c \in Sets |-> None]
  /\ valueRead = [q \in Reads |-> None]
  /\ actual = Factory /\ drifted = FALSE

SetAt(c, pc) == setCall[c] # None /\ setCall[c].pc = pc
ReadAt(q, pc) == valueRead[q] # None /\ valueRead[q].pc = pc

SetsOver == \A c \in Sets : setCall[c] # None => setCall[c].pc = "over"
ReadsOver == \A q \in Reads : valueRead[q] # None => valueRead[q].pc = "over"

NextSet(c) == setCall[c] = None /\ \A b \in Sets : b < c => setCall[b] # None
NextRead(q) == valueRead[q] = None /\ \A b \in Reads : b < q => valueRead[b] # None

SetOver == [value |-> None, seen |-> None, pc |-> "over"]
ReadOver == [value |-> None, pc |-> "over"]

-----------------------------------------------------------------------------
(* SetVariables. *)

(* setVariables: the value is stored.  Beside another call or report its   *)
(* answer may be taken for that of the other's value.                      *)
StoreValue(c, v) ==
  /\ NextSet(c)
  /\ attribute' = v
  /\ setCall' = [setCall EXCEPT ![c] = [value |-> v, seen |-> None, pc |-> "stored"]]
  /\ drifted' = (drifted \/ ~SetsOver \/ ~ReadsOver)
  /\ UNCHANGED <<recorded, lastAccepted, valueRead, actual>>

SendValue(c) ==
  /\ SetAt(c, "stored")
  /\ setCall' = [setCall EXCEPT ![c].pc = "sent"]
  /\ UNCHANGED <<attribute, recorded, lastAccepted, valueRead, actual, drifted>>

(* The station is not connected: the value stored stays. *)
ValueNotSent(c) ==
  /\ SetAt(c, "stored")
  /\ setCall' = [setCall EXCEPT ![c] = SetOver]
  /\ drifted' = TRUE
  /\ UNCHANGED <<attribute, recorded, lastAccepted, valueRead, actual>>

(* The station takes the value, or does not ... *)
Accept(c) ==
  /\ SetAt(c, "sent")
  /\ setCall' = [setCall EXCEPT ![c].pc = "accepted"]
  /\ actual' = setCall[c].value
  /\ UNCHANGED <<attribute, recorded, lastAccepted, valueRead, drifted>>

Refuse(c) ==
  /\ SetAt(c, "sent")
  /\ setCall' = [setCall EXCEPT ![c].pc = "refused"]
  /\ UNCHANGED <<attribute, recorded, lastAccepted, valueRead, actual, drifted>>

(* ... or takes it with its next reboot (RebootRequired), which the        *)
(* handler treats as a refusal.                                            *)
AcceptForReboot(c) ==
  /\ SetAt(c, "sent")
  /\ setCall' = [setCall EXCEPT ![c].pc = "refused"]
  /\ actual' = setCall[c].value
  /\ drifted' = TRUE
  /\ UNCHANGED <<attribute, recorded, lastAccepted, valueRead>>

AnswerLost(c) ==
  /\ SetAt(c, "sent")
  /\ setCall' = [setCall EXCEPT ![c] = SetOver]
  /\ actual' \in {actual, setCall[c].value}
  /\ drifted' = TRUE
  /\ UNCHANGED <<attribute, recorded, lastAccepted, valueRead>>

(* updateResultByStationId: the row is read ... *)
ReadAttribute(c) ==
  /\ SetAt(c, "accepted") \/ SetAt(c, "refused")
  /\ setCall' = [setCall EXCEPT ![c].seen = attribute,
                                ![c].pc = IF @ = "accepted" THEN "readAccepted" ELSE "readRefused"]
  /\ UNCHANGED <<attribute, recorded, lastAccepted, valueRead, actual, drifted>>

(* ... the status is recorded with the value read; of an accepted value    *)
(* nothing else is written ...                                             *)
RecordAccepted(c) ==
  /\ SetAt(c, "readAccepted")
  /\ recorded' = TRUE /\ lastAccepted' = setCall[c].seen
  /\ setCall' = [setCall EXCEPT ![c] = SetOver]
  /\ UNCHANGED <<attribute, valueRead, actual, drifted>>

\* Mutant: the latest status is looked up, whatever it says.
LookUpLatest(c) ==
  /\ SetAt(c, "readRefused")
  /\ setCall' = [setCall EXCEPT ![c].value = setCall[c].seen, ![c].pc = "restoring"]
  /\ drifted' = (drifted \/ ~recorded)
  /\ UNCHANGED <<attribute, recorded, lastAccepted, valueRead, actual>>

(* ... of any other, the value of the last Accepted status is looked up ... *)
LookUpAccepted(c) ==
  /\ SetAt(c, "readRefused")
  /\ setCall' = [setCall EXCEPT ![c].value = IF recorded THEN lastAccepted ELSE setCall[c].seen,
                                ![c].pc = "restoring"]
  /\ drifted' = (drifted \/ ~recorded)
  /\ UNCHANGED <<attribute, recorded, lastAccepted, valueRead, actual>>

(* ... and saved, if there is one and it differs from the one read. *)
SaveAttribute(c) ==
  /\ SetAt(c, "restoring")
  /\ attribute' = IF setCall[c].value = setCall[c].seen THEN attribute ELSE setCall[c].value
  /\ setCall' = [setCall EXCEPT ![c] = SetOver]
  /\ UNCHANGED <<recorded, lastAccepted, valueRead, actual, drifted>>

-----------------------------------------------------------------------------
(* GetVariables, NotifyReport and NotifyEvent. *)

(* The station gives its value, in a report or in the answer to            *)
(* GetVariables, or refuses to (a write-only variable).  Handled alone, it *)
(* sets the row right.                                                     *)
GiveValue(q, kind) ==
  /\ NextRead(q) /\ kind \in {"reported", "got"}
  /\ valueRead' = [valueRead EXCEPT ![q] = [value |-> actual, pc |-> kind]]
  /\ drifted' = ~(SetsOver /\ ReadsOver)
  /\ UNCHANGED <<attribute, recorded, lastAccepted, setCall, actual>>

RefuseValue(q) ==
  /\ NextRead(q)
  /\ valueRead' = [valueRead EXCEPT ![q] = [value |-> None, pc |-> "refused"]]
  /\ drifted' = (drifted \/ ~SetsOver \/ ~ReadsOver)
  /\ UNCHANGED <<attribute, recorded, lastAccepted, setCall, actual>>

(* createOrUpdateByGetVariablesResult...: the value is stored, null when   *)
(* there is none ...                                                       *)
StoreGot(q) ==
  /\ ReadAt(q, "got") \/ ReadAt(q, "refused")
  /\ attribute' = valueRead[q].value
  /\ valueRead' = [valueRead EXCEPT ![q] = IF @.pc = "got" THEN [@ EXCEPT !.pc = "answered"]
                                           ELSE ReadOver]
  /\ UNCHANGED <<recorded, lastAccepted, setCall, actual, drifted>>

(* ... and its status, with the value of the answer. *)
RecordStatus(q) ==
  /\ ReadAt(q, "answered")
  /\ recorded' = TRUE /\ lastAccepted' = valueRead[q].value
  /\ valueRead' = [valueRead EXCEPT ![q] = ReadOver]
  /\ UNCHANGED <<attribute, setCall, actual, drifted>>

(* The station gives its value in an event. *)
NoticeValue(q) ==
  /\ NextRead(q)
  /\ valueRead' = [valueRead EXCEPT ![q] = [value |-> actual, pc |-> "noticed"]]
  /\ drifted' = (drifted \/ ~SetsOver \/ ~ReadsOver)
  /\ UNCHANGED <<attribute, recorded, lastAccepted, setCall, actual>>

(* _handleNotifyEvent: the value is stored, and no status: the last        *)
(* Accepted one remains that of an earlier value.                          *)
StoreNoticed(q) ==
  /\ ReadAt(q, "noticed")
  /\ attribute' = valueRead[q].value
  /\ valueRead' = [valueRead EXCEPT ![q] = ReadOver]
  /\ UNCHANGED <<recorded, lastAccepted, setCall, actual, drifted>>

(* _handleNotifyReport: the value is stored ... *)
StoreReported(q) ==
  /\ ReadAt(q, "reported")
  /\ attribute' = valueRead[q].value
  /\ valueRead' = [valueRead EXCEPT ![q].pc = "stored"]
  /\ UNCHANGED <<recorded, lastAccepted, setCall, actual, drifted>>

(* ... and updateResultByStationId reads the row again and records it as   *)
(* Accepted.                                                               *)
ReadReported(q) ==
  /\ ReadAt(q, "stored")
  /\ valueRead' = [valueRead EXCEPT ![q] = [value |-> attribute, pc |-> "answered"]]
  /\ UNCHANGED <<attribute, recorded, lastAccepted, setCall, actual, drifted>>

-----------------------------------------------------------------------------
SetNext(c) ==
  \/ (\E v \in Values : StoreValue(c, v)) \/ SendValue(c) \/ ValueNotSent(c)
  \/ Accept(c) \/ Refuse(c) \/ AcceptForReboot(c) \/ AnswerLost(c)
  \/ ReadAttribute(c) \/ RecordAccepted(c) \/ LookUpAccepted(c) \/ SaveAttribute(c)

ReadNext(q) ==
  \/ (\E kind \in {"reported", "got"} : GiveValue(q, kind)) \/ RefuseValue(q)
  \/ StoreGot(q) \/ RecordStatus(q) \/ StoreReported(q) \/ ReadReported(q)
  \/ NoticeValue(q) \/ StoreNoticed(q)

Next == (\E c \in Sets : SetNext(c)) \/ (\E q \in Reads : ReadNext(q))

Spec == Init /\ [][Next]_deviceVars

-----------------------------------------------------------------------------
(* Properties. *)

(* When every answer has been handled, the value in the device model is    *)
(* the one the station has, or is not known: after any sequence of values  *)
(* that are accepted or refused, of reports and of events, as long as they *)
(* do not meet, no call or answer is lost, no reboot is outstanding and no *)
(* value is refused before an Accepted status is recorded (the row keeps   *)
(* such a value); and again after a report or an answer to GetVariables    *)
(* that is handled alone.                                                  *)
ValueIsActual ==
  SetsOver /\ ReadsOver /\ ~drifted => attribute \in {actual, None}
===============================================================================
