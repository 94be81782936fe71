---------------------------- MODULE VariableMonitors ---------------------------
(***************************************************************************)
(* The monitors set on the variables of one OCPP 2.0.1 station and the     *)
(* copy the CSMS keeps: setVariableMonitoring, clearVariableMonitoring and *)
(* setMonitoringBase of the Monitoring API, the handlers of the answers    *)
(* and of NotifyMonitoringReport, and the VariableMonitoring repository.   *)
(*                                                                         *)
(* A station may have several monitors on a variable, of different types   *)
(* and severities ("type" here), each with an id.  A row is looked up by   *)
(* variable when a monitor is to be set or is reported, by variable and    *)
(* type when the station answers and by id when it is cleared, so that a   *)
(* new monitor takes over the row of another on its variable.  Each answer *)
(* adds a status to its row; the last one counts.                          *)
(***************************************************************************)
EXTENDS Naturals, Functions

CONSTANTS
  Monitors,        \* what may be monitored: [variable, type], of the device model
  MaxMonitorId,    \* the station numbers its monitors from 1 and reuses numbers
  MaxMonitorRows,  \* bound on the rows made
  MaxMonitorCalls, \* bound on the calls made
  None

MonitorIds == 1..MaxMonitorId
MonitorRows == 1..MaxMonitorRows
MonitorCalls == 1..MaxMonitorCalls

VARIABLES
  monitorRow,    \* the VariableMonitorings, with the status last added
  monitorCall,   \* the calls, and how far their answers are handled
  monitorReport, \* per call: the report asked for after it, likewise
  monitors,      \* the monitors on the station
  doubtful       \* history: variables the copy may be wrong about (see the actions)

monitorVars == <<monitorRow, monitorCall, monitorReport, monitors, doubtful>>

Monitored == {m.variable : m \in Monitors}
MonitorTypes == {m.type : m \in Monitors}
Reported == [variable : Monitored, type : MonitorTypes, id : MonitorIds]
MonitorRow == [variable : Monitored, type : MonitorTypes, id : MonitorIds \union {None},
               status : {None, "Accepted", "Rejected", "Duplicate"}]
MonitorCall == [action : {"Set", "Clear", "Base"}, variable : Monitored \union {None},
                type : MonitorTypes \union {None}, id : MonitorIds \union {None},
                answer : {None, "Accepted", "Rejected", "Duplicate"},
                found : SUBSET MonitorRows,
                pc : {"looked", "sent", "answered", "found", "identified", "over"}]
MonitorReport == [pc : {"none", "asked", "reported"}, todo : SUBSET Reported,
                  started : SUBSET Reported,
                  found : SUBSET (Reported \X (MonitorRows \union {None})),
                  written : SUBSET (Reported \X MonitorRows)]

TypeOK ==
  /\ monitorRow \in [MonitorRows -> MonitorRow \union {None}]
  /\ monitorCall \in [MonitorCalls -> MonitorCall \union {None}]
  /\ monitorReport \in [MonitorCalls -> MonitorReport]
  /\ monitors \in [MonitorIds -> Monitors \union {None}]
  /\ doubtful \subseteq Monitored

NoReport == [pc |-> "none", todo |-> {}, started |-> {}, found |-> {}, written |-> {}]

Init ==
  /\ monitorRow = [r \in MonitorRows |-> None]
  /\ monitorCall = [c \in MonitorCalls |-> None]
  /\ monitorReport = [c \in MonitorCalls |-> NoReport]
  /\ monitors = [i \in MonitorIds |-> None]
  /\ doubtful = {}

At(c, action, pc) ==
  monitorCall[c] # None /\ monitorCall[c].action = action /\ monitorCall[c].pc = pc

(* Bound: two calls are under way at most. *)
NextCall(c) ==
  /\ monitorCall[c] = None
  /\ \A b \in 1..(c - 1) :
       monitorCall[b] # None /\ (b < c - 1 => monitorCall[b].pc = "over")

NewCall(action, pc) == [action |-> action, variable |-> None, type |-> None, id |-> None,
                        answer |-> None, found |-> {}, pc |-> pc]
CallOver == NewCall("Base", "over")

UsedRows == {r \in MonitorRows : monitorRow[r] # None}
RowsOf(v) == {r \in UsedRows : monitorRow[r].variable = v}
RowsWithId(i) == {r \in UsedRows : monitorRow[r].id = i}
IsNew(r) == r \notin UsedRows /\ \A s \in MonitorRows : s < r => s \in UsedRows

Status(r, status) == monitorRow' = [monitorRow EXCEPT ![r].status = status]

MonitorOf(m) == [variable |-> m.variable, type |-> m.type]
OnStation == {[variable |-> monitors[i].variable, type |-> monitors[i].type, id |-> i] :
                i \in {j \in MonitorIds : monitors[j] # None}}
Wanted(c) == MonitorOf(monitorCall[c])

-----------------------------------------------------------------------------
(* What is being done about a variable or a monitor, for doubtful: who     *)
(* meets another handler may be overwritten by it.                         *)

Open(c, action) ==
  monitorCall[c] # None /\ monitorCall[c].action = action /\ monitorCall[c].pc # "over"
Answered(c, action) == Open(c, action) /\ monitorCall[c].pc \notin {"looked", "sent"}

BeingWritten(c) ==
  LET report == monitorReport[c]
  IN  report.todo \union report.started \union {x[1] : x \in report.found \union report.written}

BeingSet(v) == \E c \in MonitorCalls : Open(c, "Set") /\ monitorCall[c].variable = v
BeingReported(v) == \E c \in MonitorCalls : \E m \in BeingWritten(c) : m.variable = v
BeingCleared(i) == \E c \in MonitorCalls : Answered(c, "Clear") /\ monitorCall[c].id = i
BeingRejected(v) ==
  \E c \in MonitorCalls, r \in RowsOf(v) :
    Answered(c, "Clear") /\ (monitorCall[c].id = monitorRow[r].id \/ r \in monitorCall[c].found)

(* The monitor is still to be marked as set. *)
BeingAccepted(i) ==
  \E c \in MonitorCalls :
    \/ Answered(c, "Set") /\ monitorCall[c].answer = "Accepted" /\ monitorCall[c].id = i
    \/ \E m \in BeingWritten(c) : m.id = i
    \/ \E x \in monitorReport[c].written : monitorRow[x[2]].id = i

-----------------------------------------------------------------------------
(* The API. *)

(* createOrUpdateBySetMonitoringDataTypeAndStationId reads a row of the    *)
(* variable in a transaction that locks nothing ...                        *)
LookUpMonitor(c, v, t) ==
  /\ NextCall(c)
  /\ \E found \in (IF RowsOf(v) = {} THEN {{}} ELSE {{r} : r \in RowsOf(v)}) :
       monitorCall' = [monitorCall EXCEPT ![c] =
         [NewCall("Set", "looked") EXCEPT !.variable = v, !.type = t, !.found = found]]
  /\ doubtful' = doubtful \union
       {w \in {v} : BeingSet(w) \/ BeingRejected(w) \/ BeingReported(w)}
  /\ UNCHANGED <<monitorRow, monitorReport, monitors>>

(* ... which is of this type now and keeps its id and status, or makes one; *)
(* then the call is sent.                                                  *)
StoreMonitor(c) ==
  /\ At(c, "Set", "looked")
  /\ \E r \in MonitorRows :
       /\ IF monitorCall[c].found = {} THEN IsNew(r) ELSE r \in monitorCall[c].found
       /\ monitorRow' = [monitorRow EXCEPT ![r] =
            IF @ = None THEN [variable |-> monitorCall[c].variable, type |-> monitorCall[c].type,
                              id |-> None, status |-> None]
            ELSE [@ EXCEPT !.type = monitorCall[c].type]]
  /\ monitorCall' = [monitorCall EXCEPT ![c].pc = "sent", ![c].found = {}]
  /\ UNCHANGED <<monitorReport, monitors, doubtful>>

SendClear(c, i) ==
  /\ NextCall(c)
  /\ monitorCall' = [monitorCall EXCEPT ![c] = [NewCall("Clear", "sent") EXCEPT !.id = i]]
  /\ UNCHANGED <<monitorRow, monitorReport, monitors, doubtful>>

SendBase(c) ==
  /\ NextCall(c)
  /\ monitorCall' = [monitorCall EXCEPT ![c] = NewCall("Base", "sent")]
  /\ UNCHANGED <<monitorRow, monitorReport, monitors, doubtful>>

-----------------------------------------------------------------------------
(* The station. *)

Answer(c, answer) ==
  monitorCall' = [monitorCall EXCEPT ![c].answer = answer, ![c].pc = "answered"]

Remove(ids, met) ==
  /\ monitors' = [i \in MonitorIds |-> IF i \in ids THEN None ELSE monitors[i]]
  /\ doubtful' = doubtful \union met \union
       {monitors[i].variable : i \in {j \in ids : monitors[j] # None /\ BeingAccepted(j)}}

(* Under a number that is free, unless it has such a monitor. *)
CanSet(c, i) == monitors[i] = None /\ Wanted(c) \notin Range(monitors)

AcceptSet(c, i) ==
  /\ At(c, "Set", "sent") /\ CanSet(c, i)
  /\ monitors' = [monitors EXCEPT ![i] = Wanted(c)]
  /\ monitorCall' = [monitorCall EXCEPT ![c].id = i, ![c].answer = "Accepted",
                                        ![c].pc = "answered"]
  /\ doubtful' = doubtful \union {v \in {monitorCall[c].variable} : BeingCleared(i)}
  /\ UNCHANGED <<monitorRow, monitorReport>>

RefuseSet(c) ==
  /\ At(c, "Set", "sent")
  /\ Answer(c, IF Wanted(c) \in Range(monitors) THEN "Duplicate" ELSE "Rejected")
  /\ UNCHANGED <<monitorRow, monitorReport, monitors, doubtful>>

(* It clears the monitor, or does not have it. *)
AcceptClear(c) ==
  /\ At(c, "Clear", "sent")
  /\ Answer(c, "Accepted")
  /\ Remove({monitorCall[c].id},
            {v \in Monitored : /\ BeingSet(v) \/ BeingReported(v)
                              /\ \E r \in RowsOf(v) : monitorRow[r].id = monitorCall[c].id})
  /\ UNCHANGED <<monitorRow, monitorReport>>

(* It goes back to some of its monitors. *)
AcceptBase(c, ids) ==
  /\ At(c, "Base", "sent")
  /\ Answer(c, "Accepted")
  /\ Remove(ids, {})
  /\ UNCHANGED <<monitorRow, monitorReport>>

(* A refusal of these is logged. *)
Refuse(c) ==
  /\ At(c, "Clear", "sent") \/ At(c, "Base", "sent")
  /\ monitorCall' = [monitorCall EXCEPT ![c] = CallOver]
  /\ UNCHANGED <<monitorRow, monitorReport, monitors, doubtful>>

(* The call is not sent, or the answer of a station that has or has not   *)
(* done it is lost.                                                        *)
Done(c) ==
  CASE monitorCall[c].action = "Set" ->
         {[monitors EXCEPT ![i] = Wanted(c)] : i \in {j \in MonitorIds : CanSet(c, j)}}
    [] monitorCall[c].action = "Clear" -> {[monitors EXCEPT ![monitorCall[c].id] = None]}
    [] monitorCall[c].action = "Base" -> {[i \in MonitorIds |-> None]}

AnswerLost(c) ==
  /\ At(c, "Set", "sent") \/ At(c, "Clear", "sent") \/ At(c, "Base", "sent")
  /\ \E after \in {monitors} \union Done(c) :
       /\ monitors' = after
       /\ doubtful' = doubtful \union ({monitorCall[c].variable} \ {None})
            \union {m.variable : m \in {n \in OnStation : after[n.id] = None}}
  /\ monitorCall' = [monitorCall EXCEPT ![c] = CallOver]
  /\ UNCHANGED <<monitorRow, monitorReport>>

-----------------------------------------------------------------------------
(* _handleSetVariableMonitoring, updateResultByStationId. *)

(* The row of the variable with the type of the answer is read; if there   *)
(* is none the handler throws ...                                          *)
FindMonitor(c) ==
  /\ At(c, "Set", "answered")
  /\ LET rows == {r \in RowsOf(monitorCall[c].variable) : monitorRow[r].type = monitorCall[c].type}
     IN  \/ rows = {} /\ monitorCall' = [monitorCall EXCEPT ![c] = CallOver]
         \/ \E r \in rows :
              monitorCall' = [monitorCall EXCEPT ![c].found = {r}, ![c].pc =
                IF monitorCall[c].answer = "Accepted" THEN "found" ELSE "identified"]
  /\ UNCHANGED <<monitorRow, monitorReport, monitors, doubtful>>

(* ... the id of an accepted monitor is stored, unless another row of the  *)
(* station has it ...                                                      *)
StoreId(c) ==
  /\ At(c, "Set", "found")
  /\ RowsWithId(monitorCall[c].id) \subseteq monitorCall[c].found
  /\ monitorRow' = [r \in MonitorRows |-> IF r \in monitorCall[c].found
                      THEN [monitorRow[r] EXCEPT !.id = monitorCall[c].id] ELSE monitorRow[r]]
  /\ monitorCall' = [monitorCall EXCEPT ![c].pc = "identified"]
  /\ UNCHANGED <<monitorReport, monitors, doubtful>>

IdTaken(c) ==
  /\ At(c, "Set", "found")
  /\ ~(RowsWithId(monitorCall[c].id) \subseteq monitorCall[c].found)
  /\ monitorCall' = [monitorCall EXCEPT ![c] = CallOver]
  /\ doubtful' = doubtful \union {monitorCall[c].variable}
  /\ UNCHANGED <<monitorRow, monitorReport, monitors>>

(* ... and the status. *)
StoreStatus(c) ==
  /\ At(c, "Set", "identified")
  /\ \E r \in monitorCall[c].found : Status(r, monitorCall[c].answer)
  /\ monitorCall' = [monitorCall EXCEPT ![c] = CallOver]
  /\ UNCHANGED <<monitorReport, monitors, doubtful>>

-----------------------------------------------------------------------------
(* _handleClearVariableMonitoring and _handleSetMonitoringBase. *)

\* Mutant: the rows are those of the station whatever the call was.
FindAllRows(c) ==
  /\ At(c, "Clear", "answered") \/ At(c, "Base", "answered")
  /\ monitorCall' = [monitorCall EXCEPT ![c].pc = "found", ![c].found = UsedRows]
  /\ UNCHANGED <<monitorRow, monitorReport, monitors, doubtful>>

(* The rows with the id, or all rows of the station, are read ... *)
FindRows(c) ==
  /\ At(c, "Clear", "answered") \/ At(c, "Base", "answered")
  /\ monitorCall' = [monitorCall EXCEPT ![c].pc = "found", ![c].found =
       IF monitorCall[c].action = "Clear" THEN RowsWithId(monitorCall[c].id) ELSE UsedRows]
  /\ UNCHANGED <<monitorRow, monitorReport, monitors, doubtful>>

(* ... and each becomes Rejected. *)
RejectRow(c, r) ==
  /\ At(c, "Clear", "found") \/ At(c, "Base", "found")
  /\ r \in monitorCall[c].found
  /\ Status(r, "Rejected")
  /\ monitorCall' = [monitorCall EXCEPT ![c].found = @ \ {r}]
  /\ UNCHANGED <<monitorReport, monitors, doubtful>>

ClearOver(c) ==
  /\ At(c, "Clear", "found") /\ monitorCall[c].found = {}
  /\ monitorCall' = [monitorCall EXCEPT ![c] = CallOver]
  /\ UNCHANGED <<monitorRow, monitorReport, monitors, doubtful>>

(* After a new base the station is asked to report its monitors. *)
RequestReport(c) ==
  /\ At(c, "Base", "found") /\ monitorCall[c].found = {}
  /\ monitorCall' = [monitorCall EXCEPT ![c] = CallOver]
  /\ monitorReport' = [monitorReport EXCEPT ![c].pc = "asked"]
  /\ UNCHANGED <<monitorRow, monitors, doubtful>>

-----------------------------------------------------------------------------
(* The report, and _handleNotifyMonitoringReport. *)

ReportMonitors(c) ==
  /\ monitorReport[c].pc = "asked"
  /\ monitorReport' = [monitorReport EXCEPT ![c].pc = "reported", ![c].todo = OnStation]
  /\ doubtful' = doubtful \union
       {v \in {m.variable : m \in OnStation} : BeingSet(v) \/ BeingRejected(v)}
  /\ UNCHANGED <<monitorRow, monitorCall, monitors>>

(* It is not asked after all, or does not report. *)
ReportLost(c) ==
  /\ monitorReport[c].pc = "asked"
  /\ monitorReport' = [monitorReport EXCEPT ![c].pc = "none"]
  /\ doubtful' = doubtful \union {m.variable : m \in OnStation}
  /\ UNCHANGED <<monitorRow, monitorCall, monitors>>

(* One variable after the other; the monitors of one are written side by side. *)
StartVariable(c, v) ==
  /\ LET report == monitorReport[c]
         mine == {m \in report.todo : m.variable = v}
     IN  /\ report.started = {} /\ report.found = {} /\ report.written = {}
         /\ mine # {}
         /\ monitorReport' = [monitorReport EXCEPT ![c].todo = @ \ mine, ![c].started = mine]
  /\ UNCHANGED <<monitorRow, monitorCall, monitors, doubtful>>

(* createOrUpdateByMonitoringDataTypeAndStationId: a row of the variable   *)
(* is read ...                                                             *)
FindReported(c, m) ==
  /\ m \in monitorReport[c].started
  /\ \E r \in (IF RowsOf(m.variable) = {} THEN {None} ELSE RowsOf(m.variable)) :
       monitorReport' = [monitorReport EXCEPT ![c].started = @ \ {m},
                                              ![c].found = @ \union {<<m, r>>}]
  /\ UNCHANGED <<monitorRow, monitorCall, monitors, doubtful>>

(* ... and updated, or one is created ... *)
WriteReported(c, m, r) ==
  /\ <<m, r>> \in monitorReport[c].found
  /\ RowsWithId(m.id) \subseteq {r}
  /\ \E s \in MonitorRows :
       /\ IF r = None THEN IsNew(s) ELSE s = r
       /\ monitorRow' = [monitorRow EXCEPT ![s] =
            [variable |-> m.variable, type |-> m.type, id |-> m.id,
             status |-> IF r = None THEN None ELSE @.status]]
       /\ monitorReport' = [monitorReport EXCEPT ![c].found = @ \ {<<m, r>>},
                                                 ![c].written = @ \union {<<m, s>>}]
  /\ UNCHANGED <<monitorCall, monitors, doubtful>>

(* ... unless another row has the id: the handler throws, the variables    *)
(* that are left are not written.                                          *)
ReportedIdTaken(c, m, r) ==
  /\ <<m, r>> \in monitorReport[c].found
  /\ ~(RowsWithId(m.id) \subseteq {r})
  /\ monitorReport' = [monitorReport EXCEPT ![c].found = @ \ {<<m, r>>}, ![c].todo = {}]
  /\ doubtful' = doubtful \union {n.variable : n \in monitorReport[c].todo \union {m}}
  /\ UNCHANGED <<monitorRow, monitorCall, monitors>>

StatusReported(c, m, r) ==
  /\ <<m, r>> \in monitorReport[c].written
  /\ Status(r, "Accepted")
  /\ monitorReport' = [monitorReport EXCEPT ![c].written = @ \ {<<m, r>>}]
  /\ UNCHANGED <<monitorCall, monitors, doubtful>>

-----------------------------------------------------------------------------
CallNext(c) ==
  \/ \E m \in Monitors : LookUpMonitor(c, m.variable, m.type)
  \/ StoreMonitor(c) \/ SendBase(c)
  \/ \E i \in MonitorIds : SendClear(c, i) \/ AcceptSet(c, i)
  \/ RefuseSet(c) \/ AcceptClear(c) \/ Refuse(c) \/ AnswerLost(c)
  \/ \E ids \in SUBSET MonitorIds : AcceptBase(c, ids)
  \/ FindMonitor(c) \/ StoreId(c) \/ IdTaken(c) \/ StoreStatus(c)
  \/ FindRows(c) \/ ClearOver(c) \/ RequestReport(c)
  \/ \E r \in MonitorRows : RejectRow(c, r)

ReportNext(c) ==
  \/ ReportMonitors(c) \/ ReportLost(c)
  \/ \E v \in Monitored : StartVariable(c, v)
  \/ \E m \in monitorReport[c].started : FindReported(c, m)
  \/ \E x \in monitorReport[c].found :
       WriteReported(c, x[1], x[2]) \/ ReportedIdTaken(c, x[1], x[2])
  \/ \E x \in monitorReport[c].written : StatusReported(c, x[1], x[2])

Next == \E c \in MonitorCalls : CallNext(c) \/ ReportNext(c)

Spec == Init /\ [][Next]_monitorVars

-----------------------------------------------------------------------------
(* Properties. *)

MonitorsSettled ==
  \A c \in MonitorCalls :
    /\ monitorCall[c] # None => monitorCall[c].pc = "over"
    /\ monitorReport[c].pc # "asked"
    /\ monitorReport[c].todo \union monitorReport[c].started = {}
    /\ monitorReport[c].found = {} /\ monitorReport[c].written = {}

(* When all is handled, a row whose last status is Accepted is of a monitor *)
(* the station has under that id, and one that was Rejected last is not:   *)
(* after monitors that are set, refused, cleared and taken over by others, *)
(* and after a new base, which rejects every row until the report is       *)
(* handled.  Except of a variable whose call was lost or not sent, for     *)
(* which another row had the id, or about which two handlers met.          *)
MonitorsKnown ==
  MonitorsSettled =>
    \A r \in UsedRows :
      LET row == monitorRow[r]
          set == row.id # None /\ monitors[row.id] = MonitorOf(row)
      IN  row.variable \notin doubtful =>
            /\ row.status = "Accepted" => set
            /\ row.status = "Rejected" => ~set
===============================================================================
