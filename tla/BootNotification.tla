--------------------------- MODULE BootNotification ---------------------------
(***************************************************************************)
(* The boot of one OCPP 2.0.1 station: _handleBootNotification             *)
(* (src/03_Modules/Configuration/src/module/module.ts) with                *)
(* BootNotificationService.ts, the Boot row of the database, the cache     *)
(* entries of the station (boot_status, the blacklisted actions, the       *)
(* progress of base report 0), and _handleNotifyReport of the Reporting    *)
(* module, which wakes the handler that waits for that report.  Several    *)
(* handlers may run at once: the station boots again whenever it likes,    *)
(* and a handler waits for the report long after it has answered.          *)
(*                                                                         *)
(* The SetVariables section of the handler is not here: no Boot row is     *)
(* read with its pendingBootSetVariables (SequelizeRepository.readByKey    *)
(* includes no association), so the section is never entered, and neither  *)
(* is the Reset that only a SetVariables response asks for.                *)
(***************************************************************************)
EXTENDS Integers

CONSTANTS
  Handlers,                \* runs of the handler, reused when they end
  None,
  UnknownChargerStatus,    \* ocpp2_0_1.unknownChargerStatus
  GetBaseReportOnPending,  \* ocpp2_0_1.getBaseReportOnPending: "yes" or "no"
  MaxCachingSeconds,       \* in ticks
  Overlap,                 \* the station may boot while its last boot is being answered
  MaxParts,                \* bound: NotifyReport requests of one report
  MaxPuts                  \* bound: writes of the Boot row by an operator

Accepted == "Accepted"
Pending == "Pending"
Rejected == "Rejected"
Statuses == {Accepted, Pending, Rejected}

NotifyReport == "NotifyReport"
Actions == {NotifyReport, "other"}   \* but for BootNotification

(* What the database holds of a station. *)
Rows == [status : Statuses, getBaseReportOnPending : {"yes", "no", "default"}]

ASSUME BootAssumption ==
  /\ None \notin Statuses \union {"ongoing", "complete"} \union Rows
  /\ UnknownChargerStatus \in Statuses
  /\ GetBaseReportOnPending \in {"yes", "no"}
  /\ MaxCachingSeconds \in Nat \ {0} /\ Overlap \in BOOLEAN
  /\ MaxParts \in Nat \ {0} /\ MaxPuts \in Nat

Off == -1
Timer == Off .. MaxCachingSeconds

VARIABLES
  row,          \* the Boot row: status and getBaseReportOnPending, or None
  bootStatus,   \* cache: boot_status
  blacklist,    \* cache: the blacklisted actions
  report,       \* cache: the progress of report 0
  reportTimer,  \* its time to live
  pc,           \* where a handler is
  status,       \* its bootNotificationResponse.status
  cached,       \* its cachedBootStatus
  entity,       \* the status in its bootConfigDbEntity
  waitTimer,    \* its onChange of report 0
  told,         \* the station: the status of the last response it got
  parts,        \* the station: NotifyReport requests it has still to send
  puts,         \* how often an operator wrote the row
  dropped,      \* history: a handler threw before it cached the status
  failed,       \* history: a configuration threw
  done,         \* history: a configuration ended
  fresh         \* history: the handlers whose report was completed after they asked

rowVars == <<row, puts>>
cacheVars == <<bootStatus, blacklist, report, reportTimer>>
localVars == <<status, cached, entity>>
stationVars == <<told, parts>>
historyVars == <<dropped, failed, done, fresh>>
vars == <<rowVars, cacheVars, pc, localVars, waitTimer, stationVars, historyVars>>

(* Where the handler has not recorded its answer yet, and where it         *)
(* configures the station.                                                 *)
Answering == {"look", "permit", "send", "sent", "unsent", "cache", "update"}
Configuring == {"request", "publish", "subscribe", "wait", "confirmed", "accept"}

TypeOK ==
  /\ row \in Rows \union {None} /\ puts \in 0 .. MaxPuts
  /\ bootStatus \in {None, Pending, Rejected}
  /\ blacklist \subseteq Actions
  /\ report \in {None, "ongoing", "complete"} /\ reportTimer \in Timer
  /\ pc \in [Handlers -> {"idle"} \union Answering \union Configuring]
  /\ status \in [Handlers -> Statuses]
  /\ cached \in [Handlers -> {None, Pending, Rejected}]
  /\ entity \in [Handlers -> Statuses]
  /\ waitTimer \in [Handlers -> Timer]
  /\ told \in Statuses \union {None} /\ parts \in 0 .. MaxParts
  /\ dropped \in BOOLEAN /\ failed \in BOOLEAN /\ done \in BOOLEAN
  /\ fresh \subseteq Handlers

Init ==
  /\ row \in Rows \union {None} /\ puts = 0
  /\ bootStatus = None /\ blacklist = {} /\ report = None /\ reportTimer = Off
  /\ pc = [h \in Handlers |-> "idle"]
  /\ status = [h \in Handlers |-> Rejected] /\ cached = [h \in Handlers |-> None]
  /\ entity = [h \in Handlers |-> Rejected]
  /\ waitTimer = [h \in Handlers |-> Off]
  /\ told = None /\ parts = 0
  /\ dropped = FALSE /\ failed = FALSE /\ done = FALSE /\ fresh = {}

Goto(h, from, to) == pc[h] = from /\ pc' = [pc EXCEPT ![h] = to]

-----------------------------------------------------------------------------
(* The answer. *)

NeedToGetBaseReport(r) ==
  IF r = None \/ r.getBaseReportOnPending = "default"
  THEN GetBaseReportOnPending = "yes"
  ELSE r.getBaseReportOnPending = "yes"

(* A pending station with nothing left to configure is accepted: the       *)
(* system configuration has autoAccept.                                    *)
DetermineBootStatus(r) ==
  LET configured == IF r = None THEN UnknownChargerStatus ELSE r.status
  IN  IF configured = Pending /\ ~NeedToGetBaseReport(r) THEN Accepted ELSE configured

(* A BootNotification request: createBootNotificationResponse reads the    *)
(* row.  Without Overlap the station waits for its interval, or restarts,  *)
(* for longer than a handler takes to record its answer.                   *)
Boot(h) ==
  /\ Overlap \/ \A g \in Handlers : pc[g] \notin Answering
  /\ Goto(h, "idle", "look")
  /\ status' = [status EXCEPT ![h] = DetermineBootStatus(row)]
  /\ UNCHANGED <<rowVars, cacheVars, cached, entity, waitTimer, stationVars, historyVars>>

\* Mutant: the status of this boot is cached before the last one is read.
ReadCachedStatusLate(h) ==
  /\ Goto(h, "look", "permit")
  /\ cached' = [cached EXCEPT ![h] = IF status[h] # Accepted THEN status[h] ELSE bootStatus]
  /\ UNCHANGED <<rowVars, cacheVars, status, entity, waitTimer, stationVars, historyVars>>

ReadCachedStatus(h) ==
  /\ Goto(h, "look", "permit")
  /\ cached' = [cached EXCEPT ![h] = bootStatus]
  /\ UNCHANGED <<rowVars, cacheVars, status, entity, waitTimer, stationVars, historyVars>>

\* Mutant: a station that is accepted stays blacklisted.
CachePermissionsForgets(h) ==
  /\ Goto(h, "permit", "send")
  /\ IF status[h] = Accepted
     THEN IF cached[h] = None
          THEN UNCHANGED <<blacklist, bootStatus>>
          ELSE bootStatus' = None /\ UNCHANGED blacklist
     ELSE /\ blacklist' = IF cached[h] = None THEN Actions ELSE blacklist
          /\ UNCHANGED bootStatus
  /\ UNCHANGED <<rowVars, report, reportTimer, localVars, waitTimer, stationVars, historyVars>>

(* cacheChargerActionsPermissions. *)
CachePermissions(h) ==
  /\ Goto(h, "permit", "send")
  /\ IF status[h] = Accepted
     THEN IF cached[h] = None
          THEN UNCHANGED <<blacklist, bootStatus>>
          ELSE blacklist' = {} /\ bootStatus' = None
     ELSE /\ blacklist' = IF cached[h] = None THEN Actions ELSE blacklist
          /\ UNCHANGED bootStatus
  /\ UNCHANGED <<rowVars, report, reportTimer, localVars, waitTimer, stationVars, historyVars>>

SendResponse(h) ==
  /\ \/ Goto(h, "send", "sent") /\ told' = status[h]
     \/ Goto(h, "send", "unsent") /\ UNCHANGED told
  /\ UNCHANGED <<rowVars, cacheVars, localVars, waitTimer, parts, historyVars>>

(* updateDeviceModel throws, or the response was not sent. *)
UpdateDeviceModel(h) ==
  /\ \/ Goto(h, "sent", "cache") /\ UNCHANGED dropped
     \/ (Goto(h, "sent", "idle") \/ Goto(h, "unsent", "idle")) /\ dropped' = TRUE
  /\ UNCHANGED <<rowVars, cacheVars, localVars, waitTimer, stationVars, failed, done, fresh>>

CacheBootStatus(h) ==
  /\ Goto(h, "cache", "update")
  /\ bootStatus' = IF status[h] # Accepted /\ status[h] # cached[h] THEN status[h] ELSE bootStatus
  /\ UNCHANGED <<rowVars, blacklist, report, reportTimer, localVars, waitTimer,
                 stationVars, historyVars>>

\* Mutant: whatever the cached status, a pending station is configured.
ConfigureAlways(h) == status[h] = Pending

(* "If cached boot status is not null and pending, configuration is        *)
(* already in progress - do not start configuration again."                *)
Configure(h) == status[h] = Pending /\ cached[h] # Pending

(* updateBootConfig: create the row or read it again; then return, or go   *)
(* on to the configuration that the row asks for.                          *)
UpdateBootConfig(h) ==
  LET updated == IF row = None
                 THEN [status |-> status[h], getBaseReportOnPending |-> "default"]
                 ELSE row
  IN  /\ row' = updated
      /\ entity' = [entity EXCEPT ![h] = updated.status]
      /\ Goto(h, "update", IF ~Configure(h) THEN "idle"
                           ELSE IF NeedToGetBaseReport(updated) THEN "request" ELSE "accept")
      /\ UNCHANGED <<puts, cacheVars, status, cached, waitTimer, stationVars, historyVars>>

-----------------------------------------------------------------------------
(* The configuration. *)

\* Mutant: the mark a completed report left behind is not replaced.
CreateGetBaseReportRequestKeeps(h) ==
  /\ Goto(h, "request", "publish")
  /\ blacklist' = blacklist \ {NotifyReport}
  /\ report' = IF report = None THEN "ongoing" ELSE report
  /\ reportTimer' = IF report = None THEN MaxCachingSeconds ELSE reportTimer
  /\ fresh' = fresh \ {h}
  /\ UNCHANGED <<rowVars, bootStatus, localVars, waitTimer, stationVars, dropped, failed, done>>

CreateGetBaseReportRequest(h) ==
  /\ Goto(h, "request", "publish")
  /\ blacklist' = blacklist \ {NotifyReport}
  /\ report' = "ongoing" /\ reportTimer' = MaxCachingSeconds
  /\ fresh' = fresh \ {h}
  /\ UNCHANGED <<rowVars, bootStatus, localVars, waitTimer, stationVars, dropped, failed, done>>

(* sendCall: the station gets the call, or the handler throws. *)
SendGetBaseReport(h) ==
  /\ \/ /\ Goto(h, "publish", "subscribe")
        /\ parts' \in 1 .. MaxParts
        /\ UNCHANGED failed
     \/ Goto(h, "publish", "idle") /\ failed' = TRUE /\ UNCHANGED parts
  /\ UNCHANGED <<rowVars, cacheVars, localVars, waitTimer, told, dropped, done, fresh>>

(* confirmGetBaseReportSuccess waits with onChange from here on: what the  *)
(* station reported in the meantime wakes nobody.                          *)
WaitForReport(h) ==
  /\ Goto(h, "subscribe", "wait")
  /\ waitTimer' = [waitTimer EXCEPT ![h] = MaxCachingSeconds]
  /\ UNCHANGED <<rowVars, cacheVars, localVars, stationVars, historyVars>>

(* The wait of h ends with a value: on with the handler, wait again, or    *)
(* throw.                                                                  *)
AfterWait(value) ==
  CASE value = "complete" -> "confirmed" [] value = "ongoing" -> "subscribe" [] OTHER -> "idle"

(* onChange ends without a change and returns the value of now. *)
ReportTimeout(h) ==
  /\ waitTimer[h] = 0
  /\ Goto(h, "wait", AfterWait(report))
  /\ waitTimer' = [waitTimer EXCEPT ![h] = Off]
  /\ failed' = (failed \/ report = None)
  /\ UNCHANGED <<rowVars, cacheVars, localVars, stationVars, dropped, done, fresh>>

(* getBaseReportOnPending = false, saved on its own. *)
SaveReported(h) ==
  /\ Goto(h, "confirmed", "accept")
  /\ row' = IF row = None THEN None ELSE [row EXCEPT !.getBaseReportOnPending = "no"]
  /\ UNCHANGED <<puts, cacheVars, localVars, waitTimer, stationVars, historyVars>>

(* autoAccept.  Sequelize writes the status only if it differs from the    *)
(* one this entity was read with.                                          *)
SaveAccepted(h) ==
  /\ Goto(h, "accept", "idle")
  /\ row' = IF row = None \/ entity[h] = Accepted THEN row ELSE [row EXCEPT !.status = Accepted]
  /\ done' = TRUE
  /\ UNCHANGED <<puts, cacheVars, localVars, waitTimer, stationVars, dropped, failed, fresh>>

-----------------------------------------------------------------------------
(* _handleNotifyReport: one part of the report; the last one has tbc false. *)
HandleNotifyReport ==
  LET progress == IF parts > 1 THEN "ongoing" ELSE "complete"
      waiting == {h \in Handlers : pc[h] = "wait"}
  IN  /\ parts > 0 /\ parts' = parts - 1
      /\ report' = progress
      /\ reportTimer' = IF progress = "ongoing" THEN MaxCachingSeconds ELSE Off
      /\ pc' = [h \in Handlers |-> IF h \in waiting THEN AfterWait(progress) ELSE pc[h]]
      /\ waitTimer' = [h \in Handlers |-> IF h \in waiting THEN Off ELSE waitTimer[h]]
      /\ fresh' = IF progress = "complete"
                  THEN fresh \union {h \in Handlers : pc[h] \in {"publish", "subscribe", "wait"}}
                  ELSE fresh
      /\ UNCHANGED <<rowVars, bootStatus, blacklist, localVars, told, dropped, failed, done>>

(* The mark of a report runs out. *)
ReportExpires ==
  /\ reportTimer = 0
  /\ report' = None /\ reportTimer' = Off
  /\ UNCHANGED <<rowVars, bootStatus, blacklist, pc, localVars, waitTimer, stationVars, historyVars>>

CountDown(n) == IF n > 0 THEN n - 1 ELSE n

Tick ==
  /\ reportTimer # 0 /\ \A h \in Handlers : waitTimer[h] # 0
  /\ reportTimer' = CountDown(reportTimer)
  /\ waitTimer' = [h \in Handlers |-> CountDown(waitTimer[h])]
  /\ UNCHANGED <<rowVars, bootStatus, blacklist, report, pc, localVars, stationVars, historyVars>>

(* putBootConfig and deleteBootConfig of the data API. *)
PutBootConfig ==
  /\ puts < MaxPuts /\ puts' = puts + 1
  /\ row' \in Rows
  /\ UNCHANGED <<cacheVars, pc, localVars, waitTimer, stationVars, historyVars>>

DeleteBootConfig ==
  /\ puts < MaxPuts /\ puts' = puts + 1
  /\ row' = None
  /\ UNCHANGED <<cacheVars, pc, localVars, waitTimer, stationVars, historyVars>>

-----------------------------------------------------------------------------
Run(h) ==
  \/ ReadCachedStatus(h) \/ CachePermissions(h) \/ SendResponse(h) \/ UpdateDeviceModel(h)
  \/ CacheBootStatus(h) \/ UpdateBootConfig(h)
  \/ CreateGetBaseReportRequest(h) \/ SendGetBaseReport(h) \/ WaitForReport(h)
  \/ ReportTimeout(h) \/ SaveReported(h) \/ SaveAccepted(h)

Next ==
  \/ \E h \in Handlers : Boot(h) \/ Run(h)
  \/ HandleNotifyReport \/ ReportExpires \/ Tick
  \/ PutBootConfig \/ DeleteBootConfig

(* Node.js goes on with a handler whose await has ended and runs the       *)
(* timers that are due; a station that was not accepted boots again after  *)
(* its interval.                                                           *)
BootAgain == told \notin {None, Accepted} /\ \E h \in Handlers : Boot(h)

Spec ==
  /\ Init /\ [][Next]_vars
  /\ \A h \in Handlers : WF_vars(Run(h))
  /\ WF_vars(ReportExpires) /\ WF_vars(Tick) /\ WF_vars(BootAgain)

-----------------------------------------------------------------------------
(* Properties. *)

Quiet == \A h \in Handlers : pc[h] \notin Answering

(* A station that was told it is accepted has no action left on the        *)
(* blacklist and no boot status in the cache, and one that was not has     *)
(* both: "When Accepting a boot, blacklist needs to be cleared if and only *)
(* if there was a previously Rejected or Pending boot" (BootConfig.ts:40). *)
(* Not so once a handler threw between the two writes of the cache: it     *)
(* leaves a blacklist that no later boot knows of.                         *)
BlacklistFollowsAnswer ==
  Quiet /\ ~dropped =>
    /\ told \in {None, Accepted} => blacklist = {} /\ bootStatus = None
    /\ told \notin {None, Accepted} => "other" \in blacklist /\ bootStatus = told

(* "starting to configure charger [...] should only be done if configuring *)
(* is not still ongoing from a previous BootNotificationRequest"           *)
(* (BootConfig.ts:41): boots, answers, reports and time-outs in any order  *)
(* leave at most one handler configuring, as long as no operator rewrites  *)
(* the row.                                                                *)
OneConfiguration ==
  puts = 0 => \A g, h \in Handlers : pc[g] \in Configuring /\ pc[h] \in Configuring => g = h

(* A handler goes on to accept the station on the strength of a report     *)
(* that was completed after it asked for one, and never of the mark that   *)
(* an earlier report left in the cache under the same number 0 for good.   *)
ReportIsFresh == \A h \in Handlers : pc[h] = "confirmed" => h \in fresh

(* A station that is pending is told something better in the end, unless   *)
(* a handler or a configuration threw, or an operator wrote the row.       *)
PendingEnds == told = Pending ~> told = Accepted \/ dropped \/ failed \/ puts > 0
===============================================================================
