------------------------ MODULE BootNotification_proofs ------------------------
(***************************************************************************)
(* Proofs about BootNotification, for any number of handlers, any caching  *)
(* time, any report length and any number of writes by an operator.        *)
(***************************************************************************)
EXTENDS BootNotification, TLAPS

(* The places of a handler are what TypeOK says they are. *)
PCs == {"idle"} \union Answering \union Configuring

LEMMA Places ==
  /\ Answering \subseteq PCs /\ Configuring \subseteq PCs /\ "idle" \in PCs
  /\ Answering = {"look", "permit", "send", "sent", "unsent", "cache", "update"}
  /\ Configuring = {"request", "publish", "subscribe", "wait", "confirmed", "accept"}
  /\ \A x \in Answering : x \notin Configuring /\ x # "idle"
  /\ "idle" \notin Configuring
BY DEF PCs, Answering, Configuring

LEMMA Timers ==
  /\ Off \in Timer /\ MaxCachingSeconds \in Timer /\ 0 \in Timer
  /\ \A n \in Timer : CountDown(n) \in Timer
BY BootAssumption DEF Timer, Off, CountDown

LEMMA StatusOf ==
  ASSUME NEW r \in Rows \union {None}
  PROVE  DetermineBootStatus(r) \in Statuses
BY BootAssumption DEF DetermineBootStatus, Rows, Statuses, Accepted, Pending

(* The parts of TypeOK, as the proofs use them. *)
BooleansOK == dropped \in BOOLEAN /\ failed \in BOOLEAN /\ done \in BOOLEAN
DataOK ==
  /\ row \in Rows \union {None} /\ puts \in 0 .. MaxPuts
  /\ bootStatus \in {None, Pending, Rejected}
  /\ blacklist \subseteq Actions
  /\ report \in {None, "ongoing", "complete"} /\ reportTimer \in Timer
  /\ told \in Statuses \union {None} /\ parts \in 0 .. MaxParts
  /\ fresh \subseteq Handlers
HandlersOK ==
  /\ pc \in [Handlers -> PCs]
  /\ status \in [Handlers -> Statuses]
  /\ cached \in [Handlers -> {None, Pending, Rejected}]
  /\ entity \in [Handlers -> Statuses]
  /\ waitTimer \in [Handlers -> Timer]

LEMMA TypeParts == TypeOK <=> DataOK /\ HandlersOK /\ BooleansOK
BY Zenon DEF TypeOK, DataOK, HandlersOK, BooleansOK, PCs

LEMMA BooleansStep == BooleansOK /\ [Next]_vars => BooleansOK'
<1> SUFFICES ASSUME BooleansOK, [Next]_vars PROVE BooleansOK'
  OBVIOUS
<1>1. CASE UNCHANGED vars
  BY <1>1, Zenon DEF BooleansOK, vars, historyVars
<1>2. CASE Next
  <2>1. ASSUME NEW h \in Handlers, Boot(h) \/ Run(h) PROVE BooleansOK'
    BY <2>1, Zenon DEF BooleansOK, Boot, Run, ReadCachedStatus, CachePermissions, SendResponse,
       UpdateDeviceModel, CacheBootStatus, UpdateBootConfig, CreateGetBaseReportRequest,
       SendGetBaseReport, WaitForReport, ReportTimeout, SaveReported, SaveAccepted, historyVars
  <2>2. CASE HandleNotifyReport \/ ReportExpires \/ Tick \/ PutBootConfig \/ DeleteBootConfig
    BY <2>2, Zenon DEF BooleansOK, HandleNotifyReport, ReportExpires, Tick, PutBootConfig,
       DeleteBootConfig, historyVars
  <2> QED BY <1>2, <2>1, <2>2, Zenon DEF Next
<1> QED BY <1>1, <1>2

LEMMA DataStep == DataOK /\ HandlersOK /\ [Next]_vars => DataOK'
<1> SUFFICES ASSUME DataOK, HandlersOK, [Next]_vars PROVE DataOK'
  OBVIOUS
<1> USE BootAssumption, Timers
<1>1. CASE UNCHANGED vars
  BY <1>1 DEF DataOK, vars, rowVars, cacheVars, stationVars, historyVars
<1>2. ASSUME NEW h \in Handlers, Boot(h) \/ Run(h) PROVE DataOK'
  <2>1. CASE Boot(h) \/ ReadCachedStatus(h) \/ WaitForReport(h)
    BY <2>1 DEF Boot, ReadCachedStatus, WaitForReport, DataOK, rowVars, cacheVars, stationVars, historyVars
  <2>2. CASE CachePermissions(h)
    BY <2>2 DEF CachePermissions, DataOK, rowVars, stationVars, historyVars
  <2>3. CASE SendResponse(h)
    BY <2>3 DEF SendResponse, DataOK, HandlersOK, rowVars, cacheVars, historyVars
  <2>4. CASE UpdateDeviceModel(h)
    BY <2>4 DEF UpdateDeviceModel, DataOK, rowVars, cacheVars, stationVars
  <2>5. CASE CacheBootStatus(h)
    BY <2>5 DEF CacheBootStatus, DataOK, HandlersOK, Statuses, rowVars, stationVars, historyVars
  <2>6. CASE UpdateBootConfig(h)
    BY <2>6 DEF UpdateBootConfig, DataOK, HandlersOK, Rows, rowVars, cacheVars, stationVars, historyVars
  <2>7. CASE CreateGetBaseReportRequest(h)
    BY <2>7 DEF CreateGetBaseReportRequest, DataOK, rowVars, stationVars
  <2>8. CASE SendGetBaseReport(h)
    BY <2>8 DEF SendGetBaseReport, DataOK, rowVars, cacheVars
  <2>9. CASE ReportTimeout(h)
    BY <2>9 DEF ReportTimeout, DataOK, rowVars, cacheVars, stationVars
  <2>10. CASE SaveReported(h)
    BY <2>10 DEF SaveReported, DataOK, Rows, cacheVars, stationVars, historyVars
  <2>11. CASE SaveAccepted(h)
    BY <2>11 DEF SaveAccepted, DataOK, Rows, Statuses, cacheVars, stationVars
  <2> QED BY <1>2, <2>1, <2>2, <2>3, <2>4, <2>5, <2>6, <2>7, <2>8, <2>9, <2>10, <2>11, Zenon DEF Run
<1>3. CASE HandleNotifyReport
  BY <1>3 DEF HandleNotifyReport, DataOK, rowVars
<1>4. CASE ReportExpires \/ Tick
  BY <1>4 DEF ReportExpires, Tick, DataOK, rowVars, stationVars, historyVars
<1>5. CASE PutBootConfig \/ DeleteBootConfig
  BY <1>5 DEF PutBootConfig, DeleteBootConfig, DataOK, cacheVars, stationVars, historyVars
<1> QED BY <1>1, <1>2, <1>3, <1>4, <1>5, Zenon DEF Next

LEMMA HandlersStep == DataOK /\ HandlersOK /\ [Next]_vars => HandlersOK'
<1> SUFFICES ASSUME DataOK, HandlersOK, [Next]_vars PROVE HandlersOK'
  OBVIOUS
<1> USE BootAssumption, Timers
<1>1. CASE UNCHANGED vars
  BY <1>1 DEF HandlersOK, vars, localVars
<1>2. ASSUME NEW h \in Handlers, Boot(h) \/ Run(h) PROVE HandlersOK'
  <2> USE DEF HandlersOK, Goto, localVars, PCs, Answering, Configuring
  <2>1. CASE Boot(h)
    BY <2>1, StatusOf DEF Boot, DataOK
  <2>2. CASE ReadCachedStatus(h)
    BY <2>2 DEF ReadCachedStatus, DataOK
  <2>3. CASE CachePermissions(h) \/ SendResponse(h) \/ UpdateDeviceModel(h) \/ CacheBootStatus(h)
    BY <2>3 DEF CachePermissions, SendResponse, UpdateDeviceModel, CacheBootStatus
  <2>4. CASE UpdateBootConfig(h)
    BY <2>4 DEF UpdateBootConfig, DataOK, Rows
  <2>5. CASE CreateGetBaseReportRequest(h) \/ SendGetBaseReport(h)
    BY <2>5 DEF CreateGetBaseReportRequest, SendGetBaseReport
  <2>6. CASE WaitForReport(h)
    BY <2>6 DEF WaitForReport
  <2>7. CASE ReportTimeout(h)
    BY <2>7 DEF ReportTimeout, AfterWait
  <2>8. CASE SaveReported(h) \/ SaveAccepted(h)
    BY <2>8 DEF SaveReported, SaveAccepted
  <2> QED BY <1>2, <2>1, <2>2, <2>3, <2>4, <2>5, <2>6, <2>7, <2>8, Zenon DEF Run
<1>3. CASE HandleNotifyReport
  BY <1>3 DEF HandleNotifyReport, AfterWait, HandlersOK, localVars, PCs, Configuring
<1>4. CASE ReportExpires \/ PutBootConfig \/ DeleteBootConfig
  BY <1>4 DEF ReportExpires, PutBootConfig, DeleteBootConfig, HandlersOK, localVars
<1>5. CASE Tick
  BY <1>5 DEF Tick, HandlersOK, localVars
<1> QED BY <1>1, <1>2, <1>3, <1>4, <1>5, Zenon DEF Next

LEMMA TypeInit == Init => TypeOK
<1> SUFFICES ASSUME Init PROVE TypeOK
  OBVIOUS
<1>1. DataOK
  BY BootAssumption, Timers DEF Init, DataOK
<1>2. HandlersOK
  BY Timers DEF Init, HandlersOK, PCs, Statuses
<1>3. BooleansOK
  BY Zenon DEF Init, BooleansOK
<1> QED BY <1>1, <1>2, <1>3, TypeParts, Zenon

(* What the row, the cache and the handlers of a boot hold. *)
THEOREM TypeCorrect == Spec => []TypeOK
<1>1. TypeOK /\ [Next]_vars => TypeOK'
  <2> SUFFICES ASSUME TypeOK, [Next]_vars PROVE TypeOK'
    OBVIOUS
  <2>1. DataOK /\ HandlersOK /\ BooleansOK
    BY TypeParts
  <2>2. DataOK' /\ HandlersOK' /\ BooleansOK'
    BY <2>1, BooleansStep, DataStep, HandlersStep, Zenon
  <2> QED BY <2>2, TypeParts, PTL
<1> QED BY TypeInit, <1>1, PTL DEF Spec

-----------------------------------------------------------------------------
(* The answer and the cache.  Without Overlap one handler at most is at    *)
(* its answer, and what the cache holds follows from how far it has come.  *)

OneAnswering == \A g, h \in Handlers : pc[g] \in Answering /\ pc[h] \in Answering => g = h

(* The cache says what the station was told. *)
Agrees ==
  /\ told \in {None, Accepted} => blacklist = {} /\ bootStatus = None
  /\ told \notin {None, Accepted} => "other" \in blacklist /\ bootStatus = told

(* The permissions are those of the status of h; boot_status is not yet. *)
Permitted(h) ==
  /\ status[h] = Accepted => blacklist = {} /\ bootStatus = None
  /\ status[h] # Accepted => "other" \in blacklist /\ bootStatus = cached[h]

AnswerInv ==
  /\ OneAnswering
  /\ ~dropped =>
       /\ Quiet => Agrees
       /\ \A h \in Handlers :
            /\ pc[h] \in {"look", "permit", "update"} => Agrees
            /\ pc[h] = "permit" => cached[h] = bootStatus
            /\ pc[h] \in {"send", "sent", "unsent", "cache"} => Permitted(h)
            /\ pc[h] \in {"sent", "cache", "update"} => told = status[h]

(* The report a handler is confirmed by is newer than its request. *)
ReportInv ==
  \A h \in Handlers :
    /\ pc[h] \in {"publish", "subscribe", "wait"} /\ report = "complete" => h \in fresh
    /\ pc[h] = "confirmed" => h \in fresh

(* While no operator writes the row: a station that is being configured    *)
(* has a row that asks for it and a cached status that keeps every other   *)
(* handler from it, until the report is saved; from then on the row says   *)
(* that it is accepted.                                                    *)
Wanted == row # None /\ row.status = Pending /\ NeedToGetBaseReport(row)
Unwritten == row = None /\ UnknownChargerStatus = Pending /\ GetBaseReportOnPending = "yes"
Reporting == Configuring \ {"accept"}
CachedOf(h) == IF pc[h] = "look" THEN bootStatus ELSE cached[h]

ConfigurationInv ==
  puts = 0 =>
    /\ OneConfiguration
    /\ \A h \in Handlers :
         /\ pc[h] \in Reporting => Wanted /\ bootStatus = Pending
         /\ pc[h] = "accept" => row # None /\ ~NeedToGetBaseReport(row)
         /\ pc[h] \in Answering /\ status[h] = Pending /\ CachedOf(h) # Pending =>
              /\ \A g \in Handlers : pc[g] \notin Configuring
              /\ Wanted \/ Unwritten
         /\ \A g \in Handlers : pc[h] \in Answering /\ pc[g] \in Reporting => status[h] = Pending
         /\ pc[h] = "update" /\ status[h] = Pending /\ cached[h] # Pending => bootStatus = Pending

(* A report completed after the request of a handler is the only one that  *)
(* confirms it.                                                            *)
LEMMA ReportStep == HandlersOK /\ ReportInv /\ [Next]_vars => ReportInv'
<1> SUFFICES ASSUME HandlersOK, ReportInv, [Next]_vars PROVE ReportInv'
  OBVIOUS
<1>1. CASE UNCHANGED vars
  BY <1>1 DEF ReportInv, vars, cacheVars, historyVars
<1>2. ASSUME NEW h \in Handlers, Boot(h) \/ Run(h) PROVE ReportInv'
  <2> USE DEF HandlersOK, ReportInv, Goto, cacheVars, historyVars
  <2>1. CASE Boot(h) \/ ReadCachedStatus(h) \/ CachePermissions(h) \/ SendResponse(h)
             \/ UpdateDeviceModel(h) \/ CacheBootStatus(h)
    BY <2>1 DEF Boot, ReadCachedStatus, CachePermissions, SendResponse, UpdateDeviceModel, CacheBootStatus
  <2>2. CASE UpdateBootConfig(h)
    BY <2>2 DEF UpdateBootConfig
  <2>3. CASE CreateGetBaseReportRequest(h)
    BY <2>3 DEF CreateGetBaseReportRequest
  <2>4. CASE SendGetBaseReport(h) \/ WaitForReport(h)
    BY <2>4 DEF SendGetBaseReport, WaitForReport
  <2>5. CASE ReportTimeout(h)
    BY <2>5 DEF ReportTimeout, AfterWait
  <2>6. CASE SaveReported(h) \/ SaveAccepted(h)
    BY <2>6 DEF SaveReported, SaveAccepted
  <2> QED BY <1>2, <2>1, <2>2, <2>3, <2>4, <2>5, <2>6, Zenon DEF Run
<1>3. CASE HandleNotifyReport
  BY <1>3 DEF HandleNotifyReport, AfterWait, ReportInv, HandlersOK
<1>4. CASE ReportExpires \/ Tick \/ PutBootConfig \/ DeleteBootConfig
  BY <1>4, BootAssumption DEF ReportExpires, Tick, PutBootConfig, DeleteBootConfig, ReportInv, cacheVars, historyVars
<1> QED BY <1>1, <1>2, <1>3, <1>4, Zenon DEF Next

(* A handler that accepts a station because of its report has got that     *)
(* report after it asked, whatever an earlier one left in the cache.       *)
THEOREM FreshReport == Spec => []ReportIsFresh
<1>1. Init => ReportInv
  BY DEF Init, ReportInv
<1>2. TypeOK /\ ReportInv /\ [Next]_vars => ReportInv'
  BY ReportStep, TypeParts, Zenon
<1>3. ReportInv => ReportIsFresh
  BY DEF ReportInv, ReportIsFresh
<1> QED BY TypeCorrect, <1>1, <1>2, <1>3, PTL DEF Spec

(* The handlers that are not at their answer move among themselves, and    *)
(* leave told, boot_status and the blacklist of the other actions alone.   *)
LEMMA OneAnsweringStep ==
  ASSUME ~Overlap, HandlersOK, OneAnswering, [Next]_vars
  PROVE  OneAnswering'
<1>1. CASE UNCHANGED vars
  BY <1>1 DEF OneAnswering, vars
<1>2. ASSUME NEW h \in Handlers, Boot(h) \/ Run(h) PROVE OneAnswering'
  <2>1. CASE Boot(h)
    BY <2>1, Places DEF Boot, Goto, OneAnswering, HandlersOK
  <2>2. CASE Run(h)
    <3>1. \E from \in PCs, to \in PCs : Goto(h, from, to) /\ (to \in Answering => from \in Answering)
      <4> USE DEF Goto, PCs, Answering, Configuring
      <4>1. CASE ReadCachedStatus(h) \/ CachePermissions(h) \/ SendResponse(h)
                 \/ UpdateDeviceModel(h) \/ CacheBootStatus(h)
        BY <4>1 DEF ReadCachedStatus, CachePermissions, SendResponse, UpdateDeviceModel, CacheBootStatus
      <4>2. CASE UpdateBootConfig(h)
        BY <4>2 DEF UpdateBootConfig
      <4>3. CASE CreateGetBaseReportRequest(h) \/ SendGetBaseReport(h) \/ WaitForReport(h)
                 \/ SaveReported(h) \/ SaveAccepted(h)
        BY <4>3 DEF CreateGetBaseReportRequest, SendGetBaseReport, WaitForReport, SaveReported, SaveAccepted
      <4>4. CASE ReportTimeout(h)
        <5>1. Goto(h, "wait", AfterWait(report))
          BY <4>4, Zenon DEF ReportTimeout
        <5>2. AfterWait(report) \in {"confirmed", "subscribe", "idle"}
          BY DEF AfterWait
        <5> QED BY <5>1, <5>2
      <4> QED BY <2>2, <4>1, <4>2, <4>3, <4>4, Zenon DEF Run
    <3> QED BY <3>1 DEF Goto, OneAnswering, HandlersOK
  <2> QED BY <1>2, <2>1, <2>2
<1>3. CASE HandleNotifyReport
  BY <1>3, Places DEF HandleNotifyReport, AfterWait, OneAnswering, HandlersOK
<1>4. CASE ReportExpires \/ Tick \/ PutBootConfig \/ DeleteBootConfig
  BY <1>4 DEF ReportExpires, Tick, PutBootConfig, DeleteBootConfig, OneAnswering
<1> QED BY <1>1, <1>2, <1>3, <1>4, Zenon DEF Next

(* What no step but those of an answer touches. *)
AnswerFrame ==
  /\ \A g \in Handlers : pc[g] \in Answering \/ pc'[g] \in Answering => pc'[g] = pc[g]
  /\ status' = status /\ cached' = cached /\ bootStatus' = bootStatus /\ told' = told
  /\ dropped' = dropped
  /\ "other" \in blacklist => "other" \in blacklist'
  /\ blacklist = {} => blacklist' = {}

(* The steps of the configuration, of the station, the clock and the       *)
(* operator keep to the frame.                                             *)
LEMMA OtherSteps ==
  ASSUME HandlersOK,
         \/ \E h \in Handlers :
              \/ CreateGetBaseReportRequest(h) \/ SendGetBaseReport(h) \/ WaitForReport(h)
              \/ ReportTimeout(h) \/ SaveReported(h) \/ SaveAccepted(h)
         \/ HandleNotifyReport \/ ReportExpires \/ Tick \/ PutBootConfig \/ DeleteBootConfig
  PROVE  AnswerFrame
<1> USE DEF AnswerFrame, HandlersOK, Goto, Answering, cacheVars, localVars, stationVars, historyVars
<1>1. ASSUME NEW h \in Handlers, CreateGetBaseReportRequest(h) PROVE AnswerFrame
  BY <1>1, NotifyReport # "other" DEF CreateGetBaseReportRequest, NotifyReport
<1>2. ASSUME NEW h \in Handlers, SendGetBaseReport(h) PROVE AnswerFrame
  BY <1>2 DEF SendGetBaseReport
<1>3. ASSUME NEW h \in Handlers, WaitForReport(h) PROVE AnswerFrame
  BY <1>3 DEF WaitForReport
<1>4. ASSUME NEW h \in Handlers, ReportTimeout(h) PROVE AnswerFrame
  <2>1. /\ Goto(h, "wait", AfterWait(report))
        /\ UNCHANGED <<cacheVars, localVars, stationVars, dropped>>
    BY <1>4, Zenon DEF ReportTimeout
  <2>2. AfterWait(report) \in {"confirmed", "subscribe", "idle"}
    BY DEF AfterWait
  <2> QED BY <2>1, <2>2
<1>5. ASSUME NEW h \in Handlers, SaveReported(h) \/ SaveAccepted(h) PROVE AnswerFrame
  BY <1>5 DEF SaveReported, SaveAccepted
<1>6. CASE HandleNotifyReport
  BY <1>6 DEF HandleNotifyReport, AfterWait
<1>7. CASE ReportExpires \/ Tick \/ PutBootConfig \/ DeleteBootConfig
  BY <1>7 DEF ReportExpires, Tick, PutBootConfig, DeleteBootConfig
<1> QED BY <1>1, <1>2, <1>3, <1>4, <1>5, <1>6, <1>7, Zenon

LEMMA AnswerFramed ==
  ASSUME AnswerInv, AnswerFrame, OneAnswering', HandlersOK, HandlersOK'
  PROVE  AnswerInv'
<1> USE DEF AnswerFrame
<1>1. Quiet' => Quiet
  BY DEF Quiet
<1>2. Agrees => Agrees'
  BY DEF Agrees
<1>3. ASSUME NEW h \in Handlers, Permitted(h) PROVE Permitted(h)'
  BY <1>3 DEF Permitted
<1>4. ASSUME NEW h \in Handlers, pc'[h] \in {"look", "permit", "send", "sent", "unsent", "cache", "update"}
      PROVE  pc[h] = pc'[h]
  BY <1>4 DEF Answering
<1> QED BY <1>1, <1>2, <1>3, <1>4 DEF AnswerInv

(* Any answer takes the cache and the station from one agreement to the    *)
(* next.                                                                   *)
LEMMA AnswerStep ==
  ASSUME ~Overlap, DataOK, HandlersOK, HandlersOK', BooleansOK, AnswerInv, [Next]_vars
  PROVE  AnswerInv'
<1>1. OneAnswering'
  BY OneAnsweringStep DEF AnswerInv
<1>2. CASE UNCHANGED vars
  <2>1. AnswerFrame
    BY <1>2 DEF AnswerFrame, vars, cacheVars, localVars, stationVars, historyVars
  <2> QED BY <1>1, <2>1, AnswerFramed
<1>3. ASSUME NEW h \in Handlers, Boot(h) PROVE AnswerInv'
  BY <1>1, <1>3, Places DEF Boot, Goto, AnswerInv, Quiet, Agrees, Permitted, HandlersOK, cacheVars, stationVars, historyVars
<1>4. ASSUME NEW h \in Handlers,
             \/ ReadCachedStatus(h) \/ CachePermissions(h) \/ SendResponse(h) \/ UpdateDeviceModel(h)
             \/ CacheBootStatus(h) \/ UpdateBootConfig(h)
      PROVE  AnswerInv'
  <2>1. /\ pc[h] \in Answering
        /\ \A g \in Handlers : g # h => pc[g] \notin Answering /\ pc'[g] \notin Answering
    BY <1>4 DEF AnswerInv, OneAnswering, HandlersOK, Goto, Answering,
       ReadCachedStatus, CachePermissions, SendResponse, UpdateDeviceModel, CacheBootStatus, UpdateBootConfig
  <2>2. ~Quiet
    BY <2>1 DEF Quiet
  <2>3. ASSUME ~dropped', ~dropped PROVE
          /\ Quiet' => Agrees'
          /\ pc'[h] \in {"look", "permit", "update"} => Agrees'
          /\ pc'[h] = "permit" => cached'[h] = bootStatus'
          /\ pc'[h] \in {"send", "sent", "unsent", "cache"} => Permitted(h)'
          /\ pc'[h] \in {"sent", "cache", "update"} => told' = status'[h]
    <3> USE <2>3 DEF AnswerInv, Agrees, Permitted, Goto, HandlersOK, DataOK
    <3>1. CASE ReadCachedStatus(h)
      BY <3>1 DEF ReadCachedStatus, cacheVars, stationVars, Quiet, Answering
    <3>2. CASE CachePermissions(h)
      BY <3>2, BootAssumption DEF CachePermissions, stationVars, localVars, Quiet, Answering, Statuses, Actions
    <3>3. CASE SendResponse(h)
      BY <3>3 DEF SendResponse, cacheVars, localVars, Quiet, Answering
    <3>4. CASE UpdateDeviceModel(h)
      BY <3>4 DEF UpdateDeviceModel, cacheVars, localVars, stationVars, Quiet, Answering
    <3>5. CASE CacheBootStatus(h)
      BY <3>5, BootAssumption DEF CacheBootStatus, localVars, stationVars, Quiet, Answering, Statuses
    <3>6. CASE UpdateBootConfig(h)
      BY <3>6 DEF UpdateBootConfig, cacheVars, localVars, stationVars
    <3> QED BY <1>4, <3>1, <3>2, <3>3, <3>4, <3>5, <3>6
  <2>4. dropped => dropped'
    BY <1>4 DEF ReadCachedStatus, CachePermissions, SendResponse, UpdateDeviceModel, CacheBootStatus,
       UpdateBootConfig, historyVars
  <2> QED BY <1>1, <2>1, <2>3, <2>4 DEF AnswerInv, Answering
<1>5. CASE \/ \E h \in Handlers :
                \/ CreateGetBaseReportRequest(h) \/ SendGetBaseReport(h) \/ WaitForReport(h)
                \/ ReportTimeout(h) \/ SaveReported(h) \/ SaveAccepted(h)
           \/ HandleNotifyReport \/ ReportExpires \/ Tick \/ PutBootConfig \/ DeleteBootConfig
  BY <1>1, <1>5, OtherSteps, AnswerFramed
<1> QED BY <1>2, <1>3, <1>4, <1>5, Zenon DEF Next, Run

(* What the station may do follows from what it was told, unless a handler *)
(* threw between the blacklist and the boot status; the boots of a station *)
(* come one after the other.                                               *)
THEOREM AnswerAgrees ==
  ASSUME ~Overlap
  PROVE  Spec => []BlacklistFollowsAnswer
<1>1. Init => AnswerInv
  BY Places DEF Init, AnswerInv, OneAnswering, Quiet, Agrees
<1>2. TypeOK /\ TypeOK' /\ AnswerInv /\ [Next]_vars => AnswerInv'
  <2> SUFFICES ASSUME TypeOK, TypeOK', AnswerInv, [Next]_vars PROVE AnswerInv'
    OBVIOUS
  <2>1. DataOK /\ HandlersOK /\ BooleansOK
    BY TypeParts
  <2>2. HandlersOK'
    BY <2>1, HandlersStep
  <2> QED BY <2>1, <2>2, AnswerStep
<1>3. AnswerInv => BlacklistFollowsAnswer
  BY DEF AnswerInv, BlacklistFollowsAnswer, Agrees
<1> QED BY TypeCorrect, <1>1, <1>2, <1>3, PTL DEF Spec

-----------------------------------------------------------------------------
(* One configuration at a time. *)

LEMMA Determined ==
  ASSUME row \in Rows \union {None}, DetermineBootStatus(row) = Pending
  PROVE  Wanted \/ Unwritten
BY BootAssumption DEF DetermineBootStatus, Wanted, Unwritten, NeedToGetBaseReport, Accepted, Pending, Rows

LEMMA NeverWritten == ASSUME [Next]_vars, DataOK, puts' = 0 PROVE puts = 0
<1>1. ASSUME NEW h \in Handlers, Boot(h) \/ Run(h) PROVE puts' = puts
  BY <1>1 DEF Boot, Run, ReadCachedStatus, CachePermissions, SendResponse, UpdateDeviceModel,
     CacheBootStatus, UpdateBootConfig, CreateGetBaseReportRequest, SendGetBaseReport, WaitForReport,
     ReportTimeout, SaveReported, SaveAccepted, rowVars
<1>2. CASE HandleNotifyReport \/ ReportExpires \/ Tick
  BY <1>2 DEF HandleNotifyReport, ReportExpires, Tick, rowVars
<1>3. CASE PutBootConfig \/ DeleteBootConfig
  BY <1>3, BootAssumption DEF PutBootConfig, DeleteBootConfig, DataOK
<1>4. CASE UNCHANGED vars
  BY <1>4 DEF vars, rowVars
<1> QED BY <1>1, <1>2, <1>3, <1>4, Zenon DEF Next

(* ConfigurationInv without its premise. *)
ConfigurationParts ==
  /\ \A g, h \in Handlers : pc[g] \in Configuring /\ pc[h] \in Configuring => g = h
  /\ \A h \in Handlers :
       /\ pc[h] \in Reporting => Wanted /\ bootStatus = Pending
       /\ pc[h] = "accept" => row # None /\ ~NeedToGetBaseReport(row)
       /\ pc[h] \in Answering /\ status[h] = Pending /\ CachedOf(h) # Pending =>
            /\ \A g \in Handlers : pc[g] \notin Configuring
            /\ Wanted \/ Unwritten
       /\ \A g \in Handlers : pc[h] \in Answering /\ pc[g] \in Reporting => status[h] = Pending
       /\ pc[h] = "update" /\ status[h] = Pending /\ cached[h] # Pending => bootStatus = Pending

LEMMA InvParts == ConfigurationInv <=> (puts = 0 => ConfigurationParts)
BY DEF ConfigurationInv, ConfigurationParts, OneConfiguration

LEMMA ConfigurationStep ==
  ASSUME ~Overlap, DataOK, HandlersOK, HandlersOK', OneAnswering, ConfigurationParts,
         [Next]_vars, puts = 0, puts' = 0
  PROVE  ConfigurationParts'
<1> USE DEF HandlersOK
<1>1. CASE UNCHANGED vars
  <2>1. pc' = pc /\ row' = row /\ status' = status /\ cached' = cached /\ bootStatus' = bootStatus
    BY <1>1 DEF vars, rowVars, cacheVars, localVars
  <2>2. (Wanted' <=> Wanted) /\ (Unwritten' <=> Unwritten) /\ \A h \in Handlers : CachedOf(h)' = CachedOf(h)
    BY <2>1 DEF Wanted, Unwritten, CachedOf
  <2> QED BY <2>1, <2>2 DEF ConfigurationParts
<1>2. ASSUME NEW h \in Handlers, Boot(h) PROVE ConfigurationParts'
  <2>1. /\ pc[h] = "idle" /\ pc'[h] = "look" /\ status'[h] = DetermineBootStatus(row)
        /\ \A g \in Handlers : /\ pc[g] \notin Answering
                               /\ g # h => pc'[g] = pc[g] /\ pc'[g] \notin Answering
        /\ row' = row /\ bootStatus' = bootStatus /\ cached' = cached
    BY <1>2 DEF Boot, Goto, rowVars, cacheVars
  <2>2. CachedOf(h)' = bootStatus
    BY <2>1 DEF CachedOf
  <2>3. \A g \in Handlers : pc'[g] \in Configuring => pc[g] \in Configuring /\ pc'[g] = pc[g]
    BY <2>1 DEF Configuring
  <2>4. ASSUME status'[h] = Pending, bootStatus # Pending
        PROVE  (\A g \in Handlers : pc[g] \notin Configuring) /\ (Wanted \/ Unwritten)
    <3>1. Wanted \/ Unwritten
      BY <2>1, <2>4, Determined DEF DataOK
    <3>2. \A g \in Handlers : pc[g] # "accept"
      BY <3>1 DEF ConfigurationParts, Wanted, Unwritten
    <3> QED BY <2>4, <3>1, <3>2 DEF ConfigurationParts, Reporting
  <2>5. ASSUME NEW g \in Handlers, pc[g] \in Reporting PROVE status'[h] = Pending
    <3>1. Wanted
      BY <2>5 DEF ConfigurationParts
    <3> QED BY <2>1, <3>1 DEF Wanted, DetermineBootStatus
  <2>6. (Wanted' <=> Wanted) /\ (Unwritten' <=> Unwritten)
    BY <2>1 DEF Wanted, Unwritten
  <2> QED BY <2>1, <2>2, <2>3, <2>4, <2>5, <2>6, Places DEF ConfigurationParts, Reporting, NeedToGetBaseReport
<1>3. ASSUME NEW h \in Handlers,
             \/ ReadCachedStatus(h) \/ CachePermissions(h) \/ SendResponse(h) \/ UpdateDeviceModel(h)
             \/ CacheBootStatus(h)
      PROVE  ConfigurationParts'
  <2>1. /\ pc[h] \in Answering /\ pc[h] # "update" /\ pc'[h] \in Answering \union {"idle"} /\ pc'[h] # "look"
        /\ \A g \in Handlers : g # h => pc[g] \notin Answering /\ pc'[g] = pc[g]
        /\ row' = row /\ status' = status
    BY <1>3 DEF OneAnswering, Goto, Answering, ReadCachedStatus, CachePermissions, SendResponse,
       UpdateDeviceModel, CacheBootStatus, rowVars, localVars
  <2>2. cached'[h] = CachedOf(h)
    BY <1>3, <2>1 DEF ReadCachedStatus, CachePermissions, SendResponse, UpdateDeviceModel,
       CacheBootStatus, CachedOf, Goto, localVars
  <2>3. ASSUME status[h] = Pending PROVE
          /\ bootStatus = Pending => bootStatus' = Pending
          /\ pc'[h] = "update" /\ cached[h] # Pending => bootStatus' = Pending
    BY <1>3, <2>3 DEF ReadCachedStatus, CachePermissions, SendResponse, UpdateDeviceModel,
       CacheBootStatus, Goto, cacheVars, Accepted, Pending
  <2>4. \A g \in Handlers : pc'[g] \in Configuring => g # h /\ pc[g] = pc'[g]
    BY <2>1, Places
  <2>5. /\ (Wanted' <=> Wanted) /\ (Unwritten' <=> Unwritten)
        /\ pc[h] # "look" => cached'[h] = cached[h]
    BY <2>1, <2>2 DEF Wanted, Unwritten, CachedOf
  <2>6. pc'[h] = "update" => pc[h] = "cache"
    BY <1>3 DEF ReadCachedStatus, CachePermissions, SendResponse, UpdateDeviceModel, CacheBootStatus, Goto
  <2> QED BY <2>1, <2>2, <2>3, <2>4, <2>5, <2>6, Places DEF ConfigurationParts, Reporting, CachedOf, NeedToGetBaseReport
<1>4. ASSUME NEW h \in Handlers, UpdateBootConfig(h) PROVE ConfigurationParts'
  <2>1. /\ pc[h] = "update" /\ pc[h] \in Answering
        /\ \A g \in Handlers : g # h => pc[g] \notin Answering /\ pc'[g] = pc[g]
        /\ bootStatus' = bootStatus
    BY <1>4 DEF OneAnswering, Goto, Answering, UpdateBootConfig, cacheVars
  <2>2. row # None => row' = row
    BY <1>4 DEF UpdateBootConfig
  <2>3. CASE Configure(h)
    <3>1. /\ \A g \in Handlers : pc[g] \notin Configuring
          /\ Wanted \/ Unwritten
          /\ bootStatus = Pending /\ status[h] = Pending
      BY <2>1, <2>3 DEF ConfigurationParts, Configure, CachedOf
    <3>2. Wanted'
      <4>1. CASE Wanted
        BY <2>2, <4>1 DEF Wanted
      <4>2. CASE Unwritten
        <5>1. /\ row' = [status |-> status[h], getBaseReportOnPending |-> "default"]
              /\ row' \in Rows
          BY <1>4, <4>2 DEF Unwritten, UpdateBootConfig, Rows
        <5>2. row' # None
          BY <5>1, BootAssumption
        <5> QED BY <3>1, <4>2, <5>1, <5>2 DEF Unwritten, Wanted, NeedToGetBaseReport
      <4> QED BY <3>1, <4>1, <4>2
    <3>3. pc'[h] = "request"
      BY <1>4, <2>3, <3>2 DEF UpdateBootConfig, Goto, Wanted
    <3> QED BY <2>1, <3>1, <3>2, <3>3, Places DEF ConfigurationParts, Reporting
  <2>4. CASE ~Configure(h)
    <3>1. pc'[h] = "idle"
      BY <1>4, <2>4 DEF UpdateBootConfig, Goto
    <3>2. Wanted => Wanted'
      BY <2>2 DEF Wanted
    <3> QED BY <2>1, <2>2, <3>1, <3>2, Places DEF ConfigurationParts, Reporting, Wanted
  <2> QED BY <2>3, <2>4
<1>5. ASSUME NEW h \in Handlers, SaveReported(h) PROVE ConfigurationParts'
  <2>1. /\ pc[h] = "confirmed" /\ pc'[h] = "accept"
        /\ \A g \in Handlers : g # h => pc'[g] = pc[g]
        /\ bootStatus' = bootStatus /\ status' = status /\ cached' = cached
    BY <1>5 DEF SaveReported, Goto, cacheVars, localVars
  <2>2. pc[h] \in Configuring /\ pc[h] \in Reporting /\ row # None
    BY <2>1 DEF ConfigurationParts, Reporting, Configuring, Wanted
  <2>3. row' = [row EXCEPT !.getBaseReportOnPending = "no"] /\ row' \in Rows
    BY <1>5, <2>2 DEF SaveReported, DataOK, Rows
  <2>4. row' # None /\ ~NeedToGetBaseReport(row')
    BY <2>2, <2>3, BootAssumption DEF NeedToGetBaseReport, DataOK, Rows
  <2>5. \A g \in Handlers : g # h => pc'[g] \notin Configuring
    BY <2>1, <2>2 DEF ConfigurationParts
  <2> QED BY <2>1, <2>2, <2>4, <2>5, Places DEF ConfigurationParts, Reporting, CachedOf
<1>6. ASSUME NEW h \in Handlers, SaveAccepted(h) PROVE ConfigurationParts'
  <2>1. /\ pc[h] = "accept" /\ pc'[h] = "idle"
        /\ \A g \in Handlers : g # h => pc'[g] = pc[g]
        /\ bootStatus' = bootStatus /\ status' = status /\ cached' = cached
    BY <1>6 DEF SaveAccepted, Goto, cacheVars, localVars
  <2>2. \A g \in Handlers : pc'[g] \notin Configuring
    BY <2>1, Places DEF ConfigurationParts, Configuring
  <2>3. ASSUME NEW g \in Handlers, pc[g] \in Answering PROVE ~(status[g] = Pending /\ CachedOf(g) # Pending)
    BY <2>1, <2>3 DEF ConfigurationParts, Configuring
  <2> QED BY <2>1, <2>2, <2>3, Places DEF ConfigurationParts, Reporting, Configuring, CachedOf
<1>7. ASSUME \/ \E h \in Handlers :
                  \/ CreateGetBaseReportRequest(h) \/ SendGetBaseReport(h) \/ WaitForReport(h)
                  \/ ReportTimeout(h)
             \/ HandleNotifyReport \/ ReportExpires \/ Tick
      PROVE  ConfigurationParts'
  <2>1. /\ AnswerFrame /\ row' = row
    BY <1>7, OtherSteps DEF CreateGetBaseReportRequest, SendGetBaseReport, WaitForReport, ReportTimeout,
       HandleNotifyReport, ReportExpires, Tick, rowVars
  <2>2. \A g \in Handlers : /\ pc'[g] \in Reporting => pc[g] \in Reporting
                            /\ pc'[g] = "accept" => pc[g] = "accept"
    BY <1>7 DEF CreateGetBaseReportRequest, SendGetBaseReport, WaitForReport, ReportTimeout,
       HandleNotifyReport, ReportExpires, Tick, AfterWait, Goto, Reporting, Configuring
  <2>3. \A g \in Handlers : pc'[g] \in Configuring => pc[g] \in Configuring
    BY <2>2 DEF Reporting, Configuring
  <2>4. \A g \in Handlers : pc'[g] \in Answering => pc'[g] = pc[g] /\ CachedOf(g)' = CachedOf(g)
    BY <2>1 DEF AnswerFrame, CachedOf
  <2> QED BY <2>1, <2>2, <2>3, <2>4, Places DEF ConfigurationParts, AnswerFrame, Wanted, Unwritten, Answering, NeedToGetBaseReport
<1>8. ~(PutBootConfig \/ DeleteBootConfig)
  BY DEF PutBootConfig, DeleteBootConfig
<1> QED BY <1>1, <1>2, <1>3, <1>4, <1>5, <1>6, <1>7, <1>8, Zenon DEF Next, Run

(* At most one handler configures the station, whatever boots, failures,   *)
(* reports and time-outs come, if boots do not overlap and nobody rewrites *)
(* the row.                                                                *)
THEOREM ConfiguredOnce ==
  ASSUME ~Overlap
  PROVE  Spec => []OneConfiguration
<1>1. Init => OneAnswering /\ ConfigurationInv
  BY Places DEF Init, OneAnswering, ConfigurationInv, OneConfiguration, Reporting
<1>2. TypeOK /\ TypeOK' /\ OneAnswering /\ ConfigurationInv /\ [Next]_vars => (OneAnswering /\ ConfigurationInv)'
  <2> SUFFICES ASSUME TypeOK, TypeOK', OneAnswering, ConfigurationInv, [Next]_vars
               PROVE  (OneAnswering /\ ConfigurationInv)'
    OBVIOUS
  <2>1. DataOK /\ HandlersOK
    BY TypeParts
  <2>2. HandlersOK'
    BY <2>1, HandlersStep
  <2>3. OneAnswering'
    BY <2>1, OneAnsweringStep
  <2>4. puts' = 0 => ConfigurationParts'
    BY <2>1, <2>2, NeverWritten, InvParts, ConfigurationStep
  <2>5. ConfigurationInv'
    BY <2>4 DEF ConfigurationInv, ConfigurationParts, OneConfiguration
  <2> QED BY <2>3, <2>5
<1>3. ConfigurationInv => OneConfiguration
  BY DEF ConfigurationInv, OneConfiguration
<1> QED BY TypeCorrect, <1>1, <1>2, <1>3, PTL DEF Spec

-----------------------------------------------------------------------------
(* The part of PendingEnds that no fairness is needed for.                 *)

(* A handler configures the station, or its next boot will be accepted.    *)
GoesOn == (\E h \in Handlers : pc[h] \in Configuring) \/ DetermineBootStatus(row) = Accepted
PendingGoesOn == Quiet /\ told = Pending /\ ~dropped /\ ~failed /\ puts = 0 => GoesOn

(* A cached Pending stands for a configuration that goes on or is about to *)
(* start; what is configured was read as pending, so that its acceptance   *)
(* is saved.                                                               *)
PendingParts ==
  /\ \A h \in Handlers :
       /\ pc[h] \in Answering /\ row = None => status[h] = DetermineBootStatus(None)
       /\ pc[h] \in Configuring => entity[h] = Pending
  /\ ~failed /\ bootStatus = Pending =>
       GoesOn \/ \E h \in Handlers : pc[h] = "update" /\ Configure(h)
PendingInv == puts = 0 => PendingParts

LEMMA PendingStep ==
  ASSUME ~Overlap, DataOK, HandlersOK, OneAnswering, ConfigurationParts, PendingParts,
         [Next]_vars, puts = 0, puts' = 0
  PROVE  PendingParts'
<1> USE DEF HandlersOK
<1>1. CASE UNCHANGED vars
  BY <1>1 DEF PendingParts, GoesOn, Configure, vars, rowVars, cacheVars, localVars, historyVars
<1>2. ASSUME NEW h \in Handlers, Boot(h) PROVE PendingParts'
  <2>1. /\ pc[h] = "idle" /\ pc'[h] = "look" /\ status'[h] = DetermineBootStatus(row)
        /\ \A g \in Handlers : /\ pc[g] \notin Answering
                               /\ g # h => pc'[g] = pc[g]
        /\ UNCHANGED <<row, bootStatus, cached, entity, failed>>
    BY <1>2 DEF Boot, Goto, rowVars, cacheVars, historyVars
  <2>2. GoesOn => GoesOn'
    BY <2>1, Places DEF GoesOn
  <2> QED BY <2>1, <2>2, Places DEF PendingParts, Answering
<1>3. ASSUME NEW h \in Handlers,
             \/ ReadCachedStatus(h) \/ CachePermissions(h) \/ SendResponse(h) \/ UpdateDeviceModel(h)
             \/ CacheBootStatus(h)
      PROVE  PendingParts'
  <2>1. /\ pc[h] \in Answering /\ pc[h] # "update" /\ pc'[h] \in Answering \union {"idle"}
        /\ \A g \in Handlers : g # h => pc[g] \notin Answering /\ pc'[g] = pc[g]
        /\ UNCHANGED <<row, status, entity, failed>>
    BY <1>3 DEF OneAnswering, Goto, Answering, ReadCachedStatus, CachePermissions, SendResponse,
       UpdateDeviceModel, CacheBootStatus, rowVars, localVars, historyVars
  <2>2. bootStatus' = Pending => bootStatus = Pending \/ (pc'[h] = "update" /\ Configure(h)')
    <3>1. CASE ReadCachedStatus(h) \/ SendResponse(h) \/ UpdateDeviceModel(h)
      BY <3>1 DEF ReadCachedStatus, SendResponse, UpdateDeviceModel, cacheVars
    <3>2. CASE CachePermissions(h)
      BY <3>2, BootAssumption DEF CachePermissions, Statuses
    <3>3. CASE CacheBootStatus(h)
      BY <3>3 DEF CacheBootStatus, Configure, Goto, localVars
    <3> QED BY <1>3, <3>1, <3>2, <3>3
  <2>3. GoesOn => GoesOn'
    BY <2>1, Places DEF GoesOn
  <2>4. \A g \in Handlers : pc[g] # "update"
    BY <2>1 DEF Answering
  <2> QED BY <2>1, <2>2, <2>3, <2>4, Places DEF PendingParts
<1>4. ASSUME NEW h \in Handlers, UpdateBootConfig(h) PROVE PendingParts'
  <2>1. /\ pc[h] = "update" /\ pc[h] \in Answering
        /\ \A g \in Handlers : g # h => /\ pc[g] \notin Answering
                                        /\ pc'[g] = pc[g] /\ entity'[g] = entity[g]
        /\ UNCHANGED <<bootStatus, status, cached, failed>>
    BY <1>4 DEF OneAnswering, Goto, Answering, UpdateBootConfig, cacheVars, historyVars
  <2>2. row' = IF row = None THEN [status |-> status[h], getBaseReportOnPending |-> "default"] ELSE row
    BY <1>4 DEF UpdateBootConfig
  <2>3. entity'[h] = row'.status
    BY <1>4 DEF UpdateBootConfig
  <2>4. CASE Configure(h)
    <3>1. /\ status[h] = Pending
          /\ Wanted \/ Unwritten
      BY <2>1, <2>4 DEF ConfigurationParts, Configure, CachedOf
    <3>2. entity'[h] = Pending
      BY <2>2, <2>3, <3>1 DEF Wanted, Unwritten
    <3>3. pc'[h] \in Configuring
      BY <1>4, <2>4 DEF UpdateBootConfig, Goto, Configuring
    <3> QED BY <2>1, <3>2, <3>3, Places DEF PendingParts, GoesOn
  <2>5. CASE ~Configure(h)
    <3>1. pc'[h] = "idle"
      BY <1>4, <2>5 DEF UpdateBootConfig, Goto
    <3>2. DetermineBootStatus(row) = Accepted => DetermineBootStatus(row') = Accepted
      <4>1. CASE row = None
        <5>1. status[h] = DetermineBootStatus(None)
          BY <2>1, <4>1 DEF PendingParts
        <5>2. row' # None
          BY <2>2, <4>1, BootAssumption DEF Rows
        <5> QED BY <2>2, <4>1, <5>1, <5>2 DEF DetermineBootStatus, Accepted, Pending
      <4> QED BY <2>2, <4>1
    <3>3. GoesOn => GoesOn'
      BY <2>1, <3>1, <3>2, Places DEF GoesOn
    <3>4. ~failed /\ bootStatus = Pending => GoesOn
      BY <2>1, <2>5, Places DEF PendingParts
    <3> QED BY <2>1, <3>1, <3>3, <3>4, Places DEF PendingParts
  <2> QED BY <2>4, <2>5
<1>5. ASSUME NEW h \in Handlers, SaveReported(h) PROVE PendingParts'
  <2>1. /\ pc[h] = "confirmed" /\ pc'[h] = "accept"
        /\ \A g \in Handlers : g # h => pc'[g] = pc[g]
        /\ UNCHANGED <<bootStatus, status, cached, entity, failed>>
    BY <1>5 DEF SaveReported, Goto, cacheVars, localVars, historyVars
  <2>2. pc[h] \in Configuring /\ pc'[h] \in Configuring
    BY <2>1 DEF Configuring
  <2>3. row # None
    BY <2>1 DEF ConfigurationParts, Reporting, Configuring, Wanted
  <2>4. row' # None
    BY <1>5, <2>3, BootAssumption DEF SaveReported, DataOK, Rows
  <2> QED BY <2>1, <2>2, <2>4, Places DEF PendingParts, GoesOn
<1>6. ASSUME NEW h \in Handlers, SaveAccepted(h) PROVE PendingParts'
  <2>1. /\ pc[h] = "accept" /\ pc'[h] = "idle"
        /\ \A g \in Handlers : g # h => pc'[g] = pc[g]
        /\ UNCHANGED <<bootStatus, status, cached, entity, failed>>
    BY <1>6 DEF SaveAccepted, Goto, cacheVars, localVars, historyVars
  <2>2. pc[h] \in Configuring /\ row # None
    BY <2>1 DEF ConfigurationParts, Configuring
  <2>3. row' = [row EXCEPT !.status = Accepted] /\ row \in Rows
    BY <1>6, <2>2 DEF SaveAccepted, PendingParts, DataOK, Accepted, Pending
  <2>4. row' # None /\ row'.status = Accepted
    BY <2>3, BootAssumption DEF Rows, Statuses
  <2>5. GoesOn'
    BY <2>4 DEF GoesOn, DetermineBootStatus, Accepted, Pending
  <2> QED BY <2>1, <2>4, <2>5, Places DEF PendingParts
<1>7. ASSUME \/ \E h \in Handlers :
                  \/ CreateGetBaseReportRequest(h) \/ SendGetBaseReport(h) \/ WaitForReport(h)
                  \/ ReportTimeout(h)
             \/ HandleNotifyReport \/ ReportExpires \/ Tick
      PROVE  PendingParts'
  <2>1. AnswerFrame /\ row' = row /\ entity' = entity
    BY <1>7, OtherSteps DEF CreateGetBaseReportRequest, SendGetBaseReport, WaitForReport, ReportTimeout,
       HandleNotifyReport, ReportExpires, Tick, rowVars, localVars
  <2>2. \A g \in Handlers : /\ pc'[g] \in Configuring => pc[g] \in Configuring
                            /\ ~failed' /\ pc[g] \in Configuring => pc'[g] \in Configuring
    BY <1>7 DEF CreateGetBaseReportRequest, SendGetBaseReport, WaitForReport, ReportTimeout,
       HandleNotifyReport, ReportExpires, Tick, AfterWait, Goto, Configuring, DataOK
  <2>3. ~failed' => ~failed
    BY <1>7, Zenon DEF CreateGetBaseReportRequest, SendGetBaseReport, WaitForReport, ReportTimeout,
       HandleNotifyReport, ReportExpires, Tick, historyVars
  <2>4. ~failed' /\ GoesOn => GoesOn'
    BY <2>1, <2>2 DEF GoesOn
  <2> QED BY <2>1, <2>2, <2>3, <2>4 DEF PendingParts, AnswerFrame, Configure, Answering
<1>8. ~(PutBootConfig \/ DeleteBootConfig)
  BY DEF PutBootConfig, DeleteBootConfig
<1> QED BY <1>1, <1>2, <1>3, <1>4, <1>5, <1>6, <1>7, <1>8, Zenon DEF Next, Run

(* A station that was told it is pending is not forgotten, if boots do not *)
(* overlap: between its boots either a handler is still configuring it, or *)
(* the row accepts it at the next boot, unless a handler or the            *)
(* configuration threw or an operator wrote the row.                       *)
THEOREM PendingNotForgotten ==
  ASSUME ~Overlap
  PROVE  Spec => []PendingGoesOn
<1>1. Init => AnswerInv /\ ConfigurationInv /\ PendingInv
  <2> SUFFICES ASSUME Init PROVE AnswerInv /\ ConfigurationInv /\ PendingInv
    OBVIOUS
  <2>1. \A h \in Handlers : pc[h] = "idle" /\ pc[h] \notin Answering /\ pc[h] \notin Configuring
    BY Places DEF Init
  <2>2. AnswerInv
    BY <2>1 DEF Init, AnswerInv, Agrees, Quiet, OneAnswering
  <2>3. ConfigurationInv
    BY <2>1 DEF Init, ConfigurationInv, OneConfiguration, Reporting, Configuring
  <2>4. PendingInv
    BY <2>1, BootAssumption DEF Init, PendingInv, PendingParts, Statuses
  <2> QED BY <2>2, <2>3, <2>4
<1>2. TypeOK /\ TypeOK' /\ AnswerInv /\ ConfigurationInv /\ PendingInv /\ [Next]_vars
        => (AnswerInv /\ ConfigurationInv /\ PendingInv)'
  <2> SUFFICES ASSUME TypeOK, TypeOK', AnswerInv, ConfigurationInv, PendingInv, [Next]_vars
               PROVE  (AnswerInv /\ ConfigurationInv /\ PendingInv)'
    OBVIOUS
  <2>1. DataOK /\ HandlersOK /\ BooleansOK /\ OneAnswering
    BY TypeParts DEF AnswerInv
  <2>2. HandlersOK'
    BY <2>1, HandlersStep
  <2>3. AnswerInv'
    BY <2>1, <2>2, AnswerStep
  <2>4. ASSUME puts' = 0 PROVE ConfigurationParts' /\ PendingParts'
    <3>1. puts = 0
      BY <2>1, <2>4, NeverWritten
    <3>2. ConfigurationParts /\ PendingParts
      BY <3>1, InvParts DEF PendingInv
    <3> QED BY <2>1, <2>2, <2>4, <3>1, <3>2, ConfigurationStep, PendingStep
  <2>5. ConfigurationInv' /\ PendingInv'
    BY <2>4 DEF ConfigurationInv, ConfigurationParts, OneConfiguration, PendingInv
  <2> QED BY <2>3, <2>5
<1>3. AnswerInv /\ PendingInv => PendingGoesOn
  <2> SUFFICES ASSUME AnswerInv, PendingInv, Quiet, told = Pending, ~dropped, ~failed, puts = 0 PROVE GoesOn
    BY DEF PendingGoesOn
  <2>1. bootStatus = Pending
    BY BootAssumption DEF AnswerInv, Agrees, Accepted, Pending, Statuses
  <2>2. \A h \in Handlers : pc[h] # "update"
    BY DEF Quiet, Answering
  <2> QED BY <2>1, <2>2 DEF PendingInv, PendingParts
<1> QED BY TypeCorrect, <1>1, <1>2, <1>3, PTL DEF Spec
===============================================================================
