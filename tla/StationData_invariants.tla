------------------------ MODULE StationData_invariants ------------------------
(***************************************************************************)
(* What is true of each part of StationData in the middle of things: the   *)
(* invariants that the proofs go by.  They say of every place a handler    *)
(* can be at that what it has read, and has still to write, is right.      *)
(***************************************************************************)
EXTENDS StationData

-----------------------------------------------------------------------------
(* Display messages. *)

DisplayTypeOK == Display!TypeOK

(* The rows are about to be made right about a message: they will be made  *)
(* inactive, or a notification of it is asked for or not handled yet.      *)
DisplayPending(r, d) ==
  \/ Display!At(r, "accepted") \/ Display!At(r, "deactivated")
  \/ notified[r].pc = "asked"
  \/ notified[r].pc = "notified" /\ d \in notified[r].displays

(* A call that is not over has asked for nothing yet.  The row of a message *)
(* that is shown is active or will be; that of one that is not is inactive, *)
(* or will be, and nothing will make it active again.                       *)
AskedWhenOver ==
  \A r \in Display!Requests :
    displayCall[r] = None \/ displayCall[r].pc # "over" => notified[r].pc = "none"
ShownIsActive ==
  \A d \in shown \ outdated :
    active[d] = TRUE \/ \E r \in Display!Requests : DisplayPending(r, d)
GoneIsForgotten ==
  \A d \in Displays \ (shown \union outdated), r \in Display!Requests :
    notified[r].pc = "notified" => d \notin notified[r].displays
GoneIsInactive ==
  \A d \in Displays \ (shown \union outdated) :
    active[d] # TRUE \/ \E r \in Display!Requests : Display!At(r, "accepted")
DisplayInv == AskedWhenOver /\ ShownIsActive /\ GoneIsForgotten /\ GoneIsInactive

-----------------------------------------------------------------------------
(* Charging profiles. *)

ProfileTypeOK == Profile!TypeOK

(* The row of a profile is about to be made right: a set that has stored   *)
(* it inactive is not answered, the active rows will be or have been made  *)
(* inactive, or a report of it is asked for or not handled yet.            *)
ProfilePending(c, p) ==
  \/ /\ Profile!At(c, "Set", "checked") \/ Profile!At(c, "Set", "sent")
     /\ profileCall[c].profile = p
  \/ /\ profileCall[c] # None /\ profileCall[c].action # "Get"
     /\ profileCall[c].pc \in {"accepted", "deactivated"}
     /\ p \in Profile!Scope(c)
  \/ report[c].pc \in {"asked", "reported"} /\ p \in report[c].profiles

(* A call that is not over has asked for no report yet, and sets profiles  *)
(* of the CSMS only.                                                       *)
ReportWhenOver ==
  \A c \in Profile!ProfileCalls :
    /\ profileCall[c] = None \/ profileCall[c].pc # "over" => report[c].pc = "none"
    /\ profileCall[c] # None /\ profileCall[c].action = "Set" => profileCall[c].profile \in CSO
InstalledIsActive ==
  \A p \in installed \ stale :
    isActive[p] = TRUE \/ \E c \in Profile!ProfileCalls : ProfilePending(c, p)
ClearedIsForgotten ==
  \A p \in Profile!Profiles \ (installed \union stale) : ~Profile!Unhandled(p)
ClearedIsInactive ==
  \A p \in Profile!Profiles \ (installed \union stale) :
    \/ isActive[p] # TRUE
    \/ \E c \in Profile!ProfileCalls :
         /\ Profile!At(c, "Set", "accepted") \/ Profile!At(c, "Clear", "accepted")
         /\ p \in Profile!Scope(c)
ProfileInv == ReportWhenOver /\ InstalledIsActive /\ ClearedIsForgotten /\ ClearedIsInactive

-----------------------------------------------------------------------------
(* Webhooks. *)

WebhookTypeOK == Webhook!TypeOK

Ended(k) ==
  \/ registration[k].pc \in {"none", "closed"}
  \/ registration[k].pc = "open" /\ k \in abandoned
Claims(k) == registration[k].pc = "open" /\ k \notin abandoned

(* A connection is registered when those before it are closing, closed or  *)
(* abandoned; an abandoned one never closes; a refresh that runs reads, or *)
(* has read.                                                               *)
ConnectionsInOrder ==
  /\ \A k \in Webhook!Connections : registration[k].pc # "none" =>
       \A j \in Webhook!Connections :
         j < k => registration[j].pc \in {"closing", "closed"} \/ j \in abandoned
  /\ \A k \in abandoned : registration[k].pc \in {"reading", "read", "connected", "open"}
  /\ refresh = Webhook!NoLoad \/ refresh.pc \in {"reading", "read"}

(* Undisturbed, at most one connection has not ended, none is registered   *)
(* after one that still loads, and a refresh runs beside an open one or    *)
(* for what an abandoned one has left.                                     *)
OneRuns ==
  ~raced /\ ~failedLoad =>
    /\ \A j, k \in Webhook!Connections : ~Ended(j) /\ ~Ended(k) => j = k
    /\ \A j, k \in Webhook!Connections :
         registration[k].pc \in {"reading", "read", "connected"} /\ j > k =>
           registration[j].pc = "none"
    /\ refresh # Webhook!NoLoad =>
         /\ \A k \in Webhook!Connections : registration[k].pc \in {"none", "open", "closed"}
         /\ ~Webhook!Cleaned \/ \E k \in Webhook!Connections : Claims(k)

(* And then what has been read or set last is what the rows say, unless    *)
(* they were changed since; what is left of a connection goes with it, or  *)
(* with the next one that is deregistered.                                 *)
InEffect ==
  ~raced /\ ~failedLoad =>
    /\ \A k \in Webhook!Connections :
         /\ registration[k].pc = "read" /\ ~changed => registration[k].seen = subscriptions
         /\ registration[k].pc = "connected" \/ Claims(k) =>
              /\ callbacks # None
              /\ ~changed /\ refresh.pc # "read" => callbacks = subscriptions
         /\ Claims(k) => identified
    /\ refresh.pc = "read" /\ ~changed => refresh.seen = subscriptions
    /\ (\A k \in Webhook!Connections : Ended(k)) /\ Webhook!Cleaned =>
         ~identified /\ callbacks = None

(* A message finds the other one only when that is stored, and stays.      *)
(* Whichever of the two finds the other gives the result its action.       *)
FoundIsStored ==
  \A x \in Exchanges, side \in Webhook!Sides :
    message[x][side].pc \in {"looked", "stored"} /\ message[x][side].found =>
      message[x][Webhook!OtherSide(side)].pc = "stored"
ActionGiven ==
  \A x \in Exchanges :
    /\ message[x]["call"].pc = "stored" => message[x]["call"].action
    /\ message[x]["result"].pc = "stored" /\ message[x]["result"].found =>
         message[x]["result"].action
    /\ message[x]["call"].pc = "stored" /\ message[x]["call"].found =>
         message[x]["result"].action
WebhookInv ==
  ConnectionsInOrder /\ OneRuns /\ InEffect /\ FoundIsStored /\ ActionGiven

-----------------------------------------------------------------------------
(* Installed certificates. *)

HashTypeOK == Hashes!TypeOK

OfType(t) == {c \in Certificates : CertificateType[c] = t}
Sure == Hashes!Types \ unsure

(* One answer at a time is about a type we are sure of, and it has what is *)
(* on the station.  The rows of the type are gone when they have been      *)
(* deleted, and right when no answer is being written.                     *)
OneWriter ==
  \A t \in Sure, q, b \in Hashes!IdCalls : Hashes!Writing(q, t) /\ Hashes!Writing(b, t) => q = b
FoundIsThere ==
  \A t \in Sure, q \in Hashes!IdCalls :
    Hashes!Writing(q, t) => \A c \in OfType(t) : c \in idCall[q].found <=> c \in certificates
RowsDeleted ==
  \A t \in Sure, q \in Hashes!IdCalls :
    Hashes!Writing(q, t) /\ Hashes!At(q, "deleted") => \A c \in OfType(t) : hashRows[c] = 0
RowsRight ==
  \A t \in Sure :
    (\A q \in Hashes!IdCalls : ~Hashes!Writing(q, t)) =>
      \A c \in OfType(t) : hashRows[c] = IF c \in certificates THEN 1 ELSE 0
HashInv == OneWriter /\ FoundIsThere /\ RowsDeleted /\ RowsRight

-----------------------------------------------------------------------------
(* The device model. *)

(* What a call sends is a value. *)
DeviceTypeOK ==
  /\ Device!TypeOK
  /\ \A c \in Device!Sets :
       Device!SetAt(c, "stored") \/ Device!SetAt(c, "sent") => setCall[c].value \in Values

SetRuns(c) == setCall[c] # None /\ setCall[c].pc # "over"
ReadRuns(q) == valueRead[q] # None /\ valueRead[q].pc # "over"

(* Unless the row may be wrong, one call or answer runs at a time, and the *)
(* values it goes by and the row are right for the step it is at.  The     *)
(* value of the last Accepted status is right unless a status with another *)
(* is about to be recorded.                                                *)
OneMoves ==
  /\ \A c \in Device!Sets, b \in Device!Sets : SetRuns(c) /\ SetRuns(b) => c = b
  /\ \A q \in Device!Reads, b \in Device!Reads : ReadRuns(q) /\ ReadRuns(b) => q = b
  /\ \A c \in Device!Sets, q \in Device!Reads : ~(SetRuns(c) /\ ReadRuns(q))
Good == {actual, None}
SetRight ==
  \A c \in Device!Sets :
    /\ SetRuns(c) => lastAccepted \in Good \/ Device!SetAt(c, "accepted") \/ Device!SetAt(c, "readAccepted")
    /\ Device!SetAt(c, "stored") \/ Device!SetAt(c, "sent") => attribute = setCall[c].value
    /\ Device!SetAt(c, "accepted") => attribute = actual
    /\ Device!SetAt(c, "readAccepted") => attribute = actual /\ setCall[c].seen = actual
    /\ Device!SetAt(c, "readRefused") => setCall[c].seen = attribute
    /\ Device!SetAt(c, "restoring") => setCall[c].seen = attribute /\ setCall[c].value \in Good
ReadRight ==
  \A q \in Device!Reads :
    /\ Device!ReadAt(q, "refused") => lastAccepted \in Good /\ valueRead[q].value = None
    /\ Device!ReadAt(q, "reported") \/ Device!ReadAt(q, "got") => valueRead[q].value = actual
    /\ Device!ReadAt(q, "noticed") => lastAccepted \in Good /\ valueRead[q].value = actual
    /\ Device!ReadAt(q, "stored") => attribute = actual
    /\ Device!ReadAt(q, "answered") => attribute = actual /\ valueRead[q].value = actual
IdleRight == Device!SetsOver /\ Device!ReadsOver => attribute \in Good /\ lastAccepted \in Good
DeviceInv == ~drifted => OneMoves /\ SetRight /\ ReadRight /\ IdleRight

-----------------------------------------------------------------------------
(* Statuses of connectors. *)

StatusTypeOK == Status!TypeOK

StatusRuns(n) == handler[n] # None /\ handler[n].pc # "over"

(* Notifications are numbered in the order they come.  A handler deletes   *)
(* rows of its own connector only, and the rows of a connector are gone    *)
(* only while one replaces them.                                           *)
InSequence ==
  \A m, n \in Status!Notifications : m < n /\ handler[n] # None => handler[m] # None
LatestCame == \A m \in latest : handler[m] # None
DeletesOwn ==
  \A n \in Status!Notifications :
    toDelete[n] # {} => handler[n] # None /\ \A m \in toDelete[n] : Status!Of(m, handler[n].connector)
HasLatest ==
  \A c \in Connectors \ failed, n \in Status!Notifications :
    Status!Stored(n) /\ Status!Of(n, c) /\ ~Status!Replacing(c) => \E m \in latest : Status!Of(m, c)

(* While no handlers have met, the one that runs is the last, and the rows *)
(* of a connector are those of its last notification as far as it is       *)
(* handled.                                                                *)
LastRuns ==
  \A c \in Connectors \ overlapped, m, n \in Status!Notifications :
    StatusRuns(n) /\ handler[m] # None => m <= n
LastRead ==
  \A c \in Connectors \ (overlapped \union failed), n \in Status!Notifications :
    Status!At(n, "read") /\ Status!Of(n, c) =>
      \A m \in latest : Status!Of(m, c) => m \in toDelete[n]
LastDeleted ==
  \A c \in Connectors \ (overlapped \union failed), n \in Status!Notifications :
    Status!At(n, "deleted") /\ Status!Of(n, c) => \A m \in latest : ~Status!Of(m, c)
LastIsLatest ==
  \A c \in Connectors \ (overlapped \union failed), n \in Status!Notifications :
    Status!IsLast(n, c) /\ Status!Stored(n) =>
      n \in latest /\ \A m \in latest : Status!Of(m, c) => m = n
LastOnRow ==
  \A c \in Connectors \ (overlapped \union failed), n \in Status!Notifications :
    /\ Status!IsLast(n, c) /\ (Status!At(n, "connector") \/ Status!At(n, "over")) =>
         Status!Shared(c) \/ connectorStatus[ConnectorId[c]] = n
    /\ Status!IsLast(n, c) /\ Status!At(n, "over") => availability[c] = n
StatusInv ==
  /\ InSequence /\ LatestCame /\ DeletesOwn /\ HasLatest
  /\ LastRuns /\ LastRead /\ LastDeleted /\ LastIsLatest /\ LastOnRow

-----------------------------------------------------------------------------
(* The decisions about a token. *)

CheckRecords ==
  [action : Auth!Actions, token : Auth!IdTokens, pc : {"received", "asking", "answered"},
   seen : Auth!AuthorizationRows \union {None}, verdict : Auth!Verdicts \union {None},
   evses : SUBSET Evses, status : Auth!Statuses \union {None}]
AuthTypeOK ==
  /\ authorization \in Auth!AuthorizationRows \union {None}
  /\ check \in [Auth!Checks -> CheckRecords \union {None}]

(* The EVSEs of an accepted driver have a type that is allowed. *)
EvsesAllowed(c) ==
  check[c].action = "Authorize" /\ check[c].seen.allowedTypes # None =>
    /\ check[c].evses # {}
    /\ \A e \in check[c].evses : \E i \in DOMAIN check[c].seen.allowedTypes :
         TypeOf[e] = check[c].seen.allowedTypes[i]

(* While the partner is asked nothing is against the token. *)
AskingRight ==
  \A c \in Auth!Checks : check[c] # None /\ check[c].pc = "asking" =>
    /\ check[c].seen # None
    /\ check[c].seen.status # None =>
         /\ check[c].seen.status = "Accepted" /\ ~check[c].seen.expired
         /\ EvsesAllowed(c)
    /\ check[c].seen.realTime # "Allowed"
AuthInv == AskingRight /\ Auth!OneDecision

-----------------------------------------------------------------------------
(* OCPP 1.6 boots. *)

Boot16TypeOK ==
  Boot16!TypeOK /\ \A b \in Boot16!Boots : Boot16!At(b, "wait") => boot[b].left > 0

(* Who speaks of a configuration that was sent: a boot that has noted none *)
(* as not sent, the row's flags, and an acceptance in the row, under way   *)
(* or answered.                                                            *)
UnsentIsNoted ==
  \A b \in Boot16!Boots :
    /\ b \in unsent => Boot16!At(b, "change") \/ Boot16!At(b, "wait")
    /\ Boot16!At(b, "change") \/ Boot16!At(b, "wait") =>
         (b \in unsent => boot[b].changeOnPending)
FlagsRight ==
  /\ \A b \in Boot16!Boots : Boot16!At(b, "flags") =>
       boot[b].changeOnPending \/ boot[b].getOnPending \/ configured
  /\ bootRow # None /\ bootRow.changeOnPending = "no" /\ bootRow.getOnPending = "no" => configured
AcceptanceRight ==
  ~overruled /\ UnknownChargerStatus # "Accepted" =>
    /\ bootTold = "Accepted" => configured
    /\ bootRow # None /\ bootRow.status = "Accepted" => configured
    /\ \A b \in Boot16!Answering : boot[b].status = "Accepted" => configured

(* Unless boots met: one is answered at a time, and the permissions and    *)
(* the cached status are those of the last answer, or on their way to the  *)
(* next.                                                                   *)
OneAnswered == ~mixed => \A a, b \in Boot16!Answering : a = b
Barred(told) == IF told \in {"Accepted", None} THEN barred = {} ELSE "other" \in barred
Cached(told) == bootCache = IF told = "Accepted" THEN None ELSE told
IdleFollows ==
  ~mixed /\ Boot16!Answering = {} =>
    /\ Barred(bootTold) /\ Cached(bootTold)
    /\ ~overruled /\ bootTold # None => bootRow # None /\ bootRow.status = bootTold
NextFollows ==
  ~mixed => \A b \in Boot16!Boots :
    /\ Boot16!At(b, "look") => Barred(bootTold) /\ Cached(bootTold)
    /\ Boot16!At(b, "permit") => Barred(bootTold) /\ Cached(bootTold) /\ boot[b].cached = bootCache
    /\ Boot16!At(b, "respond") \/ Boot16!At(b, "cache") =>
         /\ Barred(boot[b].status)
         /\ IF boot[b].status = "Accepted" THEN bootCache = None ELSE boot[b].cached = bootCache
    /\ Boot16!At(b, "record") => Barred(boot[b].status) /\ Cached(boot[b].status)
    /\ Boot16!At(b, "cache") \/ Boot16!At(b, "record") => bootTold = boot[b].status
Boot16Inv == UnsentIsNoted /\ FlagsRight /\ AcceptanceRight /\ OneAnswered /\ IdleFollows /\ NextFollows

-----------------------------------------------------------------------------
(* Reservations. *)

BookingTypeOK == Booking!TypeOK

(* A reservation has one row, and a call is about one that has.            *)
OneRow ==
  \A j, k \in Booking!Keys :
    rows[j] # None /\ rows[k] # None /\ rows[j].station = rows[k].station /\ rows[j].id = rows[k].id => j = k
CallsHaveRows ==
  \A c \in Booking!Calls : call[c] # None =>
    \E k \in Booking!Keys : Booking!Matches(k, call[c].station, call[c].id)

Said(c, s, i) ==
  /\ call[c] # None /\ call[c].station = s /\ call[c].id = i
  /\ call[c].status \in {"Accepted", "Rejected"}
Reserving(s, i) ==
  \E c \in Booking!Calls : /\ call[c] # None /\ call[c].station = s /\ call[c].id = i
                           /\ call[c].action = "ReserveNow" /\ call[c].status = "sent"

(* What is not handled is the last the station has said of a reservation.  *)
SaidLast ==
  ~crossed => \A s \in Stations, i \in Booking!Ids :
    /\ notice[<<s, i>>] # "none" =>
         <<s, i>> \notin held /\ \A c \in Booking!Calls : ~Said(c, s, i)
    /\ \A c, d \in Booking!Calls : Said(c, s, i) /\ Said(d, s, i) => c = d
    /\ \A c \in Booking!Calls : Said(c, s, i) =>
         /\ call[c].action = "ReserveNow" => (call[c].status = "Accepted" <=> <<s, i>> \in held)
         /\ call[c].action = "CancelReservation" /\ call[c].status = "Accepted" => <<s, i>> \notin held

(* The row of a reservation that is not asked for is right when all that   *)
(* was said of it is handled.                                              *)
RowRight(k) ==
  rows[k] # None =>
    LET s == rows[k].station
        i == rows[k].id
    IN  ~Booking!Unhandled(s, i) /\ ~Reserving(s, i) => (rows[k].isActive <=> <<s, i>> \in held)
ReservationsRight ==
  Booking!KeysAgree /\ ~misread /\ ~crossed => \A k \in Booking!Keys : RowRight(k)
BookingInv == OneRow /\ CallsHaveRows /\ SaidLast /\ ReservationsRight

-----------------------------------------------------------------------------
(* The local authorization list. *)

(* A request is known once it is sent; the row has a key.                  *)
ListTypeOK ==
  /\ AuthList!TypeOK
  /\ \A l \in Lists : listCall[l] \in {"sent", "updating"} \union AuthList!Statuses => request[l] # None
  /\ listRow # None => listRow.id > 0

(* Answers that are not handled: to a list, to a version query.            *)
ListOpen(l) == listCall[l] \in {"Accepted", "Failed", "VersionMismatch", "updating"}
QueryOpen(q) == query[q] \in {"answered", "updating"}

(* The service asks for the version when a list is over.                   *)
AskedWhenDone == \A l \in Lists : query[l] # "none" => listCall[l] = "over"

(* Unless the copy has missed a change, one answer at a time is handled,   *)
(* no other step touches the row meanwhile, and the answer has the version *)
(* of the station, or leaves it as it is.                                  *)
OneOpen ==
  ~disturbed =>
    /\ \A l, m \in Lists : ListOpen(l) /\ ListOpen(m) => l = m
    /\ \A q, p \in AuthList!Queries : QueryOpen(q) /\ QueryOpen(p) => q = p
    /\ \A l \in Lists, q \in AuthList!Queries : ~(ListOpen(l) /\ QueryOpen(q))
ListAnswer ==
  ~disturbed => \A l \in Lists :
    /\ listCall[l] \in {"Accepted", "updating"} => request[l].version = stationList.version
    /\ listCall[l] \in {"Failed", "VersionMismatch"} => AuthList!CopyOfVersion = stationList.version
    /\ listCall[l] = "updating" => listFound[l] = AuthList!FoundRow
QueryAnswered ==
  ~disturbed => \A q \in AuthList!Queries :
    /\ QueryOpen(q) => queryAnswer[q] = stationList.version
    /\ query[q] = "updating" => listFound[q] = AuthList!FoundRow
NoneOpen ==
  ~disturbed /\ (\A l \in Lists : ~ListOpen(l)) /\ (\A q \in AuthList!Queries : ~QueryOpen(q)) =>
    AuthList!CopyOfVersion = stationList.version
ListInv == AskedWhenDone /\ OneOpen /\ ListAnswer /\ QueryAnswered /\ NoneOpen

-----------------------------------------------------------------------------
(* OCPP 1.6 transactions. *)

TxTypeOK == Tx16!TypeOK

(* What is referred to exists; a reading is stored before it is counted.   *)
RefsExist ==
  /\ \A s \in Stations : station[s].tx # None => tx[station[s].tx] # None
  /\ \A n \in Tx16!Starts : start[n] # None /\ start[n].tx # None => tx[start[n].tx] # None
  /\ \A t \in Tx16!TxIds : sample[t].pc # "idle" => tx[t] # None
  /\ \A t \in Tx16!TxIds, a \in Tx16!Attempts : stop[t][a].pc # "none" => tx[t] # None
  /\ \A t \in Tx16!TxIds : sample[t].pc \in {"saved", "computed"} => tx[t].readings # {}

(* A station has a transaction just when it charges or stops, and a start  *)
(* when it has made one; no two have the same.  Starts come in order.      *)
OwnersKnown ==
  /\ \A s \in Stations : station[s].mode \in {"charging", "stopping"} <=> station[s].tx # None
  /\ \A n \in Tx16!Starts : start[n] # None => (start[n].pc = "created" <=> start[n].tx # None)
  /\ \A s, u \in Stations : station[s].tx # None /\ station[s].tx = station[u].tx => s = u
  /\ \A n, m \in Tx16!Starts :
       start[n] # None /\ start[m] # None /\ start[n].tx # None /\ start[n].tx = start[m].tx => n = m
  /\ \A n \in Tx16!Starts, s \in Stations :
       start[n] # None /\ start[n].tx # None => start[n].tx # station[s].tx
  /\ \A n, m \in Tx16!Starts : start[n] # None /\ m < n => start[m] # None

(* Stops come after the charging, the second after the first, and, unless  *)
(* the transaction is hurried, after the readings.                         *)
StopsComeLast ==
  /\ \A s \in Stations, a \in Tx16!Attempts :
       station[s].mode = "charging" => stop[station[s].tx][a].pc = "none"
  /\ \A n \in Tx16!Starts, a \in Tx16!Attempts :
       start[n] # None /\ start[n].tx # None => stop[start[n].tx][a].pc = "none"
  /\ \A s \in Stations : station[s].mode = "stopping" => stop[station[s].tx][1].pc # "none"
  /\ \A t \in Tx16!TxIds :
       /\ stop[t][2].pc # "none" => stop[t][1].pc # "none"
       /\ tx[t] # None /\ tx[t].meterStop # None => stop[t][1].pc # "none"
       /\ t \notin hurried /\ stop[t][1].pc # "none" => sample[t].pc = "idle"

(* Meters run forward. *)
MetersRun ==
  /\ \A n \in Tx16!Starts : start[n] # None /\ start[n].pc # "over" =>
       /\ start[n].meterStart <= meter[start[n].station]
       /\ start[n].tx # None => tx[start[n].tx].meterStart = start[n].meterStart
  /\ \A s \in Stations : station[s].tx # None => tx[station[s].tx].meterStart <= meter[s]
  /\ \A t \in Tx16!TxIds, a \in Tx16!Attempts :
       stop[t][a].pc \notin {"none", "over"} => tx[t].meterStart <= stop[t][a].meterStop

(* The stop that is stored is that of one request, which saves the energy  *)
(* over what it has found; nothing else writes the row then.               *)
StopStored ==
  /\ \A t \in Tx16!TxIds, a \in Tx16!Attempts :
       stop[t][a].pc = "stored" => tx[t].meterStop = stop[t][a].meterStop
  /\ \A t \in Tx16!TxIds, a, b \in Tx16!Attempts :
       stop[t][a].pc = "stored" /\ stop[t][b].pc = "stored" => a = b
  /\ \A t \in Tx16!TxIds : tx[t] # None /\ tx[t].meterStop # None => ~tx[t].active
FoundAsIs ==
  \A t \in Tx16!TxIds \ hurried, a \in Tx16!Attempts :
    stop[t][a].pc = "stored" \/ (stop[t][a].pc = "found" /\ tx[t].meterStop = None) =>
      stop[t][a].seen = tx[t].totalKwh
EnergyRight ==
  \A t \in Tx16!TxIds \ hurried :
    /\ tx[t] # None /\ tx[t].meterStop # None
    /\ \A a \in Tx16!Attempts : stop[t][a].pc # "stored"
    => tx[t].totalKwh = tx[t].meterStop - tx[t].meterStart

(* Unless starts met, the start that runs is the last, its station waits   *)
(* for it, and it is accepted when nothing is active.                      *)
OneStarts ==
  ~astray => \A n \in Tx16!Starts : Tx16!StartRunning(n) =>
    /\ \A m \in Tx16!Starts : start[m] # None => m <= n
    /\ \A m \in Tx16!Starts : Tx16!StartRunning(m) => m = n
    /\ station[start[n].station].mode = "starting" /\ waiting[start[n].station]
OneActive ==
  ~astray =>
    /\ \A t, u \in Tx16!TxIds : Tx16!Active(t) /\ Tx16!Active(u) => t = u
    /\ \A n \in Tx16!Starts, t \in Tx16!TxIds :
         start[n] # None /\ start[n].pc = "accepted" => ~Tx16!Active(t)
Owned(t) ==
  \/ \E s \in Stations : station[s].tx = t
  \/ \E a \in Tx16!Attempts : stop[t][a].pc \notin {"none", "over"}
  \/ \E n \in Tx16!Starts : start[n] # None /\ start[n].tx = t
ActiveOwned == ~astray => \A t \in Tx16!TxIds : Tx16!Active(t) => Owned(t)
TxInv ==
  /\ RefsExist /\ OwnersKnown /\ StopsComeLast /\ MetersRun /\ StopStored /\ FoundAsIs
  /\ EnergyRight /\ OneStarts /\ OneActive /\ ActiveOwned

-----------------------------------------------------------------------------
(* Variable monitors. *)

MonitorTypeOK == Mon!TypeOK

Setting(c, v) == Mon!Open(c, "Set") /\ monitorCall[c].variable = v
IsSet(r) == monitorRow[r].id # None /\ monitors[monitorRow[r].id] = Mon!MonitorOf(monitorRow[r])

(* What a call has read and been answered; a row stays the row of its      *)
(* variable.                                                               *)
CallMade(c) ==
  /\ monitorCall[c].pc \in {"looked", "identified"} => monitorCall[c].action = "Set"
  /\ monitorCall[c].action = "Clear" => monitorCall[c].id # None
  /\ monitorCall[c].found \subseteq Mon!UsedRows
  /\ monitorCall[c].action # "Set" /\ monitorCall[c].pc # "found" => monitorCall[c].found = {}
  /\ monitorCall[c].action = "Set" =>
       /\ Mon!Wanted(c) \in Monitors
       /\ monitorCall[c].pc \in {"looked", "sent"} => monitorCall[c].answer = None
       /\ monitorCall[c].pc = "found" => monitorCall[c].answer = "Accepted"
       /\ monitorCall[c].answer = "Accepted" => monitorCall[c].id # None
       /\ \A r \in monitorCall[c].found : monitorRow[r].variable = monitorCall[c].variable
CallsMade == \A c \in Mon!MonitorCalls : monitorCall[c] # None => CallMade(c)
ReportsMade ==
  \A c \in Mon!MonitorCalls :
    /\ \A x \in monitorReport[c].found : x[2] # None => x[2] \in Mon!RowsOf(x[1].variable)
    /\ \A x \in monitorReport[c].written : x[2] \in Mon!RowsOf(x[1].variable)

(* Of a variable the copy is right about: one call or report at a time is  *)
(* about it, and it has one row when it has a monitor or is to have one.   *)
OneAtATime ==
  \A v \in Mon!Monitored \ doubtful :
    /\ \A c, b \in Mon!MonitorCalls : Setting(c, v) /\ Setting(b, v) => c = b
    /\ ~(Mon!BeingSet(v) /\ Mon!BeingReported(v))
OneMonitorRow ==
  \A v \in Mon!Monitored \ doubtful :
    /\ \A r, s \in Mon!RowsOf(v) : r = s
    /\ \A c \in Mon!MonitorCalls :
         Setting(c, v) /\ monitorCall[c].pc = "looked" /\ monitorCall[c].found = {} =>
           Mon!RowsOf(v) = {}
RowIsThere ==
  \A v \in Mon!Monitored \ doubtful :
    /\ \A i \in Mon!MonitorIds :
         monitors[i] # None /\ monitors[i].variable = v => Mon!RowsOf(v) # {}
    /\ \A c \in Mon!MonitorCalls :
         Setting(c, v) /\ monitorCall[c].pc # "looked" => Mon!RowsOf(v) # {}

(* What is reported is on the station, and so is what is written last; an  *)
(* answer that is handled still holds.                                     *)
ReportHolds ==
  \A c \in Mon!MonitorCalls :
    /\ \A m \in Mon!BeingWritten(c) :
         m.variable \notin doubtful => monitors[m.id] = Mon!MonitorOf(m)
    /\ \A x \in monitorReport[c].found : x[1].variable \notin doubtful => x[2] # None
    /\ \A x \in monitorReport[c].written : x[1].variable \notin doubtful => IsSet(x[2])
SetHeld(c, v) ==
  /\ monitorCall[c].pc # "looked" =>
       \A r \in Mon!RowsOf(v) : monitorRow[r].type = monitorCall[c].type
  /\ monitorCall[c].answer = "Accepted" => monitors[monitorCall[c].id] = Mon!Wanted(c)
  /\ monitorCall[c].answer = "Rejected" =>
       \A i \in Mon!MonitorIds : monitors[i] # Mon!Wanted(c)
  /\ monitorCall[c].pc = "identified" /\ monitorCall[c].answer = "Accepted" =>
       \A r \in monitorCall[c].found : monitorRow[r].id = monitorCall[c].id
SetHolds ==
  \A v \in Mon!Monitored \ doubtful, c \in Mon!MonitorCalls : Setting(c, v) => SetHeld(c, v)
ClearHeld(c, v) ==
  /\ monitors[monitorCall[c].id] # None => monitors[monitorCall[c].id].variable # v
  /\ \A r \in Mon!RowsOf(v) :
       monitorRow[r].id = monitorCall[c].id \/ r \in monitorCall[c].found =>
         /\ monitorRow[r].id = monitorCall[c].id
         /\ ~Mon!BeingSet(v) /\ ~Mon!BeingReported(v)
ClearHolds ==
  \A v \in Mon!Monitored \ doubtful, c \in Mon!MonitorCalls : Mon!Answered(c, "Clear") => ClearHeld(c, v)

(* The row is right, or something is under way that will make it so.       *)
ToBeRejected(c, r) ==
  \/ Mon!At(c, "Base", "answered")
  \/ Mon!At(c, "Clear", "answered") /\ monitorCall[c].id = monitorRow[r].id
  \/ (Mon!At(c, "Clear", "found") \/ Mon!At(c, "Base", "found")) /\ r \in monitorCall[c].found
ToBeReported(c) == Mon!Answered(c, "Base") \/ monitorReport[c].pc = "asked"
AcceptedRight ==
  \A v \in Mon!Monitored \ doubtful : \A r \in Mon!RowsOf(v) :
    monitorRow[r].status = "Accepted" =>
      \/ IsSet(r) \/ Mon!BeingSet(v)
      \/ \E c \in Mon!MonitorCalls : ToBeRejected(c, r)
RejectedRight ==
  \A v \in Mon!Monitored \ doubtful : \A r \in Mon!RowsOf(v) :
    monitorRow[r].status = "Rejected" =>
      \/ ~IsSet(r) \/ Mon!BeingSet(v) \/ Mon!BeingReported(v)
      \/ \E c \in Mon!MonitorCalls : ToBeReported(c)

MonitorInv ==
  /\ CallsMade /\ ReportsMade
  /\ OneAtATime /\ OneMonitorRow /\ RowIsThere
  /\ ReportHolds /\ SetHolds /\ ClearHolds
  /\ AcceptedRight /\ RejectedRight
=============================================================================
