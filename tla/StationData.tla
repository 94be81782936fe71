------------------------------- MODULE StationData -----------------------------
(***************************************************************************)
(* What the modules of the CSMS keep about stations, side by side: local   *)
(* authorization lists, reservations, OCPP 1.6 boots and transactions,     *)
(* authorizations, the device model, charging profiles, display messages,  *)
(* statuses of connectors, webhooks, installed certificates and monitors.  *)
(* Each has tables of its own, and no handler of one writes those of       *)
(* another, so each is explored by itself: subject is the one a behaviour  *)
(* is about.  The webhook dispatcher's subscriptions and its messages do   *)
(* not meet either, and are two subjects.                                  *)
(***************************************************************************)
EXTENDS Naturals, FiniteSets

CONSTANTS
  None,
  Stations, MaxCalls, MaxVersion,             \* of several of the modules
  Lists, Operator, Tokens, MaxEntries,        \* LocalAuthList
  MaxId,                                      \* Reservations
  MaxTx, MaxStarts, MaxRepeats, MaxSamples, MaxMeter, \* ChargingTransaction16
  UnknownChargerStatus, Configurations, MaxBoots, MaxWrites, \* BootNotification16
  Evses, TypeOf, Authorizations, MaxChecks, \* Authorizations
  Values, Factory, MaxSets, MaxQueries,       \* DeviceModel
  CSO, Others,                                \* ChargingProfiles
  Displays, MaxRequests,                      \* DisplayMessages
  Connectors, ConnectorId, MaxNotifications, \* StatusNotifications
  MaxConnections, Exchanges,                  \* Webhooks
  Certificates, CertificateType, MaxIdCalls,  \* InstalledCertificates
  Monitors, MaxMonitorId, MaxMonitorRows, MaxMonitorCalls \* VariableMonitors

(* A station comes with a value for its variable. *)
ASSUME FactoryIsValue == Factory \in Values

VARIABLES
  subject,
  listRow, rowId, apiRead, request, listCall, listFound, query, queryAnswer, stationList,
  disturbed,
  rows, call, held, notice, misread, crossed,
  tx, start, sample, stop, station, waiting, meter, hurried, astray,
  bootRow, bootCache, barred, boot, bootTold, writes, mixed, overruled, unsent, configured,
  authorization, check,
  attribute, recorded, lastAccepted, setCall, valueRead, actual, drifted,
  isActive, profileCall, report, installed, stale,
  active, displayCall, notified, shown, outdated,
  handler, latest, toDelete, connectorStatus, availability, awaited, overlapped, failed,
  subscriptions, identified, callbacks, registration, abandoned, refresh, raced, changed,
  failedLoad, message,
  hashRows, idCall, certificates, unsure,
  monitorRow, monitorCall, monitorReport, monitors, doubtful

AuthList == INSTANCE LocalAuthList
Booking == INSTANCE Reservations
Tx16 == INSTANCE ChargingTransaction16
Boot16 == INSTANCE BootNotification16
Auth == INSTANCE Authorizations
Device == INSTANCE DeviceModel
Profile == INSTANCE ChargingProfiles
Display == INSTANCE DisplayMessages
Status == INSTANCE StatusNotifications
Webhook == INSTANCE Webhooks
Hashes == INSTANCE InstalledCertificates
Mon == INSTANCE VariableMonitors

(* None is no value of its own kind. *)
ASSUME NoneIsNoValue ==
  /\ None \notin BOOLEAN
  /\ None \notin Display!DisplayCall
  /\ None \notin Profile!ProfileCall
  /\ None \notin Webhook!Versions
  /\ None \notin Hashes!IdCall
  /\ None \notin Device!SetCall /\ None \notin Device!ValueRead
  /\ None \notin Status!Handler
ASSUME MaxVersionIsNat == MaxVersion \in Nat
ASSUME ListConstants ==
  Operator \notin Lists /\ None \notin AuthList!Row /\ None \notin AuthList!Request
ASSUME BookingConstants ==
  Booking!Ids \subseteq Booking!Keys /\ None \notin Booking!Row /\ None \notin Booking!Call
ASSUME BootConstants ==
  /\ UnknownChargerStatus \in Boot16!BootStatuses /\ Configurations \in Nat /\ MaxWrites \in Nat
  /\ None \notin Boot16!BootStatuses /\ None \notin Boot16!BootRow /\ None \notin Boot16!Boot
ASSUME AuthorizationsAreRows ==
  Authorizations \subseteq Auth!AuthorizationRows /\ None \notin Auth!Statuses
ASSUME TransactionConstants ==
  /\ MaxMeter \in Nat /\ None \notin Tx16!Meter /\ None \notin Tx16!TxIds
  /\ None \notin Tx16!Tx /\ None \notin Tx16!Start
ASSUME MonitorConstants ==
  /\ Monitors \subseteq [variable : Mon!Monitored, type : Mon!MonitorTypes]
  /\ None \notin [variable : Mon!Monitored, type : Mon!MonitorTypes]
  /\ None \notin Mon!Monitored /\ None \notin Mon!MonitorIds /\ None \notin Mon!MonitorRows
  /\ None \notin {"Accepted", "Rejected", "Duplicate"}
  /\ None \notin Mon!MonitorRow /\ None \notin Mon!MonitorCall

listVars ==
  <<listRow, rowId, apiRead, request, listCall, listFound, query, queryAnswer, stationList,
    disturbed>>
reservationVars ==
  <<rows, call, held, notice, misread, crossed>>
transactionVars ==
  <<tx, start, sample, stop, station, waiting, meter, hurried, astray>>
bootVars ==
  <<bootRow, bootCache, barred, boot, bootTold, writes, mixed, overruled, unsent, configured>>
authorizationVars ==
  <<authorization, check>>
deviceVars ==
  <<attribute, recorded, lastAccepted, setCall, valueRead, actual, drifted>>
profileVars ==
  <<isActive, profileCall, report, installed, stale>>
displayVars ==
  <<active, displayCall, notified, shown, outdated>>
statusVars ==
  <<handler, latest, toDelete, connectorStatus, availability, awaited, overlapped, failed>>
subscriptionVars ==
  <<subscriptions, identified, callbacks, registration, abandoned, refresh, raced, changed,
    failedLoad>>
webhookVars == <<subscriptionVars, message>>
certificateVars ==
  <<hashRows, idCall, certificates, unsure>>
monitorVars ==
  <<monitorRow, monitorCall, monitorReport, monitors, doubtful>>

Subjects == {"list", "reservation", "transaction", "boot", "authorization", "device", "profile",
             "display", "status", "webhook", "message", "certificate", "monitor"}

Init ==
  /\ subject \in Subjects
  /\ AuthList!Init /\ Booking!Init /\ Tx16!Init /\ Boot16!Init
  /\ Auth!Init /\ Device!Init /\ Profile!Init /\ Display!Init /\ Status!Init /\ Webhook!Init
  /\ Hashes!Init /\ Mon!Init

vars == <<subject, listVars, reservationVars, transactionVars, bootVars, authorizationVars,
          deviceVars, profileVars, displayVars, statusVars, webhookVars, certificateVars, monitorVars>>

(* All but the subject's variables stay as they are. *)
Only(x) ==
  /\ subject = x /\ subject' = x
  /\ x # "list" => UNCHANGED listVars
  /\ x # "reservation" => UNCHANGED reservationVars
  /\ x # "transaction" => UNCHANGED transactionVars
  /\ x # "boot" => UNCHANGED bootVars
  /\ x # "authorization" => UNCHANGED authorizationVars
  /\ x # "device" => UNCHANGED deviceVars
  /\ x # "profile" => UNCHANGED profileVars
  /\ x # "display" => UNCHANGED displayVars
  /\ x # "status" => UNCHANGED statusVars
  /\ x # "webhook" => UNCHANGED subscriptionVars
  /\ x # "message" => UNCHANGED message
  /\ x # "certificate" => UNCHANGED certificateVars
  /\ x # "monitor" => UNCHANGED monitorVars

Next ==
  \/ Only("list") /\ AuthList!Next
  \/ Only("reservation") /\ Booking!Next
  \/ Only("transaction") /\ Tx16!Next
  \/ Only("boot") /\ Boot16!Next
  \/ Only("authorization") /\ Auth!Next
  \/ Only("device") /\ Device!Next
  \/ Only("profile") /\ Profile!Next
  \/ Only("display") /\ Display!Next
  \/ Only("status") /\ Status!Next
  \/ Only("webhook") /\ Webhook!Next
  \/ Only("message") /\ Webhook!Next
  \/ Only("certificate") /\ Hashes!Next
  \/ Only("monitor") /\ Mon!Next

Spec == Init /\ [][Next]_vars

-----------------------------------------------------------------------------
(* Properties: those of the parts, which the modules comment in full.  A   *)
(* part that is not the subject is in its initial state, and most are only *)
(* evaluated for their subject.                                            *)

(* Of the local authorization list the CSMS has the version the station    *)
(* has, after lists answered in any order and version queries.             *)
VersionFollows == subject = "list" => AuthList!VersionFollows

(* A reservation is active just when its station holds it. *)
ActiveIsHeld == subject = "reservation" => Booking!ActiveIsHeld

(* The idTag has one active OCPP 1.6 transaction, which somebody charges in. *)
NoGhostTransaction == subject = "transaction" => Tx16!NoGhostTransaction

(* A stopped OCPP 1.6 transaction has the energy between its meter values. *)
FinalEnergy == subject = "transaction" => Tx16!FinalEnergy

(* An OCPP 1.6 station is accepted only when it has been configured. *)
AcceptedIsConfigured == subject = "boot" => Boot16!AcceptedIsConfigured

(* What an OCPP 1.6 station may send follows the answer to its last boot. *)
PermissionsFollow == subject = "boot" => Boot16!PermissionsFollow

(* The four handlers that authorize a token decide alike. *)
OneDecision == subject = "authorization" => Auth!OneDecision

(* The device model has the value the station has, or none. *)
ValueIsActual == subject = "device" => Device!ValueIsActual

(* The active charging profiles are those set on the station. *)
ActiveIsInstalled == Profile!ActiveIsInstalled

(* The active display messages are those the station has. *)
ActiveIsShown == Display!ActiveIsShown

(* A connector that has reported a status has a latest one, the last. *)
LatestStatusKnown == subject = "status" => Status!LatestStatusKnown

(* The webhooks of a connected station are those subscribed to, and one    *)
(* that is not connected has none but what a failed registration left.     *)
SubscriptionsInEffect == Webhook!SubscriptionsInEffect

(* Both messages of an exchange are stored with its action. *)
ActionKnown == Webhook!ActionKnown

(* There is a row for each certificate on a station and for no other.      *)
CertificatesKnown == subject = "certificate" => Hashes!CertificatesKnown

(* The monitors marked as accepted are those the station has.              *)
MonitorsKnown == subject = "monitor" => Mon!MonitorsKnown
===============================================================================
