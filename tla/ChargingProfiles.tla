---------------------------- MODULE ChargingProfiles ---------------------------
(***************************************************************************)
(* The charging profiles of one OCPP 2.0.1 station: setChargingProfile,    *)
(* clearChargingProfile and getChargingProfiles of the SmartCharging API,  *)
(* the handlers of their answers, of ReportChargingProfiles and of the     *)
(* requests of an EV, and the ChargingProfile repository.                  *)
(*                                                                         *)
(* The station holds the profiles; the database keeps a copy and says of   *)
(* each row whether it "is set on charger" (isActive).  When the station   *)
(* accepts a change every row is made inactive and the station is asked to *)
(* report; what it reports is active again.                                *)
(***************************************************************************)
EXTENDS Naturals, FiniteSets

CONSTANTS
  CSO,         \* the profiles of the CSMS
  Others,      \* those another source has set on the station
  MaxCalls,    \* bound on the calls made through the API or for an EV
  None

Profiles == CSO \union Others
ProfileCalls == 1..MaxCalls

VARIABLES
  isActive,    \* per profile: isActive of its row, or None
  profileCall, \* the calls, and how far their answers are handled
  report,      \* per call: the reports the station was asked for after it
  installed,   \* the profiles on the station
  stale        \* history: profiles the copy may be wrong about (see the actions)

profileVars == <<isActive, profileCall, report, installed, stale>>

ProfileCall == [action : {"Set", "Clear", "Get"}, profile : Profiles,
                pc : {"checked", "sent", "accepted", "deactivated", "over"}]
Report == [pc : {"none", "asked", "reported"}, profiles : SUBSET Profiles]

TypeOK ==
  /\ isActive \in [Profiles -> BOOLEAN \union {None}]
  /\ profileCall \in [ProfileCalls -> ProfileCall \union {None}]
  /\ report \in [ProfileCalls -> Report]
  /\ installed \subseteq Profiles /\ stale \subseteq Profiles

NoReport == [pc |-> "none", profiles |-> {}]

Init ==
  /\ isActive = [p \in Profiles |-> None]
  /\ profileCall = [c \in ProfileCalls |-> None]
  /\ report = [c \in ProfileCalls |-> NoReport]
  /\ installed = Others /\ stale = Others

NextCall(c) == profileCall[c] = None /\ \A b \in ProfileCalls : b < c => profileCall[b] # None
At(c, action, pc) ==
  profileCall[c] # None /\ profileCall[c].action = action /\ profileCall[c].pc = pc
GoTo(c, pc) == profileCall' = [profileCall EXCEPT ![c].pc = pc]

Unhandled(p) == \E c \in ProfileCalls : report[c].pc = "reported" /\ p \in report[c].profiles

-----------------------------------------------------------------------------
(* The API, and the handlers that answer the requests of an EV.            *)

(* The profile passes the checks and is stored, inactive, with the source  *)
(* CSO; a row the profile has already is overwritten.                      *)
SaveChargingProfile(c, p) ==
  /\ NextCall(c)
  /\ isActive' = [isActive EXCEPT ![p] = FALSE]
  /\ profileCall' = [profileCall EXCEPT ![c] =
                       [action |-> "Set", profile |-> p, pc |-> "checked"]]
  /\ UNCHANGED <<report, installed, stale>>

(* sendCall.  The station is connected, and the call waits until it is     *)
(* free; or it is not, and the call fails.                                 *)
SendSet(c) ==
  /\ At(c, "Set", "checked")
  /\ GoTo(c, "sent")
  /\ UNCHANGED <<isActive, report, installed, stale>>

SetNotSent(c) ==
  /\ At(c, "Set", "checked")
  /\ GoTo(c, "over")
  /\ stale' = stale \union {profileCall[c].profile}
  /\ UNCHANGED <<isActive, report, installed>>

(* A schedule of the EV is set without being stored (NotifyEVChargingSchedule); *)
(* a clear and a request for the profiles change nothing here either.      *)
SendCall(c, action, p) ==
  /\ NextCall(c)
  /\ (action = "Set" => p \in CSO)
  /\ profileCall' = [profileCall EXCEPT ![c] = [action |-> action, profile |-> p, pc |-> "sent"]]
  /\ UNCHANGED <<isActive, report, installed, stale>>

-----------------------------------------------------------------------------
(* The station. *)

(* It accepts a change.  What it has reported of a profile it clears now   *)
(* and the CSMS has not handled yet is out of date.                        *)
Changed(c) == IF profileCall[c].action = "Set" THEN installed \union {profileCall[c].profile}
              ELSE installed \ {profileCall[c].profile}

Accept(c) ==
  /\ At(c, "Set", "sent") \/ At(c, "Clear", "sent")
  /\ GoTo(c, "accepted")
  /\ installed' = Changed(c)
  /\ stale' = stale \union {p \in installed \ Changed(c) : Unhandled(p)}
  /\ UNCHANGED <<isActive, report>>

(* It rejects it, which is logged.  A profile it had been given before     *)
(* stays set on it, but its row is inactive since the API has stored it.   *)
Reject(c) ==
  /\ At(c, "Set", "sent") \/ At(c, "Clear", "sent")
  /\ GoTo(c, "over")
  /\ stale' = IF profileCall[c].action = "Set" THEN stale \union {profileCall[c].profile} ELSE stale
  /\ UNCHANGED <<isActive, report, installed>>

(* It accepts, and the answer is lost or comes too late. *)
AcceptLost(c) ==
  /\ At(c, "Set", "sent") \/ At(c, "Clear", "sent")
  /\ GoTo(c, "over")
  /\ installed' = Changed(c)
  /\ stale' = stale \union {profileCall[c].profile}
  /\ UNCHANGED <<isActive, report>>

(* It answers GetChargingProfiles and reports.  Its report is about the    *)
(* profiles of the sources asked for.                                      *)
SendReport(c, profiles) ==
  /\ report' = [report EXCEPT ![c] = [pc |-> "reported", profiles |-> profiles]]
  /\ stale' = stale \ profiles

AnswerGet(c) ==
  /\ At(c, "Get", "sent")
  /\ GoTo(c, "over")
  /\ SendReport(c, installed)
  /\ UNCHANGED <<isActive, installed>>

AnswerReportRequest(c) ==
  /\ report[c].pc = "asked"
  /\ SendReport(c, installed \intersect report[c].profiles)
  /\ UNCHANGED <<isActive, profileCall, installed>>

LoseReport(c) ==
  /\ report[c].pc = "asked"
  /\ report' = [report EXCEPT ![c] = NoReport]
  /\ stale' = stale \union report[c].profiles
  /\ UNCHANGED <<isActive, profileCall, installed>>

-----------------------------------------------------------------------------
(* The handlers of the answers and of ReportChargingProfiles. *)

\* Mutant: every row of the station is made inactive, whatever its source.
ScopeIsAll(c) == Profiles

(* The sources a change is about: the CSO's for a set, all for a clear. *)
Scope(c) == IF profileCall[c].action = "Set" THEN CSO ELSE Profiles

(* The rows that are active are made inactive, in one statement ... *)
DeactivateProfiles(c) ==
  /\ At(c, "Set", "accepted") \/ At(c, "Clear", "accepted")
  /\ GoTo(c, "deactivated")
  /\ isActive' = [p \in Profiles |->
       IF p \in Scope(c) /\ isActive[p] = TRUE THEN FALSE ELSE isActive[p]]
  /\ stale' = stale \ {p \in Scope(c) \ installed : ~Unhandled(p)}
  /\ UNCHANGED <<report, installed>>

(* The sources GetChargingProfiles asks for. *)
Asked(c) == IF profileCall[c].action = "Set" THEN CSO ELSE Profiles

(* ... and the station is asked to report, if it is connected. *)
RequestReport(c) ==
  /\ At(c, "Set", "deactivated") \/ At(c, "Clear", "deactivated")
  /\ GoTo(c, "over")
  /\ report' = [report EXCEPT ![c] = [pc |-> "asked", profiles |-> Asked(c)]]
  /\ UNCHANGED <<isActive, installed, stale>>

ReportNotRequested(c) ==
  /\ At(c, "Set", "deactivated") \/ At(c, "Clear", "deactivated")
  /\ GoTo(c, "over")
  /\ stale' = stale \union Asked(c)
  /\ UNCHANGED <<isActive, report, installed>>

(* The profiles of a report are stored one by one, as active. *)
StoreReported(c, p) ==
  /\ report[c].pc = "reported" /\ p \in report[c].profiles
  /\ isActive' = [isActive EXCEPT ![p] = TRUE]
  /\ report' = [report EXCEPT ![c].profiles = @ \ {p}]
  /\ UNCHANGED <<profileCall, installed, stale>>

(* The last one stored, the station is answered. *)
AnswerReport(c) ==
  /\ report[c].pc = "reported" /\ report[c].profiles = {}
  /\ report' = [report EXCEPT ![c] = NoReport]
  /\ UNCHANGED <<isActive, profileCall, installed, stale>>

-----------------------------------------------------------------------------
Next ==
  \E c \in ProfileCalls :
    \/ \E p \in CSO : SaveChargingProfile(c, p)
    \/ SendSet(c) \/ SetNotSent(c)
    \/ \E action \in {"Set", "Clear", "Get"}, p \in Profiles : SendCall(c, action, p)
    \/ Accept(c) \/ Reject(c) \/ AcceptLost(c)
    \/ AnswerGet(c) \/ AnswerReportRequest(c) \/ LoseReport(c)
    \/ DeactivateProfiles(c) \/ RequestReport(c) \/ ReportNotRequested(c)
    \/ \E p \in Profiles : StoreReported(c, p)
    \/ AnswerReport(c)

Spec == Init /\ [][Next]_profileVars

-----------------------------------------------------------------------------
(* Properties. *)

ProfilesSettled ==
  \A c \in ProfileCalls :
    (profileCall[c] # None => profileCall[c].pc = "over") /\ report[c].pc = "none"

(* Once all answers and reports are handled, a row is active just when the *)
(* profile is set on the station, although changes, answers and reports    *)
(* of several calls interleave: for every profile about which nothing was  *)
(* lost or rejected, or whose last change has been reported since.         *)
ActiveIsInstalled ==
  ProfilesSettled =>
    \A p \in Profiles \ stale : isActive[p] = TRUE <=> p \in installed
===============================================================================
