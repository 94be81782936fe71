--------------------------- MODULE StationData_proofs ---------------------------
(***************************************************************************)
(* Proofs about the parts of StationData, for any stations, tokens,        *)
(* messages, profiles, connections and any number of calls.                *)
(***************************************************************************)
EXTENDS StationData_invariants, Integers, WellFoundedInduction, TLAPS

-----------------------------------------------------------------------------
(* A step is one of a part, or leaves the variables of the part alone.  So *)
(* each property is proved of the specification of its part (the lemmas    *)
(* ...Holds), and the theorems about StationData follow.                   *)

LEMMA PartSteps ==
  ASSUME [Next]_vars
  PROVE  /\ Display!Next \/ UNCHANGED displayVars
         /\ Profile!Next \/ UNCHANGED profileVars
         /\ Webhook!Next \/ UNCHANGED webhookVars
         /\ Hashes!Next \/ UNCHANGED certificateVars
         /\ Device!Next \/ UNCHANGED deviceVars
         /\ Status!Next \/ UNCHANGED statusVars
         /\ Tx16!Next \/ UNCHANGED transactionVars
         /\ AuthList!Next \/ UNCHANGED listVars
         /\ Booking!Next \/ UNCHANGED reservationVars
         /\ Boot16!Next \/ UNCHANGED bootVars
         /\ Auth!Next \/ UNCHANGED authorizationVars
         /\ Mon!Next \/ UNCHANGED monitorVars
<1>1. CASE UNCHANGED vars
  BY <1>1 DEF vars
<1>2. CASE Next
  <2>1. ASSUME NEW x \in Subjects, Only(x)
        PROVE  /\ x # "display" => UNCHANGED displayVars
               /\ x # "profile" => UNCHANGED profileVars
               /\ x # "webhook" /\ x # "message" => UNCHANGED webhookVars
               /\ x # "certificate" => UNCHANGED certificateVars
               /\ x # "device" => UNCHANGED deviceVars
               /\ x # "status" => UNCHANGED statusVars
               /\ x # "transaction" => UNCHANGED transactionVars
               /\ x # "list" => UNCHANGED listVars
               /\ x # "reservation" => UNCHANGED reservationVars
               /\ x # "boot" => UNCHANGED bootVars
               /\ x # "authorization" => UNCHANGED authorizationVars
               /\ x # "monitor" => UNCHANGED monitorVars
    BY <2>1, Zenon DEF Only, webhookVars
  <2> QED BY <1>2, <2>1, Zenon DEF Next, Subjects
<1> QED BY <1>1, <1>2, Zenon

(* A behaviour of StationData is a behaviour of each part.                 *)
LEMMA PartsRun ==
  Spec => /\ AuthList!Spec /\ Booking!Spec /\ Tx16!Spec /\ Boot16!Spec /\ Auth!Spec
          /\ Device!Spec /\ Profile!Spec /\ Display!Spec /\ Status!Spec /\ Webhook!Spec
          /\ Hashes!Spec /\ Mon!Spec
<1>1. Init => /\ AuthList!Init /\ Booking!Init /\ Tx16!Init /\ Boot16!Init /\ Auth!Init
              /\ Device!Init /\ Profile!Init /\ Display!Init /\ Status!Init
              /\ Webhook!Init /\ Hashes!Init /\ Mon!Init
  BY DEF Init
<1>2. [Next]_vars => /\ [AuthList!Next]_(AuthList!listVars)
                     /\ [Booking!Next]_(Booking!reservationVars)
                     /\ [Tx16!Next]_(Tx16!tx16Vars) /\ [Boot16!Next]_(Boot16!boot16Vars)
                     /\ [Auth!Next]_(Auth!authorizationVars)
                     /\ [Device!Next]_(Device!deviceVars)
                     /\ [Profile!Next]_(Profile!profileVars)
                     /\ [Display!Next]_(Display!displayVars)
                     /\ [Status!Next]_(Status!statusVars)
                     /\ [Webhook!Next]_(Webhook!webhookVars)
                     /\ [Hashes!Next]_(Hashes!certificateVars)
                     /\ [Mon!Next]_(Mon!monitorVars)
  BY PartSteps, Zenon DEF listVars, reservationVars, transactionVars, bootVars,
     authorizationVars, deviceVars, profileVars, displayVars, statusVars, webhookVars,
     certificateVars, monitorVars,
     AuthList!listVars, Booking!reservationVars, Tx16!tx16Vars, Boot16!boot16Vars,
     Auth!authorizationVars, Device!deviceVars, Profile!profileVars, Display!displayVars,
     Status!statusVars, Webhook!webhookVars, Hashes!certificateVars, Mon!monitorVars,
     Webhook!connectionVars, subscriptionVars
<1> QED BY <1>1, <1>2, PTL DEF Spec, AuthList!Spec, Booking!Spec, Tx16!Spec, Boot16!Spec,
   Auth!Spec, Device!Spec, Profile!Spec, Display!Spec, Status!Spec, Webhook!Spec,
   Hashes!Spec, Mon!Spec

-----------------------------------------------------------------------------
(* Display messages. *)

LEMMA DisplayInit == ASSUME Display!Init PROVE DisplayTypeOK /\ DisplayInv
<1>1. DisplayTypeOK
  BY DEF Display!Init, DisplayTypeOK, Display!TypeOK, Display!Notified, Display!NotNotified
<1>2. DisplayInv
  BY NoneIsNoValue DEF Display!Init, DisplayInv, AskedWhenOver, ShownIsActive,
              GoneIsForgotten, GoneIsInactive, Display!NotNotified
<1> QED BY <1>1, <1>2

LEMMA DisplayType == ASSUME DisplayTypeOK, Display!Next PROVE DisplayTypeOK'
<1> USE DEF DisplayTypeOK, Display!TypeOK, Display!DisplayCall, Display!Notified
<1>1. ASSUME NEW r \in Display!Requests, NEW action \in {"Set", "Clear", "Get"}, NEW d \in Displays,
             Display!SendDisplayCall(r, action, d)
      PROVE  DisplayTypeOK'
  BY <1>1 DEF Display!SendDisplayCall
<1>2. ASSUME NEW r \in Display!Requests,
             Display!Accept(r) \/ Display!Refuse(r) \/ Display!AcceptLost(r)
      PROVE  DisplayTypeOK'
  BY <1>2 DEF Display!Accept, Display!Refuse, Display!AcceptLost, Display!At, Display!GoTo,
              Display!Changed
<1>3. ASSUME NEW r \in Display!Requests, Display!AnswerGet(r) \/ Display!AnswerRequest(r)
      PROVE  DisplayTypeOK'
  BY <1>3, SMTT(60) DEF Display!AnswerGet, Display!AnswerRequest, Display!NotifyMessages, Display!GoTo
<1>4. ASSUME NEW r \in Display!Requests,
             Display!LoseNotification(r) \/ Display!AnswerNotification(r)
      PROVE  DisplayTypeOK'
  BY <1>4 DEF Display!LoseNotification, Display!AnswerNotification, Display!NotNotified
<1>5. ASSUME NEW r \in Display!Requests,
             Display!DeactivateMessages(r) \/ Display!RequestMessages(r)
               \/ Display!MessagesNotRequested(r)
      PROVE  DisplayTypeOK'
  BY <1>5, ZenonT(60) DEF Display!DeactivateMessages, Display!RequestMessages, Display!MessagesNotRequested,
              Display!At, Display!GoTo
<1>6. ASSUME NEW r \in Display!Requests, NEW d \in Displays, Display!StoreMessage(r, d)
      PROVE  DisplayTypeOK'
  BY <1>6 DEF Display!StoreMessage
<1>7. ASSUME NEW d \in Displays, Display!Expire(d) PROVE DisplayTypeOK'
  BY <1>7 DEF Display!Expire
<1> QED BY <1>1, <1>2, <1>3, <1>4, <1>5, <1>6, <1>7, Zenon DEF Display!Next, Display!RequestNext
LEMMA DisplayStep == ASSUME DisplayTypeOK, DisplayInv, Display!Next PROVE DisplayInv'
<1> USE DEF DisplayTypeOK, Display!TypeOK, Display!DisplayCall, Display!Notified
<1> USE NoneIsNoValue
<1>1. ASSUME NEW r \in Display!Requests, NEW action \in {"Set", "Clear", "Get"}, NEW d \in Displays,
             Display!SendDisplayCall(r, action, d)
      PROVE  DisplayInv'
  BY <1>1 DEF Display!SendDisplayCall, DisplayInv, AskedWhenOver, ShownIsActive,
              GoneIsForgotten, GoneIsInactive, DisplayPending, Display!At
<1>2. ASSUME NEW r \in Display!Requests, Display!Accept(r) PROVE DisplayInv'
  <2> USE <1>2 DEF Display!Accept, Display!At, Display!GoTo, Display!Changed, Display!Awaiting, DisplayPending
  <2>1. AskedWhenOver'
    BY DEF DisplayInv, AskedWhenOver
  <2>2. ShownIsActive'
    BY DEF DisplayInv, AskedWhenOver, ShownIsActive
  <2>3. GoneIsForgotten'
    BY DEF DisplayInv, GoneIsForgotten
  <2>4. ASSUME NEW d \in Displays \ (shown' \union outdated')
        PROVE  active'[d] # TRUE \/ \E q \in Display!Requests : Display!At(q, "accepted")'
    <3>1. CASE d \in shown
      <4>1. Display!At(r, "accepted")'
        OBVIOUS
      <4> QED BY <4>1
    <3>2. CASE d \notin shown /\ active[d] # TRUE
      BY <3>2
    <3>3. CASE d \notin shown /\ active[d] = TRUE
      <4>1. d \notin outdated
        OBVIOUS
      <4>2. PICK q \in Display!Requests : Display!At(q, "accepted")
        BY <3>3, <4>1 DEF DisplayInv, GoneIsInactive
      <4>3. Display!At(q, "accepted")'
        BY <4>2
      <4> QED BY <4>3
    <3> QED BY <3>1, <3>2, <3>3
  <2> QED BY <2>1, <2>2, <2>3, <2>4 DEF DisplayInv, GoneIsInactive
<1>3. ASSUME NEW r \in Display!Requests, Display!Refuse(r) PROVE DisplayInv'
  BY <1>3 DEF Display!Refuse, Display!At, Display!GoTo, DisplayInv, AskedWhenOver, ShownIsActive,
              GoneIsForgotten, GoneIsInactive, DisplayPending
<1>4. ASSUME NEW r \in Display!Requests, Display!AcceptLost(r) PROVE DisplayInv'
  BY <1>4 DEF Display!AcceptLost, Display!At, Display!GoTo, Display!Changed,
              DisplayInv, AskedWhenOver, ShownIsActive,
              GoneIsForgotten, GoneIsInactive, DisplayPending
<1>5. ASSUME NEW r \in Display!Requests, Display!AnswerGet(r) PROVE DisplayInv'
  <2> USE <1>5 DEF Display!AnswerGet, Display!NotifyMessages, Display!GoTo, Display!At, DisplayPending
  <2>1. AskedWhenOver'
    BY DEF DisplayInv, AskedWhenOver
  <2>2. ShownIsActive'
    BY DEF DisplayInv, AskedWhenOver, ShownIsActive
  <2>3. GoneIsForgotten'
    BY DEF DisplayInv, GoneIsForgotten
  <2>4. GoneIsInactive'
    BY DEF DisplayInv, GoneIsForgotten, GoneIsInactive
  <2> QED BY <2>1, <2>2, <2>3, <2>4 DEF DisplayInv
<1>6. ASSUME NEW r \in Display!Requests, Display!AnswerRequest(r) PROVE DisplayInv'
  BY <1>6, Zenon DEF Display!AnswerRequest, Display!NotifyMessages, Display!At, DisplayInv, AskedWhenOver, ShownIsActive,
              GoneIsForgotten, GoneIsInactive, DisplayPending
<1>7. ASSUME NEW r \in Display!Requests, Display!LoseNotification(r) PROVE DisplayInv'
  BY <1>7 DEF Display!LoseNotification, Display!NotNotified, Display!At, DisplayInv, AskedWhenOver, ShownIsActive,
              GoneIsForgotten, GoneIsInactive, DisplayPending
<1>8. ASSUME NEW r \in Display!Requests, Display!DeactivateMessages(r) PROVE DisplayInv'
  <2> USE <1>8 DEF Display!DeactivateMessages, Display!At, Display!GoTo, Display!Awaiting, DisplayPending
  <2>1. AskedWhenOver'
    BY DEF DisplayInv, AskedWhenOver
  <2>2. ShownIsActive'
    BY DEF DisplayInv, AskedWhenOver, ShownIsActive
  <2>3. GoneIsForgotten'
    BY DEF DisplayInv, GoneIsForgotten
  <2>4. GoneIsInactive'
    BY DEF DisplayInv, GoneIsForgotten, GoneIsInactive
  <2> QED BY <2>1, <2>2, <2>3, <2>4 DEF DisplayInv
<1>9. ASSUME NEW r \in Display!Requests, Display!RequestMessages(r) PROVE DisplayInv'
  <2> USE <1>9 DEF Display!RequestMessages, Display!At, Display!GoTo, DisplayPending
  <2>1. AskedWhenOver'
    BY DEF DisplayInv, AskedWhenOver
  <2>2. ShownIsActive'
    BY DEF DisplayInv, AskedWhenOver, ShownIsActive
  <2>3. GoneIsForgotten'
    BY DEF DisplayInv, GoneIsForgotten
  <2>4. GoneIsInactive'
    BY DEF DisplayInv, GoneIsForgotten, GoneIsInactive
  <2> QED BY <2>1, <2>2, <2>3, <2>4 DEF DisplayInv
<1>10. ASSUME NEW r \in Display!Requests, Display!MessagesNotRequested(r) PROVE DisplayInv'
  BY <1>10 DEF Display!MessagesNotRequested, Display!At, Display!GoTo, DisplayInv, AskedWhenOver, ShownIsActive,
              GoneIsForgotten, GoneIsInactive, DisplayPending
<1>11. ASSUME NEW r \in Display!Requests, NEW d \in Displays, Display!StoreMessage(r, d)
       PROVE  DisplayInv'
  <2> USE <1>11 DEF Display!StoreMessage, Display!At, DisplayPending
  <2>1. AskedWhenOver'
    BY DEF DisplayInv, AskedWhenOver
  <2>2. ShownIsActive'
    BY DEF DisplayInv, AskedWhenOver, ShownIsActive
  <2>3. GoneIsForgotten'
    BY DEF DisplayInv, GoneIsForgotten
  <2>4. GoneIsInactive'
    BY DEF DisplayInv, GoneIsForgotten, GoneIsInactive
  <2> QED BY <2>1, <2>2, <2>3, <2>4 DEF DisplayInv
<1>12. ASSUME NEW r \in Display!Requests, Display!AnswerNotification(r) PROVE DisplayInv'
  BY <1>12, Zenon DEF Display!AnswerNotification, Display!NotNotified, Display!At, DisplayInv, AskedWhenOver, ShownIsActive,
              GoneIsForgotten, GoneIsInactive, DisplayPending
<1>13. ASSUME NEW d \in Displays, Display!Expire(d) PROVE DisplayInv'
  BY <1>13 DEF Display!Expire, Display!At, DisplayInv, AskedWhenOver, ShownIsActive,
              GoneIsForgotten, GoneIsInactive, DisplayPending
<1> QED BY <1>1, <1>2, <1>3, <1>4, <1>5, <1>6, <1>7, <1>8, <1>9, <1>10, <1>11, <1>12, <1>13,
           Zenon DEF Display!Next, Display!RequestNext

LEMMA DisplayStutter ==
  ASSUME DisplayTypeOK, DisplayInv, UNCHANGED displayVars PROVE DisplayTypeOK' /\ DisplayInv'
BY DEF displayVars, DisplayTypeOK, Display!TypeOK, DisplayInv, AskedWhenOver, ShownIsActive,
              GoneIsForgotten, GoneIsInactive, DisplayPending, Display!At

LEMMA DisplayInvariant == Display!Spec => [](DisplayTypeOK /\ DisplayInv)
<1>1. Display!Init => DisplayTypeOK /\ DisplayInv
  BY DisplayInit
<1>2. DisplayTypeOK /\ DisplayInv /\ [Display!Next]_(Display!displayVars) => (DisplayTypeOK /\ DisplayInv)'
  BY DisplayType, DisplayStep, DisplayStutter DEF displayVars, Display!displayVars
<1> QED BY <1>1, <1>2, PTL DEF Display!Spec

LEMMA ActiveIsShownHolds == Display!Spec => []Display!ActiveIsShown
<1>1. DisplayTypeOK /\ DisplayInv => Display!ActiveIsShown
  BY NoneIsNoValue DEF Display!ActiveIsShown, Display!DisplaysSettled, DisplayInv,
     AskedWhenOver, ShownIsActive,
              GoneIsForgotten, GoneIsInactive, DisplayPending,
    Display!At, DisplayTypeOK, Display!TypeOK, Display!DisplayCall, Display!Notified
<1> QED BY <1>1, DisplayInvariant, PTL

(* Once all is handled, the messages with an active row are those shown,   *)
(* for any messages and any number of calls that interleave.               *)
THEOREM ActiveAreShown == Spec => []ActiveIsShown
<1>1. Display!ActiveIsShown => ActiveIsShown
  BY Zenon DEF ActiveIsShown
<1> QED BY <1>1, ActiveIsShownHolds, PartsRun, PTL

-----------------------------------------------------------------------------
(* Charging profiles. *)

LEMMA ProfileInit == ASSUME Profile!Init PROVE ProfileTypeOK /\ ProfileInv
<1> USE DEF Profile!Profiles
<1>1. ProfileTypeOK
  BY DEF Profile!Init, ProfileTypeOK, Profile!TypeOK, Profile!Report, Profile!NoReport
<1>2. ProfileInv
  BY NoneIsNoValue DEF Profile!Init, Profile!NoReport, ProfileInv, ReportWhenOver,
    InstalledIsActive, ClearedIsForgotten, ClearedIsInactive, Profile!Unhandled
<1> QED BY <1>1, <1>2

LEMMA ProfileType == ASSUME ProfileTypeOK, Profile!Next PROVE ProfileTypeOK'
<1> USE DEF ProfileTypeOK, Profile!TypeOK, Profile!ProfileCall, Profile!Report
<1>1. ASSUME NEW c \in Profile!ProfileCalls,
             Profile!SendSet(c)
      PROVE  ProfileTypeOK'
  BY <1>1 DEF Profile!SendSet, Profile!At, Profile!GoTo
<1>2. ASSUME NEW c \in Profile!ProfileCalls,
             Profile!SetNotSent(c)
      PROVE  ProfileTypeOK'
  BY <1>2 DEF Profile!SetNotSent, Profile!At, Profile!GoTo
<1>3. ASSUME NEW c \in Profile!ProfileCalls,
             Profile!Accept(c)
      PROVE  ProfileTypeOK'
  BY <1>3 DEF Profile!Accept, Profile!At, Profile!GoTo, Profile!Changed, Profile!Unhandled
<1>4. ASSUME NEW c \in Profile!ProfileCalls,
             Profile!Reject(c)
      PROVE  ProfileTypeOK'
  BY <1>4 DEF Profile!Reject, Profile!At, Profile!GoTo
<1>5. ASSUME NEW c \in Profile!ProfileCalls,
             Profile!AcceptLost(c)
      PROVE  ProfileTypeOK'
  BY <1>5 DEF Profile!AcceptLost, Profile!At, Profile!GoTo, Profile!Changed
<1>6. ASSUME NEW c \in Profile!ProfileCalls,
             Profile!AnswerGet(c)
      PROVE  ProfileTypeOK'
  BY <1>6 DEF Profile!AnswerGet, Profile!At, Profile!GoTo, Profile!SendReport
<1>7. ASSUME NEW c \in Profile!ProfileCalls,
             Profile!AnswerReportRequest(c)
      PROVE  ProfileTypeOK'
  BY <1>7 DEF Profile!AnswerReportRequest, Profile!SendReport
<1>8. ASSUME NEW c \in Profile!ProfileCalls,
             Profile!LoseReport(c)
      PROVE  ProfileTypeOK'
  BY <1>8 DEF Profile!LoseReport, Profile!NoReport
<1>9. ASSUME NEW c \in Profile!ProfileCalls,
             Profile!DeactivateProfiles(c)
      PROVE  ProfileTypeOK'
  BY <1>9 DEF Profile!DeactivateProfiles, Profile!At, Profile!GoTo, Profile!Scope, Profile!Unhandled
<1>10. ASSUME NEW c \in Profile!ProfileCalls,
             Profile!RequestReport(c)
      PROVE  ProfileTypeOK'
  BY <1>10 DEF Profile!RequestReport, Profile!At, Profile!GoTo, Profile!Asked, Profile!Profiles
<1>11. ASSUME NEW c \in Profile!ProfileCalls,
             Profile!ReportNotRequested(c)
      PROVE  ProfileTypeOK'
  BY <1>11 DEF Profile!ReportNotRequested, Profile!At, Profile!GoTo, Profile!Asked, Profile!Profiles
<1>12. ASSUME NEW c \in Profile!ProfileCalls,
             Profile!AnswerReport(c)
      PROVE  ProfileTypeOK'
  BY <1>12 DEF Profile!AnswerReport, Profile!NoReport
<1>13. ASSUME NEW c \in Profile!ProfileCalls, NEW p \in CSO,
             Profile!SaveChargingProfile(c, p)
      PROVE  ProfileTypeOK'
  BY <1>13 DEF Profile!SaveChargingProfile, Profile!NextCall, Profile!Profiles
<1>14. ASSUME NEW c \in Profile!ProfileCalls, NEW action \in {"Set", "Clear", "Get"}, NEW p \in Profile!Profiles,
             Profile!SendCall(c, action, p)
      PROVE  ProfileTypeOK'
  BY <1>14 DEF Profile!SendCall, Profile!NextCall
<1>15. ASSUME NEW c \in Profile!ProfileCalls, NEW p \in Profile!Profiles,
             Profile!StoreReported(c, p)
      PROVE  ProfileTypeOK'
  BY <1>15 DEF Profile!StoreReported
<1> QED BY <1>1, <1>2, <1>3, <1>4, <1>5, <1>6, <1>7, <1>8, <1>9, <1>10, <1>11, <1>12, <1>13, <1>14, <1>15,
           Zenon DEF Profile!Next

LEMMA ProfileStep == ASSUME ProfileTypeOK, ProfileInv, Profile!Next PROVE ProfileInv'
<1> USE NoneIsNoValue
<1> USE DEF ProfileTypeOK, Profile!TypeOK, Profile!ProfileCall, Profile!Report
<1>1. ASSUME NEW c \in Profile!ProfileCalls,
             Profile!SendSet(c)
      PROVE  ProfileInv'
  <2> USE <1>1 DEF Profile!SendSet, Profile!GoTo, Profile!At
  <2>1. ReportWhenOver'
    BY DEF ProfileInv, ReportWhenOver
  <2>2. InstalledIsActive'
    BY DEF ProfileInv, ReportWhenOver, InstalledIsActive, ProfilePending, Profile!Scope
  <2>3. ClearedIsForgotten'
    BY DEF ProfileInv, ClearedIsForgotten, Profile!Unhandled
  <2>4. ClearedIsInactive'
    BY DEF ProfileInv, ClearedIsForgotten, ClearedIsInactive, Profile!Scope, Profile!Unhandled
  <2> QED BY <2>1, <2>2, <2>3, <2>4 DEF ProfileInv
<1>2. ASSUME NEW c \in Profile!ProfileCalls,
             Profile!SetNotSent(c)
      PROVE  ProfileInv'
  <2> USE <1>2 DEF Profile!SetNotSent, Profile!GoTo, Profile!At
  <2>1. ReportWhenOver'
    BY DEF ProfileInv, ReportWhenOver
  <2>2. InstalledIsActive'
    BY DEF ProfileInv, ReportWhenOver, InstalledIsActive, ProfilePending, Profile!Scope
  <2>3. ClearedIsForgotten'
    BY DEF ProfileInv, ClearedIsForgotten, Profile!Unhandled
  <2>4. ClearedIsInactive'
    BY DEF ProfileInv, ClearedIsForgotten, ClearedIsInactive, Profile!Scope, Profile!Unhandled
  <2> QED BY <2>1, <2>2, <2>3, <2>4 DEF ProfileInv
<1>3. ASSUME NEW c \in Profile!ProfileCalls,
             Profile!Accept(c)
      PROVE  ProfileInv'
  <2> USE <1>3 DEF Profile!Accept, Profile!GoTo, Profile!Changed, Profile!At
  <2>1. ReportWhenOver'
    BY DEF ProfileInv, ReportWhenOver
  <2>2. ASSUME NEW p \in installed' \ stale'
        PROVE  isActive'[p] = TRUE \/ \E b \in Profile!ProfileCalls : ProfilePending(b, p)'
    <3>1. CASE p \in installed /\ isActive[p] # TRUE
      <4>1. PICK b \in Profile!ProfileCalls : ProfilePending(b, p)
        BY <3>1 DEF ProfileInv, InstalledIsActive
      <4>2. ProfilePending(b, p)'
        BY <3>1, <4>1 DEF ProfilePending, Profile!Scope, ProfileInv, ReportWhenOver
      <4> QED BY <4>2
    <3>2. CASE p \notin installed
      <4>1. ProfilePending(c, p)'
        BY <3>2 DEF ProfilePending, Profile!Scope, ProfileInv, ReportWhenOver
      <4> QED BY <4>1
    <3> QED BY <3>1, <3>2
  <2>3. ClearedIsForgotten'
    BY DEF ProfileInv, ClearedIsForgotten, Profile!Unhandled
  <2>4. ASSUME NEW p \in Profile!Profiles \ (installed' \union stale')
        PROVE  \/ isActive'[p] # TRUE
               \/ \E b \in Profile!ProfileCalls :
                    /\ Profile!At(b, "Set", "accepted")' \/ Profile!At(b, "Clear", "accepted")'
                    /\ p \in Profile!Scope(b)'
    <3>1. CASE p \in installed
      <4>1. Profile!At(c, "Clear", "accepted")' /\ p \in Profile!Scope(c)'
        BY <3>1 DEF Profile!Scope
      <4> QED BY <4>1
    <3>2. CASE p \notin installed /\ isActive[p] = TRUE
      <4>1. PICK b \in Profile!ProfileCalls :
               /\ Profile!At(b, "Set", "accepted") \/ Profile!At(b, "Clear", "accepted")
               /\ p \in Profile!Scope(b)
        BY <3>2 DEF ProfileInv, ClearedIsInactive
      <4>2. /\ Profile!At(b, "Set", "accepted")' \/ Profile!At(b, "Clear", "accepted")'
            /\ p \in Profile!Scope(b)'
        BY <4>1 DEF Profile!Scope
      <4> QED BY <4>2
    <3> QED BY <3>1, <3>2
  <2> QED BY <2>1, <2>2, <2>3, <2>4 DEF ProfileInv, InstalledIsActive, ClearedIsInactive
<1>4. ASSUME NEW c \in Profile!ProfileCalls,
             Profile!Reject(c)
      PROVE  ProfileInv'
  <2> USE <1>4 DEF Profile!Reject, Profile!GoTo, Profile!At
  <2>1. ReportWhenOver'
    BY DEF ProfileInv, ReportWhenOver
  <2>2. InstalledIsActive'
    BY DEF ProfileInv, ReportWhenOver, InstalledIsActive, ProfilePending, Profile!Scope
  <2>3. ClearedIsForgotten'
    BY DEF ProfileInv, ClearedIsForgotten, Profile!Unhandled
  <2>4. ClearedIsInactive'
    BY DEF ProfileInv, ClearedIsForgotten, ClearedIsInactive, Profile!Scope, Profile!Unhandled
  <2> QED BY <2>1, <2>2, <2>3, <2>4 DEF ProfileInv
<1>5. ASSUME NEW c \in Profile!ProfileCalls,
             Profile!AcceptLost(c)
      PROVE  ProfileInv'
  <2> USE <1>5 DEF Profile!AcceptLost, Profile!GoTo, Profile!Changed, Profile!At
  <2>1. ReportWhenOver'
    BY DEF ProfileInv, ReportWhenOver
  <2>2. InstalledIsActive'
    BY DEF ProfileInv, ReportWhenOver, InstalledIsActive, ProfilePending, Profile!Scope
  <2>3. ClearedIsForgotten'
    BY DEF ProfileInv, ClearedIsForgotten, Profile!Unhandled
  <2>4. ClearedIsInactive'
    BY DEF ProfileInv, ClearedIsForgotten, ClearedIsInactive, Profile!Scope, Profile!Unhandled
  <2> QED BY <2>1, <2>2, <2>3, <2>4 DEF ProfileInv
<1>6. ASSUME NEW c \in Profile!ProfileCalls,
             Profile!AnswerGet(c)
      PROVE  ProfileInv'
  <2> USE <1>6 DEF Profile!AnswerGet, Profile!GoTo, Profile!SendReport, Profile!At
  <2>1. ReportWhenOver'
    BY DEF ProfileInv, ReportWhenOver
  <2>2. InstalledIsActive'
    BY DEF ProfileInv, ReportWhenOver, InstalledIsActive, ProfilePending, Profile!Scope
  <2>3. ClearedIsForgotten'
    BY DEF ProfileInv, ClearedIsForgotten, Profile!Unhandled
  <2>4. ClearedIsInactive'
    BY DEF ProfileInv, ClearedIsForgotten, ClearedIsInactive, Profile!Scope, Profile!Unhandled
  <2> QED BY <2>1, <2>2, <2>3, <2>4 DEF ProfileInv
<1>7. ASSUME NEW c \in Profile!ProfileCalls,
             Profile!AnswerReportRequest(c)
      PROVE  ProfileInv'
  <2> USE <1>7 DEF Profile!AnswerReportRequest, Profile!SendReport, Profile!At
  <2>1. ReportWhenOver'
    BY DEF ProfileInv, ReportWhenOver
  <2>2. InstalledIsActive'
    BY DEF ProfileInv, ReportWhenOver, InstalledIsActive, ProfilePending, Profile!Scope
  <2>3. ClearedIsForgotten'
    BY DEF ProfileInv, ClearedIsForgotten, Profile!Unhandled
  <2>4. ClearedIsInactive'
    BY DEF ProfileInv, ClearedIsForgotten, ClearedIsInactive, Profile!Scope, Profile!Unhandled
  <2> QED BY <2>1, <2>2, <2>3, <2>4 DEF ProfileInv
<1>8. ASSUME NEW c \in Profile!ProfileCalls,
             Profile!LoseReport(c)
      PROVE  ProfileInv'
  <2> USE <1>8 DEF Profile!LoseReport, Profile!NoReport, Profile!At
  <2>1. ReportWhenOver'
    BY DEF ProfileInv, ReportWhenOver
  <2>2. InstalledIsActive'
    BY DEF ProfileInv, ReportWhenOver, InstalledIsActive, ProfilePending, Profile!Scope
  <2>3. ClearedIsForgotten'
    BY DEF ProfileInv, ClearedIsForgotten, Profile!Unhandled
  <2>4. ClearedIsInactive'
    BY DEF ProfileInv, ClearedIsForgotten, ClearedIsInactive, Profile!Scope, Profile!Unhandled
  <2> QED BY <2>1, <2>2, <2>3, <2>4 DEF ProfileInv
<1>9. ASSUME NEW c \in Profile!ProfileCalls,
             Profile!DeactivateProfiles(c)
      PROVE  ProfileInv'
  <2> USE <1>9 DEF Profile!DeactivateProfiles, Profile!GoTo, Profile!At
  <2>1. ReportWhenOver'
    BY DEF ProfileInv, ReportWhenOver
  <2>2. InstalledIsActive'
    BY DEF ProfileInv, ReportWhenOver, InstalledIsActive, ProfilePending, Profile!Scope
  <2>3. ClearedIsForgotten'
    BY DEF ProfileInv, ClearedIsForgotten, Profile!Unhandled
  <2>4. ClearedIsInactive'
    BY DEF ProfileInv, ClearedIsForgotten, ClearedIsInactive, Profile!Scope, Profile!Unhandled
  <2> QED BY <2>1, <2>2, <2>3, <2>4 DEF ProfileInv
<1>10. ASSUME NEW c \in Profile!ProfileCalls,
             Profile!RequestReport(c)
      PROVE  ProfileInv'
  <2> USE <1>10 DEF Profile!RequestReport, Profile!GoTo, Profile!Asked, Profile!At
  <2>1. ReportWhenOver'
    BY DEF ProfileInv, ReportWhenOver
  <2>2. InstalledIsActive'
    BY DEF ProfileInv, ReportWhenOver, InstalledIsActive, ProfilePending, Profile!Scope
  <2>3. ClearedIsForgotten'
    BY DEF ProfileInv, ClearedIsForgotten, Profile!Unhandled
  <2>4. ClearedIsInactive'
    BY DEF ProfileInv, ClearedIsForgotten, ClearedIsInactive, Profile!Scope, Profile!Unhandled
  <2> QED BY <2>1, <2>2, <2>3, <2>4 DEF ProfileInv
<1>11. ASSUME NEW c \in Profile!ProfileCalls,
             Profile!ReportNotRequested(c)
      PROVE  ProfileInv'
  <2> USE <1>11 DEF Profile!ReportNotRequested, Profile!GoTo, Profile!Asked, Profile!At
  <2>1. ReportWhenOver'
    BY DEF ProfileInv, ReportWhenOver
  <2>2. InstalledIsActive'
    BY DEF ProfileInv, ReportWhenOver, InstalledIsActive, ProfilePending, Profile!Scope
  <2>3. ClearedIsForgotten'
    BY DEF ProfileInv, ClearedIsForgotten, Profile!Unhandled
  <2>4. ClearedIsInactive'
    BY DEF ProfileInv, ClearedIsForgotten, ClearedIsInactive, Profile!Scope, Profile!Unhandled
  <2> QED BY <2>1, <2>2, <2>3, <2>4 DEF ProfileInv
<1>12. ASSUME NEW c \in Profile!ProfileCalls,
             Profile!AnswerReport(c)
      PROVE  ProfileInv'
  <2> USE <1>12 DEF Profile!AnswerReport, Profile!NoReport, Profile!At
  <2>1. ReportWhenOver'
    BY DEF ProfileInv, ReportWhenOver
  <2>2. InstalledIsActive'
    BY DEF ProfileInv, ReportWhenOver, InstalledIsActive, ProfilePending, Profile!Scope
  <2>3. ClearedIsForgotten'
    BY DEF ProfileInv, ClearedIsForgotten, Profile!Unhandled
  <2>4. ClearedIsInactive'
    BY DEF ProfileInv, ClearedIsForgotten, ClearedIsInactive, Profile!Scope, Profile!Unhandled
  <2> QED BY <2>1, <2>2, <2>3, <2>4 DEF ProfileInv
<1>13. ASSUME NEW c \in Profile!ProfileCalls, NEW p \in CSO,
             Profile!SaveChargingProfile(c, p)
      PROVE  ProfileInv'
  <2> USE <1>13 DEF Profile!SaveChargingProfile, Profile!NextCall, Profile!Profiles, Profile!At
  <2>1. ReportWhenOver'
    BY DEF ProfileInv, ReportWhenOver
  <2>2. InstalledIsActive'
    BY DEF ProfileInv, ReportWhenOver, InstalledIsActive, ProfilePending, Profile!Scope
  <2>3. ClearedIsForgotten'
    BY DEF ProfileInv, ClearedIsForgotten, Profile!Unhandled
  <2>4. ClearedIsInactive'
    BY DEF ProfileInv, ClearedIsForgotten, ClearedIsInactive, Profile!Scope, Profile!Unhandled
  <2> QED BY <2>1, <2>2, <2>3, <2>4 DEF ProfileInv
<1>14. ASSUME NEW c \in Profile!ProfileCalls, NEW action \in {"Set", "Clear", "Get"}, NEW p \in Profile!Profiles,
             Profile!SendCall(c, action, p)
      PROVE  ProfileInv'
  <2> USE <1>14 DEF Profile!SendCall, Profile!NextCall, Profile!At
  <2>1. ReportWhenOver'
    BY DEF ProfileInv, ReportWhenOver
  <2>2. InstalledIsActive'
    BY DEF ProfileInv, ReportWhenOver, InstalledIsActive, ProfilePending, Profile!Scope
  <2>3. ClearedIsForgotten'
    BY DEF ProfileInv, ClearedIsForgotten, Profile!Unhandled
  <2>4. ClearedIsInactive'
    BY DEF ProfileInv, ClearedIsForgotten, ClearedIsInactive, Profile!Scope, Profile!Unhandled
  <2> QED BY <2>1, <2>2, <2>3, <2>4 DEF ProfileInv
<1>15. ASSUME NEW c \in Profile!ProfileCalls, NEW p \in Profile!Profiles,
             Profile!StoreReported(c, p)
      PROVE  ProfileInv'
  <2> USE <1>15 DEF Profile!StoreReported, Profile!At
  <2>1. ReportWhenOver'
    BY DEF ProfileInv, ReportWhenOver
  <2>2. InstalledIsActive'
    BY DEF ProfileInv, ReportWhenOver, InstalledIsActive, ProfilePending, Profile!Scope
  <2>3. ClearedIsForgotten'
    BY DEF ProfileInv, ClearedIsForgotten, Profile!Unhandled
  <2>4. ClearedIsInactive'
    BY DEF ProfileInv, ClearedIsForgotten, ClearedIsInactive, Profile!Scope, Profile!Unhandled
  <2> QED BY <2>1, <2>2, <2>3, <2>4 DEF ProfileInv
<1> QED BY <1>1, <1>2, <1>3, <1>4, <1>5, <1>6, <1>7, <1>8, <1>9, <1>10, <1>11, <1>12, <1>13, <1>14, <1>15,
           Zenon DEF Profile!Next

LEMMA ProfileStutter ==
  ASSUME ProfileTypeOK, ProfileInv, UNCHANGED profileVars PROVE ProfileTypeOK' /\ ProfileInv'
BY ZenonT(60) DEF profileVars, ProfileTypeOK, Profile!TypeOK, ProfileInv, ReportWhenOver, InstalledIsActive,
  ClearedIsForgotten, ClearedIsInactive, ProfilePending, Profile!At, Profile!Scope, Profile!Unhandled

LEMMA ProfileInvariant == Profile!Spec => [](ProfileTypeOK /\ ProfileInv)
<1>1. Profile!Init => ProfileTypeOK /\ ProfileInv
  BY ProfileInit
<1>2. ProfileTypeOK /\ ProfileInv /\ [Profile!Next]_(Profile!profileVars) => (ProfileTypeOK /\ ProfileInv)'
  BY ProfileType, ProfileStep, ProfileStutter DEF profileVars, Profile!profileVars
<1> QED BY <1>1, <1>2, PTL DEF Profile!Spec

LEMMA ActiveIsInstalledHolds == Profile!Spec => []Profile!ActiveIsInstalled
<1>1. ProfileTypeOK /\ ProfileInv => Profile!ActiveIsInstalled
  BY NoneIsNoValue DEF Profile!ActiveIsInstalled, Profile!ProfilesSettled,
    ProfileInv, InstalledIsActive, ClearedIsInactive, ProfilePending, Profile!At, Profile!Scope,
    ProfileTypeOK, Profile!TypeOK, Profile!ProfileCall, Profile!Report
<1> QED BY <1>1, ProfileInvariant, PTL

(* Once all is handled, the profiles with an active row are those set on   *)
(* the station, for any profiles and any number of calls that interleave.  *)
THEOREM ActiveAreInstalled == Spec => []ActiveIsInstalled
<1>1. Profile!ActiveIsInstalled => ActiveIsInstalled
  BY Zenon DEF ActiveIsInstalled
<1> QED BY <1>1, ActiveIsInstalledHolds, PartsRun, PTL

-----------------------------------------------------------------------------
(* Webhooks. *)

LEMMA WebhookInit == ASSUME Webhook!Init PROVE WebhookTypeOK /\ WebhookInv
<1>1. WebhookTypeOK
  <2> USE MaxVersionIsNat DEF Webhook!Init, Webhook!Versions
  <2>1. Webhook!NoLoad \in Webhook!Load
    BY DEF Webhook!Load, Webhook!NoLoad
  <2>2. Webhook!NoMessage \in Webhook!Message
    BY DEF Webhook!Message, Webhook!NoMessage
  <2>3. message \in [Exchanges -> [Webhook!Sides -> Webhook!Message]]
    BY <2>2
  <2>4. registration \in [Webhook!Connections -> Webhook!Load] /\ refresh \in Webhook!Load
    BY <2>1
  <2>5. subscriptions \in Webhook!Versions /\ callbacks \in Webhook!Versions \union {None}
    OBVIOUS
  <2>6. /\ abandoned \subseteq Webhook!Connections /\ identified \in BOOLEAN /\ raced \in BOOLEAN
        /\ changed \in BOOLEAN /\ failedLoad \in BOOLEAN
    OBVIOUS
  <2> QED BY <2>3, <2>4, <2>5, <2>6, Zenon DEF WebhookTypeOK, Webhook!TypeOK
<1>2. ConnectionsInOrder /\ OneRuns /\ InEffect
  BY DEF Webhook!Init, Webhook!NoLoad, ConnectionsInOrder, OneRuns, InEffect, Ended, Claims
<1>3. FoundIsStored /\ ActionGiven
  BY DEF Webhook!Init, Webhook!NoMessage, Webhook!Sides, FoundIsStored, ActionGiven
<1> QED BY <1>1, <1>2, <1>3 DEF WebhookInv

LEMMA WebhookType == ASSUME WebhookTypeOK, Webhook!Next PROVE WebhookTypeOK'
<1> USE MaxVersionIsNat DEF WebhookTypeOK, Webhook!TypeOK, Webhook!Load, Webhook!Versions
<1> USE DEF Webhook!NoLoad, Webhook!connectionVars
<1>1. ASSUME NEW k \in Webhook!Connections, Webhook!StartRegister(k)
      PROVE  WebhookTypeOK'
  <2>1. Webhook!Running \in BOOLEAN
    BY Zenon DEF Webhook!Running
  <2> QED BY <1>1, <2>1 DEF Webhook!StartRegister
<1>2. ASSUME NEW k \in Webhook!Connections, Webhook!ReadSubscriptions(k)
      PROVE  WebhookTypeOK'
  BY <1>2 DEF Webhook!ReadSubscriptions
<1>3. ASSUME NEW k \in Webhook!Connections, Webhook!LoadFails(k)
      PROVE  WebhookTypeOK'
  BY <1>3 DEF Webhook!LoadFails
<1>4. ASSUME NEW k \in Webhook!Connections, Webhook!SetCallbacks(k)
      PROVE  WebhookTypeOK'
  BY <1>4 DEF Webhook!SetCallbacks
<1>5. ASSUME NEW k \in Webhook!Connections, Webhook!AddIdentifier(k)
      PROVE  WebhookTypeOK'
  BY <1>5 DEF Webhook!AddIdentifier
<1>6. ASSUME NEW k \in Webhook!Connections, Webhook!StartDeregister(k)
      PROVE  WebhookTypeOK'
  BY <1>6 DEF Webhook!StartDeregister
<1>7. ASSUME NEW k \in Webhook!Connections, Webhook!DropCallbacks(k)
      PROVE  WebhookTypeOK'
  BY <1>7 DEF Webhook!DropCallbacks
<1>8. ASSUME Webhook!StartRefresh
      PROVE  WebhookTypeOK'
  BY <1>8 DEF Webhook!StartRefresh
<1>9. ASSUME Webhook!RefreshReads
      PROVE  WebhookTypeOK'
  BY <1>9 DEF Webhook!RefreshReads
<1>10. ASSUME Webhook!RefreshSets
      PROVE  WebhookTypeOK'
  BY <1>10 DEF Webhook!RefreshSets
<1>11. ASSUME Webhook!ChangeSubscriptions
      PROVE  WebhookTypeOK'
  BY <1>11 DEF Webhook!ChangeSubscriptions
<1>12. ASSUME NEW x \in Exchanges, NEW side \in Webhook!Sides, Webhook!SendMessage(x, side)
      PROVE  WebhookTypeOK'
  BY <1>12, SMTT(30) DEF Webhook!SendMessage, Webhook!Message, Webhook!Sides
<1>13. ASSUME NEW x \in Exchanges, NEW side \in Webhook!Sides, Webhook!FindRelated(x, side)
      PROVE  WebhookTypeOK'
  BY <1>13 DEF Webhook!FindRelated, Webhook!OtherSide, Webhook!Message, Webhook!Sides
<1>14. ASSUME NEW x \in Exchanges, NEW side \in Webhook!Sides, Webhook!StoreMessage(x, side)
      PROVE  WebhookTypeOK'
  <2> DEFINE stored(s) ==
        IF s = side
        THEN [pc |-> "stored", found |-> message[x][s].found,
              action |-> (side = "call" \/ message[x][s].found)]
        ELSE IF side = "call" /\ message[x][side].found
             THEN [message[x][s] EXCEPT !.action = TRUE] ELSE message[x][s]
  <2>1. ASSUME NEW s \in Webhook!Sides PROVE stored(s) \in Webhook!Message
    <3>1. message[x][s] \in Webhook!Message /\ message[x][side] \in Webhook!Message
      BY <1>14
    <3>2. [message[x][s] EXCEPT !.action = TRUE] \in Webhook!Message
      BY <3>1 DEF Webhook!Message
    <3>3. [pc |-> "stored", found |-> message[x][s].found,
           action |-> (side = "call" \/ message[x][s].found)] \in Webhook!Message
      BY <3>1 DEF Webhook!Message
    <3> QED BY <3>1, <3>2, <3>3
  <2>2. message' = [message EXCEPT ![x] = [s \in Webhook!Sides |-> stored(s)]]
    BY <1>14 DEF Webhook!StoreMessage
  <2> HIDE DEF stored
  <2>3. [s \in Webhook!Sides |-> stored(s)] \in [Webhook!Sides -> Webhook!Message]
    BY <2>1
  <2>4. message' \in [Exchanges -> [Webhook!Sides -> Webhook!Message]]
    BY <1>14, <2>2, <2>3
  <2> QED BY <1>14, <2>4 DEF Webhook!StoreMessage
<1>15. ASSUME NEW x \in Exchanges, NEW side \in Webhook!Sides, Webhook!Rollback(x, side)
      PROVE  WebhookTypeOK'
  BY <1>15 DEF Webhook!Rollback, Webhook!NoMessage, Webhook!Message, Webhook!Sides
<1>16. ASSUME NEW k \in Webhook!Connections, Webhook!CloseUnregistered(k)
      PROVE  WebhookTypeOK'
  BY <1>16 DEF Webhook!CloseUnregistered
<1> QED BY <1>1, <1>2, <1>3, <1>4, <1>5, <1>6, <1>7, <1>8, <1>9, <1>10, <1>11, <1>12, <1>13, <1>14, <1>15,
           <1>16, Zenon DEF Webhook!Next

LEMMA WebhookStep == ASSUME WebhookTypeOK, WebhookInv, Webhook!Next PROVE WebhookInv'
<1> USE MaxVersionIsNat, NoneIsNoValue DEF WebhookTypeOK, Webhook!TypeOK
<1>a. ASSUME UNCHANGED message PROVE FoundIsStored' /\ ActionGiven'
  BY <1>a DEF WebhookInv, FoundIsStored, ActionGiven
<1>b. ASSUME UNCHANGED Webhook!connectionVars PROVE ConnectionsInOrder' /\ OneRuns' /\ InEffect'
  BY <1>b DEF WebhookInv, ConnectionsInOrder, OneRuns, InEffect, Ended, Claims, Webhook!Cleaned,
                 Webhook!connectionVars
<1> USE DEF WebhookInv
<1> USE DEF Webhook!Load, Webhook!NoLoad, Webhook!Connections, ConnectionsInOrder, OneRuns,
    InEffect, Ended, Claims, Webhook!Cleaned
<1>1. ASSUME NEW k \in Webhook!Connections, Webhook!StartRegister(k)
      PROVE  WebhookInv'
  <2> USE <1>1 DEF Webhook!StartRegister, Webhook!Running
  <2>1. ConnectionsInOrder'
    OBVIOUS
  <2>2. OneRuns'
    OBVIOUS
  <2>3. InEffect'
    OBVIOUS
  <2> QED BY <1>a, <2>1, <2>2, <2>3
<1>2. ASSUME NEW k \in Webhook!Connections, Webhook!ReadSubscriptions(k)
      PROVE  WebhookInv'
  <2> USE <1>2 DEF Webhook!ReadSubscriptions
  <2>1. ConnectionsInOrder'
    OBVIOUS
  <2>2. OneRuns'
    OBVIOUS
  <2>3. InEffect'
    OBVIOUS
  <2> QED BY <1>a, <2>1, <2>2, <2>3
<1>3. ASSUME NEW k \in Webhook!Connections, Webhook!LoadFails(k)
      PROVE  WebhookInv'
  <2> USE <1>3 DEF Webhook!LoadFails
  <2>1. ConnectionsInOrder'
    OBVIOUS
  <2>2. OneRuns'
    OBVIOUS
  <2>3. InEffect'
    OBVIOUS
  <2> QED BY <1>a, <2>1, <2>2, <2>3
<1>4. ASSUME NEW k \in Webhook!Connections, Webhook!SetCallbacks(k)
      PROVE  WebhookInv'
  <2> USE <1>4 DEF Webhook!SetCallbacks
  <2>1. ConnectionsInOrder'
    OBVIOUS
  <2>2. OneRuns'
    OBVIOUS
  <2>3. InEffect'
    OBVIOUS
  <2> QED BY <1>a, <2>1, <2>2, <2>3
<1>5. ASSUME NEW k \in Webhook!Connections, Webhook!AddIdentifier(k)
      PROVE  WebhookInv'
  <2> USE <1>5 DEF Webhook!AddIdentifier
  <2>1. ConnectionsInOrder'
    OBVIOUS
  <2>2. OneRuns'
    OBVIOUS
  <2>3. InEffect'
    OBVIOUS
  <2> QED BY <1>a, <2>1, <2>2, <2>3
<1>6. ASSUME NEW k \in Webhook!Connections, Webhook!StartDeregister(k)
      PROVE  WebhookInv'
  <2> USE <1>6 DEF Webhook!StartDeregister, Webhook!Running
  <2>1. ConnectionsInOrder'
    OBVIOUS
  <2>2. OneRuns'
    OBVIOUS
  <2>3. InEffect'
    OBVIOUS
  <2> QED BY <1>a, <2>1, <2>2, <2>3
<1>7. ASSUME NEW k \in Webhook!Connections, Webhook!DropCallbacks(k)
      PROVE  WebhookInv'
  <2> USE <1>7 DEF Webhook!DropCallbacks
  <2>1. ConnectionsInOrder'
    OBVIOUS
  <2>2. OneRuns'
    OBVIOUS
  <2>3. InEffect'
    OBVIOUS
  <2> QED BY <1>a, <2>1, <2>2, <2>3
<1>8. ASSUME Webhook!StartRefresh
      PROVE  WebhookInv'
  <2> USE <1>8 DEF Webhook!StartRefresh, Webhook!Running
  <2>1. ConnectionsInOrder'
    OBVIOUS
  <2>2. OneRuns'
    OBVIOUS
  <2>3. InEffect'
    OBVIOUS
  <2> QED BY <1>a, <2>1, <2>2, <2>3
<1>9. ASSUME Webhook!RefreshReads
      PROVE  WebhookInv'
  <2> USE <1>9 DEF Webhook!RefreshReads
  <2>1. ConnectionsInOrder'
    OBVIOUS
  <2>2. OneRuns'
    OBVIOUS
  <2>3. InEffect'
    OBVIOUS
  <2> QED BY <1>a, <2>1, <2>2, <2>3
<1>10. ASSUME Webhook!RefreshSets
      PROVE  WebhookInv'
  <2> USE <1>10 DEF Webhook!RefreshSets
  <2>1. ConnectionsInOrder'
    OBVIOUS
  <2>2. OneRuns'
    OBVIOUS
  <2>3. InEffect'
    OBVIOUS
  <2> QED BY <1>a, <2>1, <2>2, <2>3
<1>11. ASSUME Webhook!ChangeSubscriptions
      PROVE  WebhookInv'
  <2> USE <1>11 DEF Webhook!ChangeSubscriptions
  <2>1. ConnectionsInOrder'
    OBVIOUS
  <2>2. OneRuns'
    OBVIOUS
  <2>3. InEffect'
    OBVIOUS
  <2> QED BY <1>a, <2>1, <2>2, <2>3
<1>12. ASSUME NEW k \in Webhook!Connections, Webhook!CloseUnregistered(k)
      PROVE  WebhookInv'
  <2> USE <1>12 DEF Webhook!CloseUnregistered
  <2>1. ConnectionsInOrder'
    OBVIOUS
  <2>2. OneRuns'
    OBVIOUS
  <2>3. InEffect'
    OBVIOUS
  <2> QED BY <1>a, <2>1, <2>2, <2>3
<1> HIDE DEF Webhook!Load, Webhook!NoLoad, Webhook!Connections, ConnectionsInOrder, OneRuns,
    InEffect, Ended, Claims, Webhook!Cleaned
<1>13. ASSUME NEW x \in Exchanges, NEW side \in Webhook!Sides, Webhook!SendMessage(x, side)
      PROVE  WebhookInv'
  <2> USE <1>13 DEF Webhook!SendMessage, Webhook!Sides, Webhook!OtherSide, Webhook!Message, WebhookInv
  <2>1. FoundIsStored'
    BY DEF FoundIsStored
  <2>2. ActionGiven'
    BY DEF FoundIsStored, ActionGiven
  <2> QED BY <1>b, <2>1, <2>2
<1>14. ASSUME NEW x \in Exchanges, NEW side \in Webhook!Sides, Webhook!FindRelated(x, side)
      PROVE  WebhookInv'
  <2> USE <1>14 DEF Webhook!FindRelated, Webhook!Sides, Webhook!OtherSide, Webhook!Message, WebhookInv
  <2>1. FoundIsStored'
    BY DEF FoundIsStored
  <2>2. ActionGiven'
    BY DEF FoundIsStored, ActionGiven
  <2> QED BY <1>b, <2>1, <2>2
<1>15. ASSUME NEW x \in Exchanges, NEW side \in Webhook!Sides, Webhook!StoreMessage(x, side)
      PROVE  WebhookInv'
  <2> USE DEF WebhookInv, Webhook!Sides, Webhook!OtherSide
  <2> DEFINE other == Webhook!OtherSide(side)
  <2>1. /\ message'[x][side] = [pc |-> "stored", found |-> message[x][side].found,
                               action |-> (side = "call" \/ message[x][side].found)]
        /\ message'[x][other] = IF side = "call" /\ message[x][side].found
                                THEN [message[x][other] EXCEPT !.action = TRUE]
                                ELSE message[x][other]
        /\ \A y \in Exchanges \ {x} : message'[y] = message[y]
    BY <1>15 DEF Webhook!StoreMessage
  <2>2. message[x][side] \in Webhook!Message /\ message[x][other] \in Webhook!Message
    OBVIOUS
  <2>3. FoundIsStored'
    BY <1>15, <2>1, <2>2 DEF Webhook!StoreMessage, FoundIsStored, Webhook!Message
  <2>4. ActionGiven'
    <3>1. CASE side = "call"
      BY <1>15, <2>1, <2>2, <3>1, Zenon DEF Webhook!StoreMessage, FoundIsStored, ActionGiven, Webhook!Message
    <3>2. CASE side = "result"
      BY <1>15, <2>1, <2>2, <3>2 DEF Webhook!StoreMessage, FoundIsStored, ActionGiven, Webhook!Message
    <3> QED BY <3>1, <3>2
  <2>5. UNCHANGED Webhook!connectionVars
    BY <1>15 DEF Webhook!StoreMessage
  <2> QED BY <1>b, <2>3, <2>4, <2>5
<1>16. ASSUME NEW x \in Exchanges, NEW side \in Webhook!Sides, Webhook!Rollback(x, side)
      PROVE  WebhookInv'
  <2> USE <1>16 DEF Webhook!Rollback, Webhook!NoMessage, Webhook!Sides, Webhook!OtherSide, Webhook!Message, WebhookInv
  <2>1. FoundIsStored'
    BY DEF FoundIsStored
  <2>2. ActionGiven'
    BY DEF FoundIsStored, ActionGiven
  <2> QED BY <1>b, <2>1, <2>2
<1> QED BY <1>1, <1>2, <1>3, <1>4, <1>5, <1>6, <1>7, <1>8, <1>9, <1>10, <1>11, <1>12, <1>13, <1>14, <1>15,
           <1>16, Zenon DEF Webhook!Next

LEMMA WebhookStutter ==
  ASSUME WebhookTypeOK, WebhookInv, UNCHANGED webhookVars PROVE WebhookTypeOK' /\ WebhookInv'
BY DEF webhookVars, subscriptionVars, WebhookTypeOK, Webhook!TypeOK, WebhookInv, ConnectionsInOrder, OneRuns, InEffect,
  FoundIsStored, ActionGiven, Ended, Claims, Webhook!Cleaned

LEMMA WebhookInvariant == Webhook!Spec => [](WebhookTypeOK /\ WebhookInv)
<1>1. Webhook!Init => WebhookTypeOK /\ WebhookInv
  BY WebhookInit
<1>2. WebhookTypeOK /\ WebhookInv /\ [Webhook!Next]_(Webhook!webhookVars) => (WebhookTypeOK /\ WebhookInv)'
  BY WebhookType, WebhookStep, WebhookStutter DEF webhookVars, subscriptionVars, Webhook!webhookVars,
     Webhook!connectionVars, subscriptionVars
<1> QED BY <1>1, <1>2, PTL DEF Webhook!Spec

LEMMA SubscriptionsInEffectHolds == Webhook!Spec => []Webhook!SubscriptionsInEffect
<1>1. WebhookTypeOK /\ WebhookInv => Webhook!SubscriptionsInEffect
  BY DEF Webhook!SubscriptionsInEffect, Webhook!Running, Webhook!Open,
    WebhookTypeOK, Webhook!TypeOK, Webhook!Load, Webhook!NoLoad, WebhookInv, ConnectionsInOrder,
    OneRuns, InEffect, Ended, Claims
<1> QED BY <1>1, WebhookInvariant, PTL

(* A connected station has the webhooks it is subscribed to, for any       *)
(* number of connections and of changes of the subscriptions.              *)
THEOREM SubscriptionsAreInEffect == Spec => []SubscriptionsInEffect
<1>1. Webhook!SubscriptionsInEffect => SubscriptionsInEffect
  BY Zenon DEF SubscriptionsInEffect
<1> QED BY <1>1, SubscriptionsInEffectHolds, PartsRun, PTL

LEMMA ActionKnownHolds == Webhook!Spec => []Webhook!ActionKnown
<1>1. WebhookTypeOK /\ WebhookInv => Webhook!ActionKnown
  BY DEF Webhook!ActionKnown, WebhookInv, ActionGiven, Webhook!Sides
<1> QED BY <1>1, WebhookInvariant, PTL

(* Both messages of an exchange are stored with its action when one of     *)
(* them found the other, for any exchanges that interleave.                *)
THEOREM ActionsAreKnown == Spec => []ActionKnown
<1>1. Webhook!ActionKnown => ActionKnown
  BY Zenon DEF ActionKnown
<1> QED BY <1>1, ActionKnownHolds, PartsRun, PTL

-----------------------------------------------------------------------------
(* Installed certificates. *)

LEMMA HashInit == ASSUME Hashes!Init PROVE HashTypeOK /\ HashInv
<1>1. HashTypeOK
  BY DEF Hashes!Init, HashTypeOK, Hashes!TypeOK
<1>2. HashInv
  BY DEF Hashes!Init, HashInv, OneWriter, FoundIsThere, RowsDeleted, RowsRight,
    Hashes!Writing, Hashes!At, OfType
<1> QED BY <1>1, <1>2

LEMMA HashType == ASSUME HashTypeOK, Hashes!Next PROVE HashTypeOK'
<1> USE DEF HashTypeOK, Hashes!TypeOK, Hashes!IdCall, Hashes!CallOver, Hashes!TypesOf, Hashes!Types
<1>1. ASSUME NEW c \in Certificates, Hashes!Install(c)
      PROVE  HashTypeOK'
  BY <1>1 DEF Hashes!Install, Hashes!At
<1>2. ASSUME NEW c \in Certificates, Hashes!Delete(c)
      PROVE  HashTypeOK'
  BY <1>2 DEF Hashes!Delete, Hashes!At
<1>3. ASSUME NEW q \in Hashes!IdCalls, NEW types \in SUBSET Hashes!Types, Hashes!SendIdCall(q, types)
      PROVE  HashTypeOK'
  BY <1>3 DEF Hashes!SendIdCall, Hashes!At
<1>4. ASSUME NEW q \in Hashes!IdCalls, Hashes!AnswerIdCall(q)
      PROVE  HashTypeOK'
  BY <1>4 DEF Hashes!AnswerIdCall, Hashes!At
<1>5. ASSUME NEW q \in Hashes!IdCalls, Hashes!NoHashes(q)
      PROVE  HashTypeOK'
  BY <1>5 DEF Hashes!NoHashes, Hashes!At
<1>6. ASSUME NEW q \in Hashes!IdCalls, Hashes!DeleteHashes(q)
      PROVE  HashTypeOK'
  BY <1>6 DEF Hashes!DeleteHashes, Hashes!At
<1>7. ASSUME NEW q \in Hashes!IdCalls, Hashes!DeleteFails(q)
      PROVE  HashTypeOK'
  BY <1>7 DEF Hashes!DeleteFails, Hashes!At
<1>8. ASSUME NEW q \in Hashes!IdCalls, Hashes!SaveHashes(q)
      PROVE  HashTypeOK'
  BY <1>8 DEF Hashes!SaveHashes, Hashes!At
<1>9. ASSUME NEW q \in Hashes!IdCalls, Hashes!SaveFails(q)
      PROVE  HashTypeOK'
  BY <1>9 DEF Hashes!SaveFails, Hashes!At
<1> QED BY <1>1, <1>2, <1>3, <1>4, <1>5, <1>6, <1>7, <1>8, <1>9, Zenon DEF Hashes!Next

LEMMA HashStep == ASSUME HashTypeOK, HashInv, Hashes!Next PROVE HashInv'
<1> USE NoneIsNoValue DEF HashTypeOK, Hashes!TypeOK, Hashes!IdCall, Hashes!Writing, Hashes!At
<1> USE DEF HashInv, Sure, OfType, Hashes!TypesOf, Hashes!Types
<1>1. ASSUME NEW c \in Certificates, Hashes!Install(c)
      PROVE  HashInv'
  <2> USE <1>1 DEF Hashes!Install, Hashes!CallOver
  <2>1. OneWriter'
    BY DEF OneWriter
  <2>2. FoundIsThere'
    BY DEF FoundIsThere, OneWriter
  <2>3. RowsDeleted'
    BY DEF RowsDeleted, OneWriter
  <2>4. RowsRight'
    BY DEF RowsRight, OneWriter
  <2> QED BY <2>1, <2>2, <2>3, <2>4
<1>2. ASSUME NEW c \in Certificates, Hashes!Delete(c)
      PROVE  HashInv'
  <2> USE <1>2 DEF Hashes!Delete, Hashes!CallOver
  <2>1. OneWriter'
    BY DEF OneWriter
  <2>2. FoundIsThere'
    BY DEF FoundIsThere, OneWriter
  <2>3. RowsDeleted'
    BY DEF RowsDeleted, OneWriter
  <2>4. RowsRight'
    BY DEF RowsRight, OneWriter
  <2> QED BY <2>1, <2>2, <2>3, <2>4
<1>3. ASSUME NEW q \in Hashes!IdCalls, NEW types \in SUBSET Hashes!Types, Hashes!SendIdCall(q, types)
      PROVE  HashInv'
  <2> USE <1>3 DEF Hashes!SendIdCall, Hashes!CallOver
  <2>1. OneWriter'
    BY DEF OneWriter
  <2>2. FoundIsThere'
    BY DEF FoundIsThere, OneWriter
  <2>3. RowsDeleted'
    BY DEF RowsDeleted, OneWriter
  <2>4. RowsRight'
    <3>1. \A b \in Hashes!IdCalls, t \in Hashes!Types : Hashes!Writing(b, t) => Hashes!Writing(b, t)'
      BY DEF Hashes!NextIdCall
    <3> QED BY <3>1 DEF RowsRight
  <2> QED BY <2>1, <2>2, <2>3, <2>4
<1>4. ASSUME NEW q \in Hashes!IdCalls, Hashes!AnswerIdCall(q)
      PROVE  HashInv'
  <2> USE <1>4 DEF Hashes!AnswerIdCall, Hashes!CallOver
  <2>1. OneWriter'
    BY DEF OneWriter
  <2>2. FoundIsThere'
    BY DEF FoundIsThere, OneWriter
  <2>3. RowsDeleted'
    BY DEF RowsDeleted, OneWriter
  <2>4. RowsRight'
    BY DEF RowsRight, OneWriter
  <2> QED BY <2>1, <2>2, <2>3, <2>4
<1>5. ASSUME NEW q \in Hashes!IdCalls, Hashes!NoHashes(q)
      PROVE  HashInv'
  <2> USE <1>5 DEF Hashes!NoHashes, Hashes!CallOver
  <2>1. OneWriter'
    BY DEF OneWriter
  <2>2. FoundIsThere'
    BY DEF FoundIsThere, OneWriter
  <2>3. RowsDeleted'
    BY DEF RowsDeleted, OneWriter
  <2>4. RowsRight'
    BY DEF RowsRight, OneWriter
  <2> QED BY <2>1, <2>2, <2>3, <2>4
<1>6. ASSUME NEW q \in Hashes!IdCalls, Hashes!DeleteHashes(q)
      PROVE  HashInv'
  <2> USE <1>6 DEF Hashes!DeleteHashes, Hashes!CallOver
  <2>1. OneWriter'
    BY DEF OneWriter
  <2>2. FoundIsThere'
    BY DEF FoundIsThere, OneWriter
  <2>3. RowsDeleted'
    BY DEF RowsDeleted, OneWriter
  <2>4. RowsRight'
    BY DEF RowsRight, OneWriter
  <2> QED BY <2>1, <2>2, <2>3, <2>4
<1>7. ASSUME NEW q \in Hashes!IdCalls, Hashes!DeleteFails(q)
      PROVE  HashInv'
  <2> USE <1>7 DEF Hashes!DeleteFails, Hashes!CallOver
  <2>1. OneWriter'
    BY DEF OneWriter
  <2>2. FoundIsThere'
    BY DEF FoundIsThere, OneWriter
  <2>3. RowsDeleted'
    BY DEF RowsDeleted, OneWriter
  <2>4. RowsRight'
    BY DEF RowsRight, OneWriter
  <2> QED BY <2>1, <2>2, <2>3, <2>4
<1>8. ASSUME NEW q \in Hashes!IdCalls, Hashes!SaveHashes(q)
      PROVE  HashInv'
  <2> USE <1>8 DEF Hashes!SaveHashes, Hashes!CallOver
  <2>1. OneWriter'
    BY DEF OneWriter
  <2>2. FoundIsThere'
    BY DEF FoundIsThere, OneWriter
  <2>3. RowsDeleted'
    BY DEF RowsDeleted, OneWriter
  <2>4. RowsRight'
    <3> SUFFICES ASSUME NEW t \in Sure, \A b \in Hashes!IdCalls : ~Hashes!Writing(b, t)',
                        NEW c \in OfType(t)
                 PROVE  hashRows'[c] = IF c \in certificates THEN 1 ELSE 0
      BY DEF RowsRight
    <3>1. ASSUME NEW b \in Hashes!IdCalls, b # q PROVE ~Hashes!Writing(b, t)
      BY <3>1
    <3>2. CASE Hashes!Writing(q, t)
      <4>1. hashRows[c] = 0
        BY <3>2 DEF RowsDeleted
      <4>2. c \in idCall[q].found <=> c \in certificates
        BY <3>2 DEF FoundIsThere
      <4> QED BY <4>1, <4>2
    <3>3. CASE ~Hashes!Writing(q, t)
      <4>1. hashRows[c] = IF c \in certificates THEN 1 ELSE 0
        BY <3>1, <3>3 DEF RowsRight
      <4>2. c \notin idCall[q].found
        BY <3>3
      <4> QED BY <4>1, <4>2
    <3> QED BY <3>2, <3>3
  <2> QED BY <2>1, <2>2, <2>3, <2>4
<1>9. ASSUME NEW q \in Hashes!IdCalls, Hashes!SaveFails(q)
      PROVE  HashInv'
  <2> USE <1>9 DEF Hashes!SaveFails, Hashes!CallOver
  <2>1. OneWriter'
    BY DEF OneWriter
  <2>2. FoundIsThere'
    BY DEF FoundIsThere, OneWriter
  <2>3. RowsDeleted'
    BY DEF RowsDeleted, OneWriter
  <2>4. RowsRight'
    BY DEF RowsRight, OneWriter
  <2> QED BY <2>1, <2>2, <2>3, <2>4
<1> QED BY <1>1, <1>2, <1>3, <1>4, <1>5, <1>6, <1>7, <1>8, <1>9, Zenon DEF Hashes!Next

LEMMA HashStutter ==
  ASSUME HashTypeOK, HashInv, UNCHANGED certificateVars PROVE HashTypeOK' /\ HashInv'
BY DEF certificateVars, HashTypeOK, Hashes!TypeOK, HashInv, OneWriter, FoundIsThere, RowsDeleted,
  RowsRight, Sure, OfType, Hashes!Writing, Hashes!At

LEMMA HashInvariant == Hashes!Spec => [](HashTypeOK /\ HashInv)
<1>1. Hashes!Init => HashTypeOK /\ HashInv
  BY HashInit
<1>2. HashTypeOK /\ HashInv /\ [Hashes!Next]_(Hashes!certificateVars) => (HashTypeOK /\ HashInv)'
  BY HashType, HashStep, HashStutter DEF certificateVars, Hashes!certificateVars
<1> QED BY <1>1, <1>2, PTL DEF Hashes!Spec

LEMMA CertificatesKnownHolds == Hashes!Spec => []Hashes!CertificatesKnown
<1>1. HashTypeOK /\ HashInv => Hashes!CertificatesKnown
  BY DEF Hashes!CertificatesKnown, HashInv, RowsRight, Sure, OfType
<1> QED BY <1>1, HashInvariant, PTL

(* There is a row for each certificate of a type and for no other, for any *)
(* certificates, types and answers that interleave, unless two answers met *)
(* on the type or a certificate of it has changed since.                   *)
THEOREM CertificatesAreKnown == Spec => []CertificatesKnown
<1>1. Hashes!CertificatesKnown => CertificatesKnown
  BY Zenon DEF CertificatesKnown
<1> QED BY <1>1, CertificatesKnownHolds, PartsRun, PTL

-----------------------------------------------------------------------------
(* The device model. *)

LEMMA DeviceInit == ASSUME Device!Init PROVE DeviceTypeOK /\ DeviceInv
<1>1. DeviceTypeOK
  BY FactoryIsValue DEF Device!Init, DeviceTypeOK, Device!TypeOK, Device!Known, Device!SetAt
<1>2. DeviceInv
  BY DEF Device!Init, DeviceInv, OneMoves, SetRight, ReadRight, IdleRight, SetRuns, ReadRuns, Good,
    Device!SetAt, Device!ReadAt
<1> QED BY <1>1, <1>2

LEMMA DeviceType == ASSUME DeviceTypeOK, Device!Next PROVE DeviceTypeOK'
<1> USE NoneIsNoValue DEF DeviceTypeOK, Device!TypeOK, Device!Known, Device!SetCall, Device!ValueRead, Device!SetAt,
  Device!ReadAt, Device!SetOver, Device!ReadOver
<1>1. ASSUME NEW c \in Device!Sets, NEW v \in Values, Device!StoreValue(c, v)
      PROVE  DeviceTypeOK'
  BY <1>1 DEF Device!StoreValue
<1>2. ASSUME NEW c \in Device!Sets, Device!SendValue(c)
      PROVE  DeviceTypeOK'
  BY <1>2 DEF Device!SendValue
<1>3. ASSUME NEW c \in Device!Sets, Device!ValueNotSent(c)
      PROVE  DeviceTypeOK'
  BY <1>3 DEF Device!ValueNotSent
<1>4. ASSUME NEW c \in Device!Sets, Device!Accept(c)
      PROVE  DeviceTypeOK'
  BY <1>4 DEF Device!Accept
<1>5. ASSUME NEW c \in Device!Sets, Device!Refuse(c)
      PROVE  DeviceTypeOK'
  BY <1>5 DEF Device!Refuse
<1>6. ASSUME NEW c \in Device!Sets, Device!AcceptForReboot(c)
      PROVE  DeviceTypeOK'
  BY <1>6 DEF Device!AcceptForReboot
<1>7. ASSUME NEW c \in Device!Sets, Device!AnswerLost(c)
      PROVE  DeviceTypeOK'
  BY <1>7 DEF Device!AnswerLost
<1>8. ASSUME NEW c \in Device!Sets, Device!ReadAttribute(c)
      PROVE  DeviceTypeOK'
  BY <1>8 DEF Device!ReadAttribute
<1>9. ASSUME NEW c \in Device!Sets, Device!RecordAccepted(c)
      PROVE  DeviceTypeOK'
  BY <1>9 DEF Device!RecordAccepted
<1>10. ASSUME NEW c \in Device!Sets, Device!LookUpAccepted(c)
      PROVE  DeviceTypeOK'
  BY <1>10 DEF Device!LookUpAccepted
<1>11. ASSUME NEW c \in Device!Sets, Device!SaveAttribute(c)
      PROVE  DeviceTypeOK'
  BY <1>11 DEF Device!SaveAttribute
<1>12. ASSUME NEW q \in Device!Reads, NEW kind \in {"reported", "got"}, Device!GiveValue(q, kind)
      PROVE  DeviceTypeOK'
  BY <1>12 DEF Device!GiveValue
<1>13. ASSUME NEW q \in Device!Reads, Device!RefuseValue(q)
      PROVE  DeviceTypeOK'
  BY <1>13 DEF Device!RefuseValue
<1>14. ASSUME NEW q \in Device!Reads, Device!StoreGot(q)
      PROVE  DeviceTypeOK'
  BY <1>14 DEF Device!StoreGot
<1>15. ASSUME NEW q \in Device!Reads, Device!RecordStatus(q)
      PROVE  DeviceTypeOK'
  BY <1>15 DEF Device!RecordStatus
<1>16. ASSUME NEW q \in Device!Reads, Device!StoreReported(q)
      PROVE  DeviceTypeOK'
  BY <1>16 DEF Device!StoreReported
<1>17. ASSUME NEW q \in Device!Reads, Device!ReadReported(q)
      PROVE  DeviceTypeOK'
  BY <1>17 DEF Device!ReadReported
<1>18. ASSUME NEW q \in Device!Reads, Device!NoticeValue(q)
      PROVE  DeviceTypeOK'
  BY <1>18 DEF Device!NoticeValue
<1>19. ASSUME NEW q \in Device!Reads, Device!StoreNoticed(q)
      PROVE  DeviceTypeOK'
  BY <1>19 DEF Device!StoreNoticed
<1> QED BY <1>1, <1>2, <1>3, <1>4, <1>5, <1>6, <1>7, <1>8, <1>9, <1>10, <1>11, <1>12, <1>13, <1>14, <1>15, <1>16, <1>17, <1>18, <1>19, Zenon
  DEF Device!Next, Device!SetNext, Device!ReadNext

LEMMA DeviceStep == ASSUME DeviceTypeOK, DeviceInv, Device!Next PROVE DeviceInv'
<1> USE NoneIsNoValue DEF DeviceTypeOK, Device!TypeOK, Device!Known, Device!SetCall, Device!ValueRead
<1> USE DEF DeviceInv, Device!SetAt, Device!ReadAt, Device!SetOver, Device!ReadOver,
  SetRuns, ReadRuns, Good, Device!SetsOver, Device!ReadsOver, OneMoves
<1>1. ASSUME NEW c \in Device!Sets, NEW v \in Values, Device!StoreValue(c, v)
      PROVE  DeviceInv'
  <2> USE <1>1 DEF Device!StoreValue
  <2> SUFFICES ASSUME ~drifted'
               PROVE  OneMoves' /\ SetRight' /\ ReadRight' /\ IdleRight'
    OBVIOUS
  <2>1. OneMoves'
    OBVIOUS
  <2>2. SetRight'
    BY DEF SetRight, IdleRight
  <2>3. ReadRight'
    BY DEF ReadRight, SetRight, IdleRight
  <2>4. IdleRight'
    BY DEF SetRight, ReadRight, IdleRight
  <2> QED BY <2>1, <2>2, <2>3, <2>4
<1>2. ASSUME NEW c \in Device!Sets, Device!SendValue(c)
      PROVE  DeviceInv'
  <2> USE <1>2 DEF Device!SendValue
  <2> SUFFICES ASSUME ~drifted'
               PROVE  OneMoves' /\ SetRight' /\ ReadRight' /\ IdleRight'
    OBVIOUS
  <2>1. OneMoves'
    OBVIOUS
  <2>2. SetRight'
    BY DEF SetRight, IdleRight
  <2>3. ReadRight'
    BY DEF ReadRight, SetRight, IdleRight
  <2>4. IdleRight'
    BY DEF SetRight, ReadRight, IdleRight
  <2> QED BY <2>1, <2>2, <2>3, <2>4
<1>3. ASSUME NEW c \in Device!Sets, Device!ValueNotSent(c)
      PROVE  DeviceInv'
  <2> USE <1>3 DEF Device!ValueNotSent
  <2> SUFFICES ASSUME ~drifted'
               PROVE  OneMoves' /\ SetRight' /\ ReadRight' /\ IdleRight'
    OBVIOUS
  <2>1. OneMoves'
    OBVIOUS
  <2>2. SetRight'
    BY DEF SetRight, IdleRight
  <2>3. ReadRight'
    BY DEF ReadRight, SetRight, IdleRight
  <2>4. IdleRight'
    BY DEF SetRight, ReadRight, IdleRight
  <2> QED BY <2>1, <2>2, <2>3, <2>4
<1>4. ASSUME NEW c \in Device!Sets, Device!Accept(c)
      PROVE  DeviceInv'
  <2> USE <1>4 DEF Device!Accept
  <2> SUFFICES ASSUME ~drifted'
               PROVE  OneMoves' /\ SetRight' /\ ReadRight' /\ IdleRight'
    OBVIOUS
  <2>1. OneMoves'
    OBVIOUS
  <2>2. SetRight'
    BY DEF SetRight, IdleRight
  <2>3. ReadRight'
    BY DEF ReadRight, SetRight, IdleRight
  <2>4. IdleRight'
    BY DEF SetRight, ReadRight, IdleRight
  <2> QED BY <2>1, <2>2, <2>3, <2>4
<1>5. ASSUME NEW c \in Device!Sets, Device!Refuse(c)
      PROVE  DeviceInv'
  <2> USE <1>5 DEF Device!Refuse
  <2> SUFFICES ASSUME ~drifted'
               PROVE  OneMoves' /\ SetRight' /\ ReadRight' /\ IdleRight'
    OBVIOUS
  <2>1. OneMoves'
    OBVIOUS
  <2>2. SetRight'
    BY DEF SetRight, IdleRight
  <2>3. ReadRight'
    BY DEF ReadRight, SetRight, IdleRight
  <2>4. IdleRight'
    BY DEF SetRight, ReadRight, IdleRight
  <2> QED BY <2>1, <2>2, <2>3, <2>4
<1>6. ASSUME NEW c \in Device!Sets, Device!AcceptForReboot(c)
      PROVE  DeviceInv'
  <2> USE <1>6 DEF Device!AcceptForReboot
  <2> SUFFICES ASSUME ~drifted'
               PROVE  OneMoves' /\ SetRight' /\ ReadRight' /\ IdleRight'
    OBVIOUS
  <2>1. OneMoves'
    OBVIOUS
  <2>2. SetRight'
    BY DEF SetRight, IdleRight
  <2>3. ReadRight'
    BY DEF ReadRight, SetRight, IdleRight
  <2>4. IdleRight'
    BY DEF SetRight, ReadRight, IdleRight
  <2> QED BY <2>1, <2>2, <2>3, <2>4
<1>7. ASSUME NEW c \in Device!Sets, Device!AnswerLost(c)
      PROVE  DeviceInv'
  <2> USE <1>7 DEF Device!AnswerLost
  <2> SUFFICES ASSUME ~drifted'
               PROVE  OneMoves' /\ SetRight' /\ ReadRight' /\ IdleRight'
    OBVIOUS
  <2>1. OneMoves'
    OBVIOUS
  <2>2. SetRight'
    BY DEF SetRight, IdleRight
  <2>3. ReadRight'
    BY DEF ReadRight, SetRight, IdleRight
  <2>4. IdleRight'
    BY DEF SetRight, ReadRight, IdleRight
  <2> QED BY <2>1, <2>2, <2>3, <2>4
<1>8. ASSUME NEW c \in Device!Sets, Device!ReadAttribute(c)
      PROVE  DeviceInv'
  <2> USE <1>8 DEF Device!ReadAttribute
  <2> SUFFICES ASSUME ~drifted'
               PROVE  OneMoves' /\ SetRight' /\ ReadRight' /\ IdleRight'
    OBVIOUS
  <2>1. OneMoves'
    OBVIOUS
  <2>2. SetRight'
    BY DEF SetRight, IdleRight
  <2>3. ReadRight'
    BY DEF ReadRight, SetRight, IdleRight
  <2>4. IdleRight'
    BY DEF SetRight, ReadRight, IdleRight
  <2> QED BY <2>1, <2>2, <2>3, <2>4
<1>9. ASSUME NEW c \in Device!Sets, Device!RecordAccepted(c)
      PROVE  DeviceInv'
  <2> USE <1>9 DEF Device!RecordAccepted
  <2> SUFFICES ASSUME ~drifted'
               PROVE  OneMoves' /\ SetRight' /\ ReadRight' /\ IdleRight'
    OBVIOUS
  <2>1. OneMoves'
    OBVIOUS
  <2>2. SetRight'
    BY DEF SetRight, IdleRight
  <2>3. ReadRight'
    BY DEF ReadRight, SetRight, IdleRight
  <2>4. IdleRight'
    BY DEF SetRight, ReadRight, IdleRight
  <2> QED BY <2>1, <2>2, <2>3, <2>4
<1>10. ASSUME NEW c \in Device!Sets, Device!LookUpAccepted(c)
      PROVE  DeviceInv'
  <2> USE <1>10 DEF Device!LookUpAccepted
  <2> SUFFICES ASSUME ~drifted'
               PROVE  OneMoves' /\ SetRight' /\ ReadRight' /\ IdleRight'
    OBVIOUS
  <2>1. OneMoves'
    OBVIOUS
  <2>2. SetRight'
    BY DEF SetRight, IdleRight
  <2>3. ReadRight'
    BY DEF ReadRight, SetRight, IdleRight
  <2>4. IdleRight'
    BY DEF SetRight, ReadRight, IdleRight
  <2> QED BY <2>1, <2>2, <2>3, <2>4
<1>11. ASSUME NEW c \in Device!Sets, Device!SaveAttribute(c)
      PROVE  DeviceInv'
  <2> USE <1>11 DEF Device!SaveAttribute
  <2> SUFFICES ASSUME ~drifted'
               PROVE  OneMoves' /\ SetRight' /\ ReadRight' /\ IdleRight'
    OBVIOUS
  <2>1. OneMoves'
    OBVIOUS
  <2>2. SetRight'
    BY DEF SetRight, IdleRight
  <2>3. ReadRight'
    BY DEF ReadRight, SetRight, IdleRight
  <2>4. IdleRight'
    BY DEF SetRight, ReadRight, IdleRight
  <2> QED BY <2>1, <2>2, <2>3, <2>4
<1>12. ASSUME NEW q \in Device!Reads, NEW kind \in {"reported", "got"}, Device!GiveValue(q, kind)
      PROVE  DeviceInv'
  <2> USE <1>12 DEF Device!GiveValue
  <2> SUFFICES ASSUME ~drifted'
               PROVE  OneMoves' /\ SetRight' /\ ReadRight' /\ IdleRight'
    OBVIOUS
  <2>1. OneMoves'
    OBVIOUS
  <2>2. SetRight'
    BY DEF SetRight, IdleRight
  <2>3. ReadRight'
    BY DEF ReadRight, SetRight, IdleRight
  <2>4. IdleRight'
    BY DEF SetRight, ReadRight, IdleRight
  <2> QED BY <2>1, <2>2, <2>3, <2>4
<1>13. ASSUME NEW q \in Device!Reads, Device!RefuseValue(q)
      PROVE  DeviceInv'
  <2> USE <1>13 DEF Device!RefuseValue
  <2> SUFFICES ASSUME ~drifted'
               PROVE  OneMoves' /\ SetRight' /\ ReadRight' /\ IdleRight'
    OBVIOUS
  <2>1. OneMoves'
    OBVIOUS
  <2>2. SetRight'
    BY DEF SetRight, IdleRight
  <2>3. ReadRight'
    BY DEF ReadRight, SetRight, IdleRight
  <2>4. IdleRight'
    BY DEF SetRight, ReadRight, IdleRight
  <2> QED BY <2>1, <2>2, <2>3, <2>4
<1>14. ASSUME NEW q \in Device!Reads, Device!StoreGot(q)
      PROVE  DeviceInv'
  <2> USE <1>14 DEF Device!StoreGot
  <2> SUFFICES ASSUME ~drifted'
               PROVE  OneMoves' /\ SetRight' /\ ReadRight' /\ IdleRight'
    OBVIOUS
  <2>1. OneMoves'
    OBVIOUS
  <2>2. SetRight'
    BY DEF SetRight, IdleRight
  <2>3. ReadRight'
    BY DEF ReadRight, SetRight, IdleRight
  <2>4. IdleRight'
    BY DEF SetRight, ReadRight, IdleRight
  <2> QED BY <2>1, <2>2, <2>3, <2>4
<1>15. ASSUME NEW q \in Device!Reads, Device!RecordStatus(q)
      PROVE  DeviceInv'
  <2> USE <1>15 DEF Device!RecordStatus
  <2> SUFFICES ASSUME ~drifted'
               PROVE  OneMoves' /\ SetRight' /\ ReadRight' /\ IdleRight'
    OBVIOUS
  <2>1. OneMoves'
    OBVIOUS
  <2>2. SetRight'
    BY DEF SetRight, IdleRight
  <2>3. ReadRight'
    BY DEF ReadRight, SetRight, IdleRight
  <2>4. IdleRight'
    BY DEF SetRight, ReadRight, IdleRight
  <2> QED BY <2>1, <2>2, <2>3, <2>4
<1>16. ASSUME NEW q \in Device!Reads, Device!StoreReported(q)
      PROVE  DeviceInv'
  <2> USE <1>16 DEF Device!StoreReported
  <2> SUFFICES ASSUME ~drifted'
               PROVE  OneMoves' /\ SetRight' /\ ReadRight' /\ IdleRight'
    OBVIOUS
  <2>1. OneMoves'
    OBVIOUS
  <2>2. SetRight'
    BY DEF SetRight, IdleRight
  <2>3. ReadRight'
    BY DEF ReadRight, SetRight, IdleRight
  <2>4. IdleRight'
    BY DEF SetRight, ReadRight, IdleRight
  <2> QED BY <2>1, <2>2, <2>3, <2>4
<1>17. ASSUME NEW q \in Device!Reads, Device!ReadReported(q)
      PROVE  DeviceInv'
  <2> USE <1>17 DEF Device!ReadReported
  <2> SUFFICES ASSUME ~drifted'
               PROVE  OneMoves' /\ SetRight' /\ ReadRight' /\ IdleRight'
    OBVIOUS
  <2>1. OneMoves'
    OBVIOUS
  <2>2. SetRight'
    BY DEF SetRight, IdleRight
  <2>3. ReadRight'
    BY DEF ReadRight, SetRight, IdleRight
  <2>4. IdleRight'
    BY DEF SetRight, ReadRight, IdleRight
  <2> QED BY <2>1, <2>2, <2>3, <2>4
<1>18. ASSUME NEW q \in Device!Reads, Device!NoticeValue(q)
      PROVE  DeviceInv'
  <2> USE <1>18 DEF Device!NoticeValue
  <2> SUFFICES ASSUME ~drifted'
               PROVE  OneMoves' /\ SetRight' /\ ReadRight' /\ IdleRight'
    OBVIOUS
  <2>1. OneMoves'
    OBVIOUS
  <2>2. SetRight'
    BY DEF SetRight, IdleRight
  <2>3. ReadRight'
    BY DEF ReadRight, SetRight, IdleRight
  <2>4. IdleRight'
    BY DEF SetRight, ReadRight, IdleRight
  <2> QED BY <2>1, <2>2, <2>3, <2>4
<1>19. ASSUME NEW q \in Device!Reads, Device!StoreNoticed(q)
      PROVE  DeviceInv'
  <2> USE <1>19 DEF Device!StoreNoticed
  <2> SUFFICES ASSUME ~drifted'
               PROVE  OneMoves' /\ SetRight' /\ ReadRight' /\ IdleRight'
    OBVIOUS
  <2>1. OneMoves'
    OBVIOUS
  <2>2. SetRight'
    BY DEF SetRight, IdleRight
  <2>3. ReadRight'
    BY DEF ReadRight, SetRight, IdleRight
  <2>4. IdleRight'
    BY DEF SetRight, ReadRight, IdleRight
  <2> QED BY <2>1, <2>2, <2>3, <2>4
<1> QED BY <1>1, <1>2, <1>3, <1>4, <1>5, <1>6, <1>7, <1>8, <1>9, <1>10, <1>11, <1>12, <1>13, <1>14, <1>15, <1>16, <1>17, <1>18, <1>19, Zenon
  DEF Device!Next, Device!SetNext, Device!ReadNext

LEMMA DeviceStutter ==
  ASSUME DeviceTypeOK, DeviceInv, UNCHANGED deviceVars PROVE DeviceTypeOK' /\ DeviceInv'
BY DEF deviceVars, DeviceTypeOK, Device!TypeOK, DeviceInv, OneMoves, SetRight, ReadRight, IdleRight,
  SetRuns, ReadRuns, Good, Device!SetAt, Device!ReadAt, Device!SetsOver, Device!ReadsOver

LEMMA DeviceInvariant == Device!Spec => [](DeviceTypeOK /\ DeviceInv)
<1>1. Device!Init => DeviceTypeOK /\ DeviceInv
  BY DeviceInit
<1>2. DeviceTypeOK /\ DeviceInv /\ [Device!Next]_(Device!deviceVars) => (DeviceTypeOK /\ DeviceInv)'
  BY DeviceType, DeviceStep, DeviceStutter DEF deviceVars, Device!deviceVars
<1> QED BY <1>1, <1>2, PTL DEF Device!Spec

LEMMA ValueIsActualHolds == Device!Spec => []Device!ValueIsActual
<1>1. DeviceTypeOK /\ DeviceInv => Device!ValueIsActual
  BY DEF Device!ValueIsActual, DeviceInv, IdleRight, Good
<1> QED BY <1>1, DeviceInvariant, PTL

(* The device model has the value of the station, or none, for any values, *)
(* calls and reports, unless the row may be wrong as ValueIsActual says.   *)
THEOREM ValuesAreActual == Spec => []ValueIsActual
<1>1. Device!ValueIsActual => ValueIsActual
  BY Zenon DEF ValueIsActual
<1> QED BY <1>1, ValueIsActualHolds, PartsRun, PTL

-----------------------------------------------------------------------------
(* Statuses of connectors. *)

LEMMA StatusInit == ASSUME Status!Init PROVE StatusTypeOK /\ StatusInv
<1>1. StatusTypeOK
  BY DEF Status!Init, StatusTypeOK, Status!TypeOK
<1>2. StatusInv
  BY DEF Status!Init, StatusInv, InSequence, LatestCame, DeletesOwn, HasLatest, LastRuns,
     LastRead, LastDeleted,
    LastIsLatest, LastOnRow, StatusRuns, Status!Stored, Status!Of, Status!At
<1> QED BY <1>1, <1>2

LEMMA StatusType == ASSUME StatusTypeOK, Status!Next PROVE StatusTypeOK'
<1> USE NoneIsNoValue DEF StatusTypeOK, Status!TypeOK, Status!Handler, Status!At, Status!GoTo,
  Status!Answered, Status!ConnectorIds
<1>1. ASSUME NEW n \in Status!Notifications, NEW d \in Connectors, Status!Notify(n, d)
      PROVE  StatusTypeOK'
  BY <1>1 DEF Status!Notify
<1>2. ASSUME Status!GiveUp
      PROVE  StatusTypeOK'
  BY <1>2 DEF Status!GiveUp
<1>3. ASSUME NEW n \in Status!Notifications, Status!StoreNotification(n)
      PROVE  StatusTypeOK'
  BY <1>3 DEF Status!StoreNotification
<1>4. ASSUME NEW n \in Status!Notifications, Status!ReadLatest(n)
      PROVE  StatusTypeOK'
  BY <1>4 DEF Status!ReadLatest
<1>5. ASSUME NEW n \in Status!Notifications, Status!DeleteLatest(n)
      PROVE  StatusTypeOK'
  BY <1>5 DEF Status!DeleteLatest
<1>6. ASSUME NEW n \in Status!Notifications, Status!CreateLatest(n)
      PROVE  StatusTypeOK'
  BY <1>6 DEF Status!CreateLatest
<1>7. ASSUME NEW n \in Status!Notifications, Status!LatestFails(n)
      PROVE  StatusTypeOK'
  BY <1>7 DEF Status!LatestFails
<1>8. ASSUME NEW n \in Status!Notifications, Status!UpdateConnector(n)
      PROVE  StatusTypeOK'
  BY <1>8 DEF Status!UpdateConnector
<1>9. ASSUME NEW n \in Status!Notifications, Status!ConnectorFails(n)
      PROVE  StatusTypeOK'
  BY <1>9 DEF Status!ConnectorFails
<1>10. ASSUME NEW n \in Status!Notifications, Status!UpdateAvailability(n)
      PROVE  StatusTypeOK'
  BY <1>10 DEF Status!UpdateAvailability
<1>11. ASSUME NEW n \in Status!Notifications, Status!AvailabilityNotStored(n)
      PROVE  StatusTypeOK'
  BY <1>11 DEF Status!AvailabilityNotStored
<1> QED BY <1>1, <1>2, <1>3, <1>4, <1>5, <1>6, <1>7, <1>8, <1>9, <1>10, <1>11, Zenon DEF Status!Next

LEMMA StatusStep == ASSUME StatusTypeOK, StatusInv, Status!Next PROVE StatusInv'
<1> USE NoneIsNoValue DEF StatusTypeOK, Status!TypeOK, Status!Handler, StatusInv, StatusRuns,
  Status!At, Status!Of, Status!GoTo, Status!Notifications
<1>0. None \notin Status!Handler
  BY NoneIsNoValue
<1> HIDE NoneIsNoValue
<1> USE <1>0
<1>1. ASSUME NEW n \in Status!Notifications, NEW d \in Connectors, Status!Notify(n, d)
      PROVE  StatusInv'
  <2> USE <1>1 DEF Status!Notify
  <2>1. InSequence'
    BY DEF InSequence
  <2>2. LatestCame'
    BY DEF LatestCame
  <2>3. DeletesOwn'
    BY DEF DeletesOwn
  <2>4. HasLatest'
    BY DEF HasLatest, DeletesOwn, Status!Stored, Status!Replacing
  <2>5. LastRuns'
    BY DEF LastRuns, InSequence, Status!Running
  <2>6. LastRead'
    BY DEF LastRead, LastRuns, DeletesOwn, LatestCame
  <2>7. LastDeleted'
    BY DEF LastDeleted, LastRead, LastRuns, DeletesOwn, LatestCame
  <2>8. LastIsLatest'
    <3> SUFFICES ASSUME NEW c \in Connectors \ (overlapped \union failed)', NEW m \in Status!Notifications,
                        Status!IsLast(m, c)', Status!Stored(m)'
                 PROVE  m \in latest /\ \A k \in latest : Status!Of(k, c)' => k = m
      BY Zenon DEF LastIsLatest
    <3>1. m # n /\ Status!Stored(m)
      BY DEF Status!Stored
    <3>2. Status!IsLast(m, c)
      BY <3>1 DEF Status!IsLast
    <3>3. n \notin latest /\ \A k \in latest : Status!Of(k, c)' => Status!Of(k, c)
      BY DEF LatestCame
    <3>4. c \in Connectors \ (overlapped \union failed)
      OBVIOUS
    <3>5. m \in latest /\ \A k \in latest : Status!Of(k, c) => k = m
      <4> HIDE DEF Status!IsLast, Status!Stored, Status!Of
      <4> QED BY <3>1, <3>2, <3>4 DEF LastIsLatest
    <3> QED BY <3>3, <3>5
  <2>9. LastOnRow'
    BY DEF LastOnRow, LastRuns, InSequence, Status!IsLast, Status!Shared, Status!ConnectorIds
  <2> QED BY <2>1, <2>2, <2>3, <2>4, <2>5, <2>6, <2>7, <2>8, <2>9
<1>2. ASSUME Status!GiveUp
      PROVE  StatusInv'
  <2> USE <1>2 DEF Status!GiveUp
  <2>1. InSequence'
    BY DEF InSequence
  <2>2. LatestCame'
    BY DEF LatestCame
  <2>3. DeletesOwn'
    BY DEF DeletesOwn
  <2>4. HasLatest'
    BY DEF HasLatest, DeletesOwn, Status!Stored, Status!Replacing
  <2>5. LastRuns'
    BY DEF LastRuns, InSequence, Status!Running
  <2>6. LastRead'
    BY DEF LastRead, LastRuns, DeletesOwn, LatestCame
  <2>7. LastDeleted'
    BY DEF LastDeleted, LastRead, LastRuns, DeletesOwn, LatestCame
  <2>8. LastIsLatest'
    BY DEF LastIsLatest, Status!IsLast, Status!Stored
  <2>9. LastOnRow'
    BY DEF LastOnRow, LastRuns, InSequence, Status!IsLast, Status!Shared, Status!ConnectorIds
  <2> QED BY <2>1, <2>2, <2>3, <2>4, <2>5, <2>6, <2>7, <2>8, <2>9
<1>3. ASSUME NEW n \in Status!Notifications, Status!StoreNotification(n)
      PROVE  StatusInv'
  <2> USE <1>3 DEF Status!StoreNotification
  <2>1. InSequence'
    BY DEF InSequence
  <2>2. LatestCame'
    BY DEF LatestCame
  <2>3. DeletesOwn'
    BY DEF DeletesOwn
  <2>4. HasLatest'
    BY DEF HasLatest, DeletesOwn, Status!Stored, Status!Replacing
  <2>5. LastRuns'
    BY DEF LastRuns, InSequence, Status!Running
  <2>6. LastRead'
    BY DEF LastRead, LastRuns, DeletesOwn, LatestCame
  <2>7. LastDeleted'
    BY DEF LastDeleted, LastRead, LastRuns, DeletesOwn, LatestCame
  <2>8. LastIsLatest'
    BY DEF LastIsLatest, LastDeleted, LastRuns, DeletesOwn, InSequence, LatestCame,
      Status!IsLast, Status!Stored
  <2>9. LastOnRow'
    BY DEF LastOnRow, LastRuns, InSequence, Status!IsLast, Status!Shared, Status!ConnectorIds
  <2> QED BY <2>1, <2>2, <2>3, <2>4, <2>5, <2>6, <2>7, <2>8, <2>9
<1>4. ASSUME NEW n \in Status!Notifications, Status!ReadLatest(n)
      PROVE  StatusInv'
  <2> USE <1>4 DEF Status!ReadLatest
  <2>1. InSequence'
    BY DEF InSequence
  <2>2. LatestCame'
    BY DEF LatestCame
  <2>3. DeletesOwn'
    BY DEF DeletesOwn
  <2>4. HasLatest'
    BY DEF HasLatest, DeletesOwn, Status!Stored, Status!Replacing
  <2>5. LastRuns'
    BY DEF LastRuns, InSequence, Status!Running
  <2>6. LastRead'
    BY DEF LastRead, LastRuns, DeletesOwn, LatestCame
  <2>7. LastDeleted'
    BY DEF LastDeleted, LastRead, LastRuns, DeletesOwn, LatestCame
  <2>8. LastIsLatest'
    BY DEF LastIsLatest, LastDeleted, LastRuns, DeletesOwn, InSequence, LatestCame,
      Status!IsLast, Status!Stored
  <2>9. LastOnRow'
    BY DEF LastOnRow, LastRuns, InSequence, Status!IsLast, Status!Shared, Status!ConnectorIds
  <2> QED BY <2>1, <2>2, <2>3, <2>4, <2>5, <2>6, <2>7, <2>8, <2>9
<1>5. ASSUME NEW n \in Status!Notifications, Status!DeleteLatest(n)
      PROVE  StatusInv'
  <2> USE <1>5 DEF Status!DeleteLatest
  <2>1. InSequence'
    BY DEF InSequence
  <2>2. LatestCame'
    BY DEF LatestCame
  <2>3. DeletesOwn'
    BY DEF DeletesOwn
  <2>4. HasLatest'
    BY DEF HasLatest, DeletesOwn, Status!Stored, Status!Replacing
  <2>5. LastRuns'
    BY DEF LastRuns, InSequence, Status!Running
  <2>6. LastRead'
    BY DEF LastRead, LastRuns, DeletesOwn, LatestCame
  <2>7. LastDeleted'
    BY DEF LastDeleted, LastRead, LastRuns, DeletesOwn, LatestCame
  <2>8. LastIsLatest'
    BY DEF LastIsLatest, LastDeleted, LastRuns, DeletesOwn, InSequence, LatestCame,
      Status!IsLast, Status!Stored
  <2>9. LastOnRow'
    BY DEF LastOnRow, LastRuns, InSequence, Status!IsLast, Status!Shared, Status!ConnectorIds
  <2> QED BY <2>1, <2>2, <2>3, <2>4, <2>5, <2>6, <2>7, <2>8, <2>9
<1>6. ASSUME NEW n \in Status!Notifications, Status!CreateLatest(n)
      PROVE  StatusInv'
  <2> USE <1>6 DEF Status!CreateLatest
  <2>1. InSequence'
    BY DEF InSequence
  <2>2. LatestCame'
    BY DEF LatestCame
  <2>3. DeletesOwn'
    BY DEF DeletesOwn
  <2>4. HasLatest'
    BY DEF HasLatest, DeletesOwn, Status!Stored, Status!Replacing
  <2>5. LastRuns'
    BY DEF LastRuns, InSequence, Status!Running
  <2>6. LastRead'
    BY DEF LastRead, LastRuns, DeletesOwn, LatestCame
  <2>7. LastDeleted'
    BY DEF LastDeleted, LastRead, LastRuns, DeletesOwn, LatestCame
  <2>8. LastIsLatest'
    BY DEF LastIsLatest, LastDeleted, LastRuns, DeletesOwn, InSequence, LatestCame,
      Status!IsLast, Status!Stored
  <2>9. LastOnRow'
    BY DEF LastOnRow, LastRuns, InSequence, Status!IsLast, Status!Shared, Status!ConnectorIds
  <2> QED BY <2>1, <2>2, <2>3, <2>4, <2>5, <2>6, <2>7, <2>8, <2>9
<1>7. ASSUME NEW n \in Status!Notifications, Status!LatestFails(n)
      PROVE  StatusInv'
  <2> USE <1>7 DEF Status!LatestFails
  <2>1. InSequence'
    BY DEF InSequence
  <2>2. LatestCame'
    BY DEF LatestCame
  <2>3. DeletesOwn'
    BY DEF DeletesOwn
  <2>4. HasLatest'
    BY DEF HasLatest, DeletesOwn, Status!Stored, Status!Replacing
  <2>5. LastRuns'
    BY DEF LastRuns, InSequence, Status!Running
  <2>6. LastRead'
    BY DEF LastRead, LastRuns, DeletesOwn, LatestCame
  <2>7. LastDeleted'
    BY DEF LastDeleted, LastRead, LastRuns, DeletesOwn, LatestCame
  <2>8. LastIsLatest'
    BY DEF LastIsLatest, LastDeleted, LastRuns, DeletesOwn, InSequence, LatestCame,
      Status!IsLast, Status!Stored
  <2>9. LastOnRow'
    BY DEF LastOnRow, LastRuns, InSequence, Status!IsLast, Status!Shared, Status!ConnectorIds
  <2> QED BY <2>1, <2>2, <2>3, <2>4, <2>5, <2>6, <2>7, <2>8, <2>9
<1>8. ASSUME NEW n \in Status!Notifications, Status!UpdateConnector(n)
      PROVE  StatusInv'
  <2> USE <1>8 DEF Status!UpdateConnector
  <2>1. InSequence'
    BY DEF InSequence
  <2>2. LatestCame'
    BY DEF LatestCame
  <2>3. DeletesOwn'
    BY DEF DeletesOwn
  <2>4. HasLatest'
    BY DEF HasLatest, DeletesOwn, Status!Stored, Status!Replacing
  <2>5. LastRuns'
    BY DEF LastRuns, InSequence, Status!Running
  <2>6. LastRead'
    BY DEF LastRead, LastRuns, DeletesOwn, LatestCame
  <2>7. LastDeleted'
    BY DEF LastDeleted, LastRead, LastRuns, DeletesOwn, LatestCame
  <2>8. LastIsLatest'
    BY DEF LastIsLatest, LastDeleted, LastRuns, DeletesOwn, InSequence, LatestCame,
      Status!IsLast, Status!Stored
  <2>9. LastOnRow'
    <3> SUFFICES ASSUME NEW c \in Connectors \ (overlapped \union failed), NEW m \in Status!Notifications,
                        Status!IsLast(m, c)', Status!At(m, "connector")' \/ Status!At(m, "over")'
                 PROVE  /\ Status!Shared(c) \/ connectorStatus'[ConnectorId[c]] = m
                        /\ Status!At(m, "over")' => availability[c] = m
      BY DEF LastOnRow
    <3>1. Status!IsLast(m, c)
      BY DEF Status!IsLast
    <3>2. CASE m = n
      BY <3>1, <3>2 DEF Status!IsLast, Status!ConnectorIds
    <3>3. CASE m # n
      <4>1. c # handler[n].connector
        BY <3>1, <3>3 DEF LastRuns, Status!IsLast
      <4>2. Status!Shared(c) \/ connectorStatus'[ConnectorId[c]] = m
        BY <3>1, <3>3, <4>1 DEF LastOnRow, Status!Shared
      <4>3. Status!At(m, "over")' => availability[c] = m
        BY <3>1, <3>3 DEF LastOnRow
      <4> QED BY <4>2, <4>3
    <3> QED BY <3>2, <3>3
  <2> QED BY <2>1, <2>2, <2>3, <2>4, <2>5, <2>6, <2>7, <2>8, <2>9
<1>9. ASSUME NEW n \in Status!Notifications, Status!ConnectorFails(n)
      PROVE  StatusInv'
  <2> USE <1>9 DEF Status!ConnectorFails
  <2>1. InSequence'
    BY DEF InSequence
  <2>2. LatestCame'
    BY DEF LatestCame
  <2>3. DeletesOwn'
    BY DEF DeletesOwn
  <2>4. HasLatest'
    BY DEF HasLatest, DeletesOwn, Status!Stored, Status!Replacing
  <2>5. LastRuns'
    BY DEF LastRuns, InSequence, Status!Running
  <2>6. LastRead'
    BY DEF LastRead, LastRuns, DeletesOwn, LatestCame
  <2>7. LastDeleted'
    BY DEF LastDeleted, LastRead, LastRuns, DeletesOwn, LatestCame
  <2>8. LastIsLatest'
    BY DEF LastIsLatest, LastDeleted, LastRuns, DeletesOwn, InSequence, LatestCame,
      Status!IsLast, Status!Stored
  <2>9. LastOnRow'
    BY DEF LastOnRow, LastRuns, InSequence, Status!IsLast, Status!Shared, Status!ConnectorIds
  <2> QED BY <2>1, <2>2, <2>3, <2>4, <2>5, <2>6, <2>7, <2>8, <2>9
<1>10. ASSUME NEW n \in Status!Notifications, Status!UpdateAvailability(n)
      PROVE  StatusInv'
  <2> USE <1>10 DEF Status!UpdateAvailability
  <2>1. InSequence'
    BY DEF InSequence
  <2>2. LatestCame'
    BY DEF LatestCame
  <2>3. DeletesOwn'
    BY DEF DeletesOwn
  <2>4. HasLatest'
    BY DEF HasLatest, DeletesOwn, Status!Stored, Status!Replacing
  <2>5. LastRuns'
    BY DEF LastRuns, InSequence, Status!Running
  <2>6. LastRead'
    BY DEF LastRead, LastRuns, DeletesOwn, LatestCame
  <2>7. LastDeleted'
    BY DEF LastDeleted, LastRead, LastRuns, DeletesOwn, LatestCame
  <2>8. LastIsLatest'
    BY DEF LastIsLatest, LastDeleted, LastRuns, DeletesOwn, InSequence, LatestCame,
      Status!IsLast, Status!Stored
  <2>9. LastOnRow'
    <3> SUFFICES ASSUME NEW c \in Connectors \ (overlapped \union failed), NEW m \in Status!Notifications,
                        Status!IsLast(m, c)', Status!At(m, "connector")' \/ Status!At(m, "over")'
                 PROVE  /\ Status!Shared(c) \/ connectorStatus[ConnectorId[c]] = m
                        /\ Status!At(m, "over")' => availability'[c] = m
      BY DEF LastOnRow
    <3>1. Status!IsLast(m, c)
      BY DEF Status!IsLast
    <3>2. CASE m = n
      BY <3>1, <3>2 DEF LastOnRow, Status!IsLast
    <3>3. CASE m # n
      <4>1. c # handler[n].connector
        BY <3>1, <3>3 DEF LastRuns, Status!IsLast
      <4> QED BY <3>1, <3>3, <4>1 DEF LastOnRow
    <3> QED BY <3>2, <3>3
  <2> QED BY <2>1, <2>2, <2>3, <2>4, <2>5, <2>6, <2>7, <2>8, <2>9
<1>11. ASSUME NEW n \in Status!Notifications, Status!AvailabilityNotStored(n)
      PROVE  StatusInv'
  <2> USE <1>11 DEF Status!AvailabilityNotStored
  <2>1. InSequence'
    BY DEF InSequence
  <2>2. LatestCame'
    BY DEF LatestCame
  <2>3. DeletesOwn'
    BY DEF DeletesOwn
  <2>4. HasLatest'
    BY DEF HasLatest, DeletesOwn, Status!Stored, Status!Replacing
  <2>5. LastRuns'
    BY DEF LastRuns, InSequence, Status!Running
  <2>6. LastRead'
    BY DEF LastRead, LastRuns, DeletesOwn, LatestCame
  <2>7. LastDeleted'
    BY DEF LastDeleted, LastRead, LastRuns, DeletesOwn, LatestCame
  <2>8. LastIsLatest'
    BY DEF LastIsLatest, LastDeleted, LastRuns, DeletesOwn, InSequence, LatestCame,
      Status!IsLast, Status!Stored
  <2>9. LastOnRow'
    BY DEF LastOnRow, LastRuns, InSequence, Status!IsLast, Status!Shared, Status!ConnectorIds
  <2> QED BY <2>1, <2>2, <2>3, <2>4, <2>5, <2>6, <2>7, <2>8, <2>9
<1> QED BY <1>1, <1>2, <1>3, <1>4, <1>5, <1>6, <1>7, <1>8, <1>9, <1>10, <1>11, Zenon DEF Status!Next

LEMMA StatusStutter ==
  ASSUME StatusTypeOK, StatusInv, UNCHANGED statusVars PROVE StatusTypeOK' /\ StatusInv'
BY DEF statusVars, StatusTypeOK, Status!TypeOK, StatusInv, InSequence, LatestCame, DeletesOwn, HasLatest, LastRuns,
  LastRead, LastDeleted, LastIsLatest, LastOnRow, StatusRuns, Status!At, Status!Of, Status!Stored,
  Status!Replacing, Status!IsLast

LEMMA StatusInvariant == Status!Spec => [](StatusTypeOK /\ StatusInv)
<1>1. Status!Init => StatusTypeOK /\ StatusInv
  BY StatusInit
<1>2. StatusTypeOK /\ StatusInv /\ [Status!Next]_(Status!statusVars) => (StatusTypeOK /\ StatusInv)'
  BY StatusType, StatusStep, StatusStutter DEF statusVars, Status!statusVars
<1> QED BY <1>1, <1>2, PTL DEF Status!Spec

LEMMA LatestStatusKnownHolds == Status!Spec => []Status!LatestStatusKnown
<1>1. StatusTypeOK /\ StatusInv => Status!LatestStatusKnown
  <2>1. StatusTypeOK /\ HasLatest =>
          \A c \in Connectors \ failed :
            ~Status!Replacing(c) /\ (\E n \in Status!Notifications : Status!Stored(n) /\ Status!Of(n, c)) =>
              Status!Latest(c) # {}
    BY DEF HasLatest, Status!Latest
  <2>2. StatusTypeOK /\ LastIsLatest /\ LastOnRow =>
          \A c \in Connectors \ failed, n \in Status!Notifications :
            Status!IsLast(n, c) /\ Status!At(n, "over") /\ c \notin overlapped =>
              /\ Status!Latest(c) = {n} /\ availability[c] = n
              /\ Status!Shared(c) \/ connectorStatus[ConnectorId[c]] = n
    BY DEF LastIsLatest, LastOnRow, Status!Latest, Status!Stored, Status!At, Status!IsLast,
       StatusTypeOK, Status!TypeOK
  <2> QED BY <2>1, <2>2 DEF Status!LatestStatusKnown, StatusInv
<1> QED BY <1>1, StatusInvariant, PTL

(* A connector that has reported a status has a latest one, and the last   *)
(* one everywhere when no handlers met and none failed, for any connectors *)
(* and any number of notifications.                                        *)
THEOREM LatestStatusesKnown == Spec => []LatestStatusKnown
<1>1. Status!LatestStatusKnown => LatestStatusKnown
  BY Zenon DEF LatestStatusKnown
<1> QED BY <1>1, LatestStatusKnownHolds, PartsRun, PTL

-----------------------------------------------------------------------------
(* The decisions about a token. *)

LEMMA AuthInit == ASSUME Auth!Init PROVE AuthTypeOK /\ AuthInv
<1> QED BY DEF Auth!Init, AuthTypeOK, AuthInv, AskingRight, Auth!OneDecision, Auth!Answered

LEMMA AuthType == ASSUME AuthTypeOK, Auth!Next PROVE AuthTypeOK'
<1> USE NoneIsNoValue, AuthorizationsAreRows DEF AuthTypeOK, Auth!Answer
<1>1. ASSUME NEW row \in Authorizations, Auth!Register(row)
      PROVE  AuthTypeOK'
  BY <1>1 DEF Auth!Register
<1>2. ASSUME Auth!Block
      PROVE  AuthTypeOK'
  BY <1>2 DEF Auth!Block, Auth!AuthorizationRows
<1>3. ASSUME Auth!Expire
      PROVE  AuthTypeOK'
  BY <1>3 DEF Auth!Expire, Auth!AuthorizationRows
<1>4. ASSUME NEW c \in Auth!Checks, NEW action \in Auth!Actions, NEW token \in Auth!IdTokens,
             Auth!Receive(c, action, token)
      PROVE  AuthTypeOK'
  BY <1>4 DEF Auth!Receive, CheckRecords
<1>5. ASSUME NEW c \in Auth!Checks, Auth!AnswerUnread(c)
      PROVE  AuthTypeOK'
  <2>1. \A st \in Auth!Statuses :
          [check[c] EXCEPT !.seen = None, !.status = st, !.pc = "answered"] \in CheckRecords
    BY <1>5 DEF Auth!AnswerUnread, CheckRecords
  <2> QED BY <1>5, <2>1 DEF Auth!AnswerUnread, Auth!Statuses
<1>6. ASSUME NEW c \in Auth!Checks, NEW anyActive \in BOOLEAN, Auth!ReadAuthorization(c, anyActive)
      PROVE  AuthTypeOK'
  <2> DEFINE row == authorization
             action == check[c].action
  <2>1. Auth!Unregistered(action) \in Auth!Statuses
    BY DEF Auth!Unregistered, Auth!Statuses
  <2>2. row # None => Auth!Refused(action, row) \in Auth!Statuses \union {None}
    BY DEF Auth!Refused, Auth!RefusedAtEvses, Auth!Statuses, Auth!AuthorizationRows
  <2>3. row # None => Auth!EvsesOf(row) \subseteq Evses
    BY DEF Auth!EvsesOf
  <2>4. \A s \in Auth!AuthorizationRows \union {None}, st \in Auth!Statuses :
          [check[c] EXCEPT !.seen = s, !.status = st, !.pc = "answered"] \in CheckRecords
    BY <1>6 DEF Auth!ReadAuthorization, CheckRecords
  <2>5. row # None => \A E \in SUBSET Evses, pc \in {"asking", "answered"}, st \in {"Accepted", None} :
          [check[c] EXCEPT !.seen = row, !.evses = E, !.pc = pc, !.status = st] \in CheckRecords
    BY <1>6, ZenonT(60) DEF Auth!ReadAuthorization, CheckRecords, Auth!Statuses
  <2>6. \A r \in CheckRecords : check' = [check EXCEPT ![c] = r] => AuthTypeOK'
    BY <1>6 DEF Auth!ReadAuthorization
  <2>7. CASE row = None \/ Auth!Refused(action, row) # None \/ Auth!Concurrent(action, row, anyActive)
    <3>1. \E st \in Auth!Statuses :
            check' = [check EXCEPT ![c] = [check[c] EXCEPT !.seen = row, !.status = st, !.pc = "answered"]]
      BY <1>6, <2>1, <2>2, <2>7 DEF Auth!ReadAuthorization, Auth!Statuses
    <3> QED BY <2>4, <2>6, <3>1
  <2>8. CASE ~(row = None \/ Auth!Refused(action, row) # None \/ Auth!Concurrent(action, row, anyActive))
    <3>1. \E E \in SUBSET Evses, pc \in {"asking", "answered"}, st \in {"Accepted", None} :
            check' = [check EXCEPT ![c] = [check[c] EXCEPT !.seen = row, !.evses = E, !.pc = pc, !.status = st]]
      BY <1>6, <2>3, <2>8, Zenon DEF Auth!ReadAuthorization
    <3> QED BY <2>5, <2>6, <2>8, <3>1, Zenon
  <2> QED BY <2>7, <2>8
<1>7. ASSUME NEW c \in Auth!Checks, NEW verdict \in Auth!Verdicts, Auth!AuthorizerAnswers(c, verdict)
      PROVE  AuthTypeOK'
  <2>1. \A st \in Auth!Statuses :
          [check[c] EXCEPT !.verdict = verdict, !.pc = "answered", !.status = st] \in CheckRecords
    BY <1>7 DEF Auth!AuthorizerAnswers, CheckRecords
  <2> QED BY <1>7, <2>1 DEF Auth!AuthorizerAnswers, Auth!Statuses
<1> QED BY <1>1, <1>2, <1>3, <1>4, <1>5, <1>6, <1>7, Zenon
  DEF Auth!Next

LEMMA AuthStep == ASSUME AuthTypeOK, AuthInv, Auth!Next PROVE AuthInv'
<1> DEFINE Asks(c) == check[c] # None /\ check[c].pc = "asking" =>
             /\ check[c].seen # None
             /\ check[c].seen.status # None =>
                  /\ check[c].seen.status = "Accepted" /\ ~check[c].seen.expired
                  /\ EvsesAllowed(c)
             /\ check[c].seen.realTime # "Allowed"
           Decides(c) == check[c] # None /\ check[c].pc = "answered" /\ check[c].seen # None
                         /\ check[c].seen.status # None =>
             /\ check[c].status = "Accepted" =>
                  Auth!Entitled(check[c].seen, check[c].verdict) /\ EvsesAllowed(c)
             /\ Auth!Entitled(check[c].seen, check[c].verdict) =>
                \/ check[c].status = "Accepted"
                \/ /\ check[c].action = "Authorize"
                   /\ check[c].status \in {"NotAllowedTypeEVSE", "NotAtThisLocation"}
                \/ /\ check[c].action \in {"TransactionEvent", "StartTransaction"}
                   /\ check[c].status = "ConcurrentTx"
<1>0. (AuthInv <=> \A c \in Auth!Checks : Asks(c) /\ Decides(c))
      /\ (AuthInv' <=> \A c \in Auth!Checks : Asks(c)' /\ Decides(c)')
  BY DEF AuthInv, AskingRight, Auth!OneDecision, Auth!Answered, EvsesAllowed
<1> USE NoneIsNoValue, AuthorizationsAreRows DEF AuthTypeOK, EvsesAllowed, Auth!Statuses
<1>1. ASSUME NEW row \in Authorizations, Auth!Register(row)
      PROVE  AuthInv'
  BY <1>0, <1>1 DEF Auth!Register
<1>2. ASSUME Auth!Block
      PROVE  AuthInv'
  BY <1>0, <1>2 DEF Auth!Block
<1>3. ASSUME Auth!Expire
      PROVE  AuthInv'
  BY <1>0, <1>3 DEF Auth!Expire
<1>4. ASSUME NEW c \in Auth!Checks, NEW action \in Auth!Actions, NEW token \in Auth!IdTokens,
             Auth!Receive(c, action, token)
      PROVE  AuthInv'
  <2>1. Asks(c)' /\ Decides(c)'
    BY <1>4 DEF Auth!Receive
  <2>2. \A d \in Auth!Checks \ {c} : check'[d] = check[d]
    BY <1>4 DEF Auth!Receive
  <2> QED BY <1>0, <2>1, <2>2
<1>5. ASSUME NEW c \in Auth!Checks, Auth!AnswerUnread(c)
      PROVE  AuthInv'
  <2>1. Asks(c)' /\ Decides(c)'
    BY <1>5 DEF Auth!AnswerUnread, Auth!Answer, CheckRecords
  <2>2. \A d \in Auth!Checks \ {c} : check'[d] = check[d]
    BY <1>5 DEF Auth!AnswerUnread, Auth!Answer
  <2> QED BY <1>0, <2>1, <2>2
<1>6. ASSUME NEW c \in Auth!Checks, NEW anyActive \in BOOLEAN, Auth!ReadAuthorization(c, anyActive)
      PROVE  AuthInv'
  <2> DEFINE row == authorization
             action == check[c].action
  <2>0. check[c] \in CheckRecords
    BY <1>6 DEF Auth!ReadAuthorization
  <2>1. Asks(c)' /\ Decides(c)'
    <3>1. CASE row = None
      BY <1>6, <2>0, <3>1, ZenonT(60) DEF Auth!ReadAuthorization, Auth!Answer, CheckRecords
    <3>2. CASE row # None /\ Auth!Refused(action, row) # None
      <4>1. row.status = "Accepted" /\ ~row.expired => action = "Authorize"
               /\ Auth!Refused(action, row) \in {"NotAllowedTypeEVSE", "NotAtThisLocation"}
        BY <3>2 DEF Auth!Refused, Auth!RefusedAtEvses
      <4>2. row.status # None => Auth!Refused(action, row) # "Accepted"
        BY <3>2 DEF Auth!Refused, Auth!RefusedAtEvses
      <4>3. check' = [check EXCEPT ![c] = [check[c] EXCEPT !.seen = row, !.status = Auth!Refused(action, row),
                                                         !.pc = "answered"]]
        BY <1>6, <3>2 DEF Auth!ReadAuthorization, Auth!Answer
      <4> HIDE DEF row
      <4> QED BY <2>0, <3>2, <4>1, <4>2, <4>3 DEF Auth!Entitled, CheckRecords
    <3>3. CASE row # None /\ Auth!Refused(action, row) = None /\ Auth!Concurrent(action, row, anyActive)
      <4>1. action \in {"TransactionEvent", "StartTransaction"}
        BY <3>3 DEF Auth!Concurrent
      <4>2. check' = [check EXCEPT ![c] = [check[c] EXCEPT !.seen = row, !.status = "ConcurrentTx",
                                                         !.pc = "answered"]]
        BY <1>6, <3>3 DEF Auth!ReadAuthorization, Auth!Answer
      <4> HIDE DEF row
      <4> QED BY <2>0, <3>3, <4>1, <4>2 DEF Auth!Entitled, CheckRecords
    <3>4. CASE row # None /\ Auth!Refused(action, row) = None /\ ~Auth!Concurrent(action, row, anyActive)
      <4> DEFINE E == IF action = "Authorize" /\ Auth!Restricted(row) THEN Auth!EvsesOf(row) ELSE {}
      <4>1. row.status # None => row.status = "Accepted" /\ ~row.expired
        BY <3>4 DEF Auth!Refused
      <4>2. row.status # None /\ action = "Authorize" => Auth!RefusedAtEvses(row) = None
        BY <3>4 DEF Auth!Refused
      <4>3. row.status # None /\ action = "Authorize" /\ row.allowedTypes # None =>
              E # {} /\ \A e \in E : \E i \in DOMAIN row.allowedTypes : TypeOf[e] = row.allowedTypes[i]
        <5> SUFFICES ASSUME row.status # None, action = "Authorize", row.allowedTypes # None
                     PROVE  E # {} /\ \A e \in E : \E i \in DOMAIN row.allowedTypes : TypeOf[e] = row.allowedTypes[i]
          OBVIOUS
        <5>1. E = Auth!EvsesOf(row) /\ E # {}
          BY <4>2 DEF Auth!RefusedAtEvses, Auth!Restricted
        <5> QED BY <5>1 DEF Auth!EvsesOf, Auth!FoundTypes
      <4>4. check' = [check EXCEPT ![c] = [check[c] EXCEPT
                !.seen = row, !.evses = E,
                !.pc = IF row.realTime = "Allowed" THEN "answered" ELSE "asking",
                !.status = IF row.realTime = "Allowed" THEN "Accepted" ELSE None]]
        BY <1>6, <3>4 DEF Auth!ReadAuthorization
      <4> HIDE DEF row, E
      <4> QED BY <2>0, <3>4, <4>1, <4>3, <4>4 DEF Auth!Entitled, CheckRecords
    <3> QED BY <3>1, <3>2, <3>3, <3>4
  <2>2. \A d \in Auth!Checks \ {c} : check'[d] = check[d]
    BY <1>6 DEF Auth!ReadAuthorization, Auth!Answer
  <2> QED BY <1>0, <2>1, <2>2
<1>7. ASSUME NEW c \in Auth!Checks, NEW verdict \in Auth!Verdicts, Auth!AuthorizerAnswers(c, verdict)
      PROVE  AuthInv'
  <2>1. Asks(c)' /\ Decides(c)'
    BY <1>0, <1>7 DEF Auth!AuthorizerAnswers, CheckRecords, Auth!Accepts, Auth!Entitled
  <2>2. \A d \in Auth!Checks \ {c} : check'[d] = check[d]
    BY <1>7 DEF Auth!AuthorizerAnswers
  <2> QED BY <1>0, <2>1, <2>2
<1> QED BY <1>1, <1>2, <1>3, <1>4, <1>5, <1>6, <1>7, Zenon DEF Auth!Next

LEMMA AuthStutter ==
  ASSUME AuthTypeOK, AuthInv, UNCHANGED authorizationVars PROVE AuthTypeOK' /\ AuthInv'
BY DEF authorizationVars, AuthTypeOK, AuthInv, AskingRight, EvsesAllowed, Auth!OneDecision,
   Auth!Answered

LEMMA AuthInvariant == Auth!Spec => [](AuthTypeOK /\ AuthInv)
<1>1. Auth!Init => AuthTypeOK /\ AuthInv
  BY AuthInit
<1>2. AuthTypeOK /\ AuthInv /\ [Auth!Next]_(Auth!authorizationVars) => (AuthTypeOK /\ AuthInv)'
  BY AuthType, AuthStep, AuthStutter DEF authorizationVars, Auth!authorizationVars
<1> QED BY <1>1, <1>2, PTL DEF Auth!Spec

LEMMA OneDecisionHolds == Auth!Spec => []Auth!OneDecision
<1>1. AuthInv => Auth!OneDecision
  BY DEF AuthInv
<1> QED BY <1>1, AuthInvariant, PTL

(* The four handlers decide alike of any token, whatever rows there are and *)
(* however the row changes while they ask.                                 *)
THEOREM DecisionsAgree == Spec => []OneDecision
<1>1. Auth!OneDecision => OneDecision
  BY Zenon DEF OneDecision
<1> QED BY <1>1, OneDecisionHolds, PartsRun, PTL

-----------------------------------------------------------------------------
(* OCPP 1.6 boots. *)

LEMMA Boot16Init == ASSUME Boot16!Init PROVE Boot16TypeOK /\ Boot16Inv
<1>1. Boot16TypeOK
  <2>1. Boot16!TypeOK
    <3> USE DEF Boot16!Init
    <3>1. boot \in [Boot16!Boots -> Boot16!Boot \union {None}]
      OBVIOUS
    <3>2. bootRow \in Boot16!BootRow \union {None} /\ bootTold \in Boot16!BootStatuses \union {None}
      OBVIOUS
    <3>3. writes \in 0..MaxWrites
      BY BootConstants
    <3>4. bootCache \in {"Pending", "Rejected", None} /\ barred \subseteq Boot16!BootActions
          /\ mixed \in BOOLEAN /\ overruled \in BOOLEAN /\ unsent \subseteq Boot16!Boots /\ configured \in BOOLEAN
      OBVIOUS
    <3> QED BY <3>1, <3>2, <3>3, <3>4 DEF Boot16!TypeOK
  <2>2. \A b \in Boot16!Boots : boot[b] = None
    BY DEF Boot16!Init
  <2> QED BY <2>1, <2>2 DEF Boot16TypeOK, Boot16!At
<1>2. \A b \in Boot16!Boots : boot[b] = None
  BY DEF Boot16!Init
<1>3. UnsentIsNoted /\ FlagsRight /\ AcceptanceRight
  BY <1>2, NoneIsNoValue, BootConstants DEF Boot16!Init, UnsentIsNoted, FlagsRight,
     AcceptanceRight,
    Boot16!Answering, Boot16!At, Boot16!BootStatuses
<1>4. OneAnswered /\ IdleFollows /\ NextFollows
  BY <1>2 DEF Boot16!Init, OneAnswered, IdleFollows, NextFollows, Barred, Cached,
    Boot16!Answering, Boot16!At
<1> QED BY <1>1, <1>3, <1>4 DEF Boot16Inv

LEMMA Boot16Type == ASSUME Boot16TypeOK, Boot16!Next PROVE Boot16TypeOK'
<1> USE NoneIsNoValue, BootConstants DEF Boot16TypeOK, Boot16!TypeOK, Boot16!Boot, Boot16!BootRow, Boot16!Flag, Boot16!BootStatuses,
  Boot16!At, Boot16!GoTo, Boot16!End, Boot16!BootOver, Boot16!NewRow, Boot16!DetermineBootStatus, Boot16!ToFlag
<1>1. ASSUME NEW b \in Boot16!Boots, Boot16!BootNotification(b)
      PROVE  Boot16TypeOK'
  BY <1>1 DEF Boot16!BootNotification
<1>2. ASSUME NEW b \in Boot16!Boots, Boot16!ReadCachedStatus(b)
      PROVE  Boot16TypeOK'
  BY <1>2 DEF Boot16!ReadCachedStatus
<1>3. ASSUME NEW b \in Boot16!Boots, Boot16!CachePermissions(b)
      PROVE  Boot16TypeOK'
  BY <1>3 DEF Boot16!CachePermissions
<1>4. ASSUME NEW b \in Boot16!Boots, Boot16!SendResponse(b)
      PROVE  Boot16TypeOK'
  BY <1>4 DEF Boot16!SendResponse
<1>5. ASSUME NEW b \in Boot16!Boots, Boot16!ResponseNotSent(b)
      PROVE  Boot16TypeOK'
  BY <1>5 DEF Boot16!ResponseNotSent
<1>6. ASSUME NEW b \in Boot16!Boots, Boot16!CacheBootStatus(b)
      PROVE  Boot16TypeOK'
  BY <1>6 DEF Boot16!CacheBootStatus
<1>7. ASSUME NEW b \in Boot16!Boots, Boot16!UpdateBootConfig(b)
      PROVE  Boot16TypeOK'
  <2> USE <1>7 DEF Boot16!UpdateBootConfig
  <2>1. bootRow' \in Boot16!BootRow
    OBVIOUS
  <2>2. boot' \in [Boot16!Boots -> Boot16!Boot \union {None}]
    <3>1. boot[b] \in Boot16!Boot
      OBVIOUS
    <3>2. [boot[b] EXCEPT !.pc = "configure"] \in Boot16!Boot
      BY <3>1 DEF Boot16!Boot
    <3>3. Boot16!BootOver \in Boot16!Boot
      BY BootConstants DEF Boot16!Boot
    <3> QED BY <3>2, <3>3, ZenonT(60)
  <2>3. \A a \in Boot16!Boots : Boot16!At(a, "wait")' => boot'[a].left > 0
    OBVIOUS
  <2> QED BY <2>1, <2>2, <2>3
<1>8. ASSUME NEW b \in Boot16!Boots, Boot16!StartConfiguring(b)
      PROVE  Boot16TypeOK'
  BY <1>8 DEF Boot16!StartConfiguring
<1>9. ASSUME NEW b \in Boot16!Boots, Boot16!EndWait(b)
      PROVE  Boot16TypeOK'
  BY <1>9 DEF Boot16!EndWait
<1>10. ASSUME NEW b \in Boot16!Boots, Boot16!UpdateFlags(b)
      PROVE  Boot16TypeOK'
  BY <1>10, ZenonT(60) DEF Boot16!UpdateFlags
<1>11. ASSUME NEW b \in Boot16!Boots, Boot16!TriggerMessage(b)
      PROVE  Boot16TypeOK'
  BY <1>11 DEF Boot16!TriggerMessage
<1>12. ASSUME NEW b \in Boot16!Boots, NEW sent \in BOOLEAN, Boot16!SendChangeConfiguration(b, sent)
      PROVE  Boot16TypeOK'
  BY <1>12 DEF Boot16!SendChangeConfiguration
<1>13. ASSUME NEW b \in Boot16!Boots, NEW sent \in BOOLEAN, Boot16!SendGetConfiguration(b, sent)
      PROVE  Boot16TypeOK'
  BY <1>13 DEF Boot16!SendGetConfiguration
<1>14. ASSUME NEW status \in Boot16!BootStatuses, Boot16!PutBootConfig(status)
      PROVE  Boot16TypeOK'
  BY <1>14 DEF Boot16!PutBootConfig
<1>15. ASSUME NEW b \in Boot16!Boots, Boot16!StationNotStored(b)
      PROVE  Boot16TypeOK'
  BY <1>15 DEF Boot16!StationNotStored
<1> QED BY <1>1, <1>2, <1>3, <1>4, <1>5, <1>6, <1>7, <1>8, <1>9, <1>10, <1>11, <1>12, <1>13, <1>14, <1>15,
      Zenon
  DEF Boot16!Next

LEMMA Boot16Step == ASSUME Boot16TypeOK, Boot16Inv, Boot16!Next PROVE Boot16Inv'
<1> USE NoneIsNoValue, BootConstants DEF Boot16Inv, Boot16TypeOK, Boot16!TypeOK, Boot16!Boot, Boot16!BootRow, Boot16!Flag, Boot16!BootStatuses,
  Boot16!At, Boot16!GoTo, Boot16!End, Boot16!BootOver, Boot16!NewRow
<1>1. ASSUME NEW b \in Boot16!Boots, Boot16!BootNotification(b)
      PROVE  Boot16Inv'
  <2> USE <1>1 DEF Boot16!BootNotification
  <2>0. Boot16!Answering' = Boot16!Answering \union {b}
    <3>1. \A a \in Boot16!Boots \ {b} : boot'[a] = boot[a]
      OBVIOUS
    <3>2. boot'[b] # None /\ boot'[b].pc = "look"
      <4>1. Boot16!DetermineBootStatus \in Boot16!BootStatuses
        BY DEF Boot16!DetermineBootStatus
      <4>2. boot'[b] = [status |-> Boot16!DetermineBootStatus, cached |-> None, pc |-> "look", left |-> 0,
                        changeOnPending |-> FALSE, getOnPending |-> TRUE]
        OBVIOUS
      <4>3. boot'[b] \in Boot16!Boot
        BY <4>1, <4>2
      <4> QED BY <4>2, <4>3
    <3> QED BY <3>1, <3>2 DEF Boot16!Answering
  <2>1. UnsentIsNoted'
    BY DEF UnsentIsNoted
  <2>2. FlagsRight'
    BY DEF FlagsRight, UnsentIsNoted, Boot16!ToFlag
  <2>3. AcceptanceRight'
    BY DEF AcceptanceRight, FlagsRight, Boot16!DetermineBootStatus, Boot16!Answering
  <2>4. OneAnswered'
    BY <2>0 DEF OneAnswered
  <2>5. IdleFollows'
    BY <2>0 DEF IdleFollows
  <2>6. NextFollows'
    <3>1. boot'[b].pc = "look"
      BY DEF Boot16!DetermineBootStatus
    <3>2. \A a \in Boot16!Boots \ {b} : boot'[a] = boot[a]
      OBVIOUS
    <3>3. ~mixed' => Boot16!Answering = {}
      OBVIOUS
    <3> QED BY <3>1, <3>2, <3>3 DEF NextFollows, IdleFollows, Barred, Cached, Boot16!Answering
  <2> QED BY <2>1, <2>2, <2>3, <2>4, <2>5, <2>6 DEF Boot16Inv
<1>2. ASSUME NEW b \in Boot16!Boots, Boot16!ReadCachedStatus(b)
      PROVE  Boot16Inv'
  <2> USE <1>2 DEF Boot16!ReadCachedStatus
  <2>0. b \in Boot16!Answering /\ Boot16!Answering' = Boot16!Answering
    <3>1. \A a \in Boot16!Boots \ {b} : boot'[a] = boot[a]
      OBVIOUS
    <3>2. boot'[b] # None /\ boot'[b].pc = "permit"
      OBVIOUS
    <3> QED BY <3>1, <3>2 DEF Boot16!Answering
  <2>1. UnsentIsNoted'
    BY DEF UnsentIsNoted
  <2>2. FlagsRight'
    BY DEF FlagsRight, UnsentIsNoted, Boot16!ToFlag
  <2>3. AcceptanceRight'
    BY DEF AcceptanceRight, FlagsRight, Boot16!DetermineBootStatus, Boot16!Answering
  <2>4. OneAnswered'
    BY <2>0 DEF OneAnswered
  <2>5. IdleFollows'
    BY <2>0 DEF IdleFollows
  <2>6. NextFollows'
    BY DEF NextFollows, IdleFollows, OneAnswered, Barred, Cached, Boot16!Answering,
       Boot16!BootActions
  <2> QED BY <2>1, <2>2, <2>3, <2>4, <2>5, <2>6 DEF Boot16Inv
<1>3. ASSUME NEW b \in Boot16!Boots, Boot16!CachePermissions(b)
      PROVE  Boot16Inv'
  <2> USE <1>3 DEF Boot16!CachePermissions
  <2>0. b \in Boot16!Answering /\ Boot16!Answering' = Boot16!Answering
    <3>1. \A a \in Boot16!Boots \ {b} : boot'[a] = boot[a]
      OBVIOUS
    <3>2. boot'[b] # None /\ boot'[b].pc = "respond"
      OBVIOUS
    <3> QED BY <3>1, <3>2 DEF Boot16!Answering
  <2>1. UnsentIsNoted'
    BY DEF UnsentIsNoted
  <2>2. FlagsRight'
    BY DEF FlagsRight, UnsentIsNoted, Boot16!ToFlag
  <2>3. AcceptanceRight'
    BY DEF AcceptanceRight, FlagsRight, Boot16!DetermineBootStatus, Boot16!Answering
  <2>4. OneAnswered'
    BY <2>0 DEF OneAnswered
  <2>5. IdleFollows'
    BY <2>0 DEF IdleFollows
  <2>6. NextFollows'
    BY DEF NextFollows, IdleFollows, OneAnswered, Barred, Cached, Boot16!Answering,
       Boot16!BootActions
  <2> QED BY <2>1, <2>2, <2>3, <2>4, <2>5, <2>6 DEF Boot16Inv
<1>4. ASSUME NEW b \in Boot16!Boots, Boot16!SendResponse(b)
      PROVE  Boot16Inv'
  <2> USE <1>4 DEF Boot16!SendResponse
  <2>0. b \in Boot16!Answering /\ Boot16!Answering' = Boot16!Answering
    <3>1. \A a \in Boot16!Boots \ {b} : boot'[a] = boot[a]
      OBVIOUS
    <3>2. boot'[b] # None /\ boot'[b].pc = "cache"
      OBVIOUS
    <3> QED BY <3>1, <3>2 DEF Boot16!Answering
  <2>1. UnsentIsNoted'
    BY DEF UnsentIsNoted
  <2>2. FlagsRight'
    BY DEF FlagsRight, UnsentIsNoted, Boot16!ToFlag
  <2>3. AcceptanceRight'
    BY DEF AcceptanceRight, FlagsRight, Boot16!DetermineBootStatus, Boot16!Answering
  <2>4. OneAnswered'
    BY <2>0 DEF OneAnswered
  <2>5. IdleFollows'
    BY <2>0 DEF IdleFollows
  <2>6. NextFollows'
    BY DEF NextFollows, IdleFollows, OneAnswered, Barred, Cached, Boot16!Answering,
       Boot16!BootActions
  <2> QED BY <2>1, <2>2, <2>3, <2>4, <2>5, <2>6 DEF Boot16Inv
<1>5. ASSUME NEW b \in Boot16!Boots, Boot16!ResponseNotSent(b)
      PROVE  Boot16Inv'
  <2> USE <1>5 DEF Boot16!ResponseNotSent
  <2>0. b \in Boot16!Answering /\ Boot16!Answering' = Boot16!Answering \ {b}
    BY DEF Boot16!Answering
  <2>1. UnsentIsNoted'
    BY DEF UnsentIsNoted
  <2>2. FlagsRight'
    BY DEF FlagsRight, UnsentIsNoted, Boot16!ToFlag
  <2>3. AcceptanceRight'
    BY DEF AcceptanceRight, FlagsRight, Boot16!DetermineBootStatus, Boot16!Answering
  <2>4. OneAnswered'
    BY <2>0 DEF OneAnswered
  <2>5. IdleFollows'
    BY <2>0 DEF IdleFollows, Barred, Cached
  <2>6. NextFollows'
    BY DEF NextFollows, IdleFollows, OneAnswered, Barred, Cached, Boot16!Answering,
       Boot16!BootActions
  <2> QED BY <2>1, <2>2, <2>3, <2>4, <2>5, <2>6 DEF Boot16Inv
<1>6. ASSUME NEW b \in Boot16!Boots, Boot16!CacheBootStatus(b)
      PROVE  Boot16Inv'
  <2> USE <1>6 DEF Boot16!CacheBootStatus
  <2>0. b \in Boot16!Answering /\ Boot16!Answering' = Boot16!Answering
    <3>1. \A a \in Boot16!Boots \ {b} : boot'[a] = boot[a]
      OBVIOUS
    <3>2. boot'[b] # None /\ boot'[b].pc = "record"
      OBVIOUS
    <3> QED BY <3>1, <3>2 DEF Boot16!Answering
  <2>1. UnsentIsNoted'
    BY DEF UnsentIsNoted
  <2>2. FlagsRight'
    BY DEF FlagsRight, UnsentIsNoted, Boot16!ToFlag
  <2>3. AcceptanceRight'
    BY DEF AcceptanceRight, FlagsRight, Boot16!DetermineBootStatus, Boot16!Answering
  <2>4. OneAnswered'
    BY <2>0 DEF OneAnswered
  <2>5. IdleFollows'
    BY <2>0 DEF IdleFollows
  <2>6. NextFollows'
    BY DEF NextFollows, IdleFollows, OneAnswered, Barred, Cached, Boot16!Answering,
       Boot16!BootActions
  <2> QED BY <2>1, <2>2, <2>3, <2>4, <2>5, <2>6 DEF Boot16Inv
<1>7. ASSUME NEW b \in Boot16!Boots, Boot16!UpdateBootConfig(b)
      PROVE  Boot16Inv'
  <2> USE <1>7 DEF Boot16!UpdateBootConfig
  <2>0. b \in Boot16!Answering /\ Boot16!Answering' = Boot16!Answering \ {b}
    BY DEF Boot16!Answering
  <2>1. UnsentIsNoted'
    BY DEF UnsentIsNoted
  <2>2. FlagsRight'
    BY DEF FlagsRight, UnsentIsNoted, Boot16!ToFlag
  <2>3. AcceptanceRight'
    BY DEF AcceptanceRight, FlagsRight, Boot16!DetermineBootStatus, Boot16!Answering
  <2>4. OneAnswered'
    BY <2>0 DEF OneAnswered
  <2>5. IdleFollows'
    BY <2>0 DEF IdleFollows, NextFollows, OneAnswered, Barred, Cached
  <2>6. NextFollows'
    BY DEF NextFollows, IdleFollows, OneAnswered, Barred, Cached, Boot16!Answering,
       Boot16!BootActions
  <2> QED BY <2>1, <2>2, <2>3, <2>4, <2>5, <2>6 DEF Boot16Inv
<1>8. ASSUME NEW b \in Boot16!Boots, Boot16!StartConfiguring(b)
      PROVE  Boot16Inv'
  <2> USE <1>8 DEF Boot16!StartConfiguring
  <2>0. Boot16!Answering' = Boot16!Answering
    BY DEF Boot16!Answering
  <2>1. UnsentIsNoted'
    BY DEF UnsentIsNoted
  <2>2. FlagsRight'
    BY DEF FlagsRight, UnsentIsNoted, Boot16!ToFlag
  <2>3. AcceptanceRight'
    BY DEF AcceptanceRight, FlagsRight, Boot16!DetermineBootStatus, Boot16!Answering
  <2>4. OneAnswered'
    BY <2>0 DEF OneAnswered
  <2>5. IdleFollows'
    BY <2>0 DEF IdleFollows, Barred, Cached
  <2>6. NextFollows'
    BY DEF NextFollows, IdleFollows, OneAnswered, Barred, Cached, Boot16!Answering,
       Boot16!BootActions
  <2> QED BY <2>1, <2>2, <2>3, <2>4, <2>5, <2>6 DEF Boot16Inv
<1>9. ASSUME NEW b \in Boot16!Boots, Boot16!EndWait(b)
      PROVE  Boot16Inv'
  <2> USE <1>9 DEF Boot16!EndWait
  <2>0. Boot16!Answering' = Boot16!Answering
    BY DEF Boot16!Answering
  <2>1. UnsentIsNoted'
    BY DEF UnsentIsNoted
  <2>2. FlagsRight'
    BY DEF FlagsRight, UnsentIsNoted, Boot16!ToFlag
  <2>3. AcceptanceRight'
    BY DEF AcceptanceRight, FlagsRight, Boot16!DetermineBootStatus, Boot16!Answering
  <2>4. OneAnswered'
    BY <2>0 DEF OneAnswered
  <2>5. IdleFollows'
    BY <2>0 DEF IdleFollows, Barred, Cached
  <2>6. NextFollows'
    BY DEF NextFollows, IdleFollows, OneAnswered, Barred, Cached, Boot16!Answering,
       Boot16!BootActions
  <2> QED BY <2>1, <2>2, <2>3, <2>4, <2>5, <2>6 DEF Boot16Inv
<1>10. ASSUME NEW b \in Boot16!Boots, Boot16!UpdateFlags(b)
      PROVE  Boot16Inv'
  <2> USE <1>10 DEF Boot16!UpdateFlags
  <2>0. Boot16!Answering' = Boot16!Answering
    BY DEF Boot16!Answering
  <2>1. UnsentIsNoted'
    BY DEF UnsentIsNoted
  <2>2. FlagsRight'
    BY DEF FlagsRight, UnsentIsNoted, Boot16!ToFlag
  <2>3. AcceptanceRight'
    BY DEF AcceptanceRight, FlagsRight, Boot16!DetermineBootStatus, Boot16!Answering
  <2>4. OneAnswered'
    BY <2>0 DEF OneAnswered
  <2>5. IdleFollows'
    <3>1. bootRow # None => bootRow' # None /\ bootRow'.status = bootRow.status
      BY Zenon DEF Boot16!ToFlag
    <3> QED BY <2>0, <3>1 DEF IdleFollows, Barred, Cached
  <2>6. NextFollows'
    BY DEF NextFollows, IdleFollows, OneAnswered, Barred, Cached, Boot16!Answering,
       Boot16!BootActions
  <2> QED BY <2>1, <2>2, <2>3, <2>4, <2>5, <2>6 DEF Boot16Inv
<1>11. ASSUME NEW b \in Boot16!Boots, Boot16!TriggerMessage(b)
      PROVE  Boot16Inv'
  <2> USE <1>11 DEF Boot16!TriggerMessage
  <2>0. Boot16!Answering' = Boot16!Answering
    BY DEF Boot16!Answering
  <2>1. UnsentIsNoted'
    BY DEF UnsentIsNoted
  <2>2. FlagsRight'
    BY DEF FlagsRight, UnsentIsNoted, Boot16!ToFlag
  <2>3. AcceptanceRight'
    BY DEF AcceptanceRight, FlagsRight, Boot16!DetermineBootStatus, Boot16!Answering
  <2>4. OneAnswered'
    BY <2>0 DEF OneAnswered
  <2>5. IdleFollows'
    BY <2>0 DEF IdleFollows, Barred, Cached
  <2>6. NextFollows'
    BY DEF NextFollows, IdleFollows, OneAnswered, Barred, Cached, Boot16!Answering,
       Boot16!BootActions
  <2> QED BY <2>1, <2>2, <2>3, <2>4, <2>5, <2>6 DEF Boot16Inv
<1>12. ASSUME NEW b \in Boot16!Boots, NEW sent \in BOOLEAN, Boot16!SendChangeConfiguration(b, sent)
      PROVE  Boot16Inv'
  <2> USE <1>12 DEF Boot16!SendChangeConfiguration
  <2>0. Boot16!Answering' = Boot16!Answering
    BY DEF Boot16!Answering
  <2>1. UnsentIsNoted'
    BY DEF UnsentIsNoted
  <2>2. FlagsRight'
    BY DEF FlagsRight, UnsentIsNoted, Boot16!ToFlag
  <2>3. AcceptanceRight'
    BY DEF AcceptanceRight, FlagsRight, Boot16!DetermineBootStatus, Boot16!Answering
  <2>4. OneAnswered'
    BY <2>0 DEF OneAnswered
  <2>5. IdleFollows'
    BY <2>0 DEF IdleFollows, Barred, Cached
  <2>6. NextFollows'
    BY DEF NextFollows, IdleFollows, OneAnswered, Barred, Cached, Boot16!Answering,
       Boot16!BootActions
  <2> QED BY <2>1, <2>2, <2>3, <2>4, <2>5, <2>6 DEF Boot16Inv
<1>13. ASSUME NEW b \in Boot16!Boots, NEW sent \in BOOLEAN, Boot16!SendGetConfiguration(b, sent)
      PROVE  Boot16Inv'
  <2> USE <1>13 DEF Boot16!SendGetConfiguration
  <2>0. Boot16!Answering' = Boot16!Answering
    BY DEF Boot16!Answering
  <2>1. UnsentIsNoted'
    BY DEF UnsentIsNoted
  <2>2. FlagsRight'
    BY DEF FlagsRight, UnsentIsNoted, Boot16!ToFlag
  <2>3. AcceptanceRight'
    BY DEF AcceptanceRight, FlagsRight, Boot16!DetermineBootStatus, Boot16!Answering
  <2>4. OneAnswered'
    BY <2>0 DEF OneAnswered
  <2>5. IdleFollows'
    BY <2>0 DEF IdleFollows, Barred, Cached
  <2>6. NextFollows'
    BY DEF NextFollows, IdleFollows, OneAnswered, Barred, Cached, Boot16!Answering,
       Boot16!BootActions
  <2> QED BY <2>1, <2>2, <2>3, <2>4, <2>5, <2>6 DEF Boot16Inv
<1>14. ASSUME NEW status \in Boot16!BootStatuses, Boot16!PutBootConfig(status)
      PROVE  Boot16Inv'
  <2> USE <1>14 DEF Boot16!PutBootConfig
  <2>0. Boot16!Answering' = Boot16!Answering
    BY DEF Boot16!Answering
  <2>1. UnsentIsNoted'
    BY DEF UnsentIsNoted
  <2>2. FlagsRight'
    BY DEF FlagsRight, UnsentIsNoted, Boot16!ToFlag
  <2>3. AcceptanceRight'
    BY DEF AcceptanceRight, FlagsRight, Boot16!DetermineBootStatus, Boot16!Answering
  <2>4. OneAnswered'
    BY <2>0 DEF OneAnswered
  <2>5. IdleFollows'
    BY <2>0 DEF IdleFollows, Barred, Cached
  <2>6. NextFollows'
    BY DEF NextFollows, IdleFollows, OneAnswered, Barred, Cached, Boot16!Answering,
       Boot16!BootActions
  <2> QED BY <2>1, <2>2, <2>3, <2>4, <2>5, <2>6 DEF Boot16Inv
<1>15. ASSUME NEW b \in Boot16!Boots, Boot16!StationNotStored(b)
      PROVE  Boot16Inv'
  <2> USE <1>15 DEF Boot16!StationNotStored
  <2>0. b \in Boot16!Answering /\ Boot16!Answering' = Boot16!Answering \ {b}
    BY DEF Boot16!Answering
  <2>1. UnsentIsNoted'
    BY DEF UnsentIsNoted
  <2>2. FlagsRight'
    BY DEF FlagsRight, UnsentIsNoted, Boot16!ToFlag
  <2>3. AcceptanceRight'
    BY DEF AcceptanceRight, FlagsRight, Boot16!DetermineBootStatus, Boot16!Answering
  <2>4. OneAnswered'
    BY <2>0 DEF OneAnswered
  <2>5. IdleFollows'
    BY <2>0 DEF IdleFollows, Barred, Cached
  <2>6. NextFollows'
    BY DEF NextFollows, IdleFollows, OneAnswered, Barred, Cached, Boot16!Answering,
       Boot16!BootActions
  <2> QED BY <2>1, <2>2, <2>3, <2>4, <2>5, <2>6 DEF Boot16Inv
<1> QED BY <1>1, <1>2, <1>3, <1>4, <1>5, <1>6, <1>7, <1>8, <1>9, <1>10, <1>11, <1>12, <1>13, <1>14, <1>15,
      Zenon
  DEF Boot16!Next

LEMMA Boot16Stutter ==
  ASSUME Boot16TypeOK, Boot16Inv, UNCHANGED bootVars PROVE Boot16TypeOK' /\ Boot16Inv'
BY DEF bootVars, Boot16TypeOK, Boot16!TypeOK, Boot16Inv, UnsentIsNoted, FlagsRight, AcceptanceRight,
  OneAnswered, IdleFollows, NextFollows, Barred, Cached, Boot16!Answering, Boot16!At

LEMMA Boot16Invariant == Boot16!Spec => [](Boot16TypeOK /\ Boot16Inv)
<1>1. Boot16!Init => Boot16TypeOK /\ Boot16Inv
  BY Boot16Init
<1>2. Boot16TypeOK /\ Boot16Inv /\ [Boot16!Next]_(Boot16!boot16Vars) => (Boot16TypeOK /\ Boot16Inv)'
  BY Boot16Type, Boot16Step, Boot16Stutter DEF bootVars, Boot16!boot16Vars
<1> QED BY <1>1, <1>2, PTL DEF Boot16!Spec

LEMMA AcceptedIsConfiguredHolds == Boot16!Spec => []Boot16!AcceptedIsConfigured
<1>1. Boot16Inv => Boot16!AcceptedIsConfigured
  BY DEF Boot16!AcceptedIsConfigured, Boot16Inv, AcceptanceRight
<1> QED BY <1>1, Boot16Invariant, PTL

(* An OCPP 1.6 station that nobody has accepted is accepted only after one *)
(* boot has sent all its configurations, for any number of boots.          *)
THEOREM AcceptedAreConfigured == Spec => []AcceptedIsConfigured
<1>1. Boot16!AcceptedIsConfigured => AcceptedIsConfigured
  BY Zenon DEF AcceptedIsConfigured
<1> QED BY <1>1, AcceptedIsConfiguredHolds, PartsRun, PTL

LEMMA PermissionsFollowHolds == Boot16!Spec => []Boot16!PermissionsFollow
<1>1. Boot16Inv => Boot16!PermissionsFollow
  BY NoneIsNoValue DEF Boot16!PermissionsFollow, Boot16Inv, IdleFollows,
     Barred, Cached
<1> QED BY <1>1, Boot16Invariant, PTL

(* What it may send, the cached status and the row follow the last answer, *)
(* whatever is being configured, unless boots were answered at once.       *)
THEOREM PermissionsAreFollowed == Spec => []PermissionsFollow
<1>1. Boot16!PermissionsFollow => PermissionsFollow
  BY Zenon DEF PermissionsFollow
<1> QED BY <1>1, PermissionsFollowHolds, PartsRun, PTL

-----------------------------------------------------------------------------
(* Reservations. *)

LEMMA BookingInit == ASSUME Booking!Init PROVE BookingTypeOK /\ BookingInv
<1>1. BookingTypeOK
  BY DEF Booking!Init, BookingTypeOK, Booking!TypeOK, Booking!Notices
<1>2. BookingInv
  BY DEF Booking!Init, BookingInv, OneRow, CallsHaveRows, SaidLast, Said, ReservationsRight,
     RowRight
<1> QED BY <1>1, <1>2

(* updateByKey changes whether one row is active, if there is one.         *)
LEMMA UpdatesByKey ==
  ASSUME BookingTypeOK, NEW k, NEW a \in BOOLEAN, NEW update, update = Booking!UpdateByKey(k, a)
  PROVE  /\ update \in [Booking!Keys -> Booking!Row \union {None}]
         /\ \A j \in Booking!Keys : rows[j] = None <=> update[j] = None
         /\ \A j \in Booking!Keys : rows[j] # None =>
              update[j].station = rows[j].station /\ update[j].id = rows[j].id
         /\ \A j \in Booking!Keys : j # k => update[j] = rows[j]
         /\ k \in Booking!Keys /\ rows[k] # None => update[k].isActive = a
BY BookingConstants DEF BookingTypeOK, Booking!TypeOK, Booking!UpdateByKey, Booking!Row

LEMMA BookingType == ASSUME BookingTypeOK, Booking!Next PROVE BookingTypeOK'
<1> USE BookingConstants DEF BookingTypeOK, Booking!TypeOK, Booking!Row, Booking!Call, Booking!Notices,
  Booking!NewCall, Booking!Answered
<1>1. ASSUME NEW c \in Booking!Calls, NEW s \in Stations, NEW i \in Booking!Ids, Booking!ReserveNow(c, s, i)
      PROVE  BookingTypeOK'
  <2>1. call' \in [Booking!Calls -> Booking!Call \union {None}]
    BY <1>1 DEF Booking!ReserveNow
  <2>2. rows' \in [Booking!Keys -> Booking!Row \union {None}]
    <3>1. PICK k \in Booking!Keys :
            \/ Booking!Matches(k, s, i) /\ rows' = [rows EXCEPT ![k].isActive = FALSE]
            \/ rows' = [rows EXCEPT ![k] = [station |-> s, id |-> i, isActive |-> FALSE, terminated |-> FALSE]]
      BY <1>1 DEF Booking!ReserveNow
    <3>2. [station |-> s, id |-> i, isActive |-> FALSE, terminated |-> FALSE] \in Booking!Row
      BY DEF Booking!Row
    <3>3. Booking!Matches(k, s, i) => [rows[k] EXCEPT !.isActive = FALSE] \in Booking!Row
      BY DEF Booking!Row, Booking!Matches
    <3> QED BY <3>1, <3>2, <3>3, Zenon
  <2> QED BY <1>1, <2>1, <2>2 DEF Booking!ReserveNow
<1>2. ASSUME NEW c \in Booking!Calls, NEW s \in Stations, NEW i \in Booking!Ids, Booking!CancelReservation(c, s, i)
      PROVE  BookingTypeOK'
  BY <1>2 DEF Booking!CancelReservation
<1>3. ASSUME NEW c \in Booking!Calls, Booking!AnswerCancelReservation(c)
      PROVE  BookingTypeOK'
  BY <1>3 DEF Booking!AnswerCancelReservation
<1>4. ASSUME NEW c \in Booking!Calls, NEW accepted \in BOOLEAN, Booking!AnswerReserveNow(c, accepted)
      PROVE  BookingTypeOK'
  BY <1>4 DEF Booking!AnswerReserveNow
<1>5. ASSUME NEW c \in Booking!Calls, NEW found \in BOOLEAN, Booking!HandleReserveNow(c, found)
      PROVE  BookingTypeOK'
  <2>1. call' \in [Booking!Calls -> Booking!Call \union {None}]
    BY <1>5 DEF Booking!HandleReserveNow
  <2>2. rows' \in [Booking!Keys -> Booking!Row \union {None}]
    BY <1>5, UpdatesByKey DEF Booking!HandleReserveNow
  <2> QED BY <1>5, <2>1, <2>2 DEF Booking!HandleReserveNow
<1>6. ASSUME NEW c \in Booking!Calls, NEW found \in BOOLEAN, Booking!HandleCancelReservation(c, found)
      PROVE  BookingTypeOK'
  <2>1. call' \in [Booking!Calls -> Booking!Call \union {None}]
    BY <1>6 DEF Booking!HandleCancelReservation
  <2>2. rows' \in [Booking!Keys -> Booking!Row \union {None}]
    BY <1>6, UpdatesByKey DEF Booking!HandleCancelReservation
  <2> QED BY <1>6, <2>1, <2>2 DEF Booking!HandleCancelReservation
<1>7. ASSUME NEW s \in Stations, NEW i \in Booking!Ids, NEW how \in {"ended", "used"}, Booking!EndReservation(s, i, how)
      PROVE  BookingTypeOK'
  BY <1>7 DEF Booking!EndReservation
<1>8. ASSUME NEW s \in Stations, NEW i \in Booking!Ids, Booking!HandleNotice(s, i)
      PROVE  BookingTypeOK'
  <2>1. notice' \in [Stations \X Booking!Ids -> Booking!Notices]
    BY <1>8 DEF Booking!HandleNotice
  <2>2. rows' \in [Booking!Keys -> Booking!Row \union {None}]
    BY <1>8, ZenonT(60) DEF Booking!HandleNotice, Booking!Matches
  <2> QED BY <1>8, <2>1, <2>2 DEF Booking!HandleNotice
<1> QED BY <1>1, <1>2, <1>3, <1>4, <1>5, <1>6, <1>7, <1>8 DEF Booking!Next

(* What the steps do to rows and calls: rows stay, those of calls too.     *)
Kept ==
  /\ \A k \in Booking!Keys : rows[k] # None =>
       rows'[k] # None /\ rows'[k].station = rows[k].station /\ rows'[k].id = rows[k].id
  /\ \A d \in Booking!Calls : call[d] # None =>
       call'[d] # None /\ call'[d].station = call[d].station /\ call'[d].id = call[d].id

LEMMA KeysAgreed ==
  ASSUME BookingTypeOK, BookingInv, Kept, OneRow', Booking!KeysAgree' PROVE Booking!KeysAgree
<1>1. ASSUME NEW k \in Booking!Keys, rows[k] # None PROVE rows[k].id = k
  BY <1>1 DEF Kept, Booking!KeysAgree
<1>2. ASSUME NEW c \in Booking!Calls, call[c] # None
      PROVE  Booking!Matches(call[c].id, call[c].station, call[c].id)
  <2>1. PICK k \in Booking!Keys : Booking!Matches(k, call[c].station, call[c].id)
    BY <1>2 DEF BookingInv, CallsHaveRows
  <2>2. rows'[call[c].id] # None /\ rows'[call[c].id].station = call[c].station /\ rows'[call[c].id].id = call[c].id
    BY <1>2 DEF Kept, Booking!KeysAgree, Booking!Matches
  <2>3. call[c].id \in Booking!Keys
    BY <1>2, BookingConstants DEF BookingTypeOK, Booking!TypeOK, Booking!Call
  <2>4. k = call[c].id
    BY <2>1, <2>2, <2>3 DEF OneRow, Kept, Booking!Matches
  <2> QED BY <2>1, <2>4
<1> QED BY <1>1, <1>2 DEF Booking!KeysAgree

LEMMA RowsStay ==
  ASSUME BookingTypeOK, BookingInv, Kept, call' = call \/ \A d \in Booking!Calls : call'[d] # None => call[d] # None,
         \A k \in Booking!Keys : rows'[k] # None => rows[k] # None
  PROVE  OneRow' /\ CallsHaveRows'
BY DEF BookingInv, Kept, OneRow, CallsHaveRows, Booking!Matches

LEMMA SaidStays ==
  ASSUME SaidLast, ~crossed' => ~crossed, held' = held, notice' = notice,
         \A d \in Booking!Calls, t \in Stations, m \in Booking!Ids :
           Said(d, t, m)' => Said(d, t, m) /\ call'[d] = call[d]
  PROVE  SaidLast'
BY ZenonT(60) DEF SaidLast

LEMMA BookingStep == ASSUME BookingTypeOK, BookingInv, Booking!Next PROVE BookingInv'
<1> USE BookingConstants DEF BookingTypeOK, Booking!TypeOK, Booking!Call, Booking!Notices
<1>1. ASSUME NEW c \in Booking!Calls, NEW s \in Stations, NEW i \in Booking!Ids, Booking!ReserveNow(c, s, i)
      PROVE  BookingInv'
  <2>1. /\ call[c] = None /\ call'[c] # None /\ call'[c].status = "sent" /\ call'[c].action = "ReserveNow"
        /\ call'[c].station = s /\ call'[c].id = i
        /\ \A d \in Booking!Calls \ {c} : call'[d] = call[d]
    BY <1>1 DEF Booking!ReserveNow, Booking!NewCall
  <2>2. PICK k \in Booking!Keys :
          /\ \A j \in Booking!Keys \ {k} : rows'[j] = rows[j]
          /\ rows'[k] # None /\ rows'[k].station = s /\ rows'[k].id = i
          /\ rows[k] # None => rows[k].station = s /\ rows[k].id = i
          /\ rows[k] = None => \A j \in Booking!Keys : ~Booking!Matches(j, s, i)
    <3>1. PICK k \in Booking!Keys :
            \/ Booking!Matches(k, s, i) /\ rows' = [rows EXCEPT ![k].isActive = FALSE]
            \/ /\ \A j \in Booking!Keys : ~Booking!Matches(j, s, i)
               /\ Booking!NextKey(k)
               /\ rows' = [rows EXCEPT ![k] =
                            [station |-> s, id |-> i, isActive |-> FALSE, terminated |-> FALSE]]
      BY <1>1 DEF Booking!ReserveNow
    <3>2. CASE Booking!Matches(k, s, i) /\ rows' = [rows EXCEPT ![k].isActive = FALSE]
      <4>1. rows[k] \in Booking!Row /\ rows'[k] \in Booking!Row /\ rows'[k].station = s /\ rows'[k].id = i
        BY <3>2 DEF Booking!Matches, Booking!Row
      <4> QED BY <3>2, <4>1 DEF Booking!Matches
    <3>3. CASE /\ \A j \in Booking!Keys : ~Booking!Matches(j, s, i)
               /\ Booking!NextKey(k)
               /\ rows' = [rows EXCEPT ![k] =
                            [station |-> s, id |-> i, isActive |-> FALSE, terminated |-> FALSE]]
      <4>1. rows'[k] \in Booking!Row /\ rows'[k].station = s /\ rows'[k].id = i
        BY <3>3 DEF Booking!Row
      <4>2. rows[k] = None
        BY <3>3 DEF Booking!NextKey
      <4> QED BY <3>3, <4>1, <4>2
    <3> QED BY <3>1, <3>2, <3>3
  <2>3. Kept
    BY <2>1, <2>2 DEF Kept
  <2>4. OneRow'
    BY <2>2 DEF BookingInv, OneRow, Booking!Matches
  <2>5. CallsHaveRows'
    BY <2>1, <2>2 DEF BookingInv, CallsHaveRows, Booking!Matches
  <2>6. \A d \in Booking!Calls, t \in Stations, n \in Booking!Ids :
          Said(d, t, n)' => Said(d, t, n) /\ call'[d] = call[d]
    BY <2>1 DEF Said
  <2>7. SaidLast'
    BY <1>1, <2>6, SaidStays DEF BookingInv, Booking!ReserveNow
  <2>8. ReservationsRight'
    <3> SUFFICES ASSUME Booking!KeysAgree', ~misread', ~crossed', NEW j \in Booking!Keys, rows'[j] # None,
                        ~Booking!Unhandled(rows[j].station, rows[j].id)', ~Reserving(rows[j].station, rows[j].id)'
                 PROVE  rows'[j].isActive <=> <<rows'[j].station, rows'[j].id>> \in held'
      BY DEF ReservationsRight, RowRight
    <3>1. RowRight(j)
      BY <1>1, <2>3, <2>4, KeysAgreed DEF BookingInv, ReservationsRight, Booking!ReserveNow
    <3>2. j # k
      BY <2>1, <2>2 DEF Reserving
    <3>3. rows'[j] = rows[j] /\ held' = held /\ notice' = notice
      BY <1>1, <2>2, <3>2 DEF Booking!ReserveNow
    <3>4. ~Booking!Unhandled(rows[j].station, rows[j].id)
      BY <2>1, <3>3 DEF Booking!Unhandled
    <3>5. ~Reserving(rows[j].station, rows[j].id)
      BY <2>1, <3>3 DEF Reserving
    <3> QED BY <3>1, <3>3, <3>4, <3>5 DEF RowRight
  <2> QED BY <2>4, <2>5, <2>7, <2>8 DEF BookingInv
<1>2. ASSUME NEW c \in Booking!Calls, NEW s \in Stations, NEW i \in Booking!Ids, Booking!CancelReservation(c, s, i)
      PROVE  BookingInv'
  <2>1. /\ call[c] = None /\ call'[c] # None /\ call'[c].status = "sent" /\ call'[c].action = "CancelReservation"
        /\ call'[c].station = s /\ call'[c].id = i
        /\ \A d \in Booking!Calls \ {c} : call'[d] = call[d]
    BY <1>2 DEF Booking!CancelReservation, Booking!NewCall
  <2>2. rows' = rows /\ held' = held /\ notice' = notice /\ misread' = misread /\ crossed' = crossed
    BY <1>2 DEF Booking!CancelReservation
  <2>3. Kept
    BY <2>1, <2>2 DEF Kept
  <2>4. OneRow'
    BY <2>2 DEF BookingInv, OneRow
  <2>5. CallsHaveRows'
    BY <1>2, <2>1, <2>2 DEF BookingInv, CallsHaveRows, Booking!Matches, Booking!CancelReservation
  <2>6. \A d \in Booking!Calls, t \in Stations, n \in Booking!Ids :
          Said(d, t, n)' => Said(d, t, n) /\ call'[d] = call[d]
    BY <2>1 DEF Said
  <2>7. SaidLast'
    BY <2>2, <2>6, SaidStays DEF BookingInv
  <2>8. ReservationsRight'
    <3> SUFFICES ASSUME Booking!KeysAgree', ~misread', ~crossed', NEW j \in Booking!Keys
                 PROVE  RowRight(j)'
      BY DEF ReservationsRight
    <3>1. RowRight(j)
      BY <2>2, <2>3, <2>4, KeysAgreed DEF BookingInv, ReservationsRight
    <3>2. \A t, n : (Booking!Unhandled(t, n)' <=> Booking!Unhandled(t, n)) /\ (Reserving(t, n)' <=> Reserving(t, n))
      BY <2>1, <2>2 DEF Booking!Unhandled, Reserving
    <3> QED BY <2>2, <3>1, <3>2 DEF RowRight
  <2> QED BY <2>4, <2>5, <2>7, <2>8 DEF BookingInv
<1>3. ASSUME NEW c \in Booking!Calls, Booking!AnswerCancelReservation(c)
      PROVE  BookingInv'
  <2> DEFINE s == call[c].station
             i == call[c].id
  <2>1. /\ call[c] # None /\ call[c].status = "sent" /\ s \in Stations /\ i \in Booking!Ids
        /\ call'[c] # None /\ call'[c].status \in {"Accepted", "Rejected"} /\ call'[c].action = call[c].action
        /\ call'[c].station = s /\ call'[c].id = i
        /\ \A d \in Booking!Calls \ {c} : call'[d] = call[d]
    BY <1>3 DEF Booking!AnswerCancelReservation
  <2>2. /\ rows' = rows /\ notice' = notice /\ misread' = misread
        /\ crossed' = (crossed \/ Booking!Unhandled(s, i))
        /\ \A t \in Stations, m \in Booking!Ids : <<t, m>> # <<s, i>> => (<<t, m>> \in held' <=> <<t, m>> \in held)
    BY <1>3 DEF Booking!AnswerCancelReservation
  <2>3. call[c].action = "CancelReservation" /\ <<s, i>> \notin held'
    BY <1>3 DEF Booking!AnswerCancelReservation
  <2> HIDE DEF s, i
  <2>4. Kept
    BY <2>1, <2>2 DEF Kept, s, i
  <2>5. OneRow' /\ CallsHaveRows'
    BY <2>1, <2>2, <2>4, RowsStay
  <2>6. \A d \in Booking!Calls, t \in Stations, m \in Booking!Ids :
          Said(d, t, m)' <=> Said(d, t, m) \/ (d = c /\ t = s /\ m = i)
    BY <2>1 DEF Said
  <2>7. SaidLast'
    <3> SUFFICES ASSUME ~crossed', NEW t \in Stations, NEW m \in Booking!Ids
                 PROVE  /\ notice'[<<t, m>>] # "none" =>
                             <<t, m>> \notin held' /\ \A d \in Booking!Calls : ~Said(d, t, m)'
                        /\ \A d, e \in Booking!Calls : Said(d, t, m)' /\ Said(e, t, m)' => d = e
                        /\ \A d \in Booking!Calls : Said(d, t, m)' =>
                             /\ call'[d].action = "ReserveNow" => (call'[d].status = "Accepted" <=> <<t, m>> \in held')
                             /\ call'[d].action = "CancelReservation" /\ call'[d].status = "Accepted" => <<t, m>> \notin held'
      BY DEF SaidLast
    <3>1. notice[<<s, i>>] = "none" /\ \A d \in Booking!Calls : ~Said(d, s, i)
      BY <2>2 DEF Booking!Unhandled, Said
    <3>2. CASE t = s /\ m = i
      BY <2>1, <2>2, <2>3, <2>6, <3>1, <3>2
    <3>3. CASE ~(t = s /\ m = i)
      <4>1. \A d \in Booking!Calls : Said(d, t, m)' <=> Said(d, t, m)
        BY <2>6, <3>3
      <4>2. <<t, m>> \in held' <=> <<t, m>> \in held
        BY <2>2, <3>3
      <4>3. \A d \in Booking!Calls : Said(d, t, m) => call'[d] = call[d]
        BY <2>1 DEF Said
      <4> QED BY <2>2, <4>1, <4>2, <4>3 DEF BookingInv, SaidLast
    <3> QED BY <3>2, <3>3
  <2>8. ReservationsRight'
    <3> SUFFICES ASSUME Booking!KeysAgree', ~misread', ~crossed', NEW j \in Booking!Keys, rows[j] # None,
                        ~Booking!Unhandled(rows[j].station, rows[j].id)', ~Reserving(rows[j].station, rows[j].id)'
                 PROVE  rows[j].isActive <=> <<rows[j].station, rows[j].id>> \in held'
      BY <2>2 DEF ReservationsRight, RowRight
    <3>1. RowRight(j)
      BY <2>2, <2>4, <2>5, KeysAgreed DEF BookingInv, ReservationsRight
    <3>2. ~(rows[j].station = s /\ rows[j].id = i)
      BY <2>1, <2>2 DEF Booking!Unhandled
    <3>3. ~Booking!Unhandled(rows[j].station, rows[j].id) /\ ~Reserving(rows[j].station, rows[j].id)
      BY <2>1, <2>2, <3>2 DEF Booking!Unhandled, Reserving, s, i
    <3>4. rows[j].station \in Stations /\ rows[j].id \in Booking!Ids
      BY DEF Booking!Row
    <3> QED BY <2>2, <3>1, <3>2, <3>3, <3>4 DEF RowRight
  <2> QED BY <2>5, <2>7, <2>8 DEF BookingInv
<1>4. ASSUME NEW c \in Booking!Calls, NEW accepted \in BOOLEAN, Booking!AnswerReserveNow(c, accepted)
      PROVE  BookingInv'
  <2> DEFINE s == call[c].station
             i == call[c].id
  <2>1. /\ call[c] # None /\ call[c].status = "sent" /\ s \in Stations /\ i \in Booking!Ids
        /\ call'[c] # None /\ call'[c].status \in {"Accepted", "Rejected"} /\ call'[c].action = call[c].action
        /\ call'[c].station = s /\ call'[c].id = i
        /\ \A d \in Booking!Calls \ {c} : call'[d] = call[d]
    BY <1>4 DEF Booking!AnswerReserveNow
  <2>2. /\ rows' = rows /\ notice' = notice /\ misread' = misread
        /\ crossed' = (crossed \/ Booking!Unhandled(s, i))
        /\ \A t \in Stations, m \in Booking!Ids : <<t, m>> # <<s, i>> => (<<t, m>> \in held' <=> <<t, m>> \in held)
    BY <1>4 DEF Booking!AnswerReserveNow
  <2>3. call[c].action = "ReserveNow" /\ (call'[c].status = "Accepted" <=> <<s, i>> \in held')
    BY <1>4 DEF Booking!AnswerReserveNow
  <2> HIDE DEF s, i
  <2>4. Kept
    BY <2>1, <2>2 DEF Kept, s, i
  <2>5. OneRow' /\ CallsHaveRows'
    BY <2>1, <2>2, <2>4, RowsStay
  <2>6. \A d \in Booking!Calls, t \in Stations, m \in Booking!Ids :
          Said(d, t, m)' <=> Said(d, t, m) \/ (d = c /\ t = s /\ m = i)
    BY <2>1 DEF Said
  <2>7. SaidLast'
    <3> SUFFICES ASSUME ~crossed', NEW t \in Stations, NEW m \in Booking!Ids
                 PROVE  /\ notice'[<<t, m>>] # "none" =>
                             <<t, m>> \notin held' /\ \A d \in Booking!Calls : ~Said(d, t, m)'
                        /\ \A d, e \in Booking!Calls : Said(d, t, m)' /\ Said(e, t, m)' => d = e
                        /\ \A d \in Booking!Calls : Said(d, t, m)' =>
                             /\ call'[d].action = "ReserveNow" => (call'[d].status = "Accepted" <=> <<t, m>> \in held')
                             /\ call'[d].action = "CancelReservation" /\ call'[d].status = "Accepted" => <<t, m>> \notin held'
      BY DEF SaidLast
    <3>1. notice[<<s, i>>] = "none" /\ \A d \in Booking!Calls : ~Said(d, s, i)
      BY <2>2 DEF Booking!Unhandled, Said
    <3>2. CASE t = s /\ m = i
      BY <2>1, <2>2, <2>3, <2>6, <3>1, <3>2
    <3>3. CASE ~(t = s /\ m = i)
      <4>1. \A d \in Booking!Calls : Said(d, t, m)' <=> Said(d, t, m)
        BY <2>6, <3>3
      <4>2. <<t, m>> \in held' <=> <<t, m>> \in held
        BY <2>2, <3>3
      <4>3. \A d \in Booking!Calls : Said(d, t, m) => call'[d] = call[d]
        BY <2>1 DEF Said
      <4> QED BY <2>2, <4>1, <4>2, <4>3 DEF BookingInv, SaidLast
    <3> QED BY <3>2, <3>3
  <2>8. ReservationsRight'
    <3> SUFFICES ASSUME Booking!KeysAgree', ~misread', ~crossed', NEW j \in Booking!Keys, rows[j] # None,
                        ~Booking!Unhandled(rows[j].station, rows[j].id)', ~Reserving(rows[j].station, rows[j].id)'
                 PROVE  rows[j].isActive <=> <<rows[j].station, rows[j].id>> \in held'
      BY <2>2 DEF ReservationsRight, RowRight
    <3>1. RowRight(j)
      BY <2>2, <2>4, <2>5, KeysAgreed DEF BookingInv, ReservationsRight
    <3>2. ~(rows[j].station = s /\ rows[j].id = i)
      BY <2>1, <2>2 DEF Booking!Unhandled
    <3>3. ~Booking!Unhandled(rows[j].station, rows[j].id) /\ ~Reserving(rows[j].station, rows[j].id)
      BY <2>1, <2>2, <3>2 DEF Booking!Unhandled, Reserving, s, i
    <3>4. rows[j].station \in Stations /\ rows[j].id \in Booking!Ids
      BY DEF Booking!Row
    <3> QED BY <2>2, <3>1, <3>2, <3>3, <3>4 DEF RowRight
  <2> QED BY <2>5, <2>7, <2>8 DEF BookingInv
<1>5. ASSUME NEW c \in Booking!Calls, NEW found \in BOOLEAN, Booking!HandleReserveNow(c, found)
      PROVE  BookingInv'
  <2> DEFINE s == call[c].station
             i == call[c].id
             accepted == call[c].status = "Accepted"
  <2>1. /\ call[c] # None /\ call[c].status \in {"Accepted", "Rejected"} /\ s \in Stations /\ i \in Booking!Ids
        /\ call[c].action = "ReserveNow"
        /\ call'[c] # None /\ call'[c].status = "handled" /\ call'[c].station = s /\ call'[c].id = i
        /\ \A d \in Booking!Calls \ {c} : call'[d] = call[d]
    BY <1>5 DEF Booking!HandleReserveNow, Booking!Answered
  <2>2. /\ held' = held /\ notice' = notice /\ crossed' = crossed
        /\ ~misread' => ~misread /\ found
    BY <1>5, <2>1 DEF Booking!HandleReserveNow
  <2>3. rows' = IF found THEN Booking!UpdateByKey(i, accepted) ELSE rows
    BY <1>5 DEF Booking!HandleReserveNow
  <2> HIDE DEF s, i, accepted
  <2>4. /\ \A j \in Booking!Keys : rows[j] = None <=> rows'[j] = None
        /\ \A j \in Booking!Keys : rows[j] # None => rows'[j].station = rows[j].station /\ rows'[j].id = rows[j].id
        /\ \A j \in Booking!Keys : j # i => rows'[j] = rows[j]
        /\ found /\ i \in Booking!Keys /\ rows[i] # None => rows'[i].isActive = accepted
    <3>1. accepted \in BOOLEAN
      BY DEF accepted
    <3> QED BY <2>3, <3>1, UpdatesByKey
  <2>5. Kept
    BY <2>1, <2>4 DEF Kept, s, i
  <2>6. OneRow' /\ CallsHaveRows'
    BY <2>1, <2>4, <2>5, RowsStay
  <2>7. \A d \in Booking!Calls, t \in Stations, m \in Booking!Ids : Said(d, t, m)' => Said(d, t, m) /\ call'[d] = call[d]
    BY <2>1 DEF Said
  <2>8. SaidLast'
    BY <2>2, <2>7, SaidStays DEF BookingInv
  <2>9. ReservationsRight'
    <3> SUFFICES ASSUME Booking!KeysAgree', ~misread', ~crossed', NEW j \in Booking!Keys, rows[j] # None,
                        ~Booking!Unhandled(rows[j].station, rows[j].id)', ~Reserving(rows[j].station, rows[j].id)'
                 PROVE  rows'[j].isActive <=> <<rows[j].station, rows[j].id>> \in held
      BY <2>2, <2>4 DEF ReservationsRight, RowRight
    <3>1. Booking!KeysAgree
      BY <2>5, <2>6, KeysAgreed
    <3>2. rows[i] # None /\ rows[i].station = s /\ rows[i].id = i /\ i \in Booking!Keys
      BY <2>1, <3>1 DEF Booking!KeysAgree, Booking!Matches, s, i
    <3>3. CASE j = i
      <4>1. rows'[j].isActive = accepted
        BY <2>2, <2>4, <3>2, <3>3
      <4>2. Said(c, s, i)
        BY <2>1 DEF Said, s, i
      <4>3. accepted <=> <<s, i>> \in held
        BY <2>1, <2>2, <4>2 DEF BookingInv, SaidLast, accepted
      <4> QED BY <3>2, <3>3, <4>1, <4>3
    <3>4. CASE j # i
      <4>1. rows[j].station # s \/ rows[j].id # i
        BY <3>2, <3>4 DEF BookingInv, OneRow
      <4>2. ~Booking!Unhandled(rows[j].station, rows[j].id) /\ ~Reserving(rows[j].station, rows[j].id)
        BY <2>1, <2>2, <2>4, <4>1 DEF Booking!Unhandled, Reserving, s, i
      <4>3. RowRight(j)
        BY <2>2, <3>1 DEF BookingInv, ReservationsRight
      <4> QED BY <2>4, <3>4, <4>2, <4>3 DEF RowRight
    <3> QED BY <3>3, <3>4
  <2> QED BY <2>6, <2>8, <2>9 DEF BookingInv
<1>6. ASSUME NEW c \in Booking!Calls, NEW found \in BOOLEAN, Booking!HandleCancelReservation(c, found)
      PROVE  BookingInv'
  <2> DEFINE s == call[c].station
             i == call[c].id
             accepted == call[c].status = "Rejected"
  <2>1. /\ call[c] # None /\ call[c].status \in {"Accepted", "Rejected"} /\ s \in Stations /\ i \in Booking!Ids
        /\ call[c].action = "CancelReservation"
        /\ call'[c] # None /\ call'[c].status = "handled" /\ call'[c].station = s /\ call'[c].id = i
        /\ \A d \in Booking!Calls \ {c} : call'[d] = call[d]
    BY <1>6 DEF Booking!HandleCancelReservation, Booking!Answered
  <2>2. /\ held' = held /\ notice' = notice /\ crossed' = crossed
        /\ ~misread' => ~misread /\ found /\ call[c].status = "Accepted"
    BY <1>6, <2>1 DEF Booking!HandleCancelReservation
  <2>3. rows' = IF found THEN Booking!UpdateByKey(i, accepted) ELSE rows
    BY <1>6 DEF Booking!HandleCancelReservation
  <2> HIDE DEF s, i, accepted
  <2>4. /\ \A j \in Booking!Keys : rows[j] = None <=> rows'[j] = None
        /\ \A j \in Booking!Keys : rows[j] # None => rows'[j].station = rows[j].station /\ rows'[j].id = rows[j].id
        /\ \A j \in Booking!Keys : j # i => rows'[j] = rows[j]
        /\ found /\ i \in Booking!Keys /\ rows[i] # None => rows'[i].isActive = accepted
    <3>1. accepted \in BOOLEAN
      BY DEF accepted
    <3> QED BY <2>3, <3>1, UpdatesByKey
  <2>5. Kept
    BY <2>1, <2>4 DEF Kept, s, i
  <2>6. OneRow' /\ CallsHaveRows'
    BY <2>1, <2>4, <2>5, RowsStay
  <2>7. \A d \in Booking!Calls, t \in Stations, m \in Booking!Ids : Said(d, t, m)' => Said(d, t, m) /\ call'[d] = call[d]
    BY <2>1 DEF Said
  <2>8. SaidLast'
    BY <2>2, <2>7, SaidStays DEF BookingInv
  <2>9. ReservationsRight'
    <3> SUFFICES ASSUME Booking!KeysAgree', ~misread', ~crossed', NEW j \in Booking!Keys, rows[j] # None,
                        ~Booking!Unhandled(rows[j].station, rows[j].id)', ~Reserving(rows[j].station, rows[j].id)'
                 PROVE  rows'[j].isActive <=> <<rows[j].station, rows[j].id>> \in held
      BY <2>2, <2>4 DEF ReservationsRight, RowRight
    <3>1. Booking!KeysAgree
      BY <2>5, <2>6, KeysAgreed
    <3>2. rows[i] # None /\ rows[i].station = s /\ rows[i].id = i /\ i \in Booking!Keys
      BY <2>1, <3>1 DEF Booking!KeysAgree, Booking!Matches, s, i
    <3>3. CASE j = i
      <4>1. rows'[j].isActive = accepted
        BY <2>2, <2>4, <3>2, <3>3
      <4>2. Said(c, s, i)
        BY <2>1 DEF Said, s, i
      <4>3. accepted <=> <<s, i>> \in held
        BY <2>1, <2>2, <4>2 DEF BookingInv, SaidLast, accepted
      <4> QED BY <3>2, <3>3, <4>1, <4>3
    <3>4. CASE j # i
      <4>1. rows[j].station # s \/ rows[j].id # i
        BY <3>2, <3>4 DEF BookingInv, OneRow
      <4>2. ~Booking!Unhandled(rows[j].station, rows[j].id) /\ ~Reserving(rows[j].station, rows[j].id)
        BY <2>1, <2>2, <2>4, <4>1 DEF Booking!Unhandled, Reserving, s, i
      <4>3. RowRight(j)
        BY <2>2, <3>1 DEF BookingInv, ReservationsRight
      <4> QED BY <2>4, <3>4, <4>2, <4>3 DEF RowRight
    <3> QED BY <3>3, <3>4
  <2> QED BY <2>6, <2>8, <2>9 DEF BookingInv
<1>7. ASSUME NEW s \in Stations, NEW i \in Booking!Ids, NEW how \in {"ended", "used"},
             Booking!EndReservation(s, i, how)
      PROVE  BookingInv'
  <2>1. /\ rows' = rows /\ call' = call /\ misread' = misread
        /\ crossed' = (crossed \/ Booking!Unhandled(s, i))
        /\ held' = held \ {<<s, i>>} /\ notice'[<<s, i>>] # "none"
        /\ \A t \in Stations, m \in Booking!Ids : <<t, m>> # <<s, i>> => notice'[<<t, m>>] = notice[<<t, m>>]
    BY <1>7 DEF Booking!EndReservation
  <2>2. Kept
    BY <2>1 DEF Kept
  <2>3. OneRow' /\ CallsHaveRows'
    BY <2>1, <2>2, RowsStay
  <2>4. SaidLast'
    <3>1. \A d \in Booking!Calls, t \in Stations, m \in Booking!Ids : Said(d, t, m)' <=> Said(d, t, m)
      BY <2>1 DEF Said
    <3>2. ~crossed' => \A d \in Booking!Calls : ~Said(d, s, i)
      BY <2>1 DEF Booking!Unhandled, Said
    <3> SUFFICES ASSUME ~crossed', NEW t \in Stations, NEW m \in Booking!Ids
                 PROVE  /\ notice'[<<t, m>>] # "none" =>
                             <<t, m>> \notin held' /\ \A d \in Booking!Calls : ~Said(d, t, m)
                        /\ \A d, e \in Booking!Calls : Said(d, t, m) /\ Said(e, t, m) => d = e
                        /\ \A d \in Booking!Calls : Said(d, t, m) =>
                             /\ call[d].action = "ReserveNow" => (call[d].status = "Accepted" <=> <<t, m>> \in held')
                             /\ call[d].action = "CancelReservation" /\ call[d].status = "Accepted" => <<t, m>> \notin held'
      BY <2>1, <3>1, ZenonT(60) DEF SaidLast
    <3>3. CASE <<t, m>> = <<s, i>>
      BY <2>1, <3>2, <3>3
    <3>4. CASE <<t, m>> # <<s, i>>
      BY <2>1, <3>4 DEF BookingInv, SaidLast
    <3> QED BY <3>3, <3>4
  <2>5. ReservationsRight'
    <3> SUFFICES ASSUME Booking!KeysAgree', ~misread', ~crossed', NEW j \in Booking!Keys, rows[j] # None,
                        ~Booking!Unhandled(rows[j].station, rows[j].id)', ~Reserving(rows[j].station, rows[j].id)'
                 PROVE  rows[j].isActive <=> <<rows[j].station, rows[j].id>> \in held'
      BY <2>1 DEF ReservationsRight, RowRight
    <3>1. RowRight(j)
      BY <2>1, <2>2, <2>3, KeysAgreed DEF BookingInv, ReservationsRight
    <3>2. <<rows[j].station, rows[j].id>> # <<s, i>>
      BY <2>1 DEF Booking!Unhandled
    <3>3. rows[j].station \in Stations /\ rows[j].id \in Booking!Ids
      BY DEF Booking!Row
    <3>4. ~Booking!Unhandled(rows[j].station, rows[j].id) /\ ~Reserving(rows[j].station, rows[j].id)
      BY <2>1, <3>2, <3>3 DEF Booking!Unhandled, Reserving
    <3> QED BY <2>1, <3>1, <3>2, <3>4 DEF RowRight
  <2> QED BY <2>3, <2>4, <2>5 DEF BookingInv
<1>8. ASSUME NEW s \in Stations, NEW i \in Booking!Ids, Booking!HandleNotice(s, i)
      PROVE  BookingInv'
  <2>1. /\ call' = call /\ held' = held /\ misread' = misread /\ crossed' = crossed
        /\ notice[<<s, i>>] # "none"
        /\ \A t \in Stations, m \in Booking!Ids : <<t, m>> # <<s, i>> => notice'[<<t, m>>] = notice[<<t, m>>]
        /\ notice'[<<s, i>>] = "none"
    BY <1>8 DEF Booking!HandleNotice
  <2>2. \A j \in Booking!Keys : ~Booking!Matches(j, s, i) => rows'[j] = rows[j]
    BY <1>8 DEF Booking!HandleNotice
  <2>3. \A j \in Booking!Keys : Booking!Matches(j, s, i) =>
          rows'[j] \in Booking!Row /\ rows'[j].station = s /\ rows'[j].id = i /\ ~rows'[j].isActive
    BY <1>8 DEF Booking!HandleNotice, Booking!Matches, Booking!Row
  <2>4. Kept
    BY <2>1, <2>2, <2>3 DEF Kept, Booking!Matches
  <2>5. OneRow' /\ CallsHaveRows'
    BY <2>1, <2>2, <2>4, RowsStay DEF Booking!Matches
  <2>6. SaidLast'
    <3>1. \A d \in Booking!Calls, t \in Stations, m \in Booking!Ids : Said(d, t, m)' <=> Said(d, t, m)
      BY <2>1 DEF Said
    <3> QED BY <2>1, <3>1, ZenonT(60) DEF BookingInv, SaidLast
  <2>7. ReservationsRight'
    <3> SUFFICES ASSUME Booking!KeysAgree', ~misread', ~crossed', NEW j \in Booking!Keys, rows'[j] # None,
                        ~Booking!Unhandled(rows[j].station, rows[j].id)', ~Reserving(rows[j].station, rows[j].id)'
                 PROVE  rows'[j].isActive <=> <<rows'[j].station, rows'[j].id>> \in held
      BY <2>1 DEF ReservationsRight, RowRight
    <3>1. RowRight(j)
      BY <2>1, <2>4, <2>5, KeysAgreed DEF BookingInv, ReservationsRight
    <3>2. CASE Booking!Matches(j, s, i)
      <4>1. <<s, i>> \notin held
        BY <2>1 DEF BookingInv, SaidLast
      <4> QED BY <2>3, <3>2, <4>1
    <3>3. CASE ~Booking!Matches(j, s, i)
      <4>1. rows'[j] = rows[j]
        BY <2>2, <3>3
      <4>2. rows[j].station \in Stations /\ rows[j].id \in Booking!Ids /\ <<rows[j].station, rows[j].id>> # <<s, i>>
        BY <3>3, <4>1 DEF Booking!Row, Booking!Matches
      <4>3. ~Booking!Unhandled(rows[j].station, rows[j].id) /\ ~Reserving(rows[j].station, rows[j].id)
        BY <2>1, <4>1, <4>2 DEF Booking!Unhandled, Reserving
      <4> QED BY <3>1, <4>1, <4>3 DEF RowRight
    <3> QED BY <3>2, <3>3
  <2> QED BY <2>5, <2>6, <2>7 DEF BookingInv
<1> QED BY <1>1, <1>2, <1>3, <1>4, <1>5, <1>6, <1>7, <1>8 DEF Booking!Next

LEMMA BookingStutter ==
  ASSUME BookingTypeOK, BookingInv, UNCHANGED reservationVars PROVE BookingTypeOK' /\ BookingInv'
BY DEF reservationVars, BookingTypeOK, Booking!TypeOK, BookingInv, OneRow, CallsHaveRows,
   SaidLast, Said,
  ReservationsRight, RowRight, Reserving, Booking!KeysAgree, Booking!Unhandled, Booking!Matches

LEMMA BookingInvariant == Booking!Spec => [](BookingTypeOK /\ BookingInv)
<1>1. Booking!Init => BookingTypeOK /\ BookingInv
  BY BookingInit
<1>2. BookingTypeOK /\ BookingInv /\ [Booking!Next]_(Booking!reservationVars) => (BookingTypeOK /\ BookingInv)'
  BY BookingType, BookingStep, BookingStutter DEF reservationVars, Booking!reservationVars
<1> QED BY <1>1, <1>2, PTL DEF Booking!Spec

LEMMA ActiveIsHeldHolds == Booking!Spec => []Booking!ActiveIsHeld
<1>1. BookingTypeOK /\ BookingInv => Booking!ActiveIsHeld
  BY DEF Booking!ActiveIsHeld, BookingInv, ReservationsRight, RowRight, Reserving,
    Booking!Unhandled, Booking!Settled, BookingTypeOK, Booking!TypeOK, Booking!Row
<1> QED BY <1>1, BookingInvariant, PTL

(* A reservation is active exactly if its station holds it, for any        *)
(* stations, reservations and calls, under the conditions ActiveIsHeld     *)
(* names.                                                                  *)
THEOREM ActiveAreHeld == Spec => []ActiveIsHeld
<1>1. Booking!ActiveIsHeld => ActiveIsHeld
  BY Zenon DEF ActiveIsHeld
<1> QED BY <1>1, ActiveIsHeldHolds, PartsRun, PTL

-----------------------------------------------------------------------------
(* The local authorization list. *)

LEMMA ListInit == ASSUME AuthList!Init PROVE ListTypeOK /\ ListInv
<1>1. ListTypeOK
  <2>1. 0 \in AuthList!Versions
    BY MaxVersionIsNat DEF AuthList!Versions
  <2>2. AuthList!TypeOK
    BY <2>1 DEF AuthList!Init, AuthList!TypeOK, AuthList!NoList
  <2> QED BY <2>2 DEF ListTypeOK, AuthList!Init, AuthList!Statuses
<1>2. ListInv
  BY DEF AuthList!Init, ListInv, AskedWhenDone, OneOpen, ListAnswer, QueryAnswered,
     NoneOpen, ListOpen, QueryOpen,
    AuthList!CopyOfVersion, AuthList!NoList, AuthList!Queries
<1> QED BY <1>1, <1>2

LEMMA ListType == ASSUME ListTypeOK, AuthList!Next PROVE ListTypeOK'
<1> USE NoneIsNoValue, ListConstants, MaxVersionIsNat DEF ListTypeOK, AuthList!TypeOK, AuthList!Row, AuthList!Request, AuthList!Statuses, AuthList!Queries,
  AuthList!NoList, AuthList!Updated, AuthList!FoundRow, AuthList!NewRow, AuthList!LookedUp, AuthList!rowVars, AuthList!apiVars
<1>1. ASSUME NEW l \in Lists, AuthList!ReadListVersion(l)
      PROVE  ListTypeOK'
  <2>1. 0 \in AuthList!Versions
    BY DEF AuthList!Versions
  <2>2. apiRead' \in [Lists -> [version : AuthList!Versions, tokens : SUBSET Tokens]]
    <3>1. CASE listRow = None
      BY <1>1, <2>1, <3>1 DEF AuthList!ReadListVersion
    <3>2. CASE listRow # None
      <4>1. listRow.version \in AuthList!Versions /\ listRow.tokens \in SUBSET Tokens
        BY <3>2
      <4> QED BY <1>1, <3>2, <4>1 DEF AuthList!ReadListVersion
    <3> QED BY <3>1, <3>2
  <2> QED BY <1>1, <2>2 DEF AuthList!ReadListVersion
<1>2. ASSUME NEW l \in Lists, NEW r \in AuthList!Request, AuthList!SendLocalList(l, r)
      PROVE  ListTypeOK'
  BY <1>2 DEF AuthList!SendLocalList
<1>3. ASSUME AuthList!GetLocalListVersion
      PROVE  ListTypeOK'
  BY <1>3 DEF AuthList!GetLocalListVersion
<1>4. ASSUME NEW l \in Lists, NEW status \in AuthList!Statuses, AuthList!AnswerSendLocalList(l, status)
      PROVE  ListTypeOK'
  BY <1>4 DEF AuthList!AnswerSendLocalList
<1>5. ASSUME NEW l \in Lists, AuthList!AnswerLost(l)
      PROVE  ListTypeOK'
  BY <1>5 DEF AuthList!AnswerLost
<1>6. ASSUME NEW q \in AuthList!Queries, AuthList!AnswerGetLocalListVersion(q)
      PROVE  ListTypeOK'
  BY <1>6 DEF AuthList!AnswerGetLocalListVersion
<1>7. ASSUME NEW l \in Lists, AuthList!HandleFailed(l)
      PROVE  ListTypeOK'
  BY <1>7 DEF AuthList!HandleFailed
<1>8. ASSUME NEW l \in Lists, AuthList!HandleVersionMismatch(l)
      PROVE  ListTypeOK'
  BY <1>8 DEF AuthList!HandleVersionMismatch
<1>9. ASSUME NEW l \in Lists, AuthList!FindForFull(l)
      PROVE  ListTypeOK'
  BY <1>9 DEF AuthList!FindForFull
<1>10. ASSUME NEW l \in Lists, AuthList!ReplaceListVersion(l)
      PROVE  ListTypeOK'
  BY <1>10 DEF AuthList!ReplaceListVersion
<1>11. ASSUME NEW l \in Lists, AuthList!UpdateListVersion(l)
      PROVE  ListTypeOK'
  <2> USE <1>11 DEF AuthList!UpdateListVersion
  <2>1. AuthList!LookedUp(l).version \in AuthList!Versions /\ AuthList!LookedUp(l).tokens = {}
    OBVIOUS
  <2>2. listRow' \in AuthList!Row \union {None} /\ (listRow' # None => listRow'.id > 0)
    <3>1. CASE listRow = None
      BY <3>1
    <3>2. CASE listRow # None
      <4> DEFINE version == AuthList!LookedUp(l).version
                 added == AuthList!LookedUp(l).tokens
      <4>1. listRow' = [listRow EXCEPT !.version = version, !.tokens = @ \union added]
        BY <3>2
      <4>2. version \in AuthList!Versions /\ added = {}
        BY <2>1
      <4> HIDE DEF version, added
      <4> QED BY ONLY <3>2, <4>1, <4>2, ListTypeOK DEF ListTypeOK, AuthList!TypeOK, AuthList!Row
    <3> QED BY <3>1, <3>2
  <2> QED BY <2>2
<1>12. ASSUME NEW q \in AuthList!Queries, AuthList!FindForVersion(q)
      PROVE  ListTypeOK'
  BY <1>12 DEF AuthList!FindForVersion
<1>13. ASSUME NEW q \in AuthList!Queries, AuthList!ReplaceVersion(q)
      PROVE  ListTypeOK'
  <2> USE <1>13 DEF AuthList!ReplaceVersion
  <2>1. listRow' \in AuthList!Row \union {None} /\ (listRow' # None => listRow'.id > 0) /\ rowId' \in Nat
    <3>1. CASE listFound[q] = 0 /\ listRow = None
      BY <3>1
    <3>2. CASE ~(listFound[q] = 0 /\ listRow = None)
      <4>1. CASE listFound[q] # 0 /\ listFound[q] = AuthList!FoundRow
        <5>1. listRow # None
          BY <4>1
        <5>2. listRow' = [listRow EXCEPT !.version = queryAnswer[q], !.tokens = {}] /\ rowId' = rowId
          BY <3>2, <4>1
        <5>3. listRow' \in AuthList!Row /\ listRow'.id = listRow.id
          BY <5>1, <5>2
        <5> QED BY <5>1, <5>2, <5>3
      <4>2. CASE ~(listFound[q] # 0 /\ listFound[q] = AuthList!FoundRow)
        BY <3>2, <4>2
      <4> QED BY <4>1, <4>2
    <3> QED BY <3>1, <3>2
  <2> QED BY <2>1
<1> QED BY <1>1, <1>2, <1>3, <1>4, <1>5, <1>6, <1>7, <1>8, <1>9, <1>10, <1>11, <1>12, <1>13
  DEF AuthList!Next, AuthList!ListNext

LEMMA ListStep == ASSUME ListTypeOK, ListInv, AuthList!Next PROVE ListInv'
<1> USE NoneIsNoValue, ListConstants, MaxVersionIsNat DEF ListInv, ListTypeOK, AuthList!TypeOK, AuthList!Row, AuthList!Request, AuthList!Statuses, AuthList!Queries,
  AuthList!FoundRow, AuthList!NewRow, AuthList!LookedUp, AuthList!rowVars, AuthList!apiVars, AuthList!Updated,
  AuthList!CopyOfVersion, ListOpen, QueryOpen, AuthList!Unhandled
<1>1. ASSUME NEW l \in Lists, AuthList!ReadListVersion(l)
      PROVE  ListInv'
  <2> USE <1>1 DEF AuthList!ReadListVersion
  <2>1. AskedWhenDone'
    BY DEF AskedWhenDone
  <2>2. OneOpen'
    BY DEF OneOpen, AskedWhenDone
  <2>3. ListAnswer'
    BY DEF ListAnswer, OneOpen, NoneOpen
  <2>4. QueryAnswered'
    BY DEF QueryAnswered, OneOpen, NoneOpen
  <2>5. NoneOpen'
    BY DEF NoneOpen, ListAnswer, QueryAnswered, OneOpen
  <2> QED BY <2>1, <2>2, <2>3, <2>4, <2>5 DEF ListInv
<1>2. ASSUME NEW l \in Lists, NEW r \in AuthList!Request, AuthList!SendLocalList(l, r)
      PROVE  ListInv'
  <2> USE <1>2 DEF AuthList!SendLocalList
  <2>1. AskedWhenDone'
    BY DEF AskedWhenDone
  <2>2. OneOpen'
    BY DEF OneOpen, AskedWhenDone
  <2>3. ListAnswer'
    BY DEF ListAnswer, OneOpen, NoneOpen
  <2>4. QueryAnswered'
    BY DEF QueryAnswered, OneOpen, NoneOpen
  <2>5. NoneOpen'
    BY DEF NoneOpen, ListAnswer, QueryAnswered, OneOpen
  <2> QED BY <2>1, <2>2, <2>3, <2>4, <2>5 DEF ListInv
<1>3. ASSUME AuthList!GetLocalListVersion
      PROVE  ListInv'
  <2> USE <1>3 DEF AuthList!GetLocalListVersion
  <2>1. AskedWhenDone'
    BY DEF AskedWhenDone
  <2>2. OneOpen'
    BY DEF OneOpen, AskedWhenDone
  <2>3. ListAnswer'
    BY DEF ListAnswer, OneOpen, NoneOpen
  <2>4. QueryAnswered'
    BY DEF QueryAnswered, OneOpen, NoneOpen
  <2>5. NoneOpen'
    BY DEF NoneOpen, ListAnswer, QueryAnswered, OneOpen
  <2> QED BY <2>1, <2>2, <2>3, <2>4, <2>5 DEF ListInv
<1>4. ASSUME NEW l \in Lists, NEW status \in AuthList!Statuses, AuthList!AnswerSendLocalList(l, status)
      PROVE  ListInv'
  <2> USE <1>4 DEF AuthList!AnswerSendLocalList
  <2>1. AskedWhenDone'
    BY DEF AskedWhenDone
  <2>2. OneOpen'
    <3>1. ~disturbed' => (\A m \in Lists : ~ListOpen(m)) /\ (\A q \in AuthList!Queries : ~QueryOpen(q))
      OBVIOUS
    <3>2. \A m \in Lists \ {l} : listCall'[m] = listCall[m]
      OBVIOUS
    <3>3. query' = query
      OBVIOUS
    <3> QED BY ONLY <3>1, <3>2, <3>3 DEF OneOpen, ListOpen, QueryOpen
  <2>3. ListAnswer'
    BY DEF ListAnswer, OneOpen, NoneOpen
  <2>4. QueryAnswered'
    BY DEF QueryAnswered, OneOpen, NoneOpen
  <2>5. NoneOpen'
    BY DEF NoneOpen, ListAnswer, QueryAnswered, OneOpen
  <2> QED BY <2>1, <2>2, <2>3, <2>4, <2>5 DEF ListInv
<1>5. ASSUME NEW l \in Lists, AuthList!AnswerLost(l)
      PROVE  ListInv'
  <2> USE <1>5 DEF AuthList!AnswerLost
  <2>1. AskedWhenDone'
    BY DEF AskedWhenDone
  <2>2. OneOpen'
    BY DEF OneOpen, AskedWhenDone
  <2>3. ListAnswer'
    BY DEF ListAnswer, OneOpen, NoneOpen
  <2>4. QueryAnswered'
    BY DEF QueryAnswered, OneOpen, NoneOpen
  <2>5. NoneOpen'
    BY DEF NoneOpen, ListAnswer, QueryAnswered, OneOpen
  <2> QED BY <2>1, <2>2, <2>3, <2>4, <2>5 DEF ListInv
<1>6. ASSUME NEW q \in AuthList!Queries, AuthList!AnswerGetLocalListVersion(q)
      PROVE  ListInv'
  <2> USE <1>6 DEF AuthList!AnswerGetLocalListVersion
  <2>1. AskedWhenDone'
    BY DEF AskedWhenDone
  <2>2. OneOpen'
    BY DEF OneOpen, AskedWhenDone
  <2>3. ListAnswer'
    BY DEF ListAnswer, OneOpen, NoneOpen
  <2>4. QueryAnswered'
    BY DEF QueryAnswered, OneOpen, NoneOpen
  <2>5. NoneOpen'
    BY DEF NoneOpen, ListAnswer, QueryAnswered, OneOpen
  <2> QED BY <2>1, <2>2, <2>3, <2>4, <2>5 DEF ListInv
<1>7. ASSUME NEW l \in Lists, AuthList!HandleFailed(l)
      PROVE  ListInv'
  <2> USE <1>7 DEF AuthList!HandleFailed
  <2>1. AskedWhenDone'
    BY DEF AskedWhenDone
  <2>2. OneOpen'
    BY DEF OneOpen, AskedWhenDone
  <2>3. ListAnswer'
    BY DEF ListAnswer, OneOpen, NoneOpen
  <2>4. QueryAnswered'
    BY DEF QueryAnswered, OneOpen, NoneOpen
  <2>5. NoneOpen'
    BY DEF NoneOpen, ListAnswer, QueryAnswered, OneOpen
  <2> QED BY <2>1, <2>2, <2>3, <2>4, <2>5 DEF ListInv
<1>8. ASSUME NEW l \in Lists, AuthList!HandleVersionMismatch(l)
      PROVE  ListInv'
  <2> USE <1>8 DEF AuthList!HandleVersionMismatch
  <2>1. AskedWhenDone'
    BY DEF AskedWhenDone
  <2>2. OneOpen'
    BY DEF OneOpen, AskedWhenDone
  <2>3. ListAnswer'
    BY DEF ListAnswer, OneOpen, NoneOpen
  <2>4. QueryAnswered'
    BY DEF QueryAnswered, OneOpen, NoneOpen
  <2>5. NoneOpen'
    BY DEF NoneOpen, ListAnswer, QueryAnswered, OneOpen
  <2> QED BY <2>1, <2>2, <2>3, <2>4, <2>5 DEF ListInv
<1>9. ASSUME NEW l \in Lists, AuthList!FindForFull(l)
      PROVE  ListInv'
  <2> USE <1>9 DEF AuthList!FindForFull
  <2>1. AskedWhenDone'
    BY DEF AskedWhenDone
  <2>2. OneOpen'
    BY DEF OneOpen, AskedWhenDone
  <2>3. ListAnswer'
    BY DEF ListAnswer, OneOpen, NoneOpen
  <2>4. QueryAnswered'
    BY DEF QueryAnswered, OneOpen, NoneOpen
  <2>5. NoneOpen'
    BY DEF NoneOpen, ListAnswer, QueryAnswered, OneOpen
  <2> QED BY <2>1, <2>2, <2>3, <2>4, <2>5 DEF ListInv
<1>10. ASSUME NEW l \in Lists, AuthList!ReplaceListVersion(l)
      PROVE  ListInv'
  <2> USE <1>10 DEF AuthList!ReplaceListVersion
  <2>1. AskedWhenDone'
    BY DEF AskedWhenDone
  <2>2. OneOpen'
    BY DEF OneOpen, AskedWhenDone
  <2>3. ListAnswer'
    BY DEF ListAnswer, OneOpen, NoneOpen
  <2>4. QueryAnswered'
    BY DEF QueryAnswered, OneOpen, NoneOpen
  <2>5. NoneOpen'
    BY DEF NoneOpen, ListAnswer, QueryAnswered, OneOpen
  <2> QED BY <2>1, <2>2, <2>3, <2>4, <2>5 DEF ListInv
<1>11. ASSUME NEW l \in Lists, AuthList!UpdateListVersion(l)
      PROVE  ListInv'
  <2> USE <1>11 DEF AuthList!UpdateListVersion
  <2>1. AskedWhenDone'
    BY DEF AskedWhenDone
  <2>2. OneOpen'
    BY DEF OneOpen, AskedWhenDone
  <2>3. ListAnswer'
    BY DEF ListAnswer, OneOpen, NoneOpen
  <2>4. QueryAnswered'
    BY DEF QueryAnswered, OneOpen, NoneOpen
  <2>5. NoneOpen'
    <3>1. CASE listRow = None
      BY <3>1 DEF NoneOpen
    <3>2. CASE listRow # None
      <4>1. AuthList!LookedUp(l).version = request[l].version /\ stationList' = stationList
        OBVIOUS
      <4>2. listRow'.version = request[l].version /\ listRow' # None
        <5> DEFINE version == AuthList!LookedUp(l).version
                   added == AuthList!LookedUp(l).tokens
        <5>1. listRow' = [listRow EXCEPT !.version = version, !.tokens = @ \union added]
          BY <3>2
        <5>2. version = request[l].version /\ version \in AuthList!Versions /\ added = {}
          OBVIOUS
        <5> HIDE DEF version, added
        <5>3. listRow' \in AuthList!Row
          BY ONLY <3>2, <5>1, <5>2, ListTypeOK DEF ListTypeOK, AuthList!TypeOK, AuthList!Row
        <5>4. listRow'.version = version
          BY ONLY <3>2, <5>1, ListTypeOK DEF ListTypeOK, AuthList!TypeOK, AuthList!Row
        <5> QED BY <5>2, <5>3, <5>4, ListConstants
      <4>3. ~disturbed => request[l].version = stationList.version
        BY DEF ListAnswer
      <4> QED BY <3>2, <4>1, <4>2, <4>3 DEF NoneOpen
    <3> QED BY <3>1, <3>2
  <2> QED BY <2>1, <2>2, <2>3, <2>4, <2>5 DEF ListInv
<1>12. ASSUME NEW q \in AuthList!Queries, AuthList!FindForVersion(q)
      PROVE  ListInv'
  <2> USE <1>12 DEF AuthList!FindForVersion
  <2>1. AskedWhenDone'
    BY DEF AskedWhenDone
  <2>2. OneOpen'
    BY DEF OneOpen, AskedWhenDone
  <2>3. ListAnswer'
    BY DEF ListAnswer, OneOpen, NoneOpen
  <2>4. QueryAnswered'
    BY DEF QueryAnswered, OneOpen, NoneOpen
  <2>5. NoneOpen'
    BY DEF NoneOpen, ListAnswer, QueryAnswered, OneOpen
  <2> QED BY <2>1, <2>2, <2>3, <2>4, <2>5 DEF ListInv
<1>13. ASSUME NEW q \in AuthList!Queries, AuthList!ReplaceVersion(q)
      PROVE  ListInv'
  <2> USE <1>13 DEF AuthList!ReplaceVersion
  <2>1. AskedWhenDone'
    BY DEF AskedWhenDone
  <2>2. OneOpen'
    BY DEF OneOpen, AskedWhenDone
  <2>3. ListAnswer'
    BY DEF ListAnswer, OneOpen, NoneOpen
  <2>4. QueryAnswered'
    BY DEF QueryAnswered, OneOpen, NoneOpen
  <2>5. NoneOpen'
    <3> SUFFICES ASSUME ~disturbed
                 PROVE  AuthList!CopyOfVersion' = stationList.version
      BY DEF NoneOpen
    <3>1. listFound[q] = AuthList!FoundRow /\ queryAnswer[q] = stationList.version
      BY DEF QueryAnswered
    <3>2. CASE listRow = None
      <4>1. listRow' = AuthList!NewRow(queryAnswer[q], {})
        BY <3>1, <3>2
      <4>2. listRow' \in AuthList!Row
        BY <4>1
      <4> QED BY <3>1, <4>1, <4>2
    <3>3. CASE listRow # None
      <4>1. listFound[q] # 0
        BY <3>1, <3>3
      <4>2. listRow' = [listRow EXCEPT !.version = queryAnswer[q], !.tokens = {}]
        BY <3>1, <4>1
      <4>3. listRow' \in AuthList!Row
        BY <3>3, <4>2
      <4> QED BY <3>1, <3>3, <4>2, <4>3
    <3> QED BY <3>2, <3>3
  <2> QED BY <2>1, <2>2, <2>3, <2>4, <2>5 DEF ListInv
<1> QED BY <1>1, <1>2, <1>3, <1>4, <1>5, <1>6, <1>7, <1>8, <1>9, <1>10, <1>11, <1>12, <1>13
  DEF AuthList!Next, AuthList!ListNext

LEMMA ListStutter ==
  ASSUME ListTypeOK, ListInv, UNCHANGED listVars PROVE ListTypeOK' /\ ListInv'
BY DEF listVars, ListTypeOK, AuthList!TypeOK, ListInv, AskedWhenDone, OneOpen, ListAnswer,
   QueryAnswered, NoneOpen,
  ListOpen, QueryOpen, AuthList!CopyOfVersion, AuthList!FoundRow

LEMMA ListInvariant == AuthList!Spec => [](ListTypeOK /\ ListInv)
<1>1. AuthList!Init => ListTypeOK /\ ListInv
  BY ListInit
<1>2. ListTypeOK /\ ListInv /\ [AuthList!Next]_(AuthList!listVars) => (ListTypeOK /\ ListInv)'
  BY ListType, ListStep, ListStutter DEF listVars, AuthList!listVars
<1> QED BY <1>1, <1>2, PTL DEF AuthList!Spec

LEMMA VersionFollowsHolds == AuthList!Spec => []AuthList!VersionFollows
<1>1. ListTypeOK /\ ListInv => AuthList!VersionFollows
  BY DEF AuthList!VersionFollows, ListInv, NoneOpen, ListOpen, QueryOpen,
     AuthList!Unhandled,
    AuthList!Statuses
<1> QED BY <1>1, ListInvariant, PTL

(* The version on record is the one the station has, for any number of     *)
(* lists in flight, whatever their versions and answers, unless the copy   *)
(* has missed a change in the ways VersionFollows names.                   *)
THEOREM VersionsFollow == Spec => []VersionFollows
<1>1. AuthList!VersionFollows => VersionFollows
  BY Zenon DEF VersionFollows
<1> QED BY <1>1, VersionFollowsHolds, PartsRun, PTL

-----------------------------------------------------------------------------
(* OCPP 1.6 transactions. *)

LEMMA TxInit == ASSUME Tx16!Init PROVE TxTypeOK /\ TxInv
<1> USE TransactionConstants
<1>0. 0 \in Tx16!Meter
  BY DEF Tx16!Meter
<1>1. TxTypeOK
  <2>1. Tx16!NoSample \in Tx16!Sample /\ Tx16!NoStop \in Tx16!Stop
    BY <1>0 DEF Tx16!NoSample, Tx16!NoStop, Tx16!Sample, Tx16!Stop
  <2>2. stop \in [Tx16!TxIds -> [Tx16!Attempts -> Tx16!Stop]]
    BY <2>1 DEF Tx16!Init
  <2>3. /\ tx \in [Tx16!TxIds -> Tx16!Tx \union {None}]
        /\ start \in [Tx16!Starts -> Tx16!Start \union {None}]
        /\ sample \in [Tx16!TxIds -> Tx16!Sample] /\ hurried \subseteq Tx16!TxIds /\ astray \in BOOLEAN
    BY <2>1 DEF Tx16!Init
  <2>4. /\ station \in [Stations -> [mode : {"idle", "starting", "charging", "stopping"},
                                   tx : Tx16!TxIds \union {None}]]
        /\ waiting \in [Stations -> BOOLEAN] /\ meter \in [Stations -> Tx16!Meter]
    BY <1>0 DEF Tx16!Init, Tx16!Idle
  <2> QED BY <2>2, <2>3, <2>4 DEF TxTypeOK, Tx16!TypeOK
<1>2. RefsExist /\ OwnersKnown /\ StopsComeLast /\ MetersRun
  BY DEF Tx16!Init, RefsExist, OwnersKnown, StopsComeLast, MetersRun, Tx16!NoSample,
      Tx16!NoStop, Tx16!Idle,
     Tx16!Attempts
<1>3. StopStored /\ FoundAsIs /\ EnergyRight /\ OneStarts /\ OneActive /\ ActiveOwned
  BY DEF Tx16!Init, StopStored, FoundAsIs, EnergyRight, OneStarts, OneActive, ActiveOwned,
      Owned, Tx16!Active,
     Tx16!StartRunning, Tx16!NoStop
<1> QED BY <1>1, <1>2, <1>3 DEF TxInv

(* The energy of some readings is on the meter. *)
LEMMA LowestFound ==
  ASSUME NEW S \in SUBSET Nat, S # {} PROVE Tx16!Lowest(S) \in S /\ \A y \in S : Tx16!Lowest(S) <= y
<1>1. IsWellFoundedOn(OpToRel(<, Nat), Nat)
  BY NatLessThanWellFounded
<1>2. PICK x \in S : \A y \in S : ~(<<y, x>> \in OpToRel(<, Nat))
  BY <1>1, WFMin
<1>3. \A y \in S : ~(y < x)
  BY <1>2, Zenon DEF OpToRel
<1>4. \A y \in S : x <= y
  BY <1>3
<1> QED BY <1>2, <1>4, Zenon DEF Tx16!Lowest

LEMMA HighestFound ==
  ASSUME NEW S \in SUBSET Tx16!Meter, S # {}
  PROVE  Tx16!Highest(S) \in S /\ \A y \in S : y <= Tx16!Highest(S)
<1>0. MaxMeter \in Nat /\ S \subseteq 0..MaxMeter
  BY TransactionConstants DEF Tx16!Meter
<1> DEFINE T == {MaxMeter - y : y \in S}
<1>1. T \in SUBSET Nat /\ T # {}
  <2>1. \A y \in S : MaxMeter - y \in Nat
    BY <1>0
  <2>2. PICK y \in S : TRUE
    OBVIOUS
  <2> QED BY <2>1, <2>2
<1>2. PICK z \in T : \A y \in T : z <= y
  BY <1>1, LowestFound
<1>3. PICK x \in S : z = MaxMeter - x
  OBVIOUS
<1>4. ASSUME NEW y \in S PROVE y <= x
  <2>1. MaxMeter - y \in T
    OBVIOUS
  <2>2. z <= MaxMeter - y
    BY <1>2, <2>1
  <2> QED BY <1>0, <1>3, <2>2
<1> QED BY <1>3, <1>4, Zenon DEF Tx16!Highest

LEMMA EnergyOnMeter ==
  ASSUME NEW S \in SUBSET Tx16!Meter, S # {} PROVE Tx16!GetTotalKwh(S) \in Tx16!Meter
<1>1. Tx16!Lowest(S) \in S /\ \A y \in S : Tx16!Lowest(S) <= y
  BY LowestFound, TransactionConstants DEF Tx16!Meter
<1>2. Tx16!Highest(S) \in S
  BY HighestFound
<1>3. MaxMeter \in Nat /\ S \subseteq 0..MaxMeter
  BY TransactionConstants DEF Tx16!Meter
<1>4. Tx16!Lowest(S) <= Tx16!Highest(S)
  BY <1>1, <1>2
<1>5. \A l, h \in 0..MaxMeter : l <= h => h - l \in 0..MaxMeter
  BY <1>3
<1> QED BY <1>1, <1>2, <1>3, <1>4, <1>5, Zenon DEF Tx16!Meter, Tx16!GetTotalKwh

(* Rows stay rows. *)
LEMMA StartKept ==
  ASSUME NEW r \in Tx16!Start
  PROVE  /\ \A t \in Tx16!TxIds : [r EXCEPT !.pc = "created", !.tx = t] \in Tx16!Start
         /\ [r EXCEPT !.pc = "over", !.meterStart = 0, !.tx = None] \in Tx16!Start
<1>1. 0 \in Tx16!Meter
  BY TransactionConstants DEF Tx16!Meter
<1>2. \A q \in Tx16!Start : /\ \A t \in Tx16!TxIds : [q EXCEPT !.tx = t] \in Tx16!Start
                          /\ [q EXCEPT !.tx = None] \in Tx16!Start
                          /\ [q EXCEPT !.meterStart = 0] \in Tx16!Start
  BY <1>1 DEF Tx16!Start
<1>3. [r EXCEPT !.pc = "created"] \in Tx16!Start /\ [r EXCEPT !.pc = "over"] \in Tx16!Start
  BY DEF Tx16!Start
<1> QED BY <1>2, <1>3

LEMMA StopKept ==
  ASSUME NEW r \in Tx16!Stop, NEW k \in Tx16!Meter
  PROVE  /\ [r EXCEPT !.pc = "answered"] \in Tx16!Stop
         /\ [r EXCEPT !.pc = "found", !.seen = k] \in Tx16!Stop
         /\ [r EXCEPT !.pc = "stored"] \in Tx16!Stop
BY DEF Tx16!Stop

LEMMA TxKept ==
  ASSUME NEW r \in Tx16!Tx, NEW k \in Tx16!Meter
  PROVE  [r EXCEPT !.meterStop = k, !.active = FALSE] \in Tx16!Tx
BY DEF Tx16!Tx

LEMMA TxRows ==
  ASSUME TxTypeOK, TxInv
  PROVE  /\ \A t \in Tx16!TxIds : Tx16!SaveReading(t) =>
              /\ tx[t] \in Tx16!Tx
              /\ [tx[t] EXCEPT !.readings = @ \union {sample[t].total}]
                   \in Tx16!Tx
         /\ \A t \in Tx16!TxIds : Tx16!UpdateTotal(t) =>
              /\ tx[t] \in Tx16!Tx
              /\ [tx[t] EXCEPT !.totalKwh = Tx16!SaveKwh(t, sample[t].seen, sample[t].total)]
                   \in Tx16!Tx
         /\ \A t \in Tx16!TxIds, a \in Tx16!Attempts : Tx16!CreateStopTransaction(t, a) =>
              /\ tx[t] \in Tx16!Tx
              /\ [tx[t] EXCEPT !.meterStop = stop[t][a].meterStop, !.active = FALSE]
                   \in Tx16!Tx
         /\ \A t \in Tx16!TxIds, a \in Tx16!Attempts : Tx16!SaveTransaction(t, a) =>
              /\ tx[t] \in Tx16!Tx
              /\ [tx[t] EXCEPT !.active = FALSE, !.totalKwh = Tx16!SaveKwh(t, stop[t][a].seen,
                                                   stop[t][a].meterStop - tx[t].meterStart)]
                   \in Tx16!Tx
<1> USE DEF TxTypeOK, Tx16!TypeOK
<1>12. ASSUME NEW t \in Tx16!TxIds, Tx16!SaveReading(t)
      PROVE  /\ tx[t] \in Tx16!Tx
             /\ [tx[t] EXCEPT !.readings = @ \union {sample[t].total}] \in Tx16!Tx
  <2>1. tx[t] \in Tx16!Tx
    BY <1>12 DEF Tx16!SaveReading, TxInv, RefsExist
  <2>2. sample[t].total \in Tx16!Meter
    BY DEF Tx16!Sample
  <2> QED BY <2>1, <2>2 DEF Tx16!Tx
<1>14. ASSUME NEW t \in Tx16!TxIds, Tx16!UpdateTotal(t)
      PROVE  /\ tx[t] \in Tx16!Tx
             /\ [tx[t] EXCEPT !.totalKwh = Tx16!SaveKwh(t, sample[t].seen, sample[t].total)] \in Tx16!Tx
  <2>1. tx[t] \in Tx16!Tx
    BY <1>14 DEF Tx16!UpdateTotal, TxInv, RefsExist
  <2>2. Tx16!SaveKwh(t, sample[t].seen, sample[t].total) \in Tx16!Meter
    BY <2>1 DEF Tx16!Tx, Tx16!Sample, Tx16!SaveKwh
  <2> QED BY <2>1, <2>2 DEF Tx16!Tx
<1>17. ASSUME NEW t \in Tx16!TxIds, NEW a \in Tx16!Attempts, Tx16!CreateStopTransaction(t, a)
      PROVE  /\ tx[t] \in Tx16!Tx
             /\ [tx[t] EXCEPT !.meterStop = stop[t][a].meterStop, !.active = FALSE] \in Tx16!Tx
  <2>1. stop[t][a] \in Tx16!Stop
    OBVIOUS
  <2>2. tx[t] \in Tx16!Tx
    BY <1>17 DEF Tx16!CreateStopTransaction, TxInv, RefsExist
  <2> QED BY <2>1, <2>2, TxKept DEF Tx16!Stop
<1>18. ASSUME NEW t \in Tx16!TxIds, NEW a \in Tx16!Attempts, Tx16!SaveTransaction(t, a)
      PROVE  /\ tx[t] \in Tx16!Tx
             /\ [tx[t] EXCEPT !.active = FALSE, !.totalKwh = Tx16!SaveKwh(t, stop[t][a].seen,
                                                   stop[t][a].meterStop - tx[t].meterStart)] \in Tx16!Tx
  <2>1. tx[t] \in Tx16!Tx /\ tx[t].meterStart <= stop[t][a].meterStop
    BY <1>18 DEF Tx16!SaveTransaction, TxInv, RefsExist, MetersRun
  <2>2. stop[t][a].meterStop - tx[t].meterStart \in Tx16!Meter
    BY <2>1, TransactionConstants DEF Tx16!Tx, Tx16!Stop, Tx16!Meter
  <2>3. Tx16!SaveKwh(t, stop[t][a].seen, stop[t][a].meterStop - tx[t].meterStart) \in Tx16!Meter
    BY <2>1, <2>2 DEF Tx16!Tx, Tx16!SaveKwh
  <2> QED BY <2>1, <2>3 DEF Tx16!Tx
<1> QED BY <1>12, <1>14, <1>17, <1>18

LEMMA TxType == ASSUME TxTypeOK, TxInv, Tx16!Next PROVE TxTypeOK'
<1>0. /\ 0 \in Tx16!Meter /\ None \notin Tx16!TxIds /\ None \notin Tx16!Tx /\ None \notin Tx16!Start
  BY TransactionConstants DEF Tx16!Meter
<1> USE <1>0 DEF TxTypeOK, Tx16!TypeOK, Tx16!stationVars
<1>1. ASSUME NEW n \in Tx16!Starts, NEW s \in Stations, Tx16!SendStart(n, s)
      PROVE  TxTypeOK'
  <2>1. [station |-> s, pc |-> "queued", meterStart |-> meter[s], tx |-> None] \in Tx16!Start
    BY DEF Tx16!Start
  <2>2. [station[s] EXCEPT !.mode = "starting"]
          \in [mode : {"idle", "starting", "charging", "stopping"}, tx : Tx16!TxIds \union {None}]
    OBVIOUS
  <2>3. start' \in [Tx16!Starts -> Tx16!Start \union {None}]
    BY <1>1, <2>1 DEF Tx16!SendStart, Tx16!NewStart
  <2>4. astray' \in BOOLEAN
    BY <1>1 DEF Tx16!SendStart
  <2> QED BY <1>1, <2>1, <2>2, <2>3, <2>4 DEF Tx16!SendStart
<1>2. ASSUME NEW n \in Tx16!Starts, NEW s \in Stations, Tx16!RepeatStart(n, s)
      PROVE  TxTypeOK'
  <2>1. [station |-> s, pc |-> "queued", meterStart |-> meter[s], tx |-> None] \in Tx16!Start
    BY DEF Tx16!Start
  <2>2. start' \in [Tx16!Starts -> Tx16!Start \union {None}]
    BY <1>2, <2>1 DEF Tx16!RepeatStart, Tx16!NewStart
  <2>3. meter' = meter
    BY <1>2 DEF Tx16!RepeatStart
  <2> QED BY <1>2, <2>1, <2>2, <2>3 DEF Tx16!RepeatStart
<1>3. ASSUME NEW s \in Stations, Tx16!MeterRuns(s)
      PROVE  TxTypeOK'
  BY <1>3, TransactionConstants DEF Tx16!MeterRuns , Tx16!Meter
<1>4. ASSUME NEW s \in Stations, Tx16!SendMeterValues(s)
      PROVE  TxTypeOK'
  <2>1. station[s].tx \in Tx16!TxIds
    BY <1>4 DEF Tx16!SendMeterValues, TxInv, OwnersKnown
  <2>2. [pc |-> "queued", seen |-> 0, total |-> meter[s]] \in Tx16!Sample
    BY DEF Tx16!Sample
  <2> QED BY <1>4, <2>1, <2>2 DEF Tx16!SendMeterValues
<1>5. ASSUME NEW s \in Stations, Tx16!GiveUpMeterValues(s)
      PROVE  TxTypeOK'
  BY <1>5 DEF Tx16!GiveUpMeterValues
<1>6. ASSUME NEW s \in Stations, Tx16!SendStop(s)
      PROVE  TxTypeOK'
  <2>1. station[s].tx \in Tx16!TxIds
    BY <1>6 DEF Tx16!SendStop, TxInv, OwnersKnown
  <2>2. [Tx16!NoStop EXCEPT !.pc = "queued", !.meterStop = meter[s]] \in Tx16!Stop
    BY DEF Tx16!Stop, Tx16!NoStop
  <2> QED BY <1>6, <2>1, <2>2 DEF Tx16!SendStop, Tx16!Attempts
<1>7. ASSUME NEW s \in Stations, Tx16!RepeatStop(s)
      PROVE  TxTypeOK'
  <2>1. station[s].tx \in Tx16!TxIds
    BY <1>7 DEF Tx16!RepeatStop, TxInv, OwnersKnown
  <2>2. [Tx16!NoStop EXCEPT !.pc = "queued", !.meterStop = meter[s]] \in Tx16!Stop
    BY DEF Tx16!Stop, Tx16!NoStop
  <2> QED BY <1>7, <2>1, <2>2 DEF Tx16!RepeatStop, Tx16!Attempts
<1>8. ASSUME NEW n \in Tx16!Starts, Tx16!Authorize(n)
      PROVE  TxTypeOK'
  <2>1. \A pc \in {"accepted", "refused"} : [start[n] EXCEPT !.pc = pc] \in Tx16!Start
    BY <1>8 DEF Tx16!Authorize, Tx16!Start
  <2> QED BY <1>8, <2>1 DEF Tx16!Authorize
<1>9. ASSUME NEW n \in Tx16!Starts, NEW t \in Tx16!TxIds, Tx16!CreateTransaction(n, t)
      PROVE  TxTypeOK'
  <2>1. start[n] \in Tx16!Start
    BY <1>9 DEF Tx16!CreateTransaction
  <2>2. [start[n] EXCEPT !.pc = "created", !.tx = t] \in Tx16!Start
    BY <2>1, StartKept
  <2>3. [active |-> TRUE, totalKwh |-> 0, readings |-> {}, meterStart |-> start[n].meterStart,
       meterStop |-> None] \in Tx16!Tx
    BY <1>9 DEF Tx16!CreateTransaction, Tx16!Start, Tx16!Tx
  <2> QED BY <1>9, <2>1, <2>2, <2>3 DEF Tx16!CreateTransaction
<1>10. ASSUME NEW n \in Tx16!Starts, Tx16!CreateFails(n)
      PROVE  TxTypeOK'
  <2>1. \A pc \in {"refused"} : [start[n] EXCEPT !.pc = pc] \in Tx16!Start
    BY <1>10 DEF Tx16!CreateFails, Tx16!Start
  <2> QED BY <1>10, <2>1 DEF Tx16!CreateFails
<1>11. ASSUME NEW n \in Tx16!Starts, Tx16!AnswerStart(n)
      PROVE  TxTypeOK'
  <2>1. start[n] \in Tx16!Start
    BY <1>11 DEF Tx16!AnswerStart
  <2>2. [start[n] EXCEPT !.pc = "over", !.meterStart = 0, !.tx = None] \in Tx16!Start
    BY <2>1, StartKept
  <2>3. start[n].tx \in Tx16!TxIds \union {None} /\ start[n].station \in Stations
    BY <2>1 DEF Tx16!Start
  <2>4. start' \in [Tx16!Starts -> Tx16!Start \union {None}]
    BY <1>11, <2>2 DEF Tx16!AnswerStart
  <2>5. station' \in [Stations -> [mode : {"idle", "starting", "charging", "stopping"}, tx : Tx16!TxIds \union {None}]]
    BY <1>11, <2>3, SMTT(30) DEF Tx16!AnswerStart, Tx16!Idle
  <2>6. waiting' \in [Stations -> BOOLEAN]
    BY <1>11, <2>3 DEF Tx16!AnswerStart
  <2> QED BY <1>11, <2>1, <2>2, <2>3, <2>4, <2>5, <2>6 DEF Tx16!AnswerStart
<1>12. ASSUME NEW t \in Tx16!TxIds, Tx16!SaveReading(t)
      PROVE  TxTypeOK'
  <2>1. /\ tx[t] \in Tx16!Tx
        /\ [tx[t] EXCEPT !.readings = @ \union {sample[t].total}] \in Tx16!Tx
    BY <1>12, TxRows
  <2>2. sample[t].total \in Tx16!Meter
    BY DEF Tx16!Sample
  <2>3. [pc |-> "saved", seen |-> tx[t].totalKwh, total |-> 0] \in Tx16!Sample
    BY <2>1 DEF Tx16!Tx, Tx16!Sample
  <2> QED BY <1>12, <2>1, <2>2, <2>3 DEF Tx16!SaveReading
<1>13. ASSUME NEW t \in Tx16!TxIds, Tx16!ComputeTotal(t)
      PROVE  TxTypeOK'
  <2>1. tx[t] \in Tx16!Tx /\ tx[t].readings # {}
    BY <1>13 DEF Tx16!ComputeTotal, TxInv, RefsExist
  <2>2. Tx16!GetTotalKwh(tx[t].readings) \in Tx16!Meter
    BY <2>1, EnergyOnMeter DEF Tx16!Tx
  <2>3. [sample[t] EXCEPT !.pc = "computed", !.total = Tx16!GetTotalKwh(tx[t].readings)] \in Tx16!Sample
    BY <2>2, ZenonT(60) DEF Tx16!Sample
  <2> QED BY <1>13, <2>1, <2>2, <2>3 DEF Tx16!ComputeTotal
<1>14. ASSUME NEW t \in Tx16!TxIds, Tx16!UpdateTotal(t)
      PROVE  TxTypeOK'
  <2>1. /\ tx[t] \in Tx16!Tx
        /\ [tx[t] EXCEPT !.totalKwh = Tx16!SaveKwh(t, sample[t].seen, sample[t].total)] \in Tx16!Tx
    BY <1>14, TxRows
  <2>2. Tx16!NoSample \in Tx16!Sample
    BY DEF Tx16!NoSample, Tx16!Sample
  <2> QED BY <1>14, <2>1, <2>2 DEF Tx16!UpdateTotal
<1>15. ASSUME NEW t \in Tx16!TxIds, NEW a \in Tx16!Attempts, Tx16!AnswerStop(t, a)
      PROVE  TxTypeOK'
  <2>1. stop[t][a] \in Tx16!Stop
    OBVIOUS
  <2>2. [stop[t][a] EXCEPT !.pc = "answered"] \in Tx16!Stop
    BY <2>1, StopKept
  <2> QED BY <1>15, <2>1, <2>2 DEF Tx16!AnswerStop, Tx16!Idle
<1>16. ASSUME NEW t \in Tx16!TxIds, NEW a \in Tx16!Attempts, Tx16!FindTransaction(t, a)
      PROVE  TxTypeOK'
  <2>1. stop[t][a] \in Tx16!Stop
    OBVIOUS
  <2>2. tx[t] \in Tx16!Tx
    BY <1>16 DEF Tx16!FindTransaction, TxInv, RefsExist
  <2>3. [stop[t][a] EXCEPT !.pc = "found", !.seen = tx[t].totalKwh] \in Tx16!Stop
    BY <2>1, <2>2, StopKept DEF Tx16!Tx
  <2> QED BY <1>16, <2>1, <2>2, <2>3, ZenonT(60) DEF Tx16!FindTransaction
<1>17. ASSUME NEW t \in Tx16!TxIds, NEW a \in Tx16!Attempts, Tx16!CreateStopTransaction(t, a)
      PROVE  TxTypeOK'
  <2>1. stop[t][a] \in Tx16!Stop
    OBVIOUS
  <2>2. [stop[t][a] EXCEPT !.pc = "stored"] \in Tx16!Stop /\ Tx16!StopOver \in Tx16!Stop
    BY <2>1, StopKept DEF Tx16!Stop, Tx16!StopOver
  <2>3. /\ tx[t] \in Tx16!Tx
        /\ [tx[t] EXCEPT !.meterStop = stop[t][a].meterStop, !.active = FALSE] \in Tx16!Tx
    BY <1>17, TxRows
  <2>4. tx' \in [Tx16!TxIds -> Tx16!Tx \union {None}]
    BY <1>17, <2>3, ZenonT(60) DEF Tx16!CreateStopTransaction
  <2>5. \E q \in Tx16!Stop : stop' = [stop EXCEPT ![t][a] = q]
    BY <1>17, <2>2 DEF Tx16!CreateStopTransaction
  <2>6. stop' \in [Tx16!TxIds -> [Tx16!Attempts -> Tx16!Stop]]
    BY <2>5
  <2> QED BY <1>17, <2>1, <2>2, <2>3, <2>4, <2>5, <2>6 DEF Tx16!CreateStopTransaction
<1>18. ASSUME NEW t \in Tx16!TxIds, NEW a \in Tx16!Attempts, Tx16!SaveTransaction(t, a)
      PROVE  TxTypeOK'
  <2>1. /\ tx[t] \in Tx16!Tx
        /\ [tx[t] EXCEPT !.active = FALSE, !.totalKwh = Tx16!SaveKwh(t, stop[t][a].seen,
                                                   stop[t][a].meterStop - tx[t].meterStart)] \in Tx16!Tx
    BY <1>18, TxRows
  <2>2. Tx16!StopOver \in Tx16!Stop
    BY DEF Tx16!Stop, Tx16!StopOver
  <2> QED BY <1>18, <2>1, <2>2 DEF Tx16!SaveTransaction
<1>19. ASSUME NEW n \in Tx16!Starts, Tx16!StartNotAnswered(n)
      PROVE  TxTypeOK'
  <2>1. [start[n] EXCEPT !.pc = "over", !.meterStart = 0, !.tx = None] \in Tx16!Start
    BY <1>19, StartKept DEF Tx16!StartNotAnswered
  <2> QED BY <1>19, <2>1 DEF Tx16!StartNotAnswered
<1>20. ASSUME NEW t \in Tx16!TxIds, NEW a \in Tx16!Attempts, Tx16!StopNotAnswered(t, a)
      PROVE  TxTypeOK'
  <2>1. stop[t][a] \in Tx16!Stop
    OBVIOUS
  <2>2. [stop[t][a] EXCEPT !.pc = "answered"] \in Tx16!Stop
    BY <2>1, StopKept
  <2> QED BY <1>20, <2>1, <2>2 DEF Tx16!StopNotAnswered
<1> QED BY <1>1, <1>2, <1>3, <1>4, <1>5, <1>6, <1>7, <1>8, <1>9, <1>10, <1>11, <1>12, <1>13,
    <1>14,
      <1>15, <1>16, <1>17, <1>18, <1>19, <1>20, Zenon
  DEF Tx16!Next

(* What ties an active transaction to somebody stays. *)
LEMMA OwnersKept ==
  ASSUME ActiveOwned, UNCHANGED <<tx, start, astray>>, \A s \in Stations : station'[s].tx = station[s].tx,
         \A t \in Tx16!TxIds, a \in Tx16!Attempts :
           stop[t][a].pc \notin {"none", "over"} => stop'[t][a].pc \notin {"none", "over"}
  PROVE  ActiveOwned'
BY DEF ActiveOwned, Owned, Tx16!Active

LEMMA TxStep == ASSUME TxTypeOK, TxInv, TxTypeOK', Tx16!Next PROVE TxInv'
<1>0. /\ tx \in [Tx16!TxIds -> Tx16!Tx \union {None}] /\ start \in [Tx16!Starts -> Tx16!Start \union {None}]
      /\ sample \in [Tx16!TxIds -> Tx16!Sample] /\ stop \in [Tx16!TxIds -> [Tx16!Attempts -> Tx16!Stop]]
      /\ station \in [Stations -> [mode : {"idle", "starting", "charging", "stopping"},
                                   tx : Tx16!TxIds \union {None}]]
      /\ waiting \in [Stations -> BOOLEAN] /\ meter \in [Stations -> Tx16!Meter]
      /\ hurried \subseteq Tx16!TxIds /\ astray \in BOOLEAN
      /\ None \notin Tx16!TxIds /\ None \notin Tx16!Tx /\ None \notin Tx16!Start
  BY TransactionConstants DEF TxTypeOK, Tx16!TypeOK
<1>00. /\ \A n \in Tx16!Starts : start[n] # None =>
            start[n].tx \in Tx16!TxIds \union {None} /\ start[n].station \in Stations
       /\ \A s \in Stations : station[s].tx \in Tx16!TxIds \union {None}
       /\ None \notin Tx16!TxIds
  BY <1>0 DEF Tx16!Start
<1> USE <1>0, <1>00 DEF TxInv, Tx16!Attempts, Tx16!stationVars
<1>1. ASSUME NEW n \in Tx16!Starts, NEW s \in Stations, Tx16!SendStart(n, s)
      PROVE  TxInv'
  <2>0. /\ start[n] = None /\ start'[n] # None /\ start'[n].pc = "queued" /\ start'[n].tx = None
        /\ start'[n].station = s /\ start'[n].meterStart = meter[s]
        /\ n <= n /\ \A m \in Tx16!Starts : start[m] # None => m <= n
        /\ \A m \in Tx16!Starts : m < n => start[m] # None
        /\ station[s].mode = "idle" /\ station'[s].mode = "starting" /\ station'[s].tx = station[s].tx /\ waiting'[s]
        /\ \A u \in Stations \ {s} : station'[u] = station[u] /\ waiting'[u] = waiting[u]
        /\ ~astray' => ~astray /\ \A m \in Tx16!Starts : ~Tx16!StartRunning(m)
        /\ \A m \in Tx16!Starts \ {n} : start'[m] = start[m]
        /\ UNCHANGED <<tx, sample, stop, meter, hurried>>
        /\ meter[s] <= meter[s]
    <3>1. [station |-> s, pc |-> "queued", meterStart |-> meter[s], tx |-> None] \in Tx16!Start
      BY DEF Tx16!Start
    <3>2. /\ start[n] = None /\ start'[n] # None /\ start'[n].pc = "queued" /\ start'[n].tx = None
          /\ start'[n].station = s /\ start'[n].meterStart = meter[s]
      BY <1>1, <3>1 DEF Tx16!SendStart, Tx16!NewStart, Tx16!NextStart
    <3>3. n <= n /\ \A m \in Tx16!Starts : start[m] # None => m <= n
      BY <1>1 DEF Tx16!SendStart, Tx16!NewStart, Tx16!NextStart, OwnersKnown, Tx16!Starts
    <3>4. \A m \in Tx16!Starts : m < n => start[m] # None
      BY <1>1 DEF Tx16!SendStart, Tx16!NewStart, Tx16!NextStart
    <3>5. station[s].mode = "idle" /\ station'[s].mode = "starting" /\ station'[s].tx = station[s].tx /\ waiting'[s]
      BY <1>1 DEF Tx16!SendStart, Tx16!Idle
    <3>6. \A u \in Stations \ {s} : station'[u] = station[u] /\ waiting'[u] = waiting[u]
      BY <1>1 DEF Tx16!SendStart, Tx16!NewStart, Tx16!NextStart
    <3>7. ~astray' => ~astray /\ \A m \in Tx16!Starts : ~Tx16!StartRunning(m)
      BY <1>1 DEF Tx16!SendStart, Tx16!NewStart, Tx16!NextStart
    <3>8. \A m \in Tx16!Starts \ {n} : start'[m] = start[m]
      BY <1>1 DEF Tx16!SendStart, Tx16!NewStart, Tx16!NextStart
    <3>9. UNCHANGED <<tx, sample, stop, meter, hurried>>
      BY <1>1 DEF Tx16!SendStart, Tx16!NewStart, Tx16!NextStart
    <3>10. meter[s] <= meter[s]
      BY <1>1 DEF Tx16!Meter
    <3> QED BY <3>2, <3>3, <3>4, <3>5, <3>6, <3>7, <3>8, <3>9, <3>10
  <2> HIDE <1>0
  <2> USE <2>0
  <2>1. RefsExist'
    BY DEF RefsExist
  <2>2. OwnersKnown'
    BY DEF OwnersKnown, RefsExist
  <2>3. StopsComeLast'
    BY DEF StopsComeLast, OwnersKnown, RefsExist
  <2>4. MetersRun'
    BY DEF MetersRun, OwnersKnown, RefsExist
  <2>5. StopStored'
    BY DEF StopStored
  <2>6. FoundAsIs'
    BY DEF FoundAsIs, StopStored, StopsComeLast
  <2>7. EnergyRight'
    BY DEF EnergyRight, FoundAsIs, StopStored, StopsComeLast
  <2>8. OneStarts'
    BY DEF OneStarts, OwnersKnown, Tx16!StartRunning
  <2>9. OneActive'
    BY DEF OneActive, OneStarts, Tx16!Active, StopStored, Tx16!StartRunning
  <2>10. ActiveOwned'
    BY DEF ActiveOwned, Owned, Tx16!Active, StopStored, OneStarts, OwnersKnown, Tx16!StartRunning
  <2> QED BY <2>1, <2>2, <2>3, <2>4, <2>5, <2>6, <2>7, <2>8, <2>9, <2>10
<1>2. ASSUME NEW n \in Tx16!Starts, NEW s \in Stations, Tx16!RepeatStart(n, s)
      PROVE  TxInv'
  <2> HIDE <1>0
  <2> USE <1>2, TransactionConstants DEF TxTypeOK, Tx16!TypeOK, Tx16!Tx, Tx16!Start,
      Tx16!Sample, Tx16!Stop, Tx16!Meter,
      Tx16!RepeatStart, Tx16!NewStart, Tx16!NextStart
  <2>1. RefsExist'
    BY DEF RefsExist
  <2>2. OwnersKnown'
    BY DEF OwnersKnown, RefsExist
  <2>3. StopsComeLast'
    BY DEF StopsComeLast, OwnersKnown, RefsExist
  <2>4. MetersRun'
    BY DEF MetersRun, OwnersKnown, RefsExist
  <2>5. StopStored'
    BY DEF StopStored
  <2>6. FoundAsIs'
    BY DEF FoundAsIs, StopStored, StopsComeLast
  <2>7. EnergyRight'
    BY DEF EnergyRight, FoundAsIs, StopStored, StopsComeLast
  <2>8. OneStarts'
    BY DEF OneStarts, OwnersKnown, Tx16!StartRunning
  <2>9. OneActive'
    BY DEF OneActive, OneStarts, Tx16!Active, StopStored, Tx16!StartRunning
  <2>10. ActiveOwned'
    BY DEF ActiveOwned, Owned, Tx16!Active, StopStored, OneStarts, OwnersKnown, Tx16!StartRunning
  <2> QED BY <2>1, <2>2, <2>3, <2>4, <2>5, <2>6, <2>7, <2>8, <2>9, <2>10
<1>3. ASSUME NEW s \in Stations, Tx16!MeterRuns(s)
      PROVE  TxInv'
  <2> HIDE <1>0
  <2> USE <1>3, TransactionConstants DEF TxTypeOK, Tx16!TypeOK, Tx16!Tx, Tx16!Start,
      Tx16!Sample, Tx16!Stop, Tx16!Meter,
      Tx16!MeterRuns
  <2>1. RefsExist'
    BY DEF RefsExist
  <2>2. OwnersKnown'
    BY DEF OwnersKnown, RefsExist
  <2>3. StopsComeLast'
    BY DEF StopsComeLast, OwnersKnown, RefsExist
  <2>4. MetersRun'
    BY DEF MetersRun, OwnersKnown, RefsExist
  <2>5. StopStored'
    BY DEF StopStored
  <2>6. FoundAsIs'
    BY DEF FoundAsIs, StopStored, StopsComeLast
  <2>7. EnergyRight'
    BY DEF EnergyRight, FoundAsIs, StopStored, StopsComeLast
  <2>8. OneStarts'
    BY DEF OneStarts, OwnersKnown, Tx16!StartRunning
  <2>9. OneActive'
    BY DEF OneActive, OneStarts, Tx16!Active, StopStored, Tx16!StartRunning
  <2>10. ActiveOwned'
    <3>1. UNCHANGED <<tx, start, astray, stop, station>>
      OBVIOUS
    <3> HIDE <1>3, TransactionConstants DEF TxTypeOK, Tx16!TypeOK, Tx16!Tx, Tx16!Start,
        Tx16!Sample, Tx16!Stop, Tx16!Meter,
      Tx16!MeterRuns
    <3> QED BY <3>1, OwnersKept
  <2> QED BY <2>1, <2>2, <2>3, <2>4, <2>5, <2>6, <2>7, <2>8, <2>9, <2>10
<1>4. ASSUME NEW s \in Stations, Tx16!SendMeterValues(s)
      PROVE  TxInv'
  <2> HIDE <1>0
  <2> USE <1>4, TransactionConstants DEF TxTypeOK, Tx16!TypeOK, Tx16!Tx, Tx16!Start,
      Tx16!Sample, Tx16!Stop, Tx16!Meter,
      Tx16!SendMeterValues
  <2>1. RefsExist'
    BY DEF RefsExist
  <2>2. OwnersKnown'
    BY DEF OwnersKnown, RefsExist
  <2>3. StopsComeLast'
    BY DEF StopsComeLast, OwnersKnown, RefsExist
  <2>4. MetersRun'
    BY DEF MetersRun, OwnersKnown, RefsExist
  <2>5. StopStored'
    BY DEF StopStored
  <2>6. FoundAsIs'
    BY DEF FoundAsIs, StopStored, StopsComeLast
  <2>7. EnergyRight'
    BY DEF EnergyRight, FoundAsIs, StopStored, StopsComeLast
  <2>8. OneStarts'
    BY DEF OneStarts, OwnersKnown, Tx16!StartRunning
  <2>9. OneActive'
    BY DEF OneActive, OneStarts, Tx16!Active, StopStored, Tx16!StartRunning
  <2>10. ActiveOwned'
    <3>1. UNCHANGED <<tx, start, astray, stop, station>>
      OBVIOUS
    <3> HIDE <1>4, TransactionConstants DEF TxTypeOK, Tx16!TypeOK, Tx16!Tx, Tx16!Start,
        Tx16!Sample, Tx16!Stop, Tx16!Meter,
      Tx16!SendMeterValues
    <3> QED BY <3>1, OwnersKept
  <2> QED BY <2>1, <2>2, <2>3, <2>4, <2>5, <2>6, <2>7, <2>8, <2>9, <2>10
<1>5. ASSUME NEW s \in Stations, Tx16!GiveUpMeterValues(s)
      PROVE  TxInv'
  <2> HIDE <1>0
  <2> USE <1>5, TransactionConstants DEF TxTypeOK, Tx16!TypeOK, Tx16!Tx, Tx16!Start,
      Tx16!Sample, Tx16!Stop, Tx16!Meter,
      Tx16!GiveUpMeterValues
  <2>1. RefsExist'
    BY DEF RefsExist
  <2>2. OwnersKnown'
    BY DEF OwnersKnown, RefsExist
  <2>3. StopsComeLast'
    BY DEF StopsComeLast, OwnersKnown, RefsExist
  <2>4. MetersRun'
    BY DEF MetersRun, OwnersKnown, RefsExist
  <2>5. StopStored'
    BY DEF StopStored
  <2>6. FoundAsIs'
    BY DEF FoundAsIs, StopStored, StopsComeLast
  <2>7. EnergyRight'
    BY DEF EnergyRight, FoundAsIs, StopStored, StopsComeLast
  <2>8. OneStarts'
    BY DEF OneStarts, OwnersKnown, Tx16!StartRunning
  <2>9. OneActive'
    BY DEF OneActive, OneStarts, Tx16!Active, StopStored, Tx16!StartRunning
  <2>10. ActiveOwned'
    <3>1. UNCHANGED <<tx, start, astray, stop, station>>
      OBVIOUS
    <3> HIDE <1>5, TransactionConstants DEF TxTypeOK, Tx16!TypeOK, Tx16!Tx, Tx16!Start,
        Tx16!Sample, Tx16!Stop, Tx16!Meter,
      Tx16!GiveUpMeterValues
    <3> QED BY <3>1, OwnersKept
  <2> QED BY <2>1, <2>2, <2>3, <2>4, <2>5, <2>6, <2>7, <2>8, <2>9, <2>10
<1>6. ASSUME NEW s \in Stations, Tx16!SendStop(s)
      PROVE  TxInv'
  <2> HIDE <1>0
  <2>0. /\ station[s].mode = "charging" /\ station[s].tx \in Tx16!TxIds /\ {1, 2} = Tx16!Attempts
        /\ \A u \in Tx16!TxIds, a \in Tx16!Attempts :
             u # station[s].tx \/ a # 1 => stop'[u][a] = stop[u][a]
        /\ LET q == stop'[station[s].tx][1] IN q.pc = "queued" /\ q.meterStop = meter[s]
        /\ hurried \subseteq hurried' /\ hurried' \subseteq hurried \union {station[s].tx}
        /\ sample[station[s].tx].pc # "idle" => station[s].tx \in hurried'
        /\ station'[s].mode = "stopping" /\ station'[s].tx = station[s].tx
        /\ \A u \in Stations \ {s} : station'[u] = station[u] /\ waiting'[u] = waiting[u]
        /\ UNCHANGED <<tx, start, sample, meter, astray>>
    BY <1>6, TransactionConstants
      DEF OwnersKnown, TxTypeOK, Tx16!TypeOK, Tx16!Start, Tx16!Stop, Tx16!Attempts, Tx16!SendStop, Tx16!NoStop
  <2> USE <2>0
  <2>1. RefsExist'
    <3>1. /\ \A u \in Tx16!TxIds, a \in Tx16!Attempts :
               stop'[u][a].pc # "none" => stop[u][a].pc # "none" \/ u = station[s].tx
          /\ \A u \in Stations : station'[u].tx = station[u].tx
          /\ station[s].tx # None /\ UNCHANGED <<tx, start, sample>>
      BY DEF OwnersKnown
    <3> QED BY <3>1 DEF RefsExist
  <2>2. OwnersKnown'
    BY DEF OwnersKnown, RefsExist
  <2>3. StopsComeLast'
    BY DEF StopsComeLast, OwnersKnown, RefsExist
  <2>4. MetersRun'
    BY DEF MetersRun, OwnersKnown, RefsExist
  <2>5. StopStored'
    BY DEF StopStored
  <2>6. FoundAsIs'
    BY DEF FoundAsIs, StopStored, StopsComeLast
  <2>7. EnergyRight'
    BY DEF EnergyRight, FoundAsIs, StopStored, StopsComeLast
  <2>8. OneStarts'
    BY DEF OneStarts, OwnersKnown, Tx16!StartRunning
  <2>9. OneActive'
    BY DEF OneActive, OneStarts, Tx16!Active, StopStored, Tx16!StartRunning
  <2>10. ActiveOwned'
    <3>1. UNCHANGED <<tx, start, astray>> /\ \A u \in Stations : station'[u].tx = station[u].tx
      OBVIOUS
    <3>2. \A u \in Tx16!TxIds, a \in Tx16!Attempts :
            stop[u][a].pc \notin {"none", "over"} => stop'[u][a].pc \notin {"none", "over"}
      BY DEF OwnersKnown
    <3> QED BY <3>1, <3>2, OwnersKept
  <2> QED BY <2>1, <2>2, <2>3, <2>4, <2>5, <2>6, <2>7, <2>8, <2>9, <2>10
<1>7. ASSUME NEW s \in Stations, Tx16!RepeatStop(s)
      PROVE  TxInv'
  <2> HIDE <1>0
  <2>0. /\ station[s].mode = "stopping" /\ station[s].tx \in Tx16!TxIds /\ {1, 2} = Tx16!Attempts
        /\ stop[station[s].tx][2].pc = "none"
        /\ \A u \in Tx16!TxIds, a \in Tx16!Attempts :
             u # station[s].tx \/ a # 2 => stop'[u][a] = stop[u][a]
        /\ LET q == stop'[station[s].tx][2] IN q.pc = "queued" /\ q.meterStop = meter[s]
        /\ UNCHANGED <<tx, start, sample, station, waiting, meter, hurried, astray>>
    BY <1>7, TransactionConstants
      DEF OwnersKnown, TxTypeOK, Tx16!TypeOK, Tx16!Start, Tx16!Stop, Tx16!Attempts, Tx16!RepeatStop, Tx16!NoStop, Tx16!stationVars
  <2> USE <2>0
  <2>1. RefsExist'
    BY DEF RefsExist
  <2>2. OwnersKnown'
    BY DEF OwnersKnown, RefsExist
  <2>3. StopsComeLast'
    BY DEF StopsComeLast, OwnersKnown, RefsExist
  <2>4. MetersRun'
    BY DEF MetersRun, OwnersKnown, RefsExist
  <2>5. StopStored'
    BY DEF StopStored
  <2>6. FoundAsIs'
    BY DEF FoundAsIs, StopStored, StopsComeLast
  <2>7. EnergyRight'
    BY DEF EnergyRight, FoundAsIs, StopStored, StopsComeLast
  <2>8. OneStarts'
    BY DEF OneStarts, OwnersKnown, Tx16!StartRunning
  <2>9. OneActive'
    BY DEF OneActive, OneStarts, Tx16!Active, StopStored, Tx16!StartRunning
  <2>10. ActiveOwned'
    <3>1. UNCHANGED <<tx, start, astray, station>>
      OBVIOUS
    <3>2. \A u \in Tx16!TxIds, b \in Tx16!Attempts :
            stop[u][b].pc \notin {"none", "over"} => stop'[u][b].pc \notin {"none", "over"}
      OBVIOUS
    <3> QED BY <3>1, <3>2, OwnersKept
  <2> QED BY <2>1, <2>2, <2>3, <2>4, <2>5, <2>6, <2>7, <2>8, <2>9, <2>10
<1>8. ASSUME NEW n \in Tx16!Starts, Tx16!Authorize(n)
      PROVE  TxInv'
  <2>0. /\ start[n] # None /\ start[n].pc = "queued" /\ start'[n] # None
        /\ start'[n].tx = start[n].tx /\ start'[n].station = start[n].station
        /\ start'[n].meterStart = start[n].meterStart
        /\ start'[n].pc \in {"accepted", "refused"}
        /\ start'[n].pc = "accepted" => \A t \in Tx16!TxIds : ~Tx16!Active(t)
        /\ \A m \in Tx16!Starts \ {n} : start'[m] = start[m]
        /\ UNCHANGED <<tx, sample, stop, station, waiting, meter, hurried, astray>>
    <3>1. start[n] \in Tx16!Start
      BY <1>8 DEF Tx16!Authorize
    <3>2. \A pc \in {"accepted", "refused"} : [start[n] EXCEPT !.pc = pc] \in Tx16!Start
      BY <3>1 DEF Tx16!Start
    <3>3. start[n] # None /\ start[n].pc = "queued" /\ start'[n] # None
      BY <1>8, <3>1, <3>2 DEF Tx16!Authorize
    <3>4. /\ start'[n].tx = start[n].tx /\ start'[n].station = start[n].station
          /\ start'[n].meterStart = start[n].meterStart
      BY <1>8, <3>1 DEF Tx16!Authorize, Tx16!Start
    <3>5. start'[n].pc \in {"accepted", "refused"}
      BY <1>8, <3>1 DEF Tx16!Authorize, Tx16!Start
    <3>6. start'[n].pc = "accepted" => \A t \in Tx16!TxIds : ~Tx16!Active(t)
      BY <1>8, <3>1 DEF Tx16!Authorize, Tx16!Start, Tx16!Active
    <3>7. \A m \in Tx16!Starts \ {n} : start'[m] = start[m]
      BY <1>8 DEF Tx16!Authorize
    <3>8. UNCHANGED <<tx, sample, stop, station, waiting, meter, hurried, astray>>
      BY <1>8 DEF Tx16!Authorize
    <3> QED BY <3>3, <3>4, <3>5, <3>6, <3>7, <3>8
  <2> HIDE <1>0
  <2> USE <2>0
  <2>1. RefsExist'
    BY DEF RefsExist
  <2>2. OwnersKnown'
    BY DEF OwnersKnown, RefsExist
  <2>3. StopsComeLast'
    BY DEF StopsComeLast, OwnersKnown, RefsExist
  <2>4. MetersRun'
    BY DEF MetersRun, OwnersKnown, RefsExist
  <2>5. StopStored'
    BY DEF StopStored
  <2>6. FoundAsIs'
    BY DEF FoundAsIs, StopStored, StopsComeLast
  <2>7. EnergyRight'
    BY DEF EnergyRight, FoundAsIs, StopStored, StopsComeLast
  <2>8. OneStarts'
    BY DEF OneStarts, OwnersKnown, Tx16!StartRunning
  <2>9. OneActive'
    BY DEF OneActive, OneStarts, Tx16!Active, StopStored, Tx16!StartRunning
  <2>10. ActiveOwned'
    BY DEF ActiveOwned, Owned, Tx16!Active, StopStored, OneStarts, OwnersKnown, Tx16!StartRunning
  <2> QED BY <2>1, <2>2, <2>3, <2>4, <2>5, <2>6, <2>7, <2>8, <2>9, <2>10
<1>9. ASSUME NEW n \in Tx16!Starts, NEW t \in Tx16!TxIds, Tx16!CreateTransaction(n, t)
      PROVE  TxInv'
  <2>0. /\ start[n] # None /\ start[n].pc = "accepted" /\ start'[n] # None /\ start'[n].pc = "created"
        /\ start'[n].tx = t /\ start'[n].station = start[n].station /\ start'[n].meterStart = start[n].meterStart
        /\ tx[t] = None /\ tx'[t] # None /\ tx'[t].meterStart = start[n].meterStart /\ tx'[t].meterStop = None
        /\ tx'[t].active = TRUE
        /\ \A m \in Tx16!Starts \ {n} : start'[m] = start[m]
        /\ \A u \in Tx16!TxIds \ {t} : tx'[u] = tx[u]
        /\ UNCHANGED <<sample, stop, station, waiting, meter, hurried, astray>>
    <3>1. start[n] \in Tx16!Start
      BY <1>9 DEF Tx16!CreateTransaction
    <3>2. [start[n] EXCEPT !.pc = "created", !.tx = t] \in Tx16!Start
      BY <3>1, StartKept
    <3>3. start[n].meterStart \in Tx16!Meter /\ [active |-> TRUE, totalKwh |-> 0, readings |-> {}, meterStart |-> start[n].meterStart,
         meterStop |-> None] \in Tx16!Tx
      BY <3>1, TransactionConstants DEF Tx16!Start, Tx16!Tx, Tx16!Meter
    <3>4. start[n] # None /\ start[n].pc = "accepted" /\ start'[n] # None /\ start'[n].pc = "created"
      BY <1>9, <3>1, <3>2, <3>3 DEF Tx16!CreateTransaction, Tx16!NextTx
    <3>5. start'[n].tx = t /\ start'[n].station = start[n].station /\ start'[n].meterStart = start[n].meterStart
      BY <1>9, <3>1, <3>2, <3>3 DEF Tx16!CreateTransaction, Tx16!NextTx
    <3>6. /\ tx[t] = None /\ tx'[t] # None /\ tx'[t].meterStart = start[n].meterStart /\ tx'[t].meterStop = None
          /\ tx'[t].active = TRUE
      BY <1>9, <3>1, <3>2, <3>3 DEF Tx16!CreateTransaction, Tx16!NextTx
    <3>7. \A m \in Tx16!Starts \ {n} : start'[m] = start[m]
      BY <1>9 DEF Tx16!CreateTransaction, Tx16!NextTx
    <3>8. \A u \in Tx16!TxIds \ {t} : tx'[u] = tx[u]
      BY <1>9 DEF Tx16!CreateTransaction, Tx16!NextTx
    <3>9. UNCHANGED <<sample, stop, station, waiting, meter, hurried, astray>>
      BY <1>9 DEF Tx16!CreateTransaction, Tx16!NextTx
    <3> QED BY <3>4, <3>5, <3>6, <3>7, <3>8, <3>9
  <2> HIDE <1>0
  <2> USE <2>0
  <2>1. RefsExist'
    BY DEF RefsExist
  <2>2. OwnersKnown'
    BY DEF OwnersKnown, RefsExist
  <2>3. StopsComeLast'
    BY DEF StopsComeLast, OwnersKnown, RefsExist
  <2>4. MetersRun'
    BY DEF MetersRun, OwnersKnown, RefsExist
  <2>5. StopStored'
    BY DEF StopStored, RefsExist
  <2>6. FoundAsIs'
    BY DEF FoundAsIs, StopStored, StopsComeLast, RefsExist
  <2>7. EnergyRight'
    BY DEF EnergyRight, FoundAsIs, StopStored, StopsComeLast, RefsExist
  <2>8. OneStarts'
    BY DEF OneStarts, OwnersKnown, Tx16!StartRunning
  <2>9. OneActive'
    BY DEF OneActive, OneStarts, Tx16!Active, StopStored, Tx16!StartRunning
  <2>10. ActiveOwned'
    BY DEF ActiveOwned, Owned, Tx16!Active, StopStored, OneStarts, OwnersKnown, Tx16!StartRunning
  <2> QED BY <2>1, <2>2, <2>3, <2>4, <2>5, <2>6, <2>7, <2>8, <2>9, <2>10
<1>10. ASSUME NEW n \in Tx16!Starts, Tx16!CreateFails(n)
      PROVE  TxInv'
  <2>0. /\ start[n] # None /\ start[n].pc = "accepted" /\ start'[n] # None
        /\ start'[n].tx = start[n].tx /\ start'[n].station = start[n].station
        /\ start'[n].meterStart = start[n].meterStart
        /\ start'[n].pc = "refused"
        /\ \A m \in Tx16!Starts \ {n} : start'[m] = start[m]
        /\ UNCHANGED <<tx, sample, stop, station, waiting, meter, hurried, astray>>
    <3>1. start[n] \in Tx16!Start
      BY <1>10 DEF Tx16!CreateFails
    <3>2. [start[n] EXCEPT !.pc = "refused"] \in Tx16!Start
      BY <3>1 DEF Tx16!Start
    <3>3. start[n] # None /\ start[n].pc = "accepted" /\ start'[n] # None
      BY <1>10, <3>1, <3>2 DEF Tx16!CreateFails
    <3>4. /\ start'[n].tx = start[n].tx /\ start'[n].station = start[n].station
          /\ start'[n].meterStart = start[n].meterStart
      BY <1>10, <3>1 DEF Tx16!CreateFails, Tx16!Start
    <3>5. start'[n].pc = "refused"
      BY <1>10, <3>1 DEF Tx16!CreateFails, Tx16!Start
    <3>6. \A m \in Tx16!Starts \ {n} : start'[m] = start[m]
      BY <1>10 DEF Tx16!CreateFails
    <3>7. UNCHANGED <<tx, sample, stop, station, waiting, meter, hurried, astray>>
      BY <1>10 DEF Tx16!CreateFails
    <3> QED BY <3>3, <3>4, <3>5, <3>6, <3>7
  <2> HIDE <1>0
  <2> USE <2>0
  <2>1. RefsExist'
    BY DEF RefsExist
  <2>2. OwnersKnown'
    BY DEF OwnersKnown, RefsExist
  <2>3. StopsComeLast'
    BY DEF StopsComeLast, OwnersKnown, RefsExist
  <2>4. MetersRun'
    BY DEF MetersRun, OwnersKnown, RefsExist
  <2>5. StopStored'
    BY DEF StopStored
  <2>6. FoundAsIs'
    BY DEF FoundAsIs, StopStored, StopsComeLast
  <2>7. EnergyRight'
    BY DEF EnergyRight, FoundAsIs, StopStored, StopsComeLast
  <2>8. OneStarts'
    BY DEF OneStarts, OwnersKnown, Tx16!StartRunning
  <2>9. OneActive'
    BY DEF OneActive, OneStarts, Tx16!Active, StopStored, Tx16!StartRunning
  <2>10. ActiveOwned'
    BY DEF ActiveOwned, Owned, Tx16!Active, StopStored, OneStarts, OwnersKnown, Tx16!StartRunning
  <2> QED BY <2>1, <2>2, <2>3, <2>4, <2>5, <2>6, <2>7, <2>8, <2>9, <2>10
<1>11. ASSUME NEW n \in Tx16!Starts, Tx16!AnswerStart(n)
      PROVE  TxInv'
  <2>0. /\ start[n] # None /\ start[n].pc \in {"created", "refused"} /\ start'[n] # None
        /\ start'[n].pc = "over" /\ start'[n].tx = None
        /\ \A u \in Stations \ {start[n].station} : station'[u] = station[u] /\ waiting'[u] = waiting[u]
        /\ \/ station' = station /\ waiting' = waiting
              /\ ~(/\ station[start[n].station].mode = "starting" /\ waiting[start[n].station]
                   /\ \A m \in Tx16!Starts : start[m] # None /\ start[m].station = start[n].station => m <= n)
           \/ /\ station[start[n].station].mode = "starting"
              /\ station'[start[n].station].tx = start[n].tx
              /\ station'[start[n].station].mode = IF start[n].tx # None THEN "charging" ELSE "idle"
        /\ \A m \in Tx16!Starts \ {n} : start'[m] = start[m]
        /\ UNCHANGED <<tx, sample, stop, meter, hurried, astray>>
    <3>1. start[n] \in Tx16!Start
      BY <1>11 DEF Tx16!AnswerStart
    <3>2. [start[n] EXCEPT !.pc = "over", !.meterStart = 0, !.tx = None] \in Tx16!Start
      BY <3>1, StartKept
    <3>3. start[n].station \in Stations /\ (start[n].pc = "created" <=> start[n].tx # None)
      BY <1>11, <3>1 DEF Tx16!AnswerStart, Tx16!Start, OwnersKnown
    <3>4. start[n] # None /\ start[n].pc \in {"created", "refused"} /\ start'[n] # None
      BY <1>11, <3>1, <3>2 DEF Tx16!AnswerStart
    <3>5. start'[n].pc = "over" /\ start'[n].tx = None
      BY <1>11, <3>1, <3>2 DEF Tx16!AnswerStart, Tx16!Start
    <3>6. \A u \in Stations \ {start[n].station} : station'[u] = station[u] /\ waiting'[u] = waiting[u]
      BY <1>11 DEF Tx16!AnswerStart, Tx16!Idle
    <3>7. \/ station' = station /\ waiting' = waiting
             /\ ~(/\ station[start[n].station].mode = "starting" /\ waiting[start[n].station]
                  /\ \A m \in Tx16!Starts : start[m] # None /\ start[m].station = start[n].station => m <= n)
          \/ /\ station[start[n].station].mode = "starting"
             /\ station'[start[n].station].tx = start[n].tx
             /\ station'[start[n].station].mode = IF start[n].tx # None THEN "charging" ELSE "idle"
      BY <1>11, <3>3 DEF Tx16!AnswerStart, Tx16!Idle
    <3>8. \A m \in Tx16!Starts \ {n} : start'[m] = start[m]
      BY <1>11 DEF Tx16!AnswerStart, Tx16!Idle
    <3>9. UNCHANGED <<tx, sample, stop, meter, hurried, astray>>
      BY <1>11 DEF Tx16!AnswerStart, Tx16!Idle
    <3> QED BY <3>4, <3>5, <3>6, <3>7, <3>8, <3>9
  <2> HIDE <1>0
  <2> USE <2>0
  <2>1. RefsExist'
    BY DEF RefsExist
  <2>2. OwnersKnown'
    BY DEF OwnersKnown, RefsExist
  <2>3. StopsComeLast'
    BY SMTT(30) DEF StopsComeLast, OwnersKnown, RefsExist
  <2>4. MetersRun'
    BY DEF MetersRun, OwnersKnown, RefsExist
  <2>5. StopStored'
    BY DEF StopStored
  <2>6. FoundAsIs'
    BY DEF FoundAsIs, StopStored, StopsComeLast
  <2>7. EnergyRight'
    BY DEF EnergyRight, FoundAsIs, StopStored, StopsComeLast
  <2>8. OneStarts'
    BY DEF OneStarts, OwnersKnown, Tx16!StartRunning
  <2>9. OneActive'
    BY DEF OneActive, OneStarts, Tx16!Active, StopStored, Tx16!StartRunning
  <2>10. ActiveOwned'
    BY DEF ActiveOwned, Owned, Tx16!Active, StopStored, OneStarts, OwnersKnown, Tx16!StartRunning
  <2> QED BY <2>1, <2>2, <2>3, <2>4, <2>5, <2>6, <2>7, <2>8, <2>9, <2>10
<1>12. ASSUME NEW t \in Tx16!TxIds, Tx16!SaveReading(t)
      PROVE  TxInv'
  <2>0. /\ tx[t] # None /\ tx'[t] # None /\ tx'[t].readings # {} /\ tx'[t].totalKwh = tx[t].totalKwh
        /\ tx'[t].active = tx[t].active /\ tx'[t].meterStart = tx[t].meterStart
        /\ tx'[t].meterStop = tx[t].meterStop
        /\ sample[t].pc = "queued" /\ sample'[t].pc = "saved"
        /\ \A u \in Tx16!TxIds \ {t} : tx'[u] = tx[u]
        /\ \A u \in Tx16!TxIds \ {t} : sample'[u] = sample[u]
        /\ UNCHANGED <<start, stop, station, waiting, meter, hurried, astray>>
    <3>1. /\ tx[t] \in Tx16!Tx
          /\ [tx[t] EXCEPT !.readings = @ \union {sample[t].total}] \in Tx16!Tx
      BY <1>12, TxRows, Zenon
    <3>2. tx[t] # None /\ tx'[t] # None /\ tx'[t].readings # {} /\ tx'[t].totalKwh = tx[t].totalKwh
      BY <1>12, <3>1 DEF Tx16!SaveReading, Tx16!Tx
    <3>3. /\ tx'[t].active = tx[t].active /\ tx'[t].meterStart = tx[t].meterStart
          /\ tx'[t].meterStop = tx[t].meterStop
      BY <1>12, <3>1 DEF Tx16!SaveReading, Tx16!Tx
    <3>4. sample[t].pc = "queued" /\ sample'[t].pc = "saved"
      BY <1>12, <3>1 DEF Tx16!SaveReading
    <3>5. \A u \in Tx16!TxIds \ {t} : tx'[u] = tx[u]
      BY <1>12 DEF Tx16!SaveReading
    <3>6. \A u \in Tx16!TxIds \ {t} : sample'[u] = sample[u]
      BY <1>12 DEF Tx16!SaveReading
    <3>7. UNCHANGED <<start, stop, station, waiting, meter, hurried, astray>>
      BY <1>12 DEF Tx16!SaveReading
    <3> QED BY <3>2, <3>3, <3>4, <3>5, <3>6, <3>7
  <2> HIDE <1>0
  <2> USE <2>0
  <2>1. RefsExist'
    BY DEF RefsExist
  <2>2. OwnersKnown'
    BY DEF OwnersKnown, RefsExist
  <2>3. StopsComeLast'
    BY DEF StopsComeLast, OwnersKnown, RefsExist
  <2>4. MetersRun'
    BY DEF MetersRun, OwnersKnown, RefsExist
  <2>5. StopStored'
    BY DEF StopStored
  <2>6. FoundAsIs'
    BY DEF FoundAsIs, StopStored, StopsComeLast
  <2>7. EnergyRight'
    BY DEF EnergyRight, FoundAsIs, StopStored, StopsComeLast
  <2>8. OneStarts'
    BY DEF OneStarts, OwnersKnown, Tx16!StartRunning
  <2>9. OneActive'
    BY DEF OneActive, OneStarts, Tx16!Active, StopStored, Tx16!StartRunning
  <2>10. ActiveOwned'
    BY DEF ActiveOwned, Owned, Tx16!Active, StopStored, OneStarts, OwnersKnown, Tx16!StartRunning
  <2> QED BY <2>1, <2>2, <2>3, <2>4, <2>5, <2>6, <2>7, <2>8, <2>9, <2>10
<1>13. ASSUME NEW t \in Tx16!TxIds, Tx16!ComputeTotal(t)
      PROVE  TxInv'
  <2> HIDE <1>0
  <2> USE <1>13, TransactionConstants DEF TxTypeOK, Tx16!TypeOK, Tx16!Tx, Tx16!Start,
      Tx16!Sample, Tx16!Stop, Tx16!Meter,
      Tx16!ComputeTotal
  <2>1. RefsExist'
    BY DEF RefsExist
  <2>2. OwnersKnown'
    BY DEF OwnersKnown, RefsExist
  <2>3. StopsComeLast'
    BY DEF StopsComeLast, OwnersKnown, RefsExist
  <2>4. MetersRun'
    BY DEF MetersRun, OwnersKnown, RefsExist
  <2>5. StopStored'
    BY DEF StopStored
  <2>6. FoundAsIs'
    BY DEF FoundAsIs, StopStored, StopsComeLast
  <2>7. EnergyRight'
    BY DEF EnergyRight, FoundAsIs, StopStored, StopsComeLast
  <2>8. OneStarts'
    BY DEF OneStarts, OwnersKnown, Tx16!StartRunning
  <2>9. OneActive'
    BY DEF OneActive, OneStarts, Tx16!Active, StopStored, Tx16!StartRunning
  <2>10. ActiveOwned'
    <3>1. UNCHANGED <<tx, start, astray, stop, station>>
      OBVIOUS
    <3> HIDE <1>13, TransactionConstants DEF TxTypeOK, Tx16!TypeOK, Tx16!Tx, Tx16!Start,
        Tx16!Sample, Tx16!Stop, Tx16!Meter,
      Tx16!ComputeTotal
    <3> QED BY <3>1, OwnersKept
  <2> QED BY <2>1, <2>2, <2>3, <2>4, <2>5, <2>6, <2>7, <2>8, <2>9, <2>10
<1>14. ASSUME NEW t \in Tx16!TxIds, Tx16!UpdateTotal(t)
      PROVE  TxInv'
  <2>0. /\ tx[t] # None /\ tx'[t] # None /\ tx'[t].readings = tx[t].readings
        /\ tx'[t].active = tx[t].active /\ tx'[t].meterStart = tx[t].meterStart
        /\ tx'[t].meterStop = tx[t].meterStop
        /\ sample[t].pc = "computed" /\ sample'[t].pc = "idle"
        /\ \A s \in Stations : station[s].mode # "charging" => waiting'[s] = waiting[s]
        /\ \A u \in Tx16!TxIds \ {t} : tx'[u] = tx[u]
        /\ \A u \in Tx16!TxIds \ {t} : sample'[u] = sample[u]
        /\ UNCHANGED <<start, stop, station, meter, hurried, astray>>
    <3>1. /\ tx[t] \in Tx16!Tx
          /\ [tx[t] EXCEPT !.totalKwh = Tx16!SaveKwh(t, sample[t].seen, sample[t].total)] \in Tx16!Tx
      BY <1>14, TxRows, Zenon
    <3>2. tx[t] # None /\ tx'[t] # None /\ tx'[t].readings = tx[t].readings
      BY <1>14, <3>1 DEF Tx16!UpdateTotal, Tx16!Tx
    <3>3. /\ tx'[t].active = tx[t].active /\ tx'[t].meterStart = tx[t].meterStart
          /\ tx'[t].meterStop = tx[t].meterStop
      BY <1>14, <3>1 DEF Tx16!UpdateTotal, Tx16!Tx
    <3>4. sample[t].pc = "computed" /\ sample'[t].pc = "idle"
      BY <1>14, <3>1 DEF Tx16!UpdateTotal, Tx16!NoSample
    <3>5. \A s \in Stations : station[s].mode # "charging" => waiting'[s] = waiting[s]
      <4> HIDE <1>0
      <4>1. \A s \in Stations : station[s].mode # "charging" => station[s] # [mode |-> "charging", tx |-> t]
        OBVIOUS
      <4>2. waiting' = [s \in Stations |->
              IF station[s] = [mode |-> "charging", tx |-> t] THEN FALSE ELSE waiting[s]]
        BY <1>14, Zenon DEF Tx16!UpdateTotal
      <4> QED BY <4>1, <4>2, Zenon
    <3>6. \A u \in Tx16!TxIds \ {t} : tx'[u] = tx[u]
      BY <1>14 DEF Tx16!UpdateTotal, Tx16!NoSample
    <3>7. \A u \in Tx16!TxIds \ {t} : sample'[u] = sample[u]
      BY <1>14 DEF Tx16!UpdateTotal, Tx16!NoSample
    <3>8. UNCHANGED <<start, stop, station, meter, hurried, astray>>
      BY <1>14 DEF Tx16!UpdateTotal, Tx16!NoSample
    <3> QED BY <3>2, <3>3, <3>4, <3>5, <3>6, <3>7, <3>8
  <2> HIDE <1>0
  <2> USE <2>0
  <2>1. RefsExist'
    BY DEF RefsExist
  <2>2. OwnersKnown'
    BY DEF OwnersKnown, RefsExist
  <2>3. StopsComeLast'
    BY DEF StopsComeLast, OwnersKnown, RefsExist
  <2>4. MetersRun'
    BY DEF MetersRun, OwnersKnown, RefsExist
  <2>5. StopStored'
    BY DEF StopStored
  <2>6. FoundAsIs'
    BY DEF FoundAsIs, StopStored, StopsComeLast
  <2>7. EnergyRight'
    BY DEF EnergyRight, FoundAsIs, StopStored, StopsComeLast
  <2>8. OneStarts'
    BY DEF OneStarts, OwnersKnown, Tx16!StartRunning
  <2>9. OneActive'
    BY DEF OneActive, OneStarts, Tx16!Active, StopStored, Tx16!StartRunning
  <2>10. ActiveOwned'
    BY DEF ActiveOwned, Owned, Tx16!Active, StopStored, OneStarts, OwnersKnown, Tx16!StartRunning
  <2> QED BY <2>1, <2>2, <2>3, <2>4, <2>5, <2>6, <2>7, <2>8, <2>9, <2>10
<1>15. ASSUME NEW t \in Tx16!TxIds, NEW a \in Tx16!Attempts, Tx16!AnswerStop(t, a)
      PROVE  TxInv'
  <2> HIDE <1>0
  <2> USE <1>15, TransactionConstants DEF TxTypeOK, Tx16!TypeOK, Tx16!Tx, Tx16!Start,
      Tx16!Sample, Tx16!Stop, Tx16!Meter,
      Tx16!AnswerStop, Tx16!Idle
  <2>1. RefsExist'
    BY DEF RefsExist
  <2>2. OwnersKnown'
    BY DEF OwnersKnown, RefsExist
  <2>3. StopsComeLast'
    <3>1. /\ \A s \in Stations : station'[s] = station[s] \/ station'[s].mode = "idle"
          /\ UNCHANGED <<tx, start, sample, hurried>>
      OBVIOUS
    <3>2. \A u \in Tx16!TxIds, b \in Tx16!Attempts : stop'[u][b].pc = "none" <=> stop[u][b].pc = "none"
      OBVIOUS
    <3>3. \A s \in Stations : station[s].mode \in {"charging", "stopping"} => station[s].tx \in Tx16!TxIds
      BY DEF OwnersKnown
    <3> HIDE <1>15, TransactionConstants DEF TxTypeOK, Tx16!TypeOK, Tx16!Tx, Tx16!Start,
        Tx16!Sample, Tx16!Stop, Tx16!Meter,
      Tx16!AnswerStop
    <3> QED BY <3>1, <3>2, <3>3 DEF StopsComeLast
  <2>4. MetersRun'
    BY DEF MetersRun, OwnersKnown, RefsExist
  <2>5. StopStored'
    BY DEF StopStored
  <2>6. FoundAsIs'
    BY DEF FoundAsIs, StopStored, StopsComeLast
  <2>7. EnergyRight'
    BY DEF EnergyRight, FoundAsIs, StopStored, StopsComeLast
  <2>8. OneStarts'
    BY DEF OneStarts, OwnersKnown, Tx16!StartRunning
  <2>9. OneActive'
    BY DEF OneActive, OneStarts, Tx16!Active, StopStored, Tx16!StartRunning
  <2>10. ActiveOwned'
    BY DEF ActiveOwned, Owned, Tx16!Active, StopStored, OneStarts, OwnersKnown, Tx16!StartRunning
  <2> QED BY <2>1, <2>2, <2>3, <2>4, <2>5, <2>6, <2>7, <2>8, <2>9, <2>10
<1>16. ASSUME NEW t \in Tx16!TxIds, NEW a \in Tx16!Attempts, Tx16!FindTransaction(t, a)
      PROVE  TxInv'
  <2> HIDE <1>0
  <2>0. /\ stop[t][a].pc = "answered" /\ {1, 2} = Tx16!Attempts
        /\ \A u \in Tx16!TxIds, b \in Tx16!Attempts : u # t \/ b # a => stop'[u][b] = stop[u][b]
        /\ stop'[t][a].pc = "found" /\ stop'[t][a].seen = tx[t].totalKwh
        /\ stop'[t][a].meterStop = stop[t][a].meterStop
        /\ \A s \in Stations : station[s].tx # None => station[s].tx \in Tx16!TxIds
        /\ \A n \in Tx16!Starts : start[n] # None /\ start[n].tx # None => start[n].tx \in Tx16!TxIds
        /\ UNCHANGED <<tx, start, sample, station, waiting, meter, hurried, astray>>
    BY <1>16, TransactionConstants
      DEF TxTypeOK, Tx16!TypeOK, Tx16!Start, Tx16!Stop, Tx16!Attempts, Tx16!FindTransaction, Tx16!stationVars
  <2> USE <2>0
  <2>1. RefsExist'
    BY DEF RefsExist
  <2>2. OwnersKnown'
    BY DEF OwnersKnown, RefsExist
  <2>3. StopsComeLast'
    <3>1. UNCHANGED <<tx, start, sample, hurried, station>>
      OBVIOUS
    <3>2. \A u \in Tx16!TxIds, b \in Tx16!Attempts : stop'[u][b].pc = "none" <=> stop[u][b].pc = "none"
      OBVIOUS
    <3>3. \A s \in Stations : station[s].mode \in {"charging", "stopping"} => station[s].tx \in Tx16!TxIds
      BY DEF OwnersKnown
    <3> QED BY <3>1, <3>2, <3>3 DEF StopsComeLast
  <2>4. MetersRun'
    BY DEF MetersRun, OwnersKnown, RefsExist
  <2>5. StopStored'
    BY DEF StopStored
  <2>6. FoundAsIs'
    BY DEF FoundAsIs, StopStored, StopsComeLast
  <2>7. EnergyRight'
    BY DEF EnergyRight, FoundAsIs, StopStored, StopsComeLast
  <2>8. OneStarts'
    BY DEF OneStarts, OwnersKnown, Tx16!StartRunning
  <2>9. OneActive'
    BY DEF OneActive, OneStarts, Tx16!Active, StopStored, Tx16!StartRunning
  <2>10. ActiveOwned'
    <3>1. UNCHANGED <<tx, start, astray, station>>
      OBVIOUS
    <3>2. \A u \in Tx16!TxIds, b \in Tx16!Attempts :
            stop[u][b].pc \notin {"none", "over"} => stop'[u][b].pc \notin {"none", "over"}
      OBVIOUS
    <3> QED BY <3>1, <3>2, OwnersKept
  <2> QED BY <2>1, <2>2, <2>3, <2>4, <2>5, <2>6, <2>7, <2>8, <2>9, <2>10
<1>17. ASSUME NEW t \in Tx16!TxIds, NEW a \in Tx16!Attempts, Tx16!CreateStopTransaction(t, a)
      PROVE  TxInv'
  <2>0. /\ stop[t][a].pc = "found" /\ tx[t] # None /\ tx'[t] # None
        /\ \/ tx[t].meterStop # None /\ tx' = tx /\ stop'[t][a].pc = "over"
           \/ /\ tx[t].meterStop = None /\ tx'[t].meterStop = stop[t][a].meterStop /\ ~tx'[t].active
              /\ stop'[t][a].pc = "stored" /\ stop'[t][a].seen = stop[t][a].seen
              /\ stop'[t][a].meterStop = stop[t][a].meterStop
        /\ tx'[t].readings = tx[t].readings /\ tx'[t].totalKwh = tx[t].totalKwh /\ tx'[t].meterStart = tx[t].meterStart
        /\ \A u \in Tx16!TxIds \ {t} : tx'[u] = tx[u]
        /\ \A u \in Tx16!TxIds, b \in Tx16!Attempts : u # t \/ b # a => stop'[u][b] = stop[u][b]
        /\ UNCHANGED <<start, sample, station, waiting, meter, hurried, astray>>
        /\ \A b \in Tx16!Attempts : stop[t][b].meterStop # None
    <3>1. /\ tx[t] \in Tx16!Tx
          /\ [tx[t] EXCEPT !.meterStop = stop[t][a].meterStop, !.active = FALSE] \in Tx16!Tx
      BY <1>17, TxRows, Zenon
    <3>2. stop[t][a] \in Tx16!Stop
      OBVIOUS
    <3>3. stop[t][a].pc = "found" /\ tx[t] # None /\ tx'[t] # None
      BY <1>17, <3>1 DEF Tx16!CreateStopTransaction
    <3>4. \/ tx[t].meterStop # None /\ tx' = tx /\ stop'[t][a].pc = "over"
          \/ /\ tx[t].meterStop = None /\ tx'[t].meterStop = stop[t][a].meterStop /\ ~tx'[t].active
             /\ stop'[t][a].pc = "stored" /\ stop'[t][a].seen = stop[t][a].seen
             /\ stop'[t][a].meterStop = stop[t][a].meterStop
      BY <1>17, <3>1, <3>2 DEF Tx16!CreateStopTransaction, Tx16!StopOver, Tx16!Tx, Tx16!Stop
    <3>5. tx'[t].readings = tx[t].readings /\ tx'[t].totalKwh = tx[t].totalKwh /\ tx'[t].meterStart = tx[t].meterStart
      BY <1>17, <3>1 DEF Tx16!CreateStopTransaction, Tx16!Tx
    <3>6. \A u \in Tx16!TxIds \ {t} : tx'[u] = tx[u]
      BY <1>17 DEF Tx16!CreateStopTransaction, Tx16!StopOver
    <3>7. \A u \in Tx16!TxIds, b \in Tx16!Attempts : u # t \/ b # a => stop'[u][b] = stop[u][b]
      BY <1>17 DEF Tx16!CreateStopTransaction, Tx16!StopOver
    <3>8. UNCHANGED <<start, sample, station, waiting, meter, hurried, astray>>
      BY <1>17 DEF Tx16!CreateStopTransaction, Tx16!StopOver
    <3>9. \A b \in Tx16!Attempts : stop[t][b].meterStop # None
      BY <1>17, TransactionConstants DEF Tx16!Stop
    <3> QED BY <3>3, <3>4, <3>5, <3>6, <3>7, <3>8, <3>9
  <2> HIDE <1>0
  <2> USE <2>0
  <2>1. RefsExist'
    BY DEF RefsExist
  <2>2. OwnersKnown'
    BY DEF OwnersKnown, RefsExist
  <2>3. StopsComeLast'
    BY DEF StopsComeLast, OwnersKnown, RefsExist
  <2>4. MetersRun'
    BY DEF MetersRun, OwnersKnown, RefsExist
  <2>5. StopStored'
    BY DEF StopStored
  <2>6. FoundAsIs'
    BY DEF FoundAsIs, StopStored, StopsComeLast
  <2>7. EnergyRight'
    BY DEF EnergyRight, FoundAsIs, StopStored, StopsComeLast
  <2>8. OneStarts'
    BY DEF OneStarts, OwnersKnown, Tx16!StartRunning
  <2>9. OneActive'
    BY DEF OneActive, OneStarts, Tx16!Active, StopStored, Tx16!StartRunning
  <2>10. ActiveOwned'
    BY DEF ActiveOwned, Owned, Tx16!Active, StopStored, OneStarts, OwnersKnown, Tx16!StartRunning
  <2> QED BY <2>1, <2>2, <2>3, <2>4, <2>5, <2>6, <2>7, <2>8, <2>9, <2>10
<1>18. ASSUME NEW t \in Tx16!TxIds, NEW a \in Tx16!Attempts, Tx16!SaveTransaction(t, a)
      PROVE  TxInv'
  <2>0. /\ stop[t][a].pc = "stored" /\ stop'[t][a].pc = "over" /\ tx[t] # None /\ tx'[t] # None
        /\ ~tx'[t].active /\ tx'[t].readings = tx[t].readings /\ tx'[t].meterStart = tx[t].meterStart
        /\ tx'[t].meterStop = tx[t].meterStop
        /\ LET kwh == stop[t][a].meterStop - tx[t].meterStart
           IN  tx'[t].totalKwh = IF kwh = stop[t][a].seen THEN tx[t].totalKwh ELSE kwh
        /\ \A u \in Tx16!TxIds \ {t} : tx'[u] = tx[u]
        /\ \A u \in Tx16!TxIds, b \in Tx16!Attempts : u # t \/ b # a => stop'[u][b] = stop[u][b]
        /\ UNCHANGED <<start, sample, station, waiting, meter, hurried, astray>>
        /\ \A b \in Tx16!Attempts : stop[t][b].meterStop # None
    <3>1. /\ tx[t] \in Tx16!Tx
          /\ [tx[t] EXCEPT !.active = FALSE, !.totalKwh = Tx16!SaveKwh(t, stop[t][a].seen,
                                                   stop[t][a].meterStop - tx[t].meterStart)] \in Tx16!Tx
      BY <1>18, TxRows, Zenon
    <3>2. stop[t][a].pc = "stored" /\ stop'[t][a].pc = "over" /\ tx[t] # None /\ tx'[t] # None
      BY <1>18, <3>1 DEF Tx16!SaveTransaction, Tx16!StopOver
    <3>3. /\ ~tx'[t].active /\ tx'[t].readings = tx[t].readings /\ tx'[t].meterStart = tx[t].meterStart
          /\ tx'[t].meterStop = tx[t].meterStop
      BY <1>18, <3>1 DEF Tx16!SaveTransaction, Tx16!Tx
    <3>4. LET kwh == stop[t][a].meterStop - tx[t].meterStart
          IN  tx'[t].totalKwh = IF kwh = stop[t][a].seen THEN tx[t].totalKwh ELSE kwh
      BY <1>18, <3>1 DEF Tx16!SaveTransaction, Tx16!SaveKwh, Tx16!Tx
    <3>5. \A u \in Tx16!TxIds \ {t} : tx'[u] = tx[u]
      BY <1>18 DEF Tx16!SaveTransaction, Tx16!StopOver
    <3>6. \A u \in Tx16!TxIds, b \in Tx16!Attempts : u # t \/ b # a => stop'[u][b] = stop[u][b]
      BY <1>18 DEF Tx16!SaveTransaction, Tx16!StopOver
    <3>7. UNCHANGED <<start, sample, station, waiting, meter, hurried, astray>>
      BY <1>18 DEF Tx16!SaveTransaction, Tx16!StopOver
    <3>8. \A b \in Tx16!Attempts : stop[t][b].meterStop # None
      BY <1>18, TransactionConstants DEF Tx16!Stop
    <3> QED BY <3>2, <3>3, <3>4, <3>5, <3>6, <3>7, <3>8
  <2> HIDE <1>0
  <2> USE <2>0
  <2>1. RefsExist'
    BY DEF RefsExist
  <2>2. OwnersKnown'
    BY DEF OwnersKnown, RefsExist
  <2>3. StopsComeLast'
    BY DEF StopsComeLast, OwnersKnown, RefsExist
  <2>4. MetersRun'
    BY DEF MetersRun, OwnersKnown, RefsExist
  <2>5. StopStored'
    BY DEF StopStored
  <2>6. FoundAsIs'
    BY DEF FoundAsIs, StopStored, StopsComeLast
  <2>7. EnergyRight'
    BY DEF EnergyRight, FoundAsIs, StopStored, StopsComeLast
  <2>8. OneStarts'
    BY DEF OneStarts, OwnersKnown, Tx16!StartRunning
  <2>9. OneActive'
    BY DEF OneActive, OneStarts, Tx16!Active, StopStored, Tx16!StartRunning
  <2>10. ActiveOwned'
    BY DEF ActiveOwned, Owned, Tx16!Active, StopStored, OneStarts, OwnersKnown, Tx16!StartRunning
  <2> QED BY <2>1, <2>2, <2>3, <2>4, <2>5, <2>6, <2>7, <2>8, <2>9, <2>10
<1>19. ASSUME NEW n \in Tx16!Starts, Tx16!StartNotAnswered(n)
      PROVE  TxInv'
  <2>0. /\ start[n] # None /\ start'[n] # None /\ start'[n].pc = "over" /\ start'[n].tx = None
        /\ \A m \in Tx16!Starts \ {n} : start'[m] = start[m]
        /\ astray' /\ UNCHANGED <<tx, sample, stop, station, waiting, meter, hurried>>
    <3>1. start[n] \in Tx16!Start
      BY <1>19 DEF Tx16!StartNotAnswered
    <3>2. [start[n] EXCEPT !.pc = "over", !.meterStart = 0, !.tx = None] \in Tx16!Start
      BY <3>1, StartKept
    <3>3. /\ start[n] # None /\ start'[n] # None
          /\ \A m \in Tx16!Starts \ {n} : start'[m] = start[m]
      BY <1>19, <3>1, <3>2 DEF Tx16!StartNotAnswered
    <3>4. start'[n].pc = "over" /\ start'[n].tx = None
      BY <1>19, <3>1, <3>2 DEF Tx16!StartNotAnswered, Tx16!Start
    <3>5. astray' /\ UNCHANGED <<tx, sample, stop, station, waiting, meter, hurried>>
      BY <1>19, Zenon DEF Tx16!StartNotAnswered, Tx16!stationVars
    <3> QED BY <3>3, <3>4, <3>5
  <2> HIDE <1>0
  <2> USE <2>0
  <2>1. RefsExist'
    BY DEF RefsExist
  <2>2. OwnersKnown'
    BY DEF OwnersKnown, RefsExist
  <2>3. StopsComeLast'
    BY SMTT(30) DEF StopsComeLast, OwnersKnown, RefsExist
  <2>4. MetersRun'
    BY DEF MetersRun, OwnersKnown, RefsExist
  <2>5. StopStored'
    BY DEF StopStored
  <2>6. FoundAsIs'
    BY DEF FoundAsIs, StopStored, StopsComeLast
  <2>7. EnergyRight'
    BY DEF EnergyRight, FoundAsIs, StopStored, StopsComeLast
  <2>8. OneStarts'
    BY DEF OneStarts, OwnersKnown, Tx16!StartRunning
  <2>9. OneActive'
    BY DEF OneActive, OneStarts, Tx16!Active, StopStored, Tx16!StartRunning
  <2>10. ActiveOwned'
    BY DEF ActiveOwned, Owned, Tx16!Active, StopStored, OneStarts, OwnersKnown, Tx16!StartRunning
  <2> QED BY <2>1, <2>2, <2>3, <2>4, <2>5, <2>6, <2>7, <2>8, <2>9, <2>10
<1>20. ASSUME NEW t \in Tx16!TxIds, NEW a \in Tx16!Attempts, Tx16!StopNotAnswered(t, a)
      PROVE  TxInv'
  <2> HIDE <1>0
  <2> USE <1>20, TransactionConstants DEF TxTypeOK, Tx16!TypeOK, Tx16!Tx, Tx16!Start,
      Tx16!Sample, Tx16!Stop, Tx16!Meter,
      Tx16!StopNotAnswered, Tx16!stationVars
  <2>1. RefsExist'
    BY DEF RefsExist
  <2>2. OwnersKnown'
    BY DEF OwnersKnown, RefsExist
  <2>3. StopsComeLast'
    <3>1. /\ \A s \in Stations : station'[s] = station[s] \/ station'[s].mode = "idle"
          /\ UNCHANGED <<tx, start, sample, hurried>>
      OBVIOUS
    <3>2. \A u \in Tx16!TxIds, b \in Tx16!Attempts : stop'[u][b].pc = "none" <=> stop[u][b].pc = "none"
      OBVIOUS
    <3>3. \A s \in Stations : station[s].mode \in {"charging", "stopping"} => station[s].tx \in Tx16!TxIds
      BY DEF OwnersKnown
    <3> HIDE <1>20, TransactionConstants DEF TxTypeOK, Tx16!TypeOK, Tx16!Tx, Tx16!Start,
        Tx16!Sample, Tx16!Stop, Tx16!Meter,
      Tx16!StopNotAnswered
    <3> QED BY <3>1, <3>2, <3>3 DEF StopsComeLast
  <2>4. MetersRun'
    BY DEF MetersRun, OwnersKnown, RefsExist
  <2>5. StopStored'
    BY DEF StopStored
  <2>6. FoundAsIs'
    BY DEF FoundAsIs, StopStored, StopsComeLast
  <2>7. EnergyRight'
    BY DEF EnergyRight, FoundAsIs, StopStored, StopsComeLast
  <2>8. OneStarts'
    BY DEF OneStarts, OwnersKnown, Tx16!StartRunning
  <2>9. OneActive'
    BY DEF OneActive, OneStarts, Tx16!Active, StopStored, Tx16!StartRunning
  <2>10. ActiveOwned'
    <3>1. UNCHANGED <<tx, start, station, astray>>
      OBVIOUS
    <3>2. \A u \in Tx16!TxIds, c \in Tx16!Attempts :
            stop[u][c].pc \notin {"none", "over"} => stop'[u][c].pc \notin {"none", "over"}
      OBVIOUS
    <3> QED BY ONLY TxInv, <3>1, <3>2 DEF TxInv, ActiveOwned, Owned, Tx16!Active
  <2> QED BY <2>1, <2>2, <2>3, <2>4, <2>5, <2>6, <2>7, <2>8, <2>9, <2>10
<1> QED BY <1>1, <1>2, <1>3, <1>4, <1>5, <1>6, <1>7, <1>8, <1>9, <1>10, <1>11, <1>12, <1>13,
    <1>14,
      <1>15, <1>16, <1>17, <1>18, <1>19, <1>20, Zenon
  DEF Tx16!Next

LEMMA TxStutter == ASSUME TxTypeOK, TxInv, UNCHANGED transactionVars PROVE (TxTypeOK /\ TxInv)'
BY DEF transactionVars, TxTypeOK, Tx16!TypeOK, TxInv, RefsExist, OwnersKnown, StopsComeLast,
    MetersRun,
  StopStored, FoundAsIs, EnergyRight, OneStarts, OneActive, ActiveOwned, Owned, Tx16!Active, Tx16!StartRunning

LEMMA TxInvariant == Tx16!Spec => [](TxTypeOK /\ TxInv)
<1>1. Tx16!Init => TxTypeOK /\ TxInv
  BY TxInit
<1>2. TxTypeOK /\ TxInv /\ [Tx16!Next]_(Tx16!tx16Vars) => (TxTypeOK /\ TxInv)'
  BY TxType, TxStep, TxStutter DEF transactionVars, Tx16!tx16Vars
<1> QED BY <1>1, <1>2, PTL DEF Tx16!Spec

LEMMA NoGhostTransactionHolds == Tx16!Spec => []Tx16!NoGhostTransaction
<1>1. ASSUME TxTypeOK, TxInv, ~astray, NEW t \in Tx16!TxIds, Tx16!Active(t)
      PROVE  \/ Tx16!Charging(t) \/ Tx16!StopRunning(t)
             \/ \E n \in Tx16!Starts : Tx16!StartRunning(n) /\ start[n].tx = t
  <2>1. Owned(t)
    BY <1>1 DEF TxInv, ActiveOwned
  <2>2. CASE \E n \in Tx16!Starts : start[n] # None /\ start[n].tx = t
    <3>1. PICK n \in Tx16!Starts : start[n] # None /\ start[n].tx = t
      BY <2>2
    <3>2. start[n].pc = "created"
      BY <1>1, <3>1, TransactionConstants DEF TxInv, OwnersKnown
    <3> QED BY <3>1, <3>2 DEF Tx16!StartRunning
  <2> QED BY <2>1, <2>2 DEF Owned, Tx16!Charging, Tx16!StopRunning
<1>2. TxTypeOK /\ TxInv => Tx16!NoGhostTransaction
  BY <1>1 DEF Tx16!NoGhostTransaction, TxInv, OneActive
<1> QED BY <1>2, TxInvariant, PTL

(* The idTag has one active transaction, which somebody charges in, for    *)
(* any number of stations, starts and repeated stops.                      *)
THEOREM NoGhosts == Spec => []NoGhostTransaction
<1>1. Tx16!NoGhostTransaction => NoGhostTransaction
  BY Zenon DEF NoGhostTransaction
<1> QED BY <1>1, NoGhostTransactionHolds, PartsRun, PTL

LEMMA FinalEnergyHolds == Tx16!Spec => []Tx16!FinalEnergy
<1>1. TxTypeOK /\ TxInv => Tx16!FinalEnergy
  BY DEF Tx16!FinalEnergy, TxInv, StopStored, EnergyRight, Tx16!StopRunning
<1> QED BY <1>1, TxInvariant, PTL

(* A stopped transaction has the energy between its meter values, for any  *)
(* meters and any number of readings and repeated stops.                   *)
THEOREM EnergyIsFinal == Spec => []FinalEnergy
<1>1. Tx16!FinalEnergy => FinalEnergy
  BY Zenon DEF FinalEnergy
<1> QED BY <1>1, FinalEnergyHolds, PartsRun, PTL

-----------------------------------------------------------------------------
(* Variable monitors. *)

LEMMA MonitorInit == ASSUME Mon!Init PROVE MonitorTypeOK /\ MonitorInv
<1> USE MonitorConstants DEF Mon!Init, Mon!NoReport
<1>1. MonitorTypeOK
  BY DEF MonitorTypeOK, Mon!TypeOK, Mon!MonitorReport
<1>2. /\ Mon!UsedRows = {} /\ \A v : Mon!RowsOf(v) = {}
      /\ \A v : \A c \in Mon!MonitorCalls : ~Setting(c, v) /\ Mon!BeingWritten(c) = {}
      /\ \A c \in Mon!MonitorCalls : ~Mon!Answered(c, "Clear")
  BY DEF Mon!UsedRows, Mon!RowsOf, Setting, Mon!Open, Mon!Answered, Mon!BeingWritten
<1>3. CallsMade /\ ReportsMade /\ OneAtATime /\ OneMonitorRow /\ RowIsThere
  BY <1>2 DEF CallsMade, ReportsMade, OneAtATime, OneMonitorRow, RowIsThere, Mon!BeingReported
<1>4. ReportHolds /\ SetHolds /\ ClearHolds /\ AcceptedRight /\ RejectedRight
  BY <1>2 DEF ReportHolds, SetHolds, ClearHolds, AcceptedRight, RejectedRight
<1> QED BY <1>1, <1>3, <1>4 DEF MonitorInv

(* Records stay records of their kind. *)
LEMMA MonitorCallKept ==
  ASSUME NEW cl \in Mon!MonitorCall
  PROVE  /\ [cl EXCEPT !.pc = "sent", !.found = {}] \in Mon!MonitorCall
         /\ \A i \in Mon!MonitorIds :
              [cl EXCEPT !.id = i, !.answer = "Accepted", !.pc = "answered"] \in Mon!MonitorCall
         /\ \A a \in {"Accepted", "Rejected", "Duplicate"} :
              [cl EXCEPT !.answer = a, !.pc = "answered"] \in Mon!MonitorCall
         /\ \A rs \in SUBSET Mon!MonitorRows, pc \in {"found", "identified"} :
              /\ [cl EXCEPT !.found = rs, !.pc = pc] \in Mon!MonitorCall
              /\ [cl EXCEPT !.pc = pc, !.found = rs] \in Mon!MonitorCall
         /\ \A rs \in SUBSET Mon!MonitorRows : [cl EXCEPT !.found = rs] \in Mon!MonitorCall
         /\ [cl EXCEPT !.pc = "identified"] \in Mon!MonitorCall
BY Zenon DEF Mon!MonitorCall

LEMMA MonitorCallMade ==
  /\ \A v \in Mon!Monitored, t \in Mon!MonitorTypes, rs \in SUBSET Mon!MonitorRows :
       [Mon!NewCall("Set", "looked") EXCEPT !.variable = v, !.type = t, !.found = rs] \in Mon!MonitorCall
  /\ \A i \in Mon!MonitorIds : [Mon!NewCall("Clear", "sent") EXCEPT !.id = i] \in Mon!MonitorCall
  /\ Mon!NewCall("Base", "sent") \in Mon!MonitorCall /\ Mon!CallOver \in Mon!MonitorCall
BY DEF Mon!NewCall, Mon!MonitorCall, Mon!CallOver

LEMMA MonitorRowKept ==
  ASSUME NEW row \in Mon!MonitorRow
  PROVE  /\ \A t \in Mon!MonitorTypes : [row EXCEPT !.type = t] \in Mon!MonitorRow
         /\ \A i \in Mon!MonitorIds : [row EXCEPT !.id = i] \in Mon!MonitorRow
         /\ \A s \in {None, "Accepted", "Rejected", "Duplicate"} :
              [row EXCEPT !.status = s] \in Mon!MonitorRow
BY DEF Mon!MonitorRow

LEMMA MonitorReportKept ==
  ASSUME NEW rep \in Mon!MonitorReport
  PROVE  /\ [rep EXCEPT !.pc = "asked"] \in Mon!MonitorReport
         /\ [rep EXCEPT !.pc = "none"] \in Mon!MonitorReport
         /\ \A ms \in SUBSET Mon!Reported :
              /\ [rep EXCEPT !.pc = "reported", !.todo = ms] \in Mon!MonitorReport
              /\ [rep EXCEPT !.todo = rep.todo \ ms, !.started = ms] \in Mon!MonitorReport
         /\ \A m \in Mon!Reported, r \in Mon!MonitorRows \union {None} :
              /\ [rep EXCEPT !.started = rep.started \ {m},
                                !.found = rep.found \union {<<m, r>>}] \in Mon!MonitorReport
              /\ [rep EXCEPT !.found = rep.found \ {<<m, r>>}, !.todo = {}] \in Mon!MonitorReport
              /\ [rep EXCEPT !.written = rep.written \ {<<m, r>>}] \in Mon!MonitorReport
              /\ \A s \in Mon!MonitorRows :
                   [rep EXCEPT !.found = rep.found \ {<<m, r>>},
                                  !.written = rep.written \union {<<m,
                                      s>>}] \in Mon!MonitorReport
<1>1. /\ [rep EXCEPT !.pc = "asked"] \in Mon!MonitorReport
      /\ [rep EXCEPT !.pc = "none"] \in Mon!MonitorReport
      /\ \A ms \in SUBSET Mon!Reported :
           /\ [rep EXCEPT !.pc = "reported", !.todo = ms] \in Mon!MonitorReport
           /\ [rep EXCEPT !.todo = rep.todo \ ms, !.started = ms] \in Mon!MonitorReport
  BY DEF Mon!MonitorReport
<1>2. ASSUME NEW m \in Mon!Reported, NEW r \in Mon!MonitorRows \union {None}
      PROVE  /\ rep.started \ {m} \in SUBSET Mon!Reported
             /\ rep.found \union {<<m, r>>} \in SUBSET (Mon!Reported \X (Mon!MonitorRows \union {None}))
             /\ rep.found \ {<<m, r>>} \in SUBSET (Mon!Reported \X (Mon!MonitorRows \union {None}))
             /\ rep.written \ {<<m, r>>} \in SUBSET (Mon!Reported \X Mon!MonitorRows)
             /\ \A s \in Mon!MonitorRows :
                  rep.written \union {<<m, s>>} \in SUBSET (Mon!Reported \X Mon!MonitorRows)
  BY DEF Mon!MonitorReport
<1>3. ASSUME NEW m \in Mon!Reported, NEW r \in Mon!MonitorRows \union {None}
      PROVE  /\ [rep EXCEPT !.started = rep.started \ {m},
                               !.found = rep.found \union {<<m, r>>}] \in Mon!MonitorReport
             /\ [rep EXCEPT !.found = rep.found \ {<<m, r>>}, !.todo = {}] \in Mon!MonitorReport
             /\ [rep EXCEPT !.written = rep.written \ {<<m, r>>}] \in Mon!MonitorReport
  BY <1>2 DEF Mon!MonitorReport
<1>4. ASSUME NEW m \in Mon!Reported, NEW r \in Mon!MonitorRows \union {None}, NEW s \in Mon!MonitorRows
      PROVE  [rep EXCEPT !.found = rep.found \ {<<m, r>>},
                            !.written = rep.written \union {<<m, s>>}] \in Mon!MonitorReport
  BY <1>2 DEF Mon!MonitorReport
<1> QED BY <1>1, <1>3, <1>4

LEMMA MonitorTyped ==
  ASSUME MonitorTypeOK
  PROVE  /\ \A c \in Mon!MonitorCalls :
              /\ monitorCall[c] # None => monitorCall[c] \in Mon!MonitorCall
              /\ monitorReport[c] \in Mon!MonitorReport
         /\ \A r \in Mon!UsedRows : monitorRow[r] \in Mon!MonitorRow
         /\ \A i \in Mon!MonitorIds : monitors[i] # None =>
              /\ monitors[i] \in Monitors
              /\ monitors[i].variable \in Mon!Monitored
              /\ monitors[i].type \in Mon!MonitorTypes
              /\ Mon!MonitorOf(monitors[i]) = monitors[i]
BY MonitorConstants DEF MonitorTypeOK, Mon!TypeOK, Mon!UsedRows, Mon!MonitorOf

LEMMA MonitorType == ASSUME MonitorTypeOK, MonitorInv, Mon!Next PROVE MonitorTypeOK'
<1> USE DEF MonitorTypeOK, Mon!TypeOK
<1>1. /\ \A c \in Mon!MonitorCalls : \A cl \in Mon!MonitorCall :
           [monitorCall EXCEPT ![c] = cl] \in [Mon!MonitorCalls -> Mon!MonitorCall \union {None}]
      /\ \A c \in Mon!MonitorCalls : \A rep \in Mon!MonitorReport :
           [monitorReport EXCEPT ![c] = rep] \in [Mon!MonitorCalls -> Mon!MonitorReport]
      /\ \A r \in Mon!MonitorRows : \A row \in Mon!MonitorRow :
           [monitorRow EXCEPT ![r] = row] \in [Mon!MonitorRows -> Mon!MonitorRow \union {None}]
  OBVIOUS
<1>2. Mon!UsedRows \subseteq Mon!MonitorRows /\ Mon!OnStation \subseteq Mon!Reported
  BY MonitorTyped DEF Mon!UsedRows, Mon!OnStation, Mon!Reported
<1>3. \A m \in Mon!Reported : m.variable \in Mon!Monitored
  BY DEF Mon!Reported
<1>4. \A m \in Monitors : m.variable \in Mon!Monitored /\ m.type \in Mon!MonitorTypes
  BY DEF Mon!Monitored, Mon!MonitorTypes
<1>5. \A c \in Mon!MonitorCalls : monitorCall[c] # None =>
        /\ monitorCall[c] \in Mon!MonitorCall /\ monitorCall[c].found \subseteq Mon!MonitorRows
        /\ monitorCall[c].variable \in Mon!Monitored \union {None}
        /\ monitorCall[c].answer \in {None, "Accepted", "Rejected", "Duplicate"}
        /\ monitorCall[c].action = "Set" =>
             /\ Mon!Wanted(c) \in Monitors
             /\ monitorCall[c].variable \in Mon!Monitored /\ monitorCall[c].type \in Mon!MonitorTypes
  <2> TAKE c \in Mon!MonitorCalls
  <2> HAVE monitorCall[c] # None
  <2>1. monitorCall[c] \in Mon!MonitorCall
    OBVIOUS
  <2>2. monitorCall[c].action = "Set" => Mon!Wanted(c) \in Monitors
    BY DEF MonitorInv, CallsMade, CallMade
  <2>3. monitorCall[c].action = "Set" =>
          monitorCall[c].variable \in Mon!Monitored /\ monitorCall[c].type \in Mon!MonitorTypes
    BY <2>2, <1>4 DEF Mon!Wanted, Mon!MonitorOf
  <2> QED BY <2>1, <2>2, <2>3 DEF Mon!MonitorCall
<1>6. \A c \in Mon!MonitorCalls :
        /\ monitorReport[c] \in Mon!MonitorReport /\ monitorReport[c].todo \subseteq Mon!Reported
        /\ monitorReport[c].started \subseteq Mon!Reported
        /\ monitorReport[c].found \subseteq Mon!Reported \X (Mon!MonitorRows \union {None})
        /\ monitorReport[c].written \subseteq Mon!Reported \X Mon!MonitorRows
  <2> TAKE c \in Mon!MonitorCalls
  <2>1. monitorReport[c] \in Mon!MonitorReport
    OBVIOUS
  <2> QED BY <2>1 DEF Mon!MonitorReport
<1>11. ASSUME NEW c \in Mon!MonitorCalls, NEW m \in Monitors, Mon!LookUpMonitor(c, m.variable, m.type)
       PROVE  MonitorTypeOK'
  <2>1. PICK found \in
         (IF Mon!RowsOf(m.variable) = {} THEN {{}} ELSE {{r} : r \in Mon!RowsOf(m.variable)}) :
          monitorCall' = [monitorCall EXCEPT ![c] =
            [Mon!NewCall("Set", "looked") EXCEPT !.variable = m.variable, !.type = m.type,
               !.found = found]]
    BY <1>11, Zenon DEF Mon!LookUpMonitor
  <2>2. found \in SUBSET Mon!MonitorRows
    BY <1>2 DEF Mon!RowsOf
  <2>3. monitorCall' \in [Mon!MonitorCalls -> Mon!MonitorCall \union {None}]
    BY <2>1, <2>2, <1>1, <1>4, MonitorCallMade
  <2> QED BY <1>11, <2>3, <1>4 DEF Mon!LookUpMonitor
<1>12. ASSUME NEW c \in Mon!MonitorCalls, Mon!StoreMonitor(c)
       PROVE  MonitorTypeOK'
  <2>0. /\ monitorCall[c] \in Mon!MonitorCall
        /\ monitorCall' = [monitorCall EXCEPT ![c].pc = "sent", ![c].found = {}]
    BY <1>12, <1>5 DEF Mon!StoreMonitor, Mon!At
  <2>1a. [monitorCall[c] EXCEPT !.pc = "sent", !.found = {}] \in Mon!MonitorCall
    BY <2>0, MonitorCallKept
  <2>1. monitorCall' \in [Mon!MonitorCalls -> Mon!MonitorCall \union {None}]
    BY <2>0, <2>1a, <1>1
  <2>2. [variable |-> monitorCall[c].variable, type |-> monitorCall[c].type, id |-> None,
         status |-> None] \in Mon!MonitorRow
    BY <1>12, <1>5 DEF Mon!MonitorRow, Mon!StoreMonitor, Mon!At
  <2>3. \A r \in Mon!MonitorRows : monitorRow[r] # None =>
          [monitorRow[r] EXCEPT !.type = monitorCall[c].type] \in Mon!MonitorRow
    BY <1>12, <1>5, MonitorRowKept DEF Mon!StoreMonitor, Mon!At
  <2>4. monitorRow' \in [Mon!MonitorRows -> Mon!MonitorRow \union {None}]
    BY <1>12, <1>1, <2>2, <2>3 DEF Mon!StoreMonitor
  <2> QED BY <1>12, <2>1, <2>4 DEF Mon!StoreMonitor
<1>13. ASSUME NEW c \in Mon!MonitorCalls, NEW i \in Mon!MonitorIds, Mon!SendClear(c, i)
       PROVE  MonitorTypeOK'
  BY <1>13, <1>1, MonitorCallMade DEF Mon!SendClear
<1>14. ASSUME NEW c \in Mon!MonitorCalls, Mon!SendBase(c)
       PROVE  MonitorTypeOK'
  BY <1>14, <1>1, MonitorCallMade DEF Mon!SendBase
<1>15. ASSUME NEW c \in Mon!MonitorCalls, NEW i \in Mon!MonitorIds, Mon!AcceptSet(c, i)
       PROVE  MonitorTypeOK'
  <2>1. monitorCall' \in [Mon!MonitorCalls -> Mon!MonitorCall \union {None}]
    BY <1>15, <1>1, <1>5, MonitorCallKept, Zenon DEF Mon!AcceptSet, Mon!At
  <2>2. monitors' \in [Mon!MonitorIds -> Monitors \union {None}]
    BY <1>15, <1>5 DEF Mon!AcceptSet, Mon!At
  <2>3. doubtful' \subseteq Mon!Monitored
    BY <1>15, <1>5 DEF Mon!AcceptSet, Mon!At
  <2> QED BY <1>15, <2>1, <2>2, <2>3 DEF Mon!AcceptSet
<1>16. ASSUME NEW c \in Mon!MonitorCalls, Mon!RefuseSet(c)
       PROVE  MonitorTypeOK'
  BY <1>16, <1>1, <1>5, MonitorCallKept, Zenon DEF Mon!RefuseSet, Mon!Answer, Mon!At
<1>17. ASSUME NEW c \in Mon!MonitorCalls, NEW ids \in SUBSET Mon!MonitorIds, NEW met \in SUBSET Mon!Monitored,
              Mon!Remove(ids, met)
       PROVE  /\ monitors' \in [Mon!MonitorIds -> Monitors \union {None}]
              /\ doubtful' \subseteq Mon!Monitored
  BY <1>17, MonitorTyped DEF Mon!Remove
<1>18. ASSUME NEW c \in Mon!MonitorCalls, Mon!AcceptClear(c)
       PROVE  MonitorTypeOK'
  <2>1. monitorCall' \in [Mon!MonitorCalls -> Mon!MonitorCall \union {None}]
    BY <1>18, <1>1, <1>5, MonitorCallKept, Zenon DEF Mon!AcceptClear, Mon!Answer, Mon!At
  <2>2. monitorCall[c].id \in Mon!MonitorIds
    BY <1>18, <1>5 DEF Mon!AcceptClear, Mon!At, Mon!MonitorCall, MonitorInv, CallsMade, CallMade
  <2>3. /\ monitors' \in [Mon!MonitorIds -> Monitors \union {None}]
        /\ doubtful' \subseteq Mon!Monitored
    BY <1>18, <1>17, <2>2 DEF Mon!AcceptClear
  <2> QED BY <1>18, <2>1, <2>3 DEF Mon!AcceptClear
<1>19. ASSUME NEW c \in Mon!MonitorCalls, NEW ids \in SUBSET Mon!MonitorIds, Mon!AcceptBase(c, ids)
       PROVE  MonitorTypeOK'
  <2>1. monitorCall' \in [Mon!MonitorCalls -> Mon!MonitorCall \union {None}]
    BY <1>19, <1>1, <1>5, MonitorCallKept, Zenon DEF Mon!AcceptBase, Mon!Answer, Mon!At
  <2> QED BY <1>19, <1>17, <2>1 DEF Mon!AcceptBase
<1>20. ASSUME NEW c \in Mon!MonitorCalls, Mon!Refuse(c)
       PROVE  MonitorTypeOK'
  BY <1>20, <1>1, MonitorCallMade DEF Mon!Refuse
<1>21. ASSUME NEW c \in Mon!MonitorCalls, Mon!AnswerLost(c)
       PROVE  MonitorTypeOK'
  <2>1. PICK after \in {monitors} \union Mon!Done(c) :
          /\ monitors' = after
          /\ doubtful' = doubtful \union ({monitorCall[c].variable} \ {None})
               \union {m.variable : m \in {n \in Mon!OnStation : after[n.id] = None}}
    BY <1>21 DEF Mon!AnswerLost
  <2>2. after \in [Mon!MonitorIds -> Monitors \union {None}]
    BY <1>21, <2>1, <1>5 DEF Mon!AnswerLost, Mon!At, Mon!Done
  <2>3. doubtful' \subseteq Mon!Monitored
    BY <1>21, <2>1, <1>2, <1>3, <1>5 DEF Mon!AnswerLost, Mon!At
  <2>4. monitorCall' \in [Mon!MonitorCalls -> Mon!MonitorCall \union {None}]
    BY <1>21, <1>1, MonitorCallMade DEF Mon!AnswerLost
  <2> QED BY <1>21, <2>1, <2>2, <2>3, <2>4 DEF Mon!AnswerLost
<1>22. ASSUME NEW c \in Mon!MonitorCalls, Mon!FindMonitor(c)
       PROVE  MonitorTypeOK'
  <2>1. \A r \in Mon!RowsOf(monitorCall[c].variable) : r \in Mon!MonitorRows
    BY <1>2 DEF Mon!RowsOf
  <2>2. CASE monitorCall' = [monitorCall EXCEPT ![c] = Mon!CallOver]
    BY <1>22, <2>2, <1>1, MonitorCallMade DEF Mon!FindMonitor
  <2>3. CASE \E r \in Mon!RowsOf(monitorCall[c].variable) :
               monitorCall' = [monitorCall EXCEPT ![c].found = {r}, ![c].pc =
                 IF monitorCall[c].answer = "Accepted" THEN "found" ELSE "identified"]
    <3>1. PICK r \in Mon!RowsOf(monitorCall[c].variable) :
            monitorCall' = [monitorCall EXCEPT ![c].found = {r}, ![c].pc =
              IF monitorCall[c].answer = "Accepted" THEN "found" ELSE "identified"]
      BY <2>3
    <3>2. {r} \in SUBSET Mon!MonitorRows
      BY <2>1
    <3>3. monitorCall[c] \in Mon!MonitorCall
      BY <1>22, <1>5 DEF Mon!FindMonitor, Mon!At
    <3>4. \A pc \in {"found", "identified"} :
            [monitorCall[c] EXCEPT !.found = {r}, !.pc = pc] \in Mon!MonitorCall
      BY <3>2, <3>3, MonitorCallKept
    <3>5. monitorCall' \in [Mon!MonitorCalls -> Mon!MonitorCall \union {None}]
      BY <3>1, <3>4, <1>1
    <3> QED BY <1>22, <3>5 DEF Mon!FindMonitor
  <2> QED BY <1>22, <2>2, <2>3 DEF Mon!FindMonitor
<1>23. ASSUME NEW c \in Mon!MonitorCalls, Mon!StoreId(c)
       PROVE  MonitorTypeOK'
  <2>1. monitorCall' \in [Mon!MonitorCalls -> Mon!MonitorCall \union {None}]
    BY <1>23, <1>1, <1>5, MonitorCallKept, Zenon DEF Mon!StoreId, Mon!At
  <2>2. /\ monitorCall[c].id \in Mon!MonitorIds
        /\ monitorCall[c].found \subseteq Mon!UsedRows
    BY <1>23, <1>5 DEF Mon!StoreId, Mon!At, MonitorInv, CallsMade, CallMade, Mon!MonitorCall
  <2>3. \A r \in monitorCall[c].found :
          [monitorRow[r] EXCEPT !.id = monitorCall[c].id] \in Mon!MonitorRow
    BY <2>2, MonitorRowKept, MonitorTyped
  <2> QED BY <1>23, <2>1, <2>3 DEF Mon!StoreId
<1>24. ASSUME NEW c \in Mon!MonitorCalls, Mon!IdTaken(c)
       PROVE  MonitorTypeOK'
  BY <1>24, <1>1, <1>5, MonitorCallMade DEF Mon!IdTaken, Mon!At
<1>25. ASSUME NEW r \in Mon!UsedRows, NEW s \in {None, "Accepted", "Rejected", "Duplicate"},
              Mon!Status(r, s)
       PROVE  monitorRow' \in [Mon!MonitorRows -> Mon!MonitorRow \union {None}]
  BY <1>25, <1>1, <1>2, MonitorTyped, MonitorRowKept DEF Mon!Status
<1>26. ASSUME NEW c \in Mon!MonitorCalls, Mon!StoreStatus(c)
       PROVE  MonitorTypeOK'
  <2>1. monitorCall[c].found \subseteq Mon!UsedRows
    BY <1>26 DEF Mon!StoreStatus, Mon!At, MonitorInv, CallsMade, CallMade
  <2>2. monitorRow' \in [Mon!MonitorRows -> Mon!MonitorRow \union {None}]
    BY <1>26, <1>5, <1>25, <2>1 DEF Mon!StoreStatus, Mon!At
  <2> QED BY <1>26, <1>1, <2>2, MonitorCallMade DEF Mon!StoreStatus
<1>27. ASSUME NEW c \in Mon!MonitorCalls, Mon!FindRows(c)
       PROVE  MonitorTypeOK'
  <2>1. PICK cleared \in SUBSET Mon!MonitorRows :
          monitorCall' = [monitorCall EXCEPT ![c].pc = "found", ![c].found = cleared]
    BY <1>27, <1>2 DEF Mon!FindRows, Mon!RowsWithId
  <2>2. monitorCall' \in [Mon!MonitorCalls -> Mon!MonitorCall \union {None}]
    <3>1. monitorCall[c] \in Mon!MonitorCall
      BY <1>27, <1>5 DEF Mon!FindRows, Mon!At
    <3>2. [monitorCall[c] EXCEPT !.pc = "found", !.found = cleared] \in Mon!MonitorCall
      BY <3>1, MonitorCallKept, Zenon
    <3> QED BY <2>1, <3>2, <1>1
  <2> QED BY <1>27, <2>2 DEF Mon!FindRows
<1>28. ASSUME NEW c \in Mon!MonitorCalls, NEW r \in Mon!MonitorRows, Mon!RejectRow(c, r)
       PROVE  MonitorTypeOK'
  <2>1. r \in Mon!UsedRows
    BY <1>28 DEF Mon!RejectRow, Mon!At, MonitorInv, CallsMade, CallMade
  <2>2. monitorRow' \in [Mon!MonitorRows -> Mon!MonitorRow \union {None}]
    BY <1>28, <1>25, <2>1 DEF Mon!RejectRow
  <2>3. monitorCall' \in [Mon!MonitorCalls -> Mon!MonitorCall \union {None}]
    BY <1>28, <1>1, <1>5, MonitorCallKept, Zenon DEF Mon!RejectRow, Mon!At
  <2> QED BY <1>28, <2>2, <2>3 DEF Mon!RejectRow
<1>29. ASSUME NEW c \in Mon!MonitorCalls, Mon!ClearOver(c)
       PROVE  MonitorTypeOK'
  BY <1>29, <1>1, MonitorCallMade DEF Mon!ClearOver
<1>30. ASSUME NEW c \in Mon!MonitorCalls, Mon!RequestReport(c)
       PROVE  MonitorTypeOK'
  <2>1. monitorReport' \in [Mon!MonitorCalls -> Mon!MonitorReport]
    BY <1>30, <1>1, <1>6, MonitorReportKept DEF Mon!RequestReport
  <2> QED BY <1>30, <1>1, <2>1, MonitorCallMade DEF Mon!RequestReport
<1>31. ASSUME NEW c \in Mon!MonitorCalls, Mon!ReportMonitors(c)
       PROVE  MonitorTypeOK'
  <2>1. monitorReport' \in [Mon!MonitorCalls -> Mon!MonitorReport]
    BY <1>31, <1>1, <1>2, <1>6, MonitorReportKept DEF Mon!ReportMonitors
  <2>2. doubtful' \subseteq Mon!Monitored
    BY <1>31, <1>2, <1>3 DEF Mon!ReportMonitors
  <2> QED BY <1>31, <2>1, <2>2 DEF Mon!ReportMonitors
<1>32. ASSUME NEW c \in Mon!MonitorCalls, Mon!ReportLost(c)
       PROVE  MonitorTypeOK'
  <2>1. monitorReport' \in [Mon!MonitorCalls -> Mon!MonitorReport]
    BY <1>32, <1>1, <1>6, MonitorReportKept DEF Mon!ReportLost
  <2>2. doubtful' \subseteq Mon!Monitored
    BY <1>32, <1>2, <1>3 DEF Mon!ReportLost
  <2> QED BY <1>32, <2>1, <2>2 DEF Mon!ReportLost
<1>33. ASSUME NEW c \in Mon!MonitorCalls, NEW v \in Mon!Monitored, Mon!StartVariable(c, v)
       PROVE  MonitorTypeOK'
  <2>1. PICK ms \in SUBSET Mon!Reported :
          monitorReport' = [monitorReport EXCEPT ![c].todo = monitorReport[c].todo \ ms,
                                                 ![c].started = ms]
    BY <1>33, <1>6 DEF Mon!StartVariable
  <2>2. monitorReport' \in [Mon!MonitorCalls -> Mon!MonitorReport]
    BY <2>1, <1>1, <1>6, MonitorReportKept
  <2> QED BY <1>33, <2>2 DEF Mon!StartVariable
<1>34. ASSUME NEW c \in Mon!MonitorCalls, NEW m \in monitorReport[c].started, Mon!FindReported(c, m)
       PROVE  MonitorTypeOK'
  <2>1. PICK r \in Mon!MonitorRows \union {None} :
          monitorReport' = [monitorReport EXCEPT
            ![c].started = monitorReport[c].started \ {m},
            ![c].found = monitorReport[c].found \union {<<m, r>>}]
    BY <1>34, <1>2 DEF Mon!FindReported, Mon!RowsOf
  <2>2. [monitorReport[c] EXCEPT !.started = monitorReport[c].started \ {m},
                                 !.found = monitorReport[c].found \union {<<m, r>>}]
          \in Mon!MonitorReport
    BY <1>6, MonitorReportKept
  <2>3. monitorReport' \in [Mon!MonitorCalls -> Mon!MonitorReport]
    BY <2>1, <2>2, <1>1
  <2> QED BY <1>34, <2>3 DEF Mon!FindReported
<1>35. ASSUME NEW c \in Mon!MonitorCalls, NEW x \in monitorReport[c].found, Mon!WriteReported(c, x[1], x[2])
       PROVE  MonitorTypeOK'
  <2>1. x[1] \in Mon!Reported /\ x[2] \in Mon!MonitorRows \union {None}
    BY <1>6
  <2>2. PICK s \in Mon!MonitorRows :
          /\ IF x[2] = None THEN Mon!IsNew(s) ELSE s = x[2]
          /\ monitorRow' = [monitorRow EXCEPT ![s] =
               [variable |-> x[1].variable, type |-> x[1].type, id |-> x[1].id,
                status |-> IF x[2] = None THEN None ELSE monitorRow[s].status]]
          /\ monitorReport' = [monitorReport EXCEPT
               ![c].found = monitorReport[c].found \ {<<x[1], x[2]>>},
               ![c].written = monitorReport[c].written \union {<<x[1], s>>}]
    BY <1>35 DEF Mon!WriteReported
  <2>3. x[2] # None => monitorRow[s] \in Mon!MonitorRow
    BY <2>2, MonitorTyped DEF MonitorInv, ReportsMade, Mon!RowsOf
  <2>4. [variable |-> x[1].variable, type |-> x[1].type, id |-> x[1].id,
         status |-> IF x[2] = None THEN None ELSE monitorRow[s].status] \in Mon!MonitorRow
    BY <2>1, <2>3 DEF Mon!MonitorRow, Mon!Reported
  <2>5. [monitorReport[c] EXCEPT !.found = monitorReport[c].found \ {<<x[1], x[2]>>},
                                 !.written = monitorReport[c].written \union {<<x[1], s>>}]
          \in Mon!MonitorReport
    BY <2>1, <1>6, MonitorReportKept
  <2>6. monitorReport' \in [Mon!MonitorCalls -> Mon!MonitorReport]
    BY <2>2, <2>5, <1>1
  <2> QED BY <1>35, <2>2, <2>4, <2>6, <1>1 DEF Mon!WriteReported
<1>36. ASSUME NEW c \in Mon!MonitorCalls, NEW x \in monitorReport[c].found,
              Mon!ReportedIdTaken(c, x[1], x[2])
       PROVE  MonitorTypeOK'
  <2>1. x[1] \in Mon!Reported /\ x[2] \in Mon!MonitorRows \union {None}
    BY <1>6
  <2>2. monitorReport' \in [Mon!MonitorCalls -> Mon!MonitorReport]
    BY <1>36, <2>1, <1>1, <1>6, MonitorReportKept DEF Mon!ReportedIdTaken
  <2>3. doubtful' \subseteq Mon!Monitored
    BY <1>36, <2>1, <1>3, <1>6 DEF Mon!ReportedIdTaken
  <2> QED BY <1>36, <2>2, <2>3 DEF Mon!ReportedIdTaken
<1>37. ASSUME NEW c \in Mon!MonitorCalls, NEW x \in monitorReport[c].written,
              Mon!StatusReported(c, x[1], x[2])
       PROVE  MonitorTypeOK'
  <2>1. x[1] \in Mon!Reported /\ x[2] \in Mon!MonitorRows /\ x[2] \in Mon!UsedRows
    BY <1>6 DEF MonitorInv, ReportsMade, Mon!RowsOf
  <2>2. monitorReport' \in [Mon!MonitorCalls -> Mon!MonitorReport]
    BY <1>37, <2>1, <1>1, <1>6, MonitorReportKept DEF Mon!StatusReported
  <2>3. monitorRow' \in [Mon!MonitorRows -> Mon!MonitorRow \union {None}]
    BY <1>37, <1>25, <2>1 DEF Mon!StatusReported
  <2> QED BY <1>37, <2>2, <2>3 DEF Mon!StatusReported
<1>38. ASSUME NEW c \in Mon!MonitorCalls, Mon!CallNext(c)
       PROVE  MonitorTypeOK'
  BY <1>38, <1>11, <1>12, <1>13, <1>14, <1>15, <1>16, <1>18, <1>19, <1>20, <1>21, <1>22, <1>23,
    <1>24, <1>26, <1>27, <1>28, <1>29, <1>30, Zenon DEF Mon!CallNext
<1>39. ASSUME NEW c \in Mon!MonitorCalls, Mon!ReportNext(c)
       PROVE  MonitorTypeOK'
  BY <1>39, <1>31, <1>32, <1>33, <1>34, <1>35, <1>36, <1>37, Zenon DEF Mon!ReportNext
<1> QED BY <1>38, <1>39, Zenon DEF Mon!Next

(* What does not change with the rows, the reports and the calls. *)
LEMMA MonitorFrames ==
  /\ monitorRow' = monitorRow =>
       /\ Mon!UsedRows' = Mon!UsedRows
       /\ \A w : Mon!RowsOf(w)' = Mon!RowsOf(w)
       /\ monitors' = monitors => \A r : IsSet(r)' <=> IsSet(r)
  /\ monitorReport' = monitorReport =>
       /\ \A b : Mon!BeingWritten(b)' = Mon!BeingWritten(b)
       /\ \A w : Mon!BeingReported(w)' <=> Mon!BeingReported(w)
  /\ monitorCall' = monitorCall =>
       /\ \A b : Mon!Wanted(b)' = Mon!Wanted(b)
       /\ \A b, w : Setting(b, w)' <=> Setting(b, w)
       /\ \A w : Mon!BeingSet(w)' <=> Mon!BeingSet(w)
       /\ \A b, a : Mon!Answered(b, a)' <=> Mon!Answered(b, a)
BY DEF Mon!UsedRows, Mon!RowsOf, IsSet, Mon!MonitorOf, Mon!BeingWritten, Mon!BeingReported,
   Mon!Wanted, Setting, Mon!Open, Mon!BeingSet, Mon!Answered

LEMMA MonitorRowsAlike ==
  ASSUME \A q \in Mon!MonitorRows : /\ monitorRow'[q] = None <=> monitorRow[q] = None
                                    /\ monitorRow[q] # None =>
                                         monitorRow'[q].variable = monitorRow[q].variable
  PROVE  Mon!UsedRows' = Mon!UsedRows /\ \A w : Mon!RowsOf(w)' = Mon!RowsOf(w)
BY DEF Mon!UsedRows, Mon!RowsOf

LEMMA MonitorOtherCalls ==
  ASSUME NEW c \in Mon!MonitorCalls,
         \A b \in Mon!MonitorCalls : b # c => monitorCall'[b] = monitorCall[b]
  PROVE  \A b \in Mon!MonitorCalls : b # c =>
           /\ Mon!Wanted(b)' = Mon!Wanted(b)
           /\ \A w : Setting(b, w)' <=> Setting(b, w)
           /\ \A a : Mon!Answered(b, a)' <=> Mon!Answered(b, a)
BY DEF Mon!Wanted, Mon!MonitorOf, Setting, Mon!Open, Mon!Answered

LEMMA MonitorOnStation ==
  \A i \in Mon!MonitorIds : monitors[i] # None =>
    \E m \in Mon!OnStation : m.variable = monitors[i].variable /\ m.type = monitors[i].type /\ m.id = i
<1> TAKE i \in Mon!MonitorIds
<1> HAVE monitors[i] # None
<1>1. [variable |-> monitors[i].variable, type |-> monitors[i].type, id |-> i] \in Mon!OnStation
  BY DEF Mon!OnStation
<1> QED BY <1>1

LEMMA MonitorSetting ==
  \A w : /\ Mon!BeingSet(w) <=> \E b \in Mon!MonitorCalls : Setting(b, w)
         /\ Mon!BeingSet(w)' <=> \E b \in Mon!MonitorCalls : Setting(b, w)'
BY DEF Mon!BeingSet, Setting

LEMMA MonitorRange ==
  ASSUME MonitorTypeOK
  PROVE  \A m : m \notin Mon!Range(monitors) => \A i \in Mon!MonitorIds : monitors[i] # m
BY DEF MonitorTypeOK, Mon!TypeOK, Mon!Range

LEMMA MonitorWritten ==
  \A b, n : /\ n \in Mon!BeingWritten(b) <=>
                 \/ n \in monitorReport[b].todo \/ n \in monitorReport[b].started
                 \/ \E x \in monitorReport[b].found \union monitorReport[b].written : n = x[1]
            /\ n \in Mon!BeingWritten(b)' <=>
                 \/ n \in monitorReport'[b].todo \/ n \in monitorReport'[b].started
                 \/ \E x \in monitorReport'[b].found \union monitorReport'[b].written : n = x[1]
BY DEF Mon!BeingWritten

LEMMA MonitorRowsOf ==
  /\ Mon!UsedRows \subseteq Mon!MonitorRows /\ Mon!UsedRows' \subseteq Mon!MonitorRows
  /\ \A w, q : q \in Mon!RowsOf(w) <=> q \in Mon!UsedRows /\ monitorRow[q].variable = w
  /\ \A w, q : q \in Mon!RowsOf(w)' <=> q \in Mon!UsedRows' /\ monitorRow'[q].variable = w
BY DEF Mon!UsedRows, Mon!RowsOf

(* The monitors that are still to be marked as set are there. *)
LEMMA MonitorAccepted ==
  ASSUME MonitorTypeOK, MonitorInv
  PROVE  /\ \A b \in Mon!MonitorCalls : \A n \in Mon!BeingWritten(b) :
              /\ n.id \in Mon!MonitorIds /\ n.variable \in Mon!Monitored
              /\ Mon!MonitorOf(n) # None /\ Mon!MonitorOf(n).variable = n.variable
              /\ Mon!BeingAccepted(n.id)
         /\ \A b \in Mon!MonitorCalls : \A y \in monitorReport[b].written :
              /\ y[1] \in Mon!BeingWritten(b) /\ y[2] \in Mon!RowsOf(y[1].variable)
              /\ Mon!BeingAccepted(monitorRow[y[2]].id)
         /\ \A b \in Mon!MonitorCalls : \A w : Setting(b, w) =>
              /\ Mon!Wanted(b) \in Monitors /\ Mon!Wanted(b) # None
              /\ Mon!Wanted(b).variable = w /\ w \in Mon!Monitored
              /\ monitorCall[b].answer = "Accepted" =>
                   monitorCall[b].id \in Mon!MonitorIds /\ Mon!BeingAccepted(monitorCall[b].id)
         /\ \A q \in Mon!UsedRows :
              /\ monitorRow[q].id \in Mon!MonitorIds \union {None}
              /\ Mon!MonitorOf(monitorRow[q]) # None
              /\ Mon!MonitorOf(monitorRow[q]).variable = monitorRow[q].variable
         /\ \A b \in Mon!MonitorCalls : Mon!Answered(b, "Clear") => monitorCall[b].id \in Mon!MonitorIds
<1> USE MonitorConstants DEF MonitorInv
<1>1. ASSUME NEW b \in Mon!MonitorCalls, NEW n \in Mon!BeingWritten(b)
      PROVE  /\ n.id \in Mon!MonitorIds /\ n.variable \in Mon!Monitored
             /\ Mon!MonitorOf(n) # None /\ Mon!MonitorOf(n).variable = n.variable
             /\ Mon!BeingAccepted(n.id)
  <2>1. n \in Mon!Reported
    BY MonitorTyped DEF Mon!BeingWritten, Mon!MonitorReport
  <2>2. Mon!MonitorOf(n) \in [variable : Mon!Monitored, type : Mon!MonitorTypes]
    BY <2>1 DEF Mon!MonitorOf, Mon!Reported
  <2> QED BY <2>1, <2>2 DEF Mon!MonitorOf, Mon!Reported, Mon!BeingAccepted
<1>2. ASSUME NEW b \in Mon!MonitorCalls, NEW y \in monitorReport[b].written
      PROVE  /\ y[1] \in Mon!BeingWritten(b) /\ y[2] \in Mon!RowsOf(y[1].variable)
             /\ Mon!BeingAccepted(monitorRow[y[2]].id)
  BY MonitorWritten DEF ReportsMade, Mon!BeingAccepted
<1>3. ASSUME NEW b \in Mon!MonitorCalls, NEW w, Setting(b, w)
      PROVE  /\ Mon!Wanted(b) \in Monitors /\ Mon!Wanted(b) # None
             /\ Mon!Wanted(b).variable = w /\ w \in Mon!Monitored
             /\ monitorCall[b].answer = "Accepted" =>
                  monitorCall[b].id \in Mon!MonitorIds /\ Mon!BeingAccepted(monitorCall[b].id)
  <2>1. /\ monitorCall[b] # None /\ monitorCall[b].action = "Set" /\ monitorCall[b].variable = w
        /\ monitorCall[b].pc # "over" /\ monitorCall[b] \in Mon!MonitorCall
    BY <1>3, MonitorTyped DEF Setting, Mon!Open
  <2>2. Mon!Wanted(b) \in Monitors /\ Mon!Wanted(b).variable = w
    BY <2>1 DEF CallsMade, CallMade, Mon!Wanted, Mon!MonitorOf
  <2>3. Mon!Wanted(b) # None /\ w \in Mon!Monitored
    BY <2>2 DEF Mon!Monitored
  <2>4. monitorCall[b].answer = "Accepted" =>
          monitorCall[b].id \in Mon!MonitorIds /\ Mon!Answered(b, "Set")
    BY <2>1 DEF CallsMade, CallMade, Mon!MonitorCall, Mon!Answered, Mon!Open
  <2> QED BY <2>2, <2>3, <2>4 DEF Mon!BeingAccepted
<1>4. ASSUME NEW q \in Mon!UsedRows
      PROVE  /\ monitorRow[q].id \in Mon!MonitorIds \union {None}
             /\ Mon!MonitorOf(monitorRow[q]) # None
             /\ Mon!MonitorOf(monitorRow[q]).variable = monitorRow[q].variable
  <2>1. monitorRow[q] \in Mon!MonitorRow
    BY MonitorTyped
  <2>2. Mon!MonitorOf(monitorRow[q]) \in [variable : Mon!Monitored, type : Mon!MonitorTypes]
    BY <2>1 DEF Mon!MonitorOf, Mon!MonitorRow
  <2> QED BY <2>1, <2>2 DEF Mon!MonitorOf, Mon!MonitorRow
<1>5. ASSUME NEW b \in Mon!MonitorCalls, Mon!Answered(b, "Clear")
      PROVE  monitorCall[b].id \in Mon!MonitorIds
  BY <1>5, MonitorTyped DEF Mon!Answered, Mon!Open, CallsMade, CallMade, Mon!MonitorCall
<1> QED BY <1>1, <1>2, <1>3, <1>4, <1>5

(* They stay when those of variables the copy may be wrong about are left  *)
(* out.                                                                    *)
LEMMA MonitorKept ==
  ASSUME MonitorTypeOK, MonitorInv, doubtful \subseteq doubtful',
         monitorRow' = monitorRow, monitorReport' = monitorReport,
         \A j \in Mon!MonitorIds :
           monitors[j] # None /\ Mon!BeingAccepted(j) /\ monitors[j].variable \notin doubtful' =>
             monitors'[j] = monitors[j]
  PROVE  /\ ReportHolds'
         /\ \A w \in Mon!Monitored \ doubtful', b \in Mon!MonitorCalls :
              Setting(b, w) /\ monitorCall[b].answer = "Accepted" =>
                monitors'[monitorCall[b].id] = Mon!Wanted(b)
<1> USE MonitorConstants DEF MonitorInv
<1>1. ASSUME NEW b \in Mon!MonitorCalls, NEW n \in Mon!BeingWritten(b), n.variable \notin doubtful'
      PROVE  monitors'[n.id] = Mon!MonitorOf(n)
  BY <1>1, MonitorAccepted DEF ReportHolds
<1>2. ASSUME NEW b \in Mon!MonitorCalls, NEW y \in monitorReport[b].written,
             y[1].variable \notin doubtful'
      PROVE  IsSet(y[2])'
  <2>1. /\ y[2] \in Mon!UsedRows /\ monitorRow[y[2]].variable = y[1].variable
        /\ Mon!BeingAccepted(monitorRow[y[2]].id)
    BY MonitorAccepted, MonitorRowsOf
  <2>2. /\ monitorRow[y[2]].id # None
        /\ monitors[monitorRow[y[2]].id] = Mon!MonitorOf(monitorRow[y[2]])
    BY <1>2 DEF ReportHolds, IsSet
  <2>3. monitors'[monitorRow[y[2]].id] = monitors[monitorRow[y[2]].id]
    BY <1>2, <2>1, <2>2, MonitorAccepted
  <2> QED BY <2>2, <2>3 DEF IsSet, Mon!MonitorOf
<1>3. ReportHolds'
  <2>1. \A b \in Mon!MonitorCalls : Mon!BeingWritten(b)' = Mon!BeingWritten(b)
    BY MonitorFrames
  <2>2. \A b \in Mon!MonitorCalls : \A y \in monitorReport[b].found :
          y[1].variable \notin doubtful' => y[2] # None
    BY DEF ReportHolds
  <2> QED BY <1>1, <1>2, <2>1, <2>2 DEF ReportHolds, Mon!MonitorOf
<1>4. ASSUME NEW w \in Mon!Monitored \ doubtful', NEW b \in Mon!MonitorCalls,
             Setting(b, w), monitorCall[b].answer = "Accepted"
      PROVE  monitors'[monitorCall[b].id] = Mon!Wanted(b)
  <2>1. monitors[monitorCall[b].id] = Mon!Wanted(b)
    BY <1>4 DEF SetHolds, SetHeld
  <2> QED BY <1>4, <2>1, MonitorAccepted
<1> QED BY <1>3, <1>4

LEMMA LookUpMonitorStep ==
  ASSUME MonitorTypeOK, MonitorInv, MonitorTypeOK',
         NEW c \in Mon!MonitorCalls, NEW m \in Monitors, Mon!LookUpMonitor(c, m.variable, m.type)
  PROVE  MonitorInv'
<1> USE MonitorConstants DEF MonitorInv
<1>1. PICK found \in
       (IF Mon!RowsOf(m.variable) = {} THEN {{}} ELSE {{r} : r \in Mon!RowsOf(m.variable)}) :
        monitorCall' = [monitorCall EXCEPT ![c] =
             [Mon!NewCall("Set", "looked") EXCEPT !.variable = m.variable, !.type = m.type,
                                            !.found = found]]
  BY Zenon DEF Mon!LookUpMonitor
<1>2a. monitorCall[c] = None
  BY <1>1, MonitorTyped DEF Mon!LookUpMonitor, Mon!NextCall, Mon!NewCall, Mon!At, MonitorTypeOK,
     Mon!TypeOK
<1>2b. \A b \in Mon!MonitorCalls : b # c => monitorCall'[b] = monitorCall[b]
  BY <1>1 DEF Mon!LookUpMonitor, Mon!NextCall, Mon!NewCall, MonitorTypeOK, Mon!TypeOK
<1>2c. monitorCall'[c] # None
  <2>1. \A rs \in SUBSET Mon!MonitorRows :
           [Mon!NewCall("Set", "looked") EXCEPT !.variable = m.variable, !.type = m.type,
              !.found = rs]
             \in Mon!MonitorCall
    BY <1>2a, <1>1, MonitorTyped, MonitorCallMade, ZenonT(60)
      DEF Mon!MonitorCall, Mon!UsedRows, Mon!Monitored, Mon!MonitorTypes
  <2>2. found \in SUBSET Mon!MonitorRows
    BY <1>1 DEF Mon!RowsOf, Mon!UsedRows
  <2>3. monitorCall'[c] \in Mon!MonitorCall
    BY <1>1, <2>1, <2>2 DEF MonitorTypeOK, Mon!TypeOK
  <2> QED BY <2>3, MonitorConstants
<1>2d. /\ monitorCall'[c].action = "Set" /\ monitorCall'[c].pc = "looked"
       /\ monitorCall'[c].variable = m.variable /\ monitorCall'[c].type = m.type
       /\ monitorCall'[c].answer = None
       /\ IF Mon!RowsOf(m.variable) = {} THEN monitorCall'[c].found = {}
          ELSE \E r \in Mon!RowsOf(m.variable) : monitorCall'[c].found = {r}
  BY <1>1, MonitorTyped, <1>2a DEF Mon!LookUpMonitor, Mon!NextCall, Mon!NewCall, Mon!MonitorCall,
     MonitorTypeOK, Mon!TypeOK, Mon!CallOver, Mon!At
<1>2e. /\ monitorRow' = monitorRow
       /\ monitorReport' = monitorReport
       /\ monitors' = monitors
  BY <1>1 DEF Mon!LookUpMonitor, Mon!NextCall, Mon!NewCall
<1>2f. /\ doubtful \subseteq doubtful'
       /\ m.variable \notin doubtful' =>
            ~Mon!BeingSet(m.variable) /\ ~Mon!BeingRejected(m.variable) /\ ~Mon!BeingReported(m.variable)
  BY <1>1, MonitorTyped, MonitorOnStation, <1>2a
    DEF Mon!LookUpMonitor, Mon!NextCall, Mon!NewCall, MonitorTypeOK, Mon!TypeOK
<1> USE <1>2a, <1>2b, <1>2c, <1>2d, <1>2e, <1>2f
<1>3. /\ \A b \in Mon!MonitorCalls : \A w :
           Setting(b, w)' <=> Setting(b, w) \/ (b = c /\ w = m.variable)
      /\ \A w : ~Setting(c, w)
      /\ \A b \in Mon!MonitorCalls : Mon!Answered(b, "Clear")' <=> Mon!Answered(b, "Clear")
      /\ \A b \in Mon!MonitorCalls : Mon!Answered(b, "Base")' <=> Mon!Answered(b, "Base")
      /\ ~Mon!Answered(c, "Clear") /\ ~Mon!Answered(c, "Base")
      /\ ~Mon!Answered(c, "Clear")' /\ ~Mon!Answered(c, "Base")'
  BY MonitorOtherCalls DEF Setting, Mon!Open, Mon!Answered
<1>4. Mon!Wanted(c)' = m /\ m.variable \in Mon!Monitored
  BY MonitorOtherCalls, MonitorTyped DEF Mon!Wanted, Mon!MonitorOf, Mon!Monitored, Mon!Range,
     Mon!TypeOK, MonitorTypeOK
<1>5. \A w : Mon!BeingSet(w)' <=> Mon!BeingSet(w) \/ w = m.variable
  BY <1>3, MonitorSetting
<1>6. ClearHolds'
  <2> SUFFICES ASSUME NEW w \in Mon!Monitored \ doubtful', NEW b \in Mon!MonitorCalls,
                      Mon!Answered(b, "Clear")'
               PROVE  ClearHeld(b, w)'
    BY DEF ClearHolds
  <2>1. Mon!Answered(b, "Clear") /\ b # c /\ ClearHeld(b, w)
    BY <1>3 DEF ClearHolds
  <2>2. \A q \in Mon!RowsOf(w) : monitorRow[q].id = monitorCall[b].id \/ q \in monitorCall[b].found =>
           w # m.variable
    BY <2>1 DEF Mon!BeingRejected
  <2> QED BY <1>5, <2>1, <2>2, MonitorFrames DEF ClearHeld
<1> USE <1>3, <1>4, <1>5, MonitorFrames, MonitorOtherCalls
<1>7. CallsMade'
  <2> SUFFICES ASSUME NEW b \in Mon!MonitorCalls, monitorCall'[b] # None PROVE CallMade(b)'
    BY DEF CallsMade
  <2>1. CASE b = c
    BY <2>1, MonitorSetting, MonitorRowsOf DEF CallsMade, CallMade
  <2>2. CASE b # c
    BY <2>2 DEF CallsMade, CallMade
  <2> QED BY <2>1, <2>2
<1>8. ReportsMade'
  BY DEF ReportsMade
<1>9. OneAtATime'
  <2> SUFFICES ASSUME NEW w \in Mon!Monitored \ doubtful' PROVE
                 /\ \A a, b \in Mon!MonitorCalls : Setting(a, w)' /\ Setting(b, w)' => a = b
                 /\ ~(Mon!BeingSet(w)' /\ Mon!BeingReported(w)')
    BY DEF OneAtATime
  <2>1. \A a, b \in Mon!MonitorCalls : Setting(a, w)' /\ Setting(b, w)' => a = b
    BY MonitorSetting, MonitorRowsOf DEF OneAtATime
  <2>2. ~(Mon!BeingSet(w)' /\ Mon!BeingReported(w)')
    BY DEF OneAtATime
  <2> QED BY <2>1, <2>2
<1>10. OneMonitorRow'
  BY DEF OneMonitorRow
<1>11. RowIsThere'
  BY DEF RowIsThere
<1>12. ReportHolds'
  BY DEF ReportHolds
<1>13. SetHolds'
  BY DEF SetHolds, SetHeld
<1>14. AcceptedRight'
  BY DEF AcceptedRight, ToBeRejected, Mon!At
<1>15. RejectedRight'
  BY DEF RejectedRight, ToBeReported
<1> QED BY <1>7, <1>8, <1>9, <1>10, <1>11, <1>12, <1>13, <1>6, <1>14, <1>15

LEMMA StoreMonitorStep ==
  ASSUME MonitorTypeOK, MonitorInv, MonitorTypeOK',
         NEW c \in Mon!MonitorCalls, Mon!StoreMonitor(c)
  PROVE  MonitorInv'
<1> USE MonitorConstants DEF MonitorInv
<1>1. PICK r \in Mon!MonitorRows :
        /\ IF monitorCall[c].found = {} THEN Mon!IsNew(r) ELSE r \in monitorCall[c].found
        /\ monitorRow' = [monitorRow EXCEPT ![r] =
             IF @ = None THEN [variable |-> monitorCall[c].variable,
                 type |-> monitorCall[c].type,
                               id |-> None, status |-> None]
             ELSE [@ EXCEPT !.type = monitorCall[c].type]]
  BY DEF Mon!StoreMonitor
<1>2a. /\ monitorCall[c] # None /\ monitorCall[c].action = "Set" /\ monitorCall[c].pc = "looked"
       /\ monitorCall[c].variable \in Mon!Monitored /\ monitorCall[c].type \in Mon!MonitorTypes
       /\ r \in Mon!UsedRows =>
            monitorRow[r] \in Mon!MonitorRow /\ monitorRow[r].variable = monitorCall[c].variable
  <2>1. monitorCall[c] # None /\ monitorCall[c].action = "Set" /\ monitorCall[c].pc = "looked"
    BY DEF Mon!StoreMonitor, Mon!At
  <2>2. Mon!Wanted(c) \in Monitors /\ CallMade(c)
    BY <2>1 DEF CallsMade, CallMade
  <2>3. monitorCall[c].variable \in Mon!Monitored /\ monitorCall[c].type \in Mon!MonitorTypes
    BY <2>2 DEF Mon!Wanted, Mon!MonitorOf, Mon!Monitored, Mon!MonitorTypes
  <2>4. r \in Mon!UsedRows => r \in monitorCall[c].found
    BY <1>1 DEF Mon!IsNew
  <2> QED BY <2>1, <2>2, <2>3, <2>4, MonitorTyped DEF CallMade
<1>2b. \A b \in Mon!MonitorCalls : b # c => monitorCall'[b] = monitorCall[b]
  BY <1>1 DEF Mon!StoreMonitor, MonitorTypeOK, Mon!TypeOK
<1>2c. monitorCall'[c] # None
  <2>1. [monitorCall[c] EXCEPT !.pc = "sent", !.found = {}] \in Mon!MonitorCall
    BY <1>2a, <1>1, MonitorTyped, MonitorCallKept, Zenon DEF Mon!Wanted
  <2> QED BY <1>1, <1>2a, <2>1 DEF Mon!StoreMonitor, MonitorTypeOK, Mon!TypeOK, Mon!At
<1>2d. /\ monitorCall'[c].action = "Set" /\ monitorCall'[c].pc = "sent"
       /\ monitorCall'[c].variable = monitorCall[c].variable
       /\ monitorCall'[c].type = monitorCall[c].type
       /\ monitorCall'[c].id = monitorCall[c].id
       /\ monitorCall'[c].answer = monitorCall[c].answer
       /\ monitorCall'[c].found = {}
  BY <1>1, MonitorTyped, <1>2a DEF Mon!StoreMonitor, Mon!MonitorCall, MonitorTypeOK, Mon!TypeOK,
     Mon!NewCall, Mon!CallOver, Mon!At
<1>2e. /\ \A q \in Mon!MonitorRows : q # r => monitorRow'[q] = monitorRow[q]
       /\ monitorRow'[r].variable = monitorCall[c].variable
       /\ monitorRow'[r].type = monitorCall[c].type
       /\ monitorRow[r] = None => monitorRow'[r].id = None /\ monitorRow'[r].status = None
       /\ monitorRow[r] # None =>
            monitorRow'[r].id = monitorRow[r].id /\ monitorRow'[r].status = monitorRow[r].status
  BY <1>1, MonitorTyped, <1>2a DEF Mon!StoreMonitor, Mon!MonitorRow, MonitorTypeOK, Mon!TypeOK,
     Mon!UsedRows
<1>2f. monitorRow'[r] # None
  <2>1. monitorRow[r] # None =>
          [monitorRow[r] EXCEPT !.type = monitorCall[c].type] \in Mon!MonitorRow
    BY <1>2a, <1>1, MonitorTyped, MonitorRowKept
      DEF Mon!MonitorRow, Mon!MonitorCall, Mon!Reported, Mon!UsedRows, CallsMade, CallMade
  <2>2. [variable |-> monitorCall[c].variable, type |-> monitorCall[c].type,
         id |-> None, status |-> None] \in Mon!MonitorRow
    BY <1>2a DEF Mon!MonitorRow
  <2>3. monitorRow[r] # None => r \in Mon!UsedRows
    BY DEF Mon!UsedRows
  <2>4. monitorRow'[r] \in Mon!MonitorRow
    BY <1>1, <2>1, <2>2, <2>3 DEF MonitorTypeOK, Mon!TypeOK
  <2> QED BY <2>4, MonitorConstants
<1>2g. /\ monitorReport' = monitorReport
       /\ monitors' = monitors
       /\ doubtful' = doubtful
  BY <1>1 DEF Mon!StoreMonitor
<1> USE <1>2a, <1>2b, <1>2c, <1>2d, <1>2e, <1>2f, <1>2g
<1>3. /\ \A b \in Mon!MonitorCalls : \A w : Setting(b, w)' <=> Setting(b, w)
      /\ \A b \in Mon!MonitorCalls : Mon!Answered(b, "Clear")' <=> Mon!Answered(b, "Clear")
      /\ \A b \in Mon!MonitorCalls : Mon!Answered(b, "Base")' <=> Mon!Answered(b, "Base")
      /\ ~Mon!Answered(c, "Clear") /\ ~Mon!Answered(c, "Base")
      /\ ~Mon!Answered(c, "Clear")' /\ ~Mon!Answered(c, "Base")'
      /\ \A w : Setting(c, w) <=> w = monitorCall[c].variable
      /\ \A w : Setting(c, w)' <=> w = monitorCall[c].variable
  BY MonitorOtherCalls DEF Setting, Mon!Open, Mon!Answered
<1>4. \A b \in Mon!MonitorCalls : Mon!Wanted(b)' = Mon!Wanted(b)
  BY MonitorOtherCalls, MonitorTyped DEF Mon!Wanted, Mon!MonitorOf, Mon!Monitored, Mon!Range,
     Mon!TypeOK, MonitorTypeOK
<1>5. \A w : Mon!BeingSet(w)' <=> Mon!BeingSet(w)
  BY <1>3, MonitorSetting
<1>6. /\ Mon!UsedRows' = Mon!UsedRows \union {r}
      /\ \A w : w # monitorCall[c].variable => Mon!RowsOf(w)' = Mon!RowsOf(w)
      /\ Mon!RowsOf(monitorCall[c].variable)' = Mon!RowsOf(monitorCall[c].variable) \union {r}
      /\ \A q \in Mon!UsedRows : q # r => (IsSet(q)' <=> IsSet(q))
  BY MonitorRowsAlike, MonitorFrames DEF Mon!UsedRows, Mon!RowsOf, IsSet, Mon!MonitorOf, Mon!Wanted
<1>7. \A b \in Mon!MonitorCalls : Mon!BeingWritten(b)' = Mon!BeingWritten(b)
  BY <1>1, MonitorFrames DEF Mon!BeingWritten, Mon!BeingReported
<1>8. \A w : Mon!BeingReported(w)' <=> Mon!BeingReported(w)
  BY <1>3, <1>4, <1>5, <1>6, <1>7, MonitorFrames DEF Mon!BeingReported, Mon!BeingWritten
<1>9. /\ Setting(c, monitorCall[c].variable) /\ Mon!BeingSet(monitorCall[c].variable)
      /\ r \in Mon!UsedRows => r \in Mon!RowsOf(monitorCall[c].variable)
      /\ \A w : w # monitorCall[c].variable =>
           \A q \in Mon!RowsOf(w) : q # r /\ q \in Mon!UsedRows /\ monitorRow'[q] = monitorRow[q]
  BY <1>3, MonitorSetting, MonitorRowsOf
<1>10. monitorCall[c].variable \notin doubtful =>
         Mon!RowsOf(monitorCall[c].variable) = {} \/ r \in Mon!RowsOf(monitorCall[c].variable)
  <2>1. CASE monitorCall[c].found = {}
    BY <1>9, <2>1 DEF OneMonitorRow
  <2>2. CASE monitorCall[c].found # {}
    BY <1>1, <1>9, <2>2 DEF CallsMade, CallMade
  <2> QED BY <2>1, <2>2
<1>11. OneMonitorRow'
  <2> SUFFICES ASSUME NEW w \in Mon!Monitored \ doubtful
               PROVE  /\ \A p, q \in Mon!RowsOf(w)' : p = q
                      /\ \A b \in Mon!MonitorCalls : Setting(b, w)' /\ monitorCall'[b].pc = "looked"
                           /\ monitorCall'[b].found = {} => Mon!RowsOf(w)' = {}
    BY DEF OneMonitorRow
  <2>1. CASE w = monitorCall[c].variable
    <3>1. \A p, q \in Mon!RowsOf(w)' : p = q
      BY <1>6, <1>10, <2>1 DEF OneMonitorRow
    <3>2. \A b \in Mon!MonitorCalls : Setting(b, w)' => b = c
      BY <1>3, <1>9, <2>1 DEF OneAtATime
    <3> QED BY <3>1, <3>2
  <2>2. CASE w # monitorCall[c].variable
    BY <1>3, <1>6, <2>2 DEF OneMonitorRow
  <2> QED BY <2>1, <2>2
<1>12. ReportHolds'
  <2>1. ASSUME NEW b \in Mon!MonitorCalls, NEW y \in monitorReport[b].written,
               y[1].variable \notin doubtful
        PROVE  IsSet(y[2])'
    <3>1. y[1].variable # monitorCall[c].variable
      BY <1>9, <2>1, MonitorAccepted DEF OneAtATime, Mon!BeingReported
    <3>2. y[2] # r /\ y[2] \in Mon!UsedRows
      BY <1>9, <3>1, MonitorAccepted
    <3> QED BY <1>6, <2>1, <3>2 DEF ReportHolds
  <2> QED BY <1>7, <2>1 DEF ReportHolds
<1>13. SetHolds'
  <2> SUFFICES ASSUME NEW w \in Mon!Monitored \ doubtful, NEW b \in Mon!MonitorCalls, Setting(b, w)
               PROVE  SetHeld(b, w)'
    BY <1>3 DEF SetHolds
  <2>1. CASE b = c
    <3>1. w = monitorCall[c].variable /\ Mon!RowsOf(w)' = {r}
      BY <1>3, <1>6, <1>10, <2>1 DEF OneMonitorRow
    <3>2. monitorCall'[c].answer = None
      BY DEF CallsMade, CallMade
    <3> QED BY <2>1, <3>1, <3>2, MonitorConstants DEF SetHeld
  <2>2. CASE b # c
    <3>1. w # monitorCall[c].variable
      BY <1>9, <2>2 DEF OneAtATime
    <3>2. SetHeld(b, w) /\ monitorCall'[b] = monitorCall[b] /\ Mon!Wanted(b)' = Mon!Wanted(b)
      BY <1>4, <2>2 DEF SetHolds
    <3>3. \A q \in monitorCall[b].found :
            monitorCall[b].pc = "identified" => q \in Mon!RowsOf(w)
      BY MonitorRowsOf DEF CallsMade, CallMade, Setting, Mon!Open
    <3> QED BY <1>6, <1>9, <3>1, <3>2, <3>3 DEF SetHeld
  <2> QED BY <2>1, <2>2
<1>14. ClearHolds'
  <2> SUFFICES ASSUME NEW w \in Mon!Monitored \ doubtful, NEW b \in Mon!MonitorCalls,
                      Mon!Answered(b, "Clear")
               PROVE  ClearHeld(b, w)'
    BY <1>3 DEF ClearHolds
  <2>1. /\ ClearHeld(b, w) /\ monitorCall'[b] = monitorCall[b]
        /\ monitorCall[b].id # None /\ monitorCall[b].found \subseteq Mon!UsedRows
    BY <1>3 DEF ClearHolds, CallsMade, CallMade, Mon!Answered, Mon!Open
  <2>2. CASE w = monitorCall[c].variable
    <3>1. \A q \in Mon!RowsOf(w) :
            monitorRow[q].id # monitorCall[b].id /\ q \notin monitorCall[b].found
      BY <1>9, <2>1, <2>2 DEF ClearHeld
    <3>2. ASSUME NEW q \in Mon!RowsOf(w)'
          PROVE  monitorRow'[q].id # monitorCall[b].id /\ q \notin monitorCall[b].found
      <4>1. CASE q \in Mon!UsedRows
        <5>1. q \in Mon!RowsOf(w) /\ monitorRow'[q].id = monitorRow[q].id
          BY <1>6, <1>9, <2>2, <4>1, MonitorRowsOf DEF Mon!UsedRows
        <5> QED BY <3>1, <5>1
      <4>2. CASE q \notin Mon!UsedRows
        <5>1. q = r /\ monitorRow[q] = None
          BY <1>6, <2>2, <4>2, MonitorRowsOf DEF Mon!UsedRows
        <5> QED BY <2>1, <4>2, <5>1
      <4> QED BY <4>1, <4>2
    <3> QED BY <2>1, <3>2 DEF ClearHeld
  <2>3. CASE w # monitorCall[c].variable
    BY <1>5, <1>6, <1>8, <1>9, <2>1, <2>3 DEF ClearHeld
  <2> QED BY <2>2, <2>3
<1> USE <1>3, <1>4, <1>5, <1>6, <1>7, <1>8, MonitorFrames, MonitorOtherCalls
<1>15. CallsMade'
  <2> SUFFICES ASSUME NEW b \in Mon!MonitorCalls, monitorCall'[b] # None PROVE CallMade(b)'
    BY DEF CallsMade
  <2>1. CASE b = c
    BY <2>1 DEF CallsMade, CallMade
  <2>2. CASE b # c
    BY <2>2, MonitorSetting, MonitorRowsOf DEF CallsMade, CallMade
  <2> QED BY <2>1, <2>2
<1>16. ReportsMade'
  BY DEF ReportsMade
<1>17. OneAtATime'
  BY DEF OneAtATime
<1>18. RowIsThere'
  BY DEF RowIsThere
<1>19. AcceptedRight'
  <2> SUFFICES ASSUME NEW w \in Mon!Monitored \ doubtful', NEW q \in Mon!RowsOf(w)',
                      monitorRow'[q].status = "Accepted", ~Mon!BeingSet(w)'
               PROVE  IsSet(q)' \/ \E b \in Mon!MonitorCalls : ToBeRejected(b, q)'
    BY DEF AcceptedRight
  <2>1. CASE q = r
    BY <2>1, MonitorSetting, MonitorRowsOf DEF AcceptedRight, ToBeRejected, Mon!At
  <2>2. CASE q # r
    BY <2>2, MonitorSetting, MonitorRowsOf DEF AcceptedRight, ToBeRejected, Mon!At
  <2> QED BY <2>1, <2>2
<1>20. RejectedRight'
  <2> SUFFICES ASSUME NEW w \in Mon!Monitored \ doubtful', NEW q \in Mon!RowsOf(w)',
                      monitorRow'[q].status = "Rejected", ~Mon!BeingSet(w)', ~Mon!BeingReported(w)'
               PROVE  ~IsSet(q)' \/ \E b \in Mon!MonitorCalls : ToBeReported(b)'
    BY DEF RejectedRight
  <2>1. CASE q = r
    BY <2>1, MonitorSetting, MonitorRowsOf DEF RejectedRight, ToBeReported
  <2>2. CASE q # r
    BY <2>2, MonitorSetting, MonitorRowsOf DEF RejectedRight, ToBeReported
  <2> QED BY <2>1, <2>2
<1> QED BY <1>15, <1>16, <1>17, <1>11, <1>18, <1>12, <1>13, <1>14, <1>19, <1>20

LEMMA SendClearStep ==
  ASSUME MonitorTypeOK, MonitorInv, MonitorTypeOK',
         NEW c \in Mon!MonitorCalls, NEW i \in Mon!MonitorIds, Mon!SendClear(c, i)
  PROVE  MonitorInv'
<1> USE MonitorConstants DEF MonitorInv
<1>1a. monitorCall[c] = None
  BY MonitorTyped DEF Mon!SendClear, Mon!NextCall, Mon!NewCall, Mon!At, MonitorTypeOK, Mon!TypeOK
<1>1b. \A b \in Mon!MonitorCalls : b # c => monitorCall'[b] = monitorCall[b]
  BY DEF Mon!SendClear, Mon!NextCall, Mon!NewCall, MonitorTypeOK, Mon!TypeOK
<1>1c. monitorCall'[c] # None
  <2>1. [Mon!NewCall("Clear", "sent") EXCEPT !.id = i] \in Mon!MonitorCall
    BY <1>1a, MonitorTyped, MonitorCallMade DEF Mon!Wanted
  <2> QED BY <1>1a, <2>1 DEF Mon!SendClear, Mon!NextCall, Mon!NewCall, MonitorTypeOK, Mon!TypeOK,
     Mon!At
<1>1d. /\ monitorCall'[c].action = "Clear" /\ monitorCall'[c].pc = "sent"
       /\ monitorCall'[c].id = i /\ i # None
       /\ monitorCall'[c].found = {}
  BY MonitorTyped, <1>1a DEF Mon!SendClear, Mon!NextCall, Mon!NewCall, Mon!MonitorCall,
     MonitorTypeOK, Mon!TypeOK, Mon!CallOver, Mon!At
<1>1e. /\ monitorRow' = monitorRow
       /\ monitorReport' = monitorReport
       /\ monitors' = monitors
       /\ doubtful' = doubtful
  BY DEF Mon!SendClear, Mon!NextCall, Mon!NewCall
<1> USE <1>1a, <1>1b, <1>1c, <1>1d, <1>1e
<1>2. /\ \A b \in Mon!MonitorCalls : \A w : Setting(b, w)' <=> Setting(b, w)
      /\ \A b \in Mon!MonitorCalls : Mon!Answered(b, "Clear")' <=> Mon!Answered(b, "Clear")
      /\ \A b \in Mon!MonitorCalls : Mon!Answered(b, "Base")' <=> Mon!Answered(b, "Base")
      /\ \A w : ~Setting(c, w) /\ ~Setting(c, w)'
      /\ ~Mon!Answered(c, "Clear") /\ ~Mon!Answered(c, "Base")
  BY MonitorOtherCalls DEF Setting, Mon!Open, Mon!Answered
<1>3. \A w : Mon!BeingSet(w)' <=> Mon!BeingSet(w)
  BY <1>2, MonitorSetting
<1> USE <1>2, <1>3, MonitorFrames, MonitorOtherCalls
<1>4. CallsMade'
  BY DEF CallsMade, CallMade
<1>5. ReportsMade'
  BY DEF ReportsMade
<1>6. OneAtATime'
  BY DEF OneAtATime
<1>7. OneMonitorRow'
  BY DEF OneMonitorRow
<1>8. RowIsThere'
  BY DEF RowIsThere
<1>9. ReportHolds'
  BY DEF ReportHolds
<1>10. SetHolds'
  BY DEF SetHolds, SetHeld
<1>11. ClearHolds'
  BY DEF ClearHolds, ClearHeld
<1>12. AcceptedRight'
  BY DEF AcceptedRight, ToBeRejected, Mon!At
<1>13. RejectedRight'
  BY DEF RejectedRight, ToBeReported
<1> QED BY <1>4, <1>5, <1>6, <1>7, <1>8, <1>9, <1>10, <1>11, <1>12, <1>13

LEMMA SendBaseStep ==
  ASSUME MonitorTypeOK, MonitorInv, MonitorTypeOK',
         NEW c \in Mon!MonitorCalls, Mon!SendBase(c)
  PROVE  MonitorInv'
<1> USE MonitorConstants DEF MonitorInv
<1>1a. monitorCall[c] = None
  BY MonitorTyped DEF Mon!SendBase, Mon!NextCall, Mon!NewCall, Mon!At, MonitorTypeOK, Mon!TypeOK
<1>1b. \A b \in Mon!MonitorCalls : b # c => monitorCall'[b] = monitorCall[b]
  BY DEF Mon!SendBase, Mon!NextCall, Mon!NewCall, MonitorTypeOK, Mon!TypeOK
<1>1c. monitorCall'[c] # None
  BY MonitorTyped, MonitorCallKept, MonitorCallMade, <1>1a, Zenon
    DEF Mon!SendBase, Mon!NextCall, Mon!NewCall, MonitorTypeOK, Mon!TypeOK, Mon!At
<1>1d. /\ monitorCall'[c].action = "Base" /\ monitorCall'[c].pc = "sent"
       /\ monitorCall'[c].found = {}
  BY MonitorTyped, <1>1a DEF Mon!SendBase, Mon!NextCall, Mon!NewCall, Mon!MonitorCall,
     MonitorTypeOK, Mon!TypeOK, Mon!CallOver, Mon!At
<1>1e. /\ monitorRow' = monitorRow
       /\ monitorReport' = monitorReport
       /\ monitors' = monitors
       /\ doubtful' = doubtful
  BY DEF Mon!SendBase, Mon!NextCall, Mon!NewCall
<1> USE <1>1a, <1>1b, <1>1c, <1>1d, <1>1e
<1>2. /\ \A b \in Mon!MonitorCalls : \A w : Setting(b, w)' <=> Setting(b, w)
      /\ \A b \in Mon!MonitorCalls : Mon!Answered(b, "Clear")' <=> Mon!Answered(b, "Clear")
      /\ \A b \in Mon!MonitorCalls : Mon!Answered(b, "Base")' <=> Mon!Answered(b, "Base")
      /\ \A w : ~Setting(c, w) /\ ~Setting(c, w)'
      /\ ~Mon!Answered(c, "Clear") /\ ~Mon!Answered(c, "Base")
  BY MonitorOtherCalls DEF Setting, Mon!Open, Mon!Answered
<1>3. \A w : Mon!BeingSet(w)' <=> Mon!BeingSet(w)
  BY <1>2, MonitorSetting
<1> USE <1>2, <1>3, MonitorFrames, MonitorOtherCalls
<1>4. CallsMade'
  BY DEF CallsMade, CallMade
<1>5. ReportsMade'
  BY DEF ReportsMade
<1>6. OneAtATime'
  BY DEF OneAtATime
<1>7. OneMonitorRow'
  BY DEF OneMonitorRow
<1>8. RowIsThere'
  BY DEF RowIsThere
<1>9. ReportHolds'
  BY DEF ReportHolds
<1>10. SetHolds'
  BY DEF SetHolds, SetHeld
<1>11. ClearHolds'
  BY DEF ClearHolds, ClearHeld
<1>12. AcceptedRight'
  BY DEF AcceptedRight, ToBeRejected, Mon!At
<1>13. RejectedRight'
  BY DEF RejectedRight, ToBeReported
<1> QED BY <1>4, <1>5, <1>6, <1>7, <1>8, <1>9, <1>10, <1>11, <1>12, <1>13

LEMMA AcceptSetStep ==
  ASSUME MonitorTypeOK, MonitorInv, MonitorTypeOK',
         NEW c \in Mon!MonitorCalls, NEW i \in Mon!MonitorIds, Mon!AcceptSet(c, i)
  PROVE  MonitorInv'
<1> USE MonitorConstants DEF MonitorInv
<1>1a. /\ monitorCall[c] # None /\ monitorCall[c].action = "Set" /\ monitorCall[c].pc = "sent"
       /\ Mon!Wanted(c) \in Monitors
       /\ monitorCall[c].variable \in Mon!Monitored
       /\ monitors[i] = None /\ \A j \in Mon!MonitorIds : monitors[j] # Mon!Wanted(c)
  <2>1. /\ monitorCall[c] # None /\ monitorCall[c].action = "Set" /\ monitorCall[c].pc = "sent"
        /\ monitors[i] = None /\ Mon!Wanted(c) \notin Mon!Range(monitors)
    BY DEF Mon!AcceptSet, Mon!CanSet, Mon!At
  <2>2. \A j \in Mon!MonitorIds : monitors[j] # Mon!Wanted(c)
    BY <2>1, MonitorRange
  <2>3. Mon!Wanted(c) \in Monitors
    BY <2>1 DEF CallsMade, CallMade
  <2>4. monitorCall[c].variable \in Mon!Monitored
    BY <2>3 DEF Mon!Wanted, Mon!MonitorOf, Mon!Monitored
  <2> QED BY <2>1, <2>2, <2>3, <2>4
<1>1b. \A b \in Mon!MonitorCalls : b # c => monitorCall'[b] = monitorCall[b]
  BY DEF Mon!AcceptSet, Mon!CanSet, MonitorTypeOK, Mon!TypeOK
<1>1c. monitorCall'[c] # None
  <2>1. [monitorCall[c] EXCEPT !.id = i, !.answer = "Accepted", !.pc = "answered"]
          \in Mon!MonitorCall
    BY <1>1a, MonitorTyped, MonitorCallKept, Zenon DEF Mon!Wanted
  <2> QED BY <1>1a, <2>1 DEF Mon!AcceptSet, Mon!CanSet, MonitorTypeOK, Mon!TypeOK, Mon!At
<1>1d. /\ monitorCall'[c].action = "Set" /\ monitorCall'[c].pc = "answered"
       /\ monitorCall'[c].variable = monitorCall[c].variable
       /\ monitorCall'[c].type = monitorCall[c].type
       /\ monitorCall'[c].found = monitorCall[c].found
       /\ monitorCall'[c].id = i /\ i # None
       /\ monitorCall'[c].answer = "Accepted"
  BY MonitorTyped, <1>1a DEF Mon!AcceptSet, Mon!CanSet, Mon!MonitorCall, MonitorTypeOK, Mon!TypeOK,
     Mon!NewCall, Mon!CallOver, Mon!At
<1>1e. /\ monitors'[i] = Mon!Wanted(c) /\ \A j \in Mon!MonitorIds : j # i => monitors'[j] = monitors[j]
       /\ doubtful \subseteq doubtful'
       /\ Mon!BeingCleared(i) => monitorCall[c].variable \in doubtful'
  BY MonitorTyped, MonitorOnStation, <1>1a DEF Mon!AcceptSet, Mon!CanSet, MonitorTypeOK, Mon!TypeOK
<1>1f. /\ monitorRow' = monitorRow
       /\ monitorReport' = monitorReport
  BY DEF Mon!AcceptSet, Mon!CanSet
<1> USE <1>1a, <1>1b, <1>1c, <1>1d, <1>1e, <1>1f
<1>2. /\ \A b \in Mon!MonitorCalls : \A w : Setting(b, w)' <=> Setting(b, w)
      /\ \A b \in Mon!MonitorCalls : Mon!Answered(b, "Clear")' <=> Mon!Answered(b, "Clear")
      /\ \A b \in Mon!MonitorCalls : Mon!Answered(b, "Base")' <=> Mon!Answered(b, "Base")
      /\ ~Mon!Answered(c, "Clear") /\ ~Mon!Answered(c, "Base")
      /\ ~Mon!Answered(c, "Clear")' /\ ~Mon!Answered(c, "Base")'
      /\ \A w : Setting(c, w) <=> w = monitorCall[c].variable
      /\ \A w : Setting(c, w)' <=> w = monitorCall[c].variable
  BY MonitorOtherCalls DEF Setting, Mon!Open, Mon!Answered
<1>3. \A b \in Mon!MonitorCalls : Mon!Wanted(b)' = Mon!Wanted(b)
  BY MonitorOtherCalls, MonitorTyped DEF Mon!Wanted, Mon!MonitorOf, Mon!Monitored, Mon!Range,
     Mon!TypeOK, MonitorTypeOK
<1>4. \A w : Mon!BeingSet(w)' <=> Mon!BeingSet(w)
  BY <1>2, MonitorSetting
<1>5. /\ \A q \in Mon!UsedRows : IsSet(q) => IsSet(q)'
      /\ \A q \in Mon!UsedRows : IsSet(q)' =>
           IsSet(q) \/ monitorRow[q].variable = monitorCall[c].variable
  BY MonitorRowsAlike, MonitorFrames, MonitorTyped
    DEF Mon!UsedRows, Mon!RowsOf, IsSet, Mon!MonitorOf, Mon!Wanted, Mon!MonitorRow
<1>6. /\ \A j \in Mon!MonitorIds : monitors[j] # None => j # i /\ monitors'[j] = monitors[j]
      /\ Mon!Wanted(c).variable = monitorCall[c].variable /\ Mon!Wanted(c) # None
      /\ Setting(c, monitorCall[c].variable)
  BY <1>2, MonitorAccepted
<1>7. RowIsThere'
  <2> SUFFICES ASSUME NEW w \in Mon!Monitored \ doubtful'
               PROVE  /\ \A j \in Mon!MonitorIds :
                           monitors'[j] # None /\ monitors'[j].variable = w => Mon!RowsOf(w) # {}
                      /\ \A b \in Mon!MonitorCalls :
                           Setting(b, w)' /\ monitorCall'[b].pc # "looked" => Mon!RowsOf(w) # {}
    BY MonitorFrames DEF RowIsThere
  <2>1. ASSUME NEW b \in Mon!MonitorCalls, Setting(b, w)', monitorCall'[b].pc # "looked"
        PROVE  Mon!RowsOf(w) # {}
    BY <1>2, <2>1 DEF RowIsThere
  <2>2. ASSUME NEW j \in Mon!MonitorIds, monitors'[j] # None, monitors'[j].variable = w
        PROVE  Mon!RowsOf(w) # {}
    <3>1. CASE j = i
      BY <1>2, <1>6, <2>1, <2>2, <3>1
    <3>2. CASE j # i
      BY <2>2, <3>2 DEF RowIsThere
    <3> QED BY <3>1, <3>2
  <2> QED BY <2>1, <2>2
<1>8. ReportHolds'
  BY <1>6, MonitorKept
<1>9. SetHolds'
  <2> SUFFICES ASSUME NEW w \in Mon!Monitored \ doubtful', NEW b \in Mon!MonitorCalls, Setting(b, w)'
               PROVE  SetHeld(b, w)'
    BY DEF SetHolds
  <2>1. Setting(b, w) /\ SetHeld(b, w)
    BY <1>2 DEF SetHolds
  <2>2. CASE b = c
    BY <1>3, <2>1, <2>2, MonitorFrames DEF SetHeld
  <2>3. CASE b # c
    <3>1. w # monitorCall[c].variable /\ Mon!Wanted(b).variable = w
      BY <1>6, <2>1, <2>3, MonitorAccepted DEF OneAtATime
    <3>2. monitorCall'[b] = monitorCall[b] /\ Mon!Wanted(b)' = Mon!Wanted(b)
      BY <1>3, <2>3
    <3>3. monitorCall[b].answer = "Accepted" => monitors'[monitorCall[b].id] = Mon!Wanted(b)
      BY <1>6, <2>1, MonitorKept
    <3>4. monitorCall[b].answer = "Rejected" => \A j \in Mon!MonitorIds : monitors'[j] # Mon!Wanted(b)
      BY <1>6, <2>1, <3>1 DEF SetHeld
    <3> QED BY <2>1, <3>2, <3>3, <3>4, MonitorFrames DEF SetHeld
  <2> QED BY <2>2, <2>3
<1>10. ClearHolds'
  <2> SUFFICES ASSUME NEW w \in Mon!Monitored \ doubtful', NEW b \in Mon!MonitorCalls,
                      Mon!Answered(b, "Clear")'
               PROVE  ClearHeld(b, w)'
    BY DEF ClearHolds
  <2>1. Mon!Answered(b, "Clear") /\ b # c /\ ClearHeld(b, w)
    BY <1>2 DEF ClearHolds
  <2>2. monitorCall[b].id \in Mon!MonitorIds
    BY <2>1, MonitorAccepted
  <2>3. monitorCall[b].id = i => w # monitorCall[c].variable
    BY <2>1 DEF Mon!BeingCleared
  <2>4. monitors'[monitorCall[b].id] # None => monitors'[monitorCall[b].id].variable # w
    BY <1>6, <2>1, <2>2, <2>3 DEF ClearHeld
  <2> QED BY <1>4, <2>1, <2>4, MonitorFrames DEF ClearHeld
<1> USE <1>2, <1>3, <1>4, <1>5, MonitorFrames, MonitorOtherCalls
<1>11. CallsMade'
  BY DEF CallsMade, CallMade
<1>12. ReportsMade'
  BY DEF ReportsMade
<1>13. OneAtATime'
  BY DEF OneAtATime
<1>14. OneMonitorRow'
  BY DEF OneMonitorRow
<1>15. AcceptedRight'
  <2> SUFFICES ASSUME NEW w \in Mon!Monitored \ doubtful', NEW q \in Mon!RowsOf(w)',
                      monitorRow'[q].status = "Accepted", ~Mon!BeingSet(w)'
               PROVE  IsSet(q)' \/ \E b \in Mon!MonitorCalls : ToBeRejected(b, q)'
    BY DEF AcceptedRight
  <2> QED BY MonitorSetting, MonitorRowsOf DEF AcceptedRight, ToBeRejected, Mon!At
<1>16. RejectedRight'
  <2> SUFFICES ASSUME NEW w \in Mon!Monitored \ doubtful', NEW q \in Mon!RowsOf(w)',
                      monitorRow'[q].status = "Rejected", ~Mon!BeingSet(w)', ~Mon!BeingReported(w)'
               PROVE  ~IsSet(q)' \/ \E b \in Mon!MonitorCalls : ToBeReported(b)'
    BY DEF RejectedRight
  <2> QED BY MonitorSetting, MonitorRowsOf DEF RejectedRight, ToBeReported
<1> QED BY <1>11, <1>12, <1>13, <1>14, <1>7, <1>8, <1>9, <1>10, <1>15, <1>16

LEMMA RefuseSetStep ==
  ASSUME MonitorTypeOK, MonitorInv, MonitorTypeOK',
         NEW c \in Mon!MonitorCalls, Mon!RefuseSet(c)
  PROVE  MonitorInv'
<1> USE MonitorConstants DEF MonitorInv
<1>1a. /\ monitorCall[c] # None /\ monitorCall[c].action = "Set" /\ monitorCall[c].pc = "sent"
       /\ Mon!Wanted(c) \notin Mon!Range(monitors) => \A i \in Mon!MonitorIds : monitors[i] # Mon!Wanted(c)
  BY MonitorRange DEF Mon!RefuseSet, Mon!At
<1>1b. \A b \in Mon!MonitorCalls : b # c => monitorCall'[b] = monitorCall[b]
  BY DEF Mon!RefuseSet, Mon!Answer, MonitorTypeOK, Mon!TypeOK
<1>1c. monitorCall'[c] # None
  <2>1. \A a \in {"Rejected", "Duplicate"} :
           [monitorCall[c] EXCEPT !.answer = a, !.pc = "answered"] \in Mon!MonitorCall
    BY <1>1a, MonitorTyped, MonitorCallKept, Zenon DEF Mon!Wanted
  <2> QED BY <1>1a, <2>1 DEF Mon!RefuseSet, Mon!Answer, MonitorTypeOK, Mon!TypeOK, Mon!At
<1>1d. /\ monitorCall'[c].action = "Set" /\ monitorCall'[c].pc = "answered"
       /\ monitorCall'[c].variable = monitorCall[c].variable
       /\ monitorCall'[c].type = monitorCall[c].type
       /\ monitorCall'[c].found = monitorCall[c].found
       /\ monitorCall'[c].id = monitorCall[c].id
       /\ monitorCall'[c].answer =
            IF Mon!Wanted(c) \in Mon!Range(monitors) THEN "Duplicate" ELSE "Rejected"
  BY MonitorTyped, <1>1a DEF Mon!RefuseSet, Mon!Answer, Mon!MonitorCall, MonitorTypeOK, Mon!TypeOK,
     Mon!NewCall, Mon!CallOver, Mon!At
<1>1e. /\ monitorRow' = monitorRow
       /\ monitorReport' = monitorReport
       /\ monitors' = monitors
       /\ doubtful' = doubtful
  BY DEF Mon!RefuseSet, Mon!Answer
<1> USE <1>1a, <1>1b, <1>1c, <1>1d, <1>1e
<1>2. /\ \A b \in Mon!MonitorCalls : \A w : Setting(b, w)' <=> Setting(b, w)
      /\ \A b \in Mon!MonitorCalls : Mon!Answered(b, "Clear")' <=> Mon!Answered(b, "Clear")
      /\ \A b \in Mon!MonitorCalls : Mon!Answered(b, "Base")' <=> Mon!Answered(b, "Base")
      /\ ~Mon!Answered(c, "Clear") /\ ~Mon!Answered(c, "Base")
      /\ ~Mon!Answered(c, "Clear")' /\ ~Mon!Answered(c, "Base")'
      /\ \A w : Setting(c, w) <=> w = monitorCall[c].variable
      /\ \A w : Setting(c, w)' <=> w = monitorCall[c].variable
  BY MonitorOtherCalls DEF Setting, Mon!Open, Mon!Answered
<1>3. /\ \A b \in Mon!MonitorCalls : Mon!Wanted(b)' = Mon!Wanted(b)
      /\ monitorCall'[c].answer = "Rejected" => \A i \in Mon!MonitorIds : monitors[i] # Mon!Wanted(c)
  BY MonitorOtherCalls, MonitorTyped DEF Mon!Wanted, Mon!MonitorOf, Mon!Monitored, Mon!Range,
     Mon!TypeOK, MonitorTypeOK
<1>4. \A w : Mon!BeingSet(w)' <=> Mon!BeingSet(w)
  BY <1>2, MonitorSetting
<1> USE <1>2, <1>3, <1>4, MonitorFrames, MonitorOtherCalls
<1>5. CallsMade'
  BY DEF CallsMade, CallMade
<1>6. ReportsMade'
  BY DEF ReportsMade
<1>7. OneAtATime'
  BY DEF OneAtATime
<1>8. OneMonitorRow'
  BY DEF OneMonitorRow
<1>9. RowIsThere'
  BY DEF RowIsThere
<1>10. ReportHolds'
  BY DEF ReportHolds
<1>11. SetHolds'
  BY DEF SetHolds, SetHeld
<1>12. ClearHolds'
  BY DEF ClearHolds, ClearHeld
<1>13. AcceptedRight'
  BY DEF AcceptedRight, ToBeRejected, Mon!At
<1>14. RejectedRight'
  BY DEF RejectedRight, ToBeReported
<1> QED BY <1>5, <1>6, <1>7, <1>8, <1>9, <1>10, <1>11, <1>12, <1>13, <1>14

LEMMA AcceptClearStep ==
  ASSUME MonitorTypeOK, MonitorInv, MonitorTypeOK',
         NEW c \in Mon!MonitorCalls, Mon!AcceptClear(c)
  PROVE  MonitorInv'
<1> USE MonitorConstants DEF MonitorInv
<1>1. /\ monitorCall[c] # None /\ monitorCall[c].action = "Clear" /\ monitorCall[c].pc = "sent"
      /\ \A b \in Mon!MonitorCalls : b # c => monitorCall'[b] = monitorCall[b]
      /\ monitorCall'[c] # None
      /\ monitorCall'[c].action = "Clear" /\ monitorCall'[c].pc = "answered"
      /\ monitorCall'[c].id = monitorCall[c].id
      /\ monitorCall'[c].found = monitorCall[c].found
      /\ monitorCall[c].id \in Mon!MonitorIds
      /\ \A i \in Mon!MonitorIds :
           monitors'[i] = IF i \in {monitorCall[c].id} THEN None ELSE monitors[i]
      /\ doubtful \subseteq doubtful'
      /\ \A i \in {monitorCall[c].id} : monitors[i] # None /\ Mon!BeingAccepted(i) =>
           monitors[i].variable \in doubtful'
      /\ \A v \in Mon!Monitored : \A r \in Mon!RowsOf(v) :
           (Mon!BeingSet(v) \/ Mon!BeingReported(v)) /\ monitorRow[r].id = monitorCall[c].id =>
             v \in doubtful'
      /\ monitorRow' = monitorRow
      /\ monitorReport' = monitorReport
  <2>1. /\ monitorCall[c] # None /\ monitorCall[c].action = "Clear" /\ monitorCall[c].pc = "sent"
        /\ monitorCall[c].id \in Mon!MonitorIds
    BY MonitorTyped DEF Mon!AcceptClear, Mon!Answer, Mon!Remove, Mon!At, MonitorTypeOK, Mon!TypeOK,
       CallsMade, CallMade, Mon!MonitorCall, Mon!MonitorReport
  <2>2. \A b \in Mon!MonitorCalls : b # c => monitorCall'[b] = monitorCall[b]
    BY DEF Mon!AcceptClear, Mon!Answer, Mon!Remove, MonitorTypeOK, Mon!TypeOK
  <2>3. monitorCall'[c] # None
    <3>1. [monitorCall[c] EXCEPT !.answer = "Accepted", !.pc = "answered"] \in Mon!MonitorCall
      BY <2>1, MonitorTyped, MonitorCallKept, Zenon DEF Mon!Wanted
    <3> QED BY <2>1, <3>1 DEF Mon!AcceptClear, Mon!Answer, Mon!Remove, MonitorTypeOK, Mon!TypeOK,
       Mon!At
  <2>4. /\ monitorCall'[c].action = "Clear" /\ monitorCall'[c].pc = "answered"
        /\ monitorCall'[c].id = monitorCall[c].id
        /\ monitorCall'[c].found = monitorCall[c].found
    BY MonitorTyped, <2>1 DEF Mon!AcceptClear, Mon!Answer, Mon!Remove, Mon!MonitorCall,
       MonitorTypeOK, Mon!TypeOK, Mon!NewCall, Mon!CallOver, Mon!At
  <2>5. /\ \A i \in Mon!MonitorIds :
             monitors'[i] = IF i \in {monitorCall[c].id} THEN None ELSE monitors[i]
        /\ doubtful \subseteq doubtful'
        /\ \A i \in {monitorCall[c].id} : monitors[i] # None /\ Mon!BeingAccepted(i) =>
             monitors[i].variable \in doubtful'
        /\ \A v \in Mon!Monitored : \A r \in Mon!RowsOf(v) :
             (Mon!BeingSet(v) \/ Mon!BeingReported(v)) /\ monitorRow[r].id = monitorCall[c].id =>
               v \in doubtful'
    BY MonitorTyped, MonitorOnStation, <2>1
      DEF Mon!AcceptClear, Mon!Answer, Mon!Remove, MonitorTypeOK, Mon!TypeOK
  <2>6. /\ monitorRow' = monitorRow
        /\ monitorReport' = monitorReport
    BY DEF Mon!AcceptClear, Mon!Answer, Mon!Remove
  <2> QED BY <2>1, <2>2, <2>3, <2>4, <2>5, <2>6
<1>2. /\ \A b \in Mon!MonitorCalls : \A w : Setting(b, w)' <=> Setting(b, w)
      /\ \A w : ~Setting(c, w) /\ ~Setting(c, w)'
      /\ ~Mon!Answered(c, "Clear") /\ ~Mon!Answered(c, "Base")
      /\ \A b \in Mon!MonitorCalls : Mon!Answered(b, "Clear")' <=> Mon!Answered(b, "Clear") \/ b = c
      /\ \A b \in Mon!MonitorCalls : Mon!Answered(b, "Base")' <=> Mon!Answered(b, "Base")
  BY <1>1, MonitorOtherCalls DEF Setting, Mon!Open, Mon!Answered
<1>3. \A b \in Mon!MonitorCalls : b # c => Mon!Wanted(b)' = Mon!Wanted(b)
  BY <1>1, MonitorOtherCalls, MonitorTyped DEF Mon!Wanted, Mon!MonitorOf, Mon!Monitored, Mon!Range,
     Mon!TypeOK, MonitorTypeOK
<1>4. \A w : Mon!BeingSet(w)' <=> Mon!BeingSet(w)
  BY <1>1, <1>2, MonitorSetting
<1>5. /\ \A j \in Mon!MonitorIds : monitors'[j] = monitors[j] \/ monitors'[j] = None
      /\ \A j \in Mon!MonitorIds :
           Mon!BeingAccepted(j) /\ monitors[j] # None /\ monitors[j].variable \notin doubtful' =>
           monitors'[j] = monitors[j]
  BY <1>1
<1>6. ReportHolds'
  BY <1>1, <1>5, MonitorKept
<1>7. SetHolds'
  <2> SUFFICES ASSUME NEW w \in Mon!Monitored \ doubtful', NEW b \in Mon!MonitorCalls, Setting(b, w)'
               PROVE  SetHeld(b, w)'
    BY DEF SetHolds
  <2>1. Setting(b, w) /\ b # c /\ SetHeld(b, w)
    BY <1>1, <1>2 DEF SetHolds
  <2>2. monitorCall'[b] = monitorCall[b] /\ Mon!Wanted(b)' = Mon!Wanted(b) /\ Mon!Wanted(b) # None
    BY <1>1, <2>1, MonitorOtherCalls, MonitorAccepted
  <2>3. monitorCall[b].answer = "Accepted" => monitors'[monitorCall[b].id] = Mon!Wanted(b)
    BY <1>1, <1>5, <2>1, MonitorKept
  <2>4. monitorCall[b].answer = "Rejected" => \A j \in Mon!MonitorIds : monitors'[j] # Mon!Wanted(b)
    BY <1>5, <2>1, <2>2 DEF SetHeld
  <2> QED BY <1>1, <2>1, <2>2, <2>3, <2>4, MonitorFrames DEF SetHeld
<1>8. ClearHolds'
  <2> SUFFICES ASSUME NEW w \in Mon!Monitored \ doubtful', NEW b \in Mon!MonitorCalls,
                      Mon!Answered(b, "Clear")'
               PROVE  ClearHeld(b, w)'
    BY DEF ClearHolds
  <2>1. CASE b = c
    <3>1. monitors'[monitorCall[c].id] = None /\ monitorCall[c].found = {}
      BY <1>1 DEF CallsMade, CallMade
    <3> QED BY <1>1, <1>4, <2>1, <3>1, MonitorFrames DEF ClearHeld
  <2>2. CASE b # c
    <3>1. Mon!Answered(b, "Clear") /\ ClearHeld(b, w) /\ monitorCall'[b] = monitorCall[b]
      BY <1>1, <1>2, <2>2 DEF ClearHolds
    <3>2. monitors'[monitorCall[b].id] # None => monitors'[monitorCall[b].id].variable # w
      BY <1>5, <3>1, MonitorAccepted DEF ClearHeld
    <3> QED BY <1>1, <1>4, <3>1, <3>2, MonitorFrames DEF ClearHeld
  <2> QED BY <2>1, <2>2
<1>9. AcceptedRight'
  <2> SUFFICES ASSUME NEW w \in Mon!Monitored \ doubtful', NEW q \in Mon!RowsOf(w)',
                      monitorRow'[q].status = "Accepted", ~Mon!BeingSet(w)'
               PROVE  IsSet(q)' \/ \E b \in Mon!MonitorCalls : ToBeRejected(b, q)'
    BY DEF AcceptedRight
  <2>1. q \in Mon!RowsOf(w) /\ monitorRow[q].status = "Accepted" /\ ~Mon!BeingSet(w)
    BY <1>1, <1>4, MonitorFrames
  <2>2. CASE IsSet(q)
    <3>1. CASE monitorRow[q].id = monitorCall[c].id
      BY <1>1, <3>1 DEF ToBeRejected, Mon!At
    <3>2. CASE monitorRow[q].id # monitorCall[c].id
      BY <1>1, <2>1, <2>2, <3>2, MonitorAccepted, MonitorRowsOf DEF IsSet, Mon!MonitorOf
    <3> QED BY <3>1, <3>2
  <2>3. ASSUME NEW b \in Mon!MonitorCalls, ToBeRejected(b, q)
        PROVE  ToBeRejected(b, q)'
    BY <1>1, <2>3 DEF ToBeRejected, Mon!At
  <2> QED BY <1>1, <2>1, <2>2, <2>3 DEF AcceptedRight
<1>10. RejectedRight'
  <2> SUFFICES ASSUME NEW w \in Mon!Monitored \ doubtful', NEW q \in Mon!RowsOf(w)',
                      monitorRow'[q].status = "Rejected", ~Mon!BeingSet(w)', ~Mon!BeingReported(w)',
                          IsSet(q)'
               PROVE  \E b \in Mon!MonitorCalls : ToBeReported(b)'
    BY DEF RejectedRight
  <2>1. /\ q \in Mon!RowsOf(w) /\ monitorRow[q].status = "Rejected"
        /\ ~Mon!BeingSet(w) /\ ~Mon!BeingReported(w)
    BY <1>1, <1>4, MonitorFrames
  <2>2. IsSet(q)
    BY <1>1, <1>5, <2>1, MonitorAccepted, MonitorRowsOf DEF IsSet, Mon!MonitorOf
  <2>3. PICK b \in Mon!MonitorCalls : ToBeReported(b)
    BY <1>1, <2>1, <2>2 DEF RejectedRight
  <2> QED BY <1>1, <1>2, <2>3 DEF ToBeReported
<1> USE <1>1, <1>2, <1>3, <1>4, MonitorFrames, MonitorOtherCalls
<1>11. CallsMade'
  BY DEF CallsMade, CallMade
<1>12. ReportsMade'
  BY DEF ReportsMade
<1>13. OneAtATime'
  BY DEF OneAtATime
<1>14. OneMonitorRow'
  BY DEF OneMonitorRow
<1>15. RowIsThere'
  BY DEF RowIsThere
<1> QED BY <1>11, <1>12, <1>13, <1>14, <1>15, <1>6, <1>7, <1>8, <1>9, <1>10

LEMMA AcceptBaseStep ==
  ASSUME MonitorTypeOK, MonitorInv, MonitorTypeOK',
         NEW c \in Mon!MonitorCalls, NEW ids \in SUBSET Mon!MonitorIds, Mon!AcceptBase(c, ids)
  PROVE  MonitorInv'
<1> USE MonitorConstants DEF MonitorInv
<1>1a. monitorCall[c] # None /\ monitorCall[c].action = "Base" /\ monitorCall[c].pc = "sent"
  BY MonitorTyped DEF Mon!AcceptBase, Mon!Answer, Mon!Remove, Mon!At, MonitorTypeOK, Mon!TypeOK
<1>1b. \A b \in Mon!MonitorCalls : b # c => monitorCall'[b] = monitorCall[b]
  BY DEF Mon!AcceptBase, Mon!Answer, Mon!Remove, MonitorTypeOK, Mon!TypeOK
<1>1c. monitorCall'[c] # None
  <2>1. [monitorCall[c] EXCEPT !.answer = "Accepted", !.pc = "answered"] \in Mon!MonitorCall
    BY <1>1a, MonitorTyped, MonitorCallKept, Zenon DEF Mon!Wanted
  <2> QED BY <1>1a, <2>1 DEF Mon!AcceptBase, Mon!Answer, Mon!Remove, MonitorTypeOK, Mon!TypeOK,
     Mon!At
<1>1d. /\ monitorCall'[c].action = "Base" /\ monitorCall'[c].pc = "answered"
       /\ monitorCall'[c].found = monitorCall[c].found
  BY MonitorTyped, <1>1a DEF Mon!AcceptBase, Mon!Answer, Mon!Remove, Mon!MonitorCall, MonitorTypeOK,
     Mon!TypeOK, Mon!NewCall, Mon!CallOver, Mon!At
<1>1e. /\ \A i \in Mon!MonitorIds : monitors'[i] = IF i \in ids THEN None ELSE monitors[i]
       /\ doubtful \subseteq doubtful'
       /\ \A i \in ids : monitors[i] # None /\ Mon!BeingAccepted(i) =>
            monitors[i].variable \in doubtful'
  BY MonitorTyped, MonitorOnStation, <1>1a
    DEF Mon!AcceptBase, Mon!Answer, Mon!Remove, MonitorTypeOK, Mon!TypeOK
<1>1f. /\ monitorRow' = monitorRow
       /\ monitorReport' = monitorReport
  BY DEF Mon!AcceptBase, Mon!Answer, Mon!Remove
<1> USE <1>1a, <1>1b, <1>1c, <1>1d, <1>1e, <1>1f
<1>2. /\ \A b \in Mon!MonitorCalls : \A w : Setting(b, w)' <=> Setting(b, w)
      /\ \A w : ~Setting(c, w) /\ ~Setting(c, w)'
      /\ ~Mon!Answered(c, "Clear") /\ ~Mon!Answered(c, "Base")
      /\ \A b \in Mon!MonitorCalls : Mon!Answered(b, "Clear")' <=> Mon!Answered(b, "Clear")
      /\ Mon!Answered(c, "Base")'
  BY MonitorOtherCalls DEF Setting, Mon!Open, Mon!Answered
<1>3. \A w : Mon!BeingSet(w)' <=> Mon!BeingSet(w)
  BY <1>2, MonitorSetting
<1>4. /\ \A j \in Mon!MonitorIds : monitors'[j] = monitors[j] \/ monitors'[j] = None
      /\ \A j \in Mon!MonitorIds :
           Mon!BeingAccepted(j) /\ monitors[j] # None /\ monitors[j].variable \notin doubtful' =>
           monitors'[j] = monitors[j]
  OBVIOUS
<1>5. ReportHolds'
  BY <1>4, MonitorKept
<1>6. SetHolds'
  <2> SUFFICES ASSUME NEW w \in Mon!Monitored \ doubtful', NEW b \in Mon!MonitorCalls, Setting(b, w)'
               PROVE  SetHeld(b, w)'
    BY DEF SetHolds
  <2>1. Setting(b, w) /\ b # c /\ SetHeld(b, w)
    BY <1>2 DEF SetHolds
  <2>2. monitorCall'[b] = monitorCall[b] /\ Mon!Wanted(b)' = Mon!Wanted(b) /\ Mon!Wanted(b) # None
    BY <2>1, MonitorOtherCalls, MonitorAccepted
  <2>3. monitorCall[b].answer = "Accepted" => monitors'[monitorCall[b].id] = Mon!Wanted(b)
    BY <1>4, <2>1, MonitorKept
  <2>4. monitorCall[b].answer = "Rejected" => \A j \in Mon!MonitorIds : monitors'[j] # Mon!Wanted(b)
    BY <1>4, <2>1, <2>2 DEF SetHeld
  <2> QED BY <2>1, <2>2, <2>3, <2>4, MonitorFrames DEF SetHeld
<1>7. ClearHolds'
  <2> SUFFICES ASSUME NEW w \in Mon!Monitored \ doubtful', NEW b \in Mon!MonitorCalls,
                      Mon!Answered(b, "Clear")'
               PROVE  ClearHeld(b, w)'
    BY DEF ClearHolds
  <2>1. Mon!Answered(b, "Clear") /\ b # c /\ ClearHeld(b, w)
    BY <1>2 DEF ClearHolds
  <2>2. monitors'[monitorCall[b].id] # None => monitors'[monitorCall[b].id].variable # w
    BY <1>4, <2>1, MonitorAccepted DEF ClearHeld
  <2> QED BY <1>3, <2>1, <2>2, MonitorFrames DEF ClearHeld
<1> USE <1>2, <1>3, MonitorFrames, MonitorOtherCalls
<1>8. CallsMade'
  BY DEF CallsMade, CallMade
<1>9. ReportsMade'
  BY DEF ReportsMade
<1>10. OneAtATime'
  BY DEF OneAtATime
<1>11. OneMonitorRow'
  BY DEF OneMonitorRow
<1>12. RowIsThere'
  BY DEF RowIsThere
<1>13. AcceptedRight'
  BY DEF AcceptedRight, ToBeRejected, Mon!At
<1>14. RejectedRight'
  BY DEF RejectedRight, ToBeReported
<1> QED BY <1>8, <1>9, <1>10, <1>11, <1>12, <1>5, <1>6, <1>7, <1>13, <1>14

LEMMA RefuseStep ==
  ASSUME MonitorTypeOK, MonitorInv, MonitorTypeOK',
         NEW c \in Mon!MonitorCalls, Mon!Refuse(c)
  PROVE  MonitorInv'
<1> USE MonitorConstants DEF MonitorInv
<1>1a. monitorCall[c] # None /\ monitorCall[c].action # "Set" /\ monitorCall[c].pc = "sent"
  BY MonitorTyped DEF Mon!Refuse, Mon!At, MonitorTypeOK, Mon!TypeOK
<1>1b. \A b \in Mon!MonitorCalls : b # c => monitorCall'[b] = monitorCall[b]
  BY DEF Mon!Refuse, MonitorTypeOK, Mon!TypeOK
<1>1c. monitorCall'[c] # None
  BY MonitorTyped, MonitorCallKept, MonitorCallMade, <1>1a, Zenon
    DEF Mon!Refuse, MonitorTypeOK, Mon!TypeOK, Mon!At
<1>1d. /\ monitorCall'[c].action = "Base" /\ monitorCall'[c].pc = "over"
       /\ monitorCall'[c].found = {}
  BY MonitorTyped, <1>1a DEF Mon!Refuse, Mon!MonitorCall, MonitorTypeOK, Mon!TypeOK, Mon!NewCall,
     Mon!CallOver, Mon!At
<1>1e. /\ monitorRow' = monitorRow
       /\ monitorReport' = monitorReport
       /\ monitors' = monitors
       /\ doubtful' = doubtful
  BY DEF Mon!Refuse
<1> USE <1>1a, <1>1b, <1>1c, <1>1d, <1>1e
<1>2. /\ \A b \in Mon!MonitorCalls : \A w : Setting(b, w)' <=> Setting(b, w)
      /\ \A w : ~Setting(c, w) /\ ~Setting(c, w)'
      /\ ~Mon!Answered(c, "Clear") /\ ~Mon!Answered(c, "Base")
      /\ ~Mon!Answered(c, "Clear")' /\ ~Mon!Answered(c, "Base")'
      /\ \A b \in Mon!MonitorCalls : Mon!Answered(b, "Clear")' <=> Mon!Answered(b, "Clear")
      /\ \A b \in Mon!MonitorCalls : Mon!Answered(b, "Base")' <=> Mon!Answered(b, "Base")
  BY MonitorOtherCalls DEF Setting, Mon!Open, Mon!Answered
<1>3. \A w : Mon!BeingSet(w)' <=> Mon!BeingSet(w)
  BY <1>2, MonitorSetting
<1> USE <1>2, <1>3, MonitorFrames, MonitorOtherCalls
<1>4. CallsMade'
  BY DEF CallsMade, CallMade
<1>5. ReportsMade'
  BY DEF ReportsMade
<1>6. OneAtATime'
  BY DEF OneAtATime
<1>7. OneMonitorRow'
  BY DEF OneMonitorRow
<1>8. RowIsThere'
  BY DEF RowIsThere
<1>9. ReportHolds'
  BY DEF ReportHolds
<1>10. SetHolds'
  BY DEF SetHolds, SetHeld
<1>11. ClearHolds'
  BY DEF ClearHolds, ClearHeld
<1>12. AcceptedRight'
  BY DEF AcceptedRight, ToBeRejected, Mon!At
<1>13. RejectedRight'
  BY DEF RejectedRight, ToBeReported
<1> QED BY <1>4, <1>5, <1>6, <1>7, <1>8, <1>9, <1>10, <1>11, <1>12, <1>13

LEMMA AnswerLostStep ==
  ASSUME MonitorTypeOK, MonitorInv, MonitorTypeOK',
         NEW c \in Mon!MonitorCalls, Mon!AnswerLost(c)
  PROVE  MonitorInv'
<1> USE MonitorConstants DEF MonitorInv
<1>1. PICK after \in {monitors} \union Mon!Done(c) :
        /\ monitors' = after
        /\ doubtful' = doubtful \union ({monitorCall[c].variable} \ {None})
             \union {m.variable : m \in {n \in Mon!OnStation : after[n.id] = None}}
  BY DEF Mon!AnswerLost
<1>2. /\ monitorCall[c] # None /\ monitorCall[c].pc = "sent"
      /\ \A b \in Mon!MonitorCalls : b # c => monitorCall'[b] = monitorCall[b]
      /\ monitorCall'[c] # None
      /\ monitorCall'[c].action = "Base" /\ monitorCall'[c].pc = "over"
      /\ monitorCall'[c].found = {}
      /\ doubtful \subseteq doubtful'
      /\ monitorCall[c].action = "Set" => monitorCall[c].variable \in doubtful'
      /\ \A i \in Mon!MonitorIds : monitors[i] # None /\ monitors[i].variable \notin doubtful' =>
           monitors'[i] = monitors[i]
      /\ \A i \in Mon!MonitorIds :
           monitors'[i] # None /\ monitors'[i].variable \notin doubtful' =>
             monitors'[i] = monitors[i]
      /\ monitorRow' = monitorRow
      /\ monitorReport' = monitorReport
  <2>1. monitorCall[c] # None /\ monitorCall[c].pc = "sent"
    BY <1>1, MonitorTyped DEF Mon!AnswerLost, Mon!Done, Mon!At, MonitorTypeOK, Mon!TypeOK
  <2>2. \A b \in Mon!MonitorCalls : b # c => monitorCall'[b] = monitorCall[b]
    BY <1>1 DEF Mon!AnswerLost, Mon!Done, MonitorTypeOK, Mon!TypeOK
  <2>3. monitorCall'[c] # None
    BY <1>1, MonitorTyped, MonitorCallKept, MonitorCallMade, <2>1, Zenon
      DEF Mon!AnswerLost, Mon!Done, MonitorTypeOK, Mon!TypeOK, Mon!At
  <2>4. /\ monitorCall'[c].action = "Base" /\ monitorCall'[c].pc = "over"
        /\ monitorCall'[c].found = {}
    BY <1>1, MonitorTyped, <2>1 DEF Mon!AnswerLost, Mon!Done, Mon!MonitorCall, MonitorTypeOK,
       Mon!TypeOK, Mon!NewCall, Mon!CallOver, Mon!At
  <2>5. /\ doubtful \subseteq doubtful'
        /\ monitorCall[c].action = "Set" => monitorCall[c].variable \in doubtful'
        /\ \A i \in Mon!MonitorIds :
             monitors[i] # None /\ monitors[i].variable \notin doubtful' =>
               monitors'[i] = monitors[i]
        /\ \A i \in Mon!MonitorIds :
             monitors'[i] # None /\ monitors'[i].variable \notin doubtful' =>
               monitors'[i] = monitors[i]
    <3>1. /\ doubtful \subseteq doubtful'
          /\ \A m \in Mon!OnStation : monitors'[m.id] = None => m.variable \in doubtful'
      BY <1>1
    <3>2. monitorCall[c].action = "Set" => /\ monitorCall[c].variable \in doubtful'
                                           /\ Mon!Wanted(c).variable = monitorCall[c].variable
      <4>1. monitorCall[c].action = "Set" => Mon!Wanted(c) \in Monitors
        BY <2>1 DEF CallsMade, CallMade
      <4>2. monitorCall[c].action = "Set" => monitorCall[c].variable \in Mon!Monitored
        BY <4>1 DEF Mon!Wanted, Mon!MonitorOf, Mon!Monitored
      <4> QED BY <1>1, <4>2 DEF Mon!Wanted, Mon!MonitorOf
    <3>3. monitorCall[c].action \in {"Set", "Clear", "Base"}
      BY DEF Mon!AnswerLost, Mon!At
    <3>4. \A i \in Mon!MonitorIds :
            \/ monitors'[i] = monitors[i] \/ monitors'[i] = None
            \/ monitorCall[c].action = "Set" /\ monitors[i] = None /\ monitors'[i] = Mon!Wanted(c)
      BY <1>1, <3>3 DEF Mon!Done, Mon!CanSet, MonitorTypeOK, Mon!TypeOK
    <3>5. \A i \in Mon!MonitorIds : monitors[i] # None /\ monitors'[i] = None =>
             monitors[i].variable \in doubtful'
      BY <3>1, MonitorOnStation
    <3> QED BY <3>1, <3>2, <3>4, <3>5
  <2>6. /\ monitorRow' = monitorRow
        /\ monitorReport' = monitorReport
    BY <1>1 DEF Mon!AnswerLost, Mon!Done
  <2> QED BY <2>1, <2>2, <2>3, <2>4, <2>5, <2>6
<1>3. /\ \A b \in Mon!MonitorCalls : \A w : Setting(b, w)' <=> Setting(b, w) /\ b # c
      /\ \A w : Setting(c, w) => w \in doubtful'
      /\ ~Mon!Answered(c, "Clear") /\ ~Mon!Answered(c, "Base")
      /\ \A w : ~Setting(c, w)'
      /\ ~Mon!Answered(c, "Clear")' /\ ~Mon!Answered(c, "Base")'
      /\ \A b \in Mon!MonitorCalls : Mon!Answered(b, "Clear")' <=> Mon!Answered(b, "Clear")
      /\ \A b \in Mon!MonitorCalls : Mon!Answered(b, "Base")' <=> Mon!Answered(b, "Base")
  BY <1>2, MonitorOtherCalls DEF Setting, Mon!Open, Mon!Answered
<1>4. \A w : w \notin doubtful' => (Mon!BeingSet(w)' <=> Mon!BeingSet(w))
  BY <1>2, <1>3, MonitorSetting
<1>5. /\ \A j \in Mon!MonitorIds :
          monitors[j] # None /\ monitors[j].variable \notin doubtful' =>
            monitors'[j] = monitors[j]
      /\ \A j \in Mon!MonitorIds :
           monitors'[j] # None /\ monitors'[j].variable \notin doubtful' =>
             monitors'[j] = monitors[j]
  BY <1>2
<1>6. ReportHolds'
  BY <1>2, <1>5, MonitorKept
<1>7. SetHolds'
  <2> SUFFICES ASSUME NEW w \in Mon!Monitored \ doubtful', NEW b \in Mon!MonitorCalls, Setting(b, w)'
               PROVE  SetHeld(b, w)'
    BY DEF SetHolds
  <2>1. Setting(b, w) /\ b # c /\ SetHeld(b, w)
    BY <1>2, <1>3 DEF SetHolds
  <2>2. /\ monitorCall'[b] = monitorCall[b] /\ Mon!Wanted(b)' = Mon!Wanted(b)
        /\ Mon!Wanted(b) # None /\ Mon!Wanted(b).variable = w
    BY <1>2, <2>1, MonitorOtherCalls, MonitorAccepted
  <2>3. monitorCall[b].answer = "Accepted" => monitors'[monitorCall[b].id] = Mon!Wanted(b)
    BY <1>2, <1>5, <2>1, MonitorKept
  <2>4. monitorCall[b].answer = "Rejected" => \A j \in Mon!MonitorIds : monitors'[j] # Mon!Wanted(b)
    BY <1>5, <2>1, <2>2 DEF SetHeld
  <2> QED BY <1>2, <2>1, <2>2, <2>3, <2>4, MonitorFrames DEF SetHeld
<1>8. ClearHolds'
  <2> SUFFICES ASSUME NEW w \in Mon!Monitored \ doubtful', NEW b \in Mon!MonitorCalls,
                      Mon!Answered(b, "Clear")'
               PROVE  ClearHeld(b, w)'
    BY DEF ClearHolds
  <2>1. Mon!Answered(b, "Clear") /\ b # c /\ ClearHeld(b, w)
    BY <1>2, <1>3 DEF ClearHolds
  <2>2. monitors'[monitorCall[b].id] # None => monitors'[monitorCall[b].id].variable # w
    BY <1>5, <2>1, MonitorAccepted DEF ClearHeld
  <2> QED BY <1>2, <1>4, <2>1, <2>2, MonitorFrames DEF ClearHeld
<1>9. AcceptedRight'
  <2> SUFFICES ASSUME NEW w \in Mon!Monitored \ doubtful', NEW q \in Mon!RowsOf(w)',
                      monitorRow'[q].status = "Accepted", ~Mon!BeingSet(w)'
               PROVE  IsSet(q)' \/ \E b \in Mon!MonitorCalls : ToBeRejected(b, q)'
    BY DEF AcceptedRight
  <2>1. q \in Mon!RowsOf(w) /\ monitorRow[q].status = "Accepted" /\ ~Mon!BeingSet(w)
    BY <1>2, <1>4, MonitorFrames
  <2>2. CASE IsSet(q)
    BY <1>2, <1>5, <2>1, <2>2, MonitorAccepted, MonitorRowsOf DEF IsSet, Mon!MonitorOf
  <2>3. ASSUME NEW b \in Mon!MonitorCalls, ToBeRejected(b, q)
        PROVE  ToBeRejected(b, q)'
    BY <1>2, <2>3 DEF ToBeRejected, Mon!At
  <2> QED BY <1>2, <2>1, <2>2, <2>3 DEF AcceptedRight
<1>10. RejectedRight'
  <2> SUFFICES ASSUME NEW w \in Mon!Monitored \ doubtful', NEW q \in Mon!RowsOf(w)',
                      monitorRow'[q].status = "Rejected", ~Mon!BeingSet(w)', ~Mon!BeingReported(w)',
                          IsSet(q)'
               PROVE  \E b \in Mon!MonitorCalls : ToBeReported(b)'
    BY DEF RejectedRight
  <2>1. /\ q \in Mon!RowsOf(w) /\ monitorRow[q].status = "Rejected"
        /\ ~Mon!BeingSet(w) /\ ~Mon!BeingReported(w)
    BY <1>2, <1>4, MonitorFrames
  <2>2. IsSet(q)
    BY <1>2, <1>5, <2>1, MonitorAccepted, MonitorRowsOf DEF IsSet, Mon!MonitorOf
  <2>3. PICK b \in Mon!MonitorCalls : ToBeReported(b)
    BY <1>2, <2>1, <2>2 DEF RejectedRight
  <2> QED BY <1>2, <1>3, <2>3 DEF ToBeReported
<1> USE <1>2, <1>3, <1>4, MonitorFrames, MonitorOtherCalls
<1>11. CallsMade'
  BY DEF CallsMade, CallMade
<1>12. ReportsMade'
  BY DEF ReportsMade
<1>13. OneAtATime'
  BY DEF OneAtATime
<1>14. OneMonitorRow'
  BY DEF OneMonitorRow
<1>15. RowIsThere'
  BY DEF RowIsThere
<1> QED BY <1>11, <1>12, <1>13, <1>14, <1>15, <1>6, <1>7, <1>8, <1>9, <1>10

LEMMA MonitorNotFound ==
  ASSUME MonitorTypeOK, MonitorInv, MonitorTypeOK',
         NEW c \in Mon!MonitorCalls, Mon!At(c, "Set", "answered"),
         monitorCall' = [monitorCall EXCEPT ![c] = Mon!CallOver],
         \A r \in Mon!RowsOf(monitorCall[c].variable) : monitorRow[r].type # monitorCall[c].type,
         UNCHANGED <<monitorRow, monitorReport, monitors, doubtful>>
  PROVE  MonitorInv'
<1> USE MonitorConstants DEF MonitorInv
<1>1a. /\ monitorCall[c] # None
       /\ monitorCall[c].action = "Set"
       /\ monitorCall[c].pc = "answered"
       /\ \A r \in Mon!RowsOf(monitorCall[c].variable) : monitorRow[r].type # monitorCall[c].type
  BY MonitorTyped DEF Mon!At, MonitorTypeOK, Mon!TypeOK, Mon!RowsOf, Mon!UsedRows
<1>1b. \A b \in Mon!MonitorCalls : b # c => monitorCall'[b] = monitorCall[b]
  BY DEF MonitorTypeOK, Mon!TypeOK
<1>1c. monitorCall'[c] # None
  BY MonitorTyped, MonitorCallKept, MonitorCallMade, <1>1a, Zenon
    DEF MonitorTypeOK, Mon!TypeOK, Mon!At
<1>1d. /\ monitorCall'[c].action = "Base" /\ monitorCall'[c].pc = "over"
       /\ monitorCall'[c].found = {}
  BY MonitorTyped, <1>1a DEF Mon!MonitorCall, MonitorTypeOK, Mon!TypeOK, Mon!NewCall,
     Mon!CallOver, Mon!At
<1>1e. /\ monitorRow' = monitorRow
       /\ monitorReport' = monitorReport
       /\ monitors' = monitors
       /\ doubtful' = doubtful
  OBVIOUS
<1> USE <1>1a, <1>1b, <1>1c, <1>1d, <1>1e
<1>2. /\ \A b \in Mon!MonitorCalls : \A w : Setting(b, w)' <=> Setting(b, w) /\ b # c
      /\ \A w : Setting(c, w) <=> w = monitorCall[c].variable
      /\ ~Mon!Answered(c, "Clear") /\ ~Mon!Answered(c, "Base")
      /\ \A w : ~Setting(c, w)'
      /\ ~Mon!Answered(c, "Clear")' /\ ~Mon!Answered(c, "Base")'
      /\ \A b \in Mon!MonitorCalls : Mon!Answered(b, "Clear")' <=> Mon!Answered(b, "Clear")
      /\ \A b \in Mon!MonitorCalls : Mon!Answered(b, "Base")' <=> Mon!Answered(b, "Base")
  BY MonitorOtherCalls DEF Setting, Mon!Open, Mon!Answered
<1>3. \A w : /\ Mon!BeingSet(w)' => Mon!BeingSet(w)
             /\ w # monitorCall[c].variable => (Mon!BeingSet(w)' <=> Mon!BeingSet(w))
  BY <1>2, MonitorSetting
<1>4. /\ monitorCall[c].variable \in doubtful
      /\ \A w \in Mon!Monitored \ doubtful : Mon!BeingSet(w)' <=> Mon!BeingSet(w)
  <2>1. monitorCall[c].variable \in Mon!Monitored /\ Setting(c, monitorCall[c].variable)
    BY <1>2, MonitorAccepted
  <2>2. monitorCall[c].variable \notin doubtful => SetHeld(c, monitorCall[c].variable)
    BY <2>1 DEF SetHolds
  <2>3. monitorCall[c].variable \notin doubtful => Mon!RowsOf(monitorCall[c].variable) # {}
    BY <2>1 DEF RowIsThere
  <2>4. monitorCall[c].variable \in doubtful
    BY <2>2, <2>3 DEF SetHeld
  <2> QED BY <1>2, <2>4, MonitorSetting
<1>5. AcceptedRight'
  <2> SUFFICES ASSUME NEW w \in Mon!Monitored \ doubtful, NEW q \in Mon!RowsOf(w),
                      monitorRow[q].status = "Accepted", ~Mon!BeingSet(w), ~IsSet(q)
               PROVE  \E b \in Mon!MonitorCalls : ToBeRejected(b, q)'
    BY <1>4, MonitorFrames DEF AcceptedRight
  <2>1. PICK b \in Mon!MonitorCalls : ToBeRejected(b, q)
    BY DEF AcceptedRight
  <2> QED BY <2>1 DEF ToBeRejected, Mon!At
<1>6. RejectedRight'
  <2> SUFFICES ASSUME NEW w \in Mon!Monitored \ doubtful, NEW q \in Mon!RowsOf(w),
                      monitorRow[q].status = "Rejected", ~Mon!BeingSet(w), ~Mon!BeingReported(w),
                          IsSet(q)
               PROVE  \E b \in Mon!MonitorCalls : ToBeReported(b)'
    BY <1>4, MonitorFrames DEF RejectedRight
  <2>1. PICK b \in Mon!MonitorCalls : ToBeReported(b)
    BY DEF RejectedRight
  <2> QED BY <1>2, <2>1 DEF ToBeReported
<1> USE <1>3, <1>2, MonitorFrames, MonitorOtherCalls
<1>7. CallsMade'
  BY DEF CallsMade, CallMade
<1>8. ReportsMade'
  BY DEF ReportsMade
<1>9. OneAtATime'
  <2> SUFFICES ASSUME NEW w \in Mon!Monitored \ doubtful' PROVE
                 /\ \A a, b \in Mon!MonitorCalls : Setting(a, w)' /\ Setting(b, w)' => a = b
                 /\ ~(Mon!BeingSet(w)' /\ Mon!BeingReported(w)')
    BY DEF OneAtATime
  <2>1. \A a, b \in Mon!MonitorCalls : Setting(a, w)' /\ Setting(b, w)' => a = b
    BY DEF OneAtATime
  <2>2. ~(Mon!BeingSet(w)' /\ Mon!BeingReported(w)')
    BY MonitorSetting, MonitorRowsOf DEF OneAtATime
  <2> QED BY <2>1, <2>2
<1>10. OneMonitorRow'
  BY DEF OneMonitorRow
<1>11. RowIsThere'
  BY DEF RowIsThere
<1>12. ReportHolds'
  BY DEF ReportHolds
<1>13. SetHolds'
  BY DEF SetHolds, SetHeld
<1>14. ClearHolds'
  <2> SUFFICES ASSUME NEW w \in Mon!Monitored \ doubtful', NEW b \in Mon!MonitorCalls,
                      Mon!Answered(b, "Clear")'
               PROVE  ClearHeld(b, w)'
    BY DEF ClearHolds
  <2>1. monitors'[monitorCall'[b].id] # None =>
          monitors'[monitorCall'[b].id].variable # w
    BY DEF ClearHolds, ClearHeld
  <2>2. ASSUME NEW q \in Mon!RowsOf(w)',
               monitorRow'[q].id = monitorCall'[b].id \/ q \in monitorCall'[b].found
        PROVE  /\ monitorRow'[q].id = monitorCall'[b].id
               /\ ~Mon!BeingSet(w)' /\ ~Mon!BeingReported(w)'
    BY <2>2, MonitorSetting, MonitorRowsOf DEF ClearHolds, ClearHeld
  <2> QED BY <2>1, <2>2 DEF ClearHeld
<1> QED BY <1>7, <1>8, <1>9, <1>10, <1>11, <1>12, <1>13, <1>14, <1>5, <1>6

(* FindMonitor finds the row of the monitor that was set. *)
FoundIn(c, r) ==
  /\ Mon!At(c, "Set", "answered")
  /\ monitorRow[r].type = monitorCall[c].type
  /\ monitorCall' = [monitorCall EXCEPT ![c].found = {r}, ![c].pc =
       IF monitorCall[c].answer = "Accepted" THEN "found" ELSE "identified"]
  /\ UNCHANGED <<monitorRow, monitorReport, monitors, doubtful>>

LEMMA MonitorFound ==
  ASSUME MonitorTypeOK, MonitorInv, MonitorTypeOK',
         NEW c \in Mon!MonitorCalls, NEW r \in Mon!RowsOf(monitorCall[c].variable),
         FoundIn(c, r)
  PROVE  MonitorInv'
<1> USE MonitorConstants DEF MonitorInv
<1>1a. /\ monitorCall[c] # None
       /\ monitorCall[c].action = "Set"
       /\ monitorCall[c].pc = "answered"
       /\ r \in Mon!MonitorRows /\ r \in Mon!UsedRows
       /\ monitorRow[r].variable = monitorCall[c].variable
  BY MonitorTyped DEF FoundIn, Mon!At, MonitorTypeOK, Mon!TypeOK, Mon!RowsOf, Mon!UsedRows, CallsMade,
     CallMade, Mon!MonitorCall, Mon!MonitorReport
<1>1b. \A b \in Mon!MonitorCalls : b # c => monitorCall'[b] = monitorCall[b]
  BY DEF FoundIn, MonitorTypeOK, Mon!TypeOK
<1>1c. monitorCall'[c] # None
  <2>1. \A pc \in {"found", "identified"} :
           [monitorCall[c] EXCEPT !.found = {r}, !.pc = pc] \in Mon!MonitorCall
    BY <1>1a, MonitorTyped, MonitorCallKept, Zenon
  <2> QED BY <1>1a, <2>1 DEF FoundIn, MonitorTypeOK, Mon!TypeOK, Mon!At
<1>1d. /\ monitorCall'[c].action = "Set"
       /\ monitorCall'[c].pc =
            IF monitorCall[c].answer = "Accepted" THEN "found" ELSE "identified"
       /\ monitorCall'[c].variable = monitorCall[c].variable
       /\ monitorCall'[c].type = monitorCall[c].type
       /\ monitorCall'[c].id = monitorCall[c].id
       /\ monitorCall'[c].answer = monitorCall[c].answer
       /\ monitorCall'[c].found = {r}
  BY MonitorTyped, <1>1a DEF FoundIn, Mon!MonitorCall, MonitorTypeOK, Mon!TypeOK, Mon!NewCall,
     Mon!CallOver, Mon!At
<1>1e. /\ monitorRow' = monitorRow
       /\ monitorReport' = monitorReport
       /\ monitors' = monitors
       /\ doubtful' = doubtful
  BY DEF FoundIn
<1> USE <1>1a, <1>1b, <1>1c, <1>1d, <1>1e
<1>2. /\ \A b \in Mon!MonitorCalls : \A w : Setting(b, w)' <=> Setting(b, w)
      /\ \A b \in Mon!MonitorCalls : Mon!Answered(b, "Clear")' <=> Mon!Answered(b, "Clear")
      /\ \A b \in Mon!MonitorCalls : Mon!Answered(b, "Base")' <=> Mon!Answered(b, "Base")
      /\ ~Mon!Answered(c, "Clear") /\ ~Mon!Answered(c, "Base")
      /\ ~Mon!Answered(c, "Clear")' /\ ~Mon!Answered(c, "Base")'
      /\ \A w : Setting(c, w) <=> w = monitorCall[c].variable
      /\ \A w : Setting(c, w)' <=> w = monitorCall[c].variable
  BY MonitorOtherCalls DEF Setting, Mon!Open, Mon!Answered
<1>3. \A b \in Mon!MonitorCalls : Mon!Wanted(b)' = Mon!Wanted(b)
  BY MonitorOtherCalls, MonitorTyped DEF Mon!Wanted, Mon!MonitorOf, Mon!Monitored, Mon!Range,
     Mon!TypeOK, MonitorTypeOK
<1>4. \A w : Mon!BeingSet(w)' <=> Mon!BeingSet(w)
  BY <1>2, MonitorSetting
<1> USE <1>2, <1>3, <1>4, MonitorFrames, MonitorOtherCalls
<1>5. CallsMade'
  BY DEF CallsMade, CallMade
<1>6. ReportsMade'
  BY DEF ReportsMade
<1>7. OneAtATime'
  BY DEF OneAtATime
<1>8. OneMonitorRow'
  BY DEF OneMonitorRow
<1>9. RowIsThere'
  BY DEF RowIsThere
<1>10. ReportHolds'
  BY DEF ReportHolds
<1>11. SetHolds'
  BY DEF SetHolds, SetHeld
<1>12. ClearHolds'
  BY DEF ClearHolds, ClearHeld
<1>13. AcceptedRight'
  BY DEF AcceptedRight, ToBeRejected, Mon!At
<1>14. RejectedRight'
  BY DEF RejectedRight, ToBeReported
<1> QED BY <1>5, <1>6, <1>7, <1>8, <1>9, <1>10, <1>11, <1>12, <1>13, <1>14

LEMMA StoreIdStep ==
  ASSUME MonitorTypeOK, MonitorInv, MonitorTypeOK',
         NEW c \in Mon!MonitorCalls, Mon!StoreId(c)
  PROVE  MonitorInv'
<1> USE MonitorConstants DEF MonitorInv
<1>1a. /\ monitorCall[c] # None /\ monitorCall[c].action = "Set" /\ monitorCall[c].pc = "found"
       /\ Mon!RowsWithId(monitorCall[c].id) \subseteq monitorCall[c].found
       /\ monitorCall[c].id \in Mon!MonitorIds
       /\ monitorCall[c].found \subseteq Mon!RowsOf(monitorCall[c].variable)
       /\ \A q \in monitorCall[c].found : q \in Mon!MonitorRows /\ monitorRow[q] \in Mon!MonitorRow
  BY MonitorTyped DEF Mon!StoreId, Mon!At, MonitorTypeOK, Mon!TypeOK, Mon!RowsOf, Mon!UsedRows,
     CallsMade, CallMade, Mon!MonitorCall, Mon!MonitorReport
<1>1b. \A b \in Mon!MonitorCalls : b # c => monitorCall'[b] = monitorCall[b]
  BY DEF Mon!StoreId, MonitorTypeOK, Mon!TypeOK
<1>1c. monitorCall'[c] # None
  <2>1. [monitorCall[c] EXCEPT !.pc = "identified"] \in Mon!MonitorCall
    BY <1>1a, MonitorTyped, MonitorCallKept, Zenon DEF Mon!Wanted
  <2> QED BY <1>1a, <2>1 DEF Mon!StoreId, MonitorTypeOK, Mon!TypeOK, Mon!At
<1>1d. /\ monitorCall'[c].action = "Set" /\ monitorCall'[c].pc = "identified"
       /\ monitorCall'[c].variable = monitorCall[c].variable
       /\ monitorCall'[c].type = monitorCall[c].type
       /\ monitorCall'[c].found = monitorCall[c].found
       /\ monitorCall'[c].id = monitorCall[c].id
       /\ monitorCall'[c].answer = monitorCall[c].answer
  BY MonitorTyped, <1>1a DEF Mon!StoreId, Mon!MonitorCall, MonitorTypeOK, Mon!TypeOK, Mon!NewCall,
     Mon!CallOver, Mon!At
<1>1e. /\ \A q \in Mon!MonitorRows : q \notin monitorCall[c].found => monitorRow'[q] = monitorRow[q]
       /\ \A q \in monitorCall[c].found :
            /\ monitorRow'[q].id = monitorCall[c].id
            /\ monitorRow'[q].variable = monitorRow[q].variable
            /\ monitorRow'[q].type = monitorRow[q].type
            /\ monitorRow'[q].status = monitorRow[q].status
  BY MonitorTyped, <1>1a DEF Mon!StoreId, Mon!MonitorRow, MonitorTypeOK, Mon!TypeOK, Mon!UsedRows
<1>1f. \A q \in monitorCall[c].found : monitorRow'[q] # None
  <2>1. \A q \in monitorCall[c].found :
          [monitorRow[q] EXCEPT !.id = monitorCall[c].id] \in Mon!MonitorRow
    BY <1>1a, MonitorTyped, MonitorRowKept DEF Mon!MonitorRow, Mon!MonitorCall, Mon!Reported,
       Mon!UsedRows, CallsMade, CallMade
  <2> QED BY <1>1a, <2>1 DEF Mon!StoreId, MonitorTypeOK, Mon!TypeOK
<1>1g. /\ monitorReport' = monitorReport
       /\ monitors' = monitors
       /\ doubtful' = doubtful
  BY DEF Mon!StoreId
<1> USE <1>1a, <1>1b, <1>1c, <1>1d, <1>1e, <1>1f, <1>1g
<1>2. /\ \A b \in Mon!MonitorCalls : \A w : Setting(b, w)' <=> Setting(b, w)
      /\ \A b \in Mon!MonitorCalls : Mon!Answered(b, "Clear")' <=> Mon!Answered(b, "Clear")
      /\ \A b \in Mon!MonitorCalls : Mon!Answered(b, "Base")' <=> Mon!Answered(b, "Base")
      /\ ~Mon!Answered(c, "Clear") /\ ~Mon!Answered(c, "Base")
      /\ ~Mon!Answered(c, "Clear")' /\ ~Mon!Answered(c, "Base")'
      /\ \A w : Setting(c, w) <=> w = monitorCall[c].variable
      /\ \A w : Setting(c, w)' <=> w = monitorCall[c].variable
  BY MonitorOtherCalls DEF Setting, Mon!Open, Mon!Answered
<1>3. \A b \in Mon!MonitorCalls : Mon!Wanted(b)' = Mon!Wanted(b)
  BY MonitorOtherCalls, MonitorTyped DEF Mon!Wanted, Mon!MonitorOf, Mon!Monitored, Mon!Range,
     Mon!TypeOK, MonitorTypeOK
<1>4. \A w : Mon!BeingSet(w)' <=> Mon!BeingSet(w)
  BY <1>2, MonitorSetting
<1>5. Mon!UsedRows' = Mon!UsedRows /\ \A w : Mon!RowsOf(w)' = Mon!RowsOf(w)
  BY MonitorRowsAlike, MonitorFrames DEF Mon!UsedRows, Mon!RowsOf, IsSet, Mon!MonitorOf, Mon!Wanted
<1>6. \A b \in Mon!MonitorCalls : Mon!BeingWritten(b)' = Mon!BeingWritten(b)
  BY MonitorFrames DEF Mon!BeingWritten, Mon!BeingReported
<1>7. \A w : Mon!BeingReported(w)' <=> Mon!BeingReported(w)
  BY <1>2, <1>3, <1>4, <1>5, <1>6, MonitorFrames DEF Mon!BeingReported, Mon!BeingWritten
<1>8. /\ Setting(c, monitorCall[c].variable) /\ Mon!BeingSet(monitorCall[c].variable)
      /\ monitorCall[c].answer = "Accepted"
      /\ \A w : w # monitorCall[c].variable => \A q \in Mon!RowsOf(w) :
           q \in Mon!UsedRows /\ monitorRow'[q] = monitorRow[q] /\ (IsSet(q)' <=> IsSet(q))
  <2>1. Setting(c, monitorCall[c].variable) /\ Mon!BeingSet(monitorCall[c].variable)
    BY <1>2, MonitorSetting
  <2>2. monitorCall[c].answer = "Accepted"
    BY DEF CallsMade, CallMade
  <2>3. ASSUME NEW w, w # monitorCall[c].variable, NEW q \in Mon!RowsOf(w)
        PROVE  q \in Mon!UsedRows /\ monitorRow'[q] = monitorRow[q] /\ (IsSet(q)' <=> IsSet(q))
    <3>1. q \in Mon!UsedRows /\ q \in Mon!MonitorRows /\ q \notin monitorCall[c].found
      BY <2>3, MonitorRowsOf
    <3>2. monitorRow'[q] = monitorRow[q]
      BY <3>1
    <3> QED BY <3>1, <3>2 DEF IsSet, Mon!MonitorOf
  <2> QED BY <2>1, <2>2, <2>3
<1>9. ReportHolds'
  <2>1. ASSUME NEW b \in Mon!MonitorCalls, NEW y \in monitorReport[b].written,
               y[1].variable \notin doubtful
        PROVE  IsSet(y[2])'
    <3>1. y[1].variable # monitorCall[c].variable
      BY <1>8, <2>1, MonitorAccepted DEF OneAtATime, Mon!BeingReported
    <3> QED BY <1>8, <2>1, <3>1, MonitorAccepted DEF ReportHolds
  <2> QED BY <1>6, <2>1 DEF ReportHolds
<1>10. SetHolds'
  <2> SUFFICES ASSUME NEW w \in Mon!Monitored \ doubtful, NEW b \in Mon!MonitorCalls, Setting(b, w)
               PROVE  SetHeld(b, w)'
    BY <1>2 DEF SetHolds
  <2>1. SetHeld(b, w)
    BY DEF SetHolds
  <2>2. CASE b = c
    <3>1. w = monitorCall[c].variable
      BY <1>2, <2>2
    <3>2. \A q \in Mon!RowsOf(w)' : monitorRow'[q].type = monitorRow[q].type
      BY <1>5, MonitorRowsOf
    <3>3. \A q \in monitorCall[c].found : monitorRow'[q].id = monitorCall[c].id
      OBVIOUS
    <3> QED BY <1>3, <1>5, <1>8, <2>1, <2>2, <3>2, <3>3 DEF SetHeld
  <2>3. CASE b # c
    <3>1. w # monitorCall[c].variable
      BY <1>8, <2>3 DEF OneAtATime
    <3>2. monitorCall'[b] = monitorCall[b] /\ Mon!Wanted(b)' = Mon!Wanted(b)
      BY <1>3, <2>3
    <3>3. \A q \in monitorCall[b].found :
            monitorCall[b].pc = "identified" => q \in Mon!RowsOf(w)
      BY MonitorRowsOf DEF CallsMade, CallMade, Setting, Mon!Open
    <3> QED BY <1>5, <1>8, <2>1, <3>1, <3>2, <3>3 DEF SetHeld
  <2> QED BY <2>2, <2>3
<1>11. ClearHolds'
  <2> SUFFICES ASSUME NEW w \in Mon!Monitored \ doubtful, NEW b \in Mon!MonitorCalls,
                      Mon!Answered(b, "Clear")
               PROVE  ClearHeld(b, w)'
    BY <1>2 DEF ClearHolds
  <2>1. ClearHeld(b, w) /\ monitorCall'[b] = monitorCall[b]
    BY <1>2 DEF ClearHolds
  <2>2. CASE w = monitorCall[c].variable
    <3>1. monitors[monitorCall[c].id] = Mon!Wanted(c) /\ Mon!Wanted(c) # None /\ Mon!Wanted(c).variable = w
      BY <1>8, <2>2, MonitorAccepted DEF SetHolds, SetHeld
    <3>2. monitorCall[b].id # monitorCall[c].id
      BY <2>1, <3>1 DEF ClearHeld
    <3>3. \A q \in Mon!RowsOf(w) :
            monitorRow[q].id # monitorCall[b].id /\ q \notin monitorCall[b].found
      BY <1>8, <2>1, <2>2 DEF ClearHeld
    <3>4. \A q \in Mon!RowsOf(w) : monitorRow'[q].id # monitorCall[b].id
      BY <3>2, <3>3, MonitorRowsOf
    <3> QED BY <1>5, <2>1, <3>3, <3>4 DEF ClearHeld
  <2>3. CASE w # monitorCall[c].variable
    BY <1>4, <1>5, <1>7, <1>8, <2>1, <2>3 DEF ClearHeld
  <2> QED BY <2>2, <2>3
<1>12. AcceptedRight'
  <2> SUFFICES ASSUME NEW w \in Mon!Monitored \ doubtful, NEW q \in Mon!RowsOf(w),
                      monitorRow'[q].status = "Accepted", ~Mon!BeingSet(w)
               PROVE  IsSet(q)' \/ \E b \in Mon!MonitorCalls : ToBeRejected(b, q)'
    BY <1>4, <1>5, <1>7 DEF AcceptedRight
  <2>1. monitorRow'[q] = monitorRow[q] /\ (IsSet(q)' <=> IsSet(q))
    BY <1>8
  <2>2. IsSet(q) \/ \E b \in Mon!MonitorCalls : ToBeRejected(b, q)
    BY <2>1 DEF AcceptedRight
  <2>3. ASSUME NEW b \in Mon!MonitorCalls, ToBeRejected(b, q)
        PROVE  ToBeRejected(b, q)'
    BY <1>2, <2>1, <2>3 DEF ToBeRejected, Mon!At
  <2> QED BY <2>1, <2>2, <2>3
<1>13. RejectedRight'
  <2> SUFFICES ASSUME NEW w \in Mon!Monitored \ doubtful, NEW q \in Mon!RowsOf(w),
                      monitorRow'[q].status = "Rejected", ~Mon!BeingSet(w), ~Mon!BeingReported(w)
               PROVE  ~IsSet(q)' \/ \E b \in Mon!MonitorCalls : ToBeReported(b)'
    BY <1>4, <1>5, <1>7 DEF RejectedRight
  <2>1. monitorRow'[q] = monitorRow[q] /\ (IsSet(q)' <=> IsSet(q))
    BY <1>8
  <2>2. ~IsSet(q) \/ \E b \in Mon!MonitorCalls : ToBeReported(b)
    BY <2>1 DEF RejectedRight
  <2>3. ASSUME NEW b \in Mon!MonitorCalls, ToBeReported(b)
        PROVE  ToBeReported(b)'
    BY <1>2, <2>1, <2>3 DEF ToBeReported
  <2> QED BY <2>1, <2>2, <2>3
<1> USE <1>2, <1>3, <1>4, <1>5, <1>6, <1>7, MonitorFrames, MonitorOtherCalls
<1>14. CallsMade'
  <2> SUFFICES ASSUME NEW b \in Mon!MonitorCalls, monitorCall'[b] # None PROVE CallMade(b)'
    BY DEF CallsMade
  <2>1. CASE b = c
    BY <2>1 DEF CallsMade, CallMade
  <2>2. CASE b # c
    BY <2>2, MonitorSetting, MonitorRowsOf DEF CallsMade, CallMade
  <2> QED BY <2>1, <2>2
<1>15. ReportsMade'
  BY DEF ReportsMade
<1>16. OneAtATime'
  BY DEF OneAtATime
<1>17. OneMonitorRow'
  BY DEF OneMonitorRow
<1>18. RowIsThere'
  BY DEF RowIsThere
<1> QED BY <1>14, <1>15, <1>16, <1>17, <1>18, <1>9, <1>10, <1>11, <1>12, <1>13

LEMMA IdTakenStep ==
  ASSUME MonitorTypeOK, MonitorInv, MonitorTypeOK',
         NEW c \in Mon!MonitorCalls, Mon!IdTaken(c)
  PROVE  MonitorInv'
<1> USE MonitorConstants DEF MonitorInv
<1>1a. monitorCall[c] # None /\ monitorCall[c].action = "Set" /\ monitorCall[c].pc = "found"
  BY MonitorTyped DEF Mon!IdTaken, Mon!At, MonitorTypeOK, Mon!TypeOK
<1>1b. \A b \in Mon!MonitorCalls : b # c => monitorCall'[b] = monitorCall[b]
  BY DEF Mon!IdTaken, MonitorTypeOK, Mon!TypeOK
<1>1c. monitorCall'[c] # None
  BY MonitorTyped, MonitorCallKept, MonitorCallMade, <1>1a, Zenon
    DEF Mon!IdTaken, MonitorTypeOK, Mon!TypeOK, Mon!At
<1>1d. /\ monitorCall'[c].action = "Base" /\ monitorCall'[c].pc = "over"
       /\ monitorCall'[c].found = {}
  BY MonitorTyped, <1>1a DEF Mon!IdTaken, Mon!MonitorCall, MonitorTypeOK, Mon!TypeOK, Mon!NewCall,
     Mon!CallOver, Mon!At
<1>1e. /\ monitorCall[c].variable \in doubtful'
       /\ doubtful \subseteq doubtful'
  BY MonitorTyped, MonitorOnStation, <1>1a DEF Mon!IdTaken, MonitorTypeOK, Mon!TypeOK
<1>1f. /\ monitorRow' = monitorRow
       /\ monitorReport' = monitorReport
       /\ monitors' = monitors
  BY DEF Mon!IdTaken
<1> USE <1>1a, <1>1b, <1>1c, <1>1d, <1>1e, <1>1f
<1>2. /\ \A b \in Mon!MonitorCalls : \A w : Setting(b, w)' <=> Setting(b, w) /\ b # c
      /\ \A w : Setting(c, w) <=> w = monitorCall[c].variable
      /\ ~Mon!Answered(c, "Clear") /\ ~Mon!Answered(c, "Base")
      /\ \A w : ~Setting(c, w)'
      /\ ~Mon!Answered(c, "Clear")' /\ ~Mon!Answered(c, "Base")'
      /\ \A b \in Mon!MonitorCalls : Mon!Answered(b, "Clear")' <=> Mon!Answered(b, "Clear")
      /\ \A b \in Mon!MonitorCalls : Mon!Answered(b, "Base")' <=> Mon!Answered(b, "Base")
  BY MonitorOtherCalls DEF Setting, Mon!Open, Mon!Answered
<1>3. \A w : w \notin doubtful' => (Mon!BeingSet(w)' <=> Mon!BeingSet(w))
  BY <1>2, MonitorSetting
<1> USE <1>2, <1>3, MonitorFrames, MonitorOtherCalls
<1>4. CallsMade'
  BY DEF CallsMade, CallMade
<1>5. ReportsMade'
  BY DEF ReportsMade
<1>6. OneAtATime'
  BY DEF OneAtATime
<1>7. OneMonitorRow'
  BY DEF OneMonitorRow
<1>8. RowIsThere'
  BY DEF RowIsThere
<1>9. ReportHolds'
  BY DEF ReportHolds
<1>10. SetHolds'
  BY DEF SetHolds, SetHeld
<1>11. ClearHolds'
  BY DEF ClearHolds, ClearHeld
<1>12. AcceptedRight'
  BY DEF AcceptedRight, ToBeRejected, Mon!At
<1>13. RejectedRight'
  BY DEF RejectedRight, ToBeReported
<1> QED BY <1>4, <1>5, <1>6, <1>7, <1>8, <1>9, <1>10, <1>11, <1>12, <1>13

LEMMA StoreStatusStep ==
  ASSUME MonitorTypeOK, MonitorInv, MonitorTypeOK',
         NEW c \in Mon!MonitorCalls, Mon!StoreStatus(c)
  PROVE  MonitorInv'
<1> USE MonitorConstants DEF MonitorInv
<1>1. PICK r \in monitorCall[c].found :
        monitorRow' = [monitorRow EXCEPT ![r].status = monitorCall[c].answer]
  BY DEF Mon!StoreStatus, Mon!Status
<1>2. /\ monitorCall[c] # None
      /\ monitorCall[c].action = "Set"
      /\ monitorCall[c].pc = "identified"
      /\ \A b \in Mon!MonitorCalls : b # c => monitorCall'[b] = monitorCall[b]
      /\ monitorCall'[c] # None
      /\ monitorCall'[c].action = "Base" /\ monitorCall'[c].pc = "over"
      /\ monitorCall'[c].found = {}
      /\ r \in Mon!RowsOf(monitorCall[c].variable) /\ r \in Mon!UsedRows
      /\ r \in Mon!MonitorRows /\ monitorRow[r] \in Mon!MonitorRow
      /\ \A q \in Mon!MonitorRows : q # r => monitorRow'[q] = monitorRow[q]
      /\ monitorRow'[r] # None
      /\ monitorRow'[r].status = monitorCall[c].answer
      /\ monitorRow'[r].variable = monitorRow[r].variable
      /\ monitorRow'[r].type = monitorRow[r].type /\ monitorRow'[r].id = monitorRow[r].id
      /\ monitorReport' = monitorReport
      /\ monitors' = monitors
      /\ doubtful' = doubtful
  <2>1. /\ monitorCall[c] # None
        /\ monitorCall[c].action = "Set"
        /\ monitorCall[c].pc = "identified"
        /\ r \in Mon!RowsOf(monitorCall[c].variable) /\ r \in Mon!UsedRows
        /\ r \in Mon!MonitorRows /\ monitorRow[r] \in Mon!MonitorRow
    BY <1>1, MonitorTyped DEF Mon!StoreStatus, Mon!Status, Mon!At, MonitorTypeOK, Mon!TypeOK,
       Mon!RowsOf, Mon!UsedRows, CallsMade, CallMade, Mon!MonitorCall, Mon!MonitorReport
  <2>2. \A b \in Mon!MonitorCalls : b # c => monitorCall'[b] = monitorCall[b]
    BY <1>1 DEF Mon!StoreStatus, Mon!Status, MonitorTypeOK, Mon!TypeOK
  <2>3. monitorCall'[c] # None
    BY <1>1, MonitorTyped, MonitorCallKept, MonitorCallMade, <2>1, Zenon
      DEF Mon!StoreStatus, Mon!Status, MonitorTypeOK, Mon!TypeOK, Mon!At
  <2>4. /\ monitorCall'[c].action = "Base" /\ monitorCall'[c].pc = "over"
        /\ monitorCall'[c].found = {}
    BY <1>1, MonitorTyped, <2>1 DEF Mon!StoreStatus, Mon!Status, Mon!MonitorCall, MonitorTypeOK,
       Mon!TypeOK, Mon!NewCall, Mon!CallOver, Mon!At
  <2>5. /\ \A q \in Mon!MonitorRows : q # r => monitorRow'[q] = monitorRow[q]
        /\ monitorRow'[r].status = monitorCall[c].answer
        /\ monitorRow'[r].variable = monitorRow[r].variable
        /\ monitorRow'[r].type = monitorRow[r].type /\ monitorRow'[r].id = monitorRow[r].id
    BY <1>1, MonitorTyped, <2>1 DEF Mon!StoreStatus, Mon!Status, Mon!MonitorRow, MonitorTypeOK,
       Mon!TypeOK, Mon!UsedRows
  <2>6. monitorRow'[r] # None
    <3>1. [monitorRow[r] EXCEPT !.status = monitorCall[c].answer] \in Mon!MonitorRow
      BY <2>1, <1>1, MonitorTyped, MonitorRowKept
        DEF Mon!MonitorRow, Mon!MonitorCall, Mon!Reported, Mon!UsedRows, CallsMade, CallMade
    <3> QED BY <1>1, <2>1, <3>1 DEF Mon!StoreStatus, Mon!Status, MonitorTypeOK, Mon!TypeOK
  <2>7. /\ monitorReport' = monitorReport
        /\ monitors' = monitors
        /\ doubtful' = doubtful
    BY <1>1 DEF Mon!StoreStatus, Mon!Status
  <2> QED BY <2>1, <2>2, <2>3, <2>4, <2>5, <2>6, <2>7
<1>3. /\ \A b \in Mon!MonitorCalls : \A w : Setting(b, w)' <=> Setting(b, w) /\ b # c
      /\ \A w : Setting(c, w) <=> w = monitorCall[c].variable
      /\ ~Mon!Answered(c, "Clear") /\ ~Mon!Answered(c, "Base")
      /\ \A w : ~Setting(c, w)'
      /\ ~Mon!Answered(c, "Clear")' /\ ~Mon!Answered(c, "Base")'
      /\ \A b \in Mon!MonitorCalls : Mon!Answered(b, "Clear")' <=> Mon!Answered(b, "Clear")
      /\ \A b \in Mon!MonitorCalls : Mon!Answered(b, "Base")' <=> Mon!Answered(b, "Base")
  BY <1>2, MonitorOtherCalls DEF Setting, Mon!Open, Mon!Answered
<1>4. /\ Mon!UsedRows' = Mon!UsedRows /\ \A w : Mon!RowsOf(w)' = Mon!RowsOf(w)
      /\ \A q \in Mon!UsedRows : IsSet(q)' <=> IsSet(q)
  BY <1>2, MonitorRowsAlike, MonitorFrames
    DEF Mon!UsedRows, Mon!RowsOf, IsSet, Mon!MonitorOf, Mon!Wanted
<1>5. \A b \in Mon!MonitorCalls : Mon!BeingWritten(b)' = Mon!BeingWritten(b)
  BY <1>1, <1>2, MonitorFrames DEF Mon!BeingWritten, Mon!BeingReported
<1>6. \A w : Mon!BeingReported(w)' <=> Mon!BeingReported(w)
  BY <1>2, <1>3, <1>4, <1>5, MonitorFrames DEF Mon!BeingReported, Mon!BeingWritten
<1>7. \A w : /\ Mon!BeingSet(w)' => Mon!BeingSet(w)
             /\ w # monitorCall[c].variable => (Mon!BeingSet(w)' <=> Mon!BeingSet(w))
  BY <1>3, MonitorSetting
<1>8. \A q \in Mon!MonitorRows : /\ monitorRow'[q].id = monitorRow[q].id
                                 /\ monitorRow'[q].type = monitorRow[q].type
                                 /\ monitorRow'[q].variable = monitorRow[q].variable
                                 /\ q # r => monitorRow'[q].status = monitorRow[q].status
  BY <1>2
<1>9. /\ Setting(c, monitorCall[c].variable) /\ monitorCall[c].variable \in Mon!Monitored
      /\ Mon!BeingSet(monitorCall[c].variable)
      /\ \A w \in Mon!Monitored \ doubtful : \A q \in Mon!RowsOf(w) :
           q = r <=> w = monitorCall[c].variable
  <2>1. /\ Setting(c, monitorCall[c].variable) /\ monitorCall[c].variable \in Mon!Monitored
        /\ Mon!BeingSet(monitorCall[c].variable)
    BY <1>3, MonitorSetting, MonitorAccepted
  <2>2. \A w : r \in Mon!RowsOf(w) => w = monitorCall[c].variable
    BY <1>2, MonitorRowsOf
  <2> QED BY <1>2, <2>1, <2>2 DEF OneMonitorRow
<1>10. SetHolds'
  <2> SUFFICES ASSUME NEW w \in Mon!Monitored \ doubtful, NEW b \in Mon!MonitorCalls, Setting(b, w), b # c
               PROVE  SetHeld(b, w)'
    BY <1>2, <1>3 DEF SetHolds
  <2>1. SetHeld(b, w) /\ monitorCall'[b] = monitorCall[b] /\ Mon!Wanted(b)' = Mon!Wanted(b)
    BY <1>2, MonitorOtherCalls DEF SetHolds
  <2>2. monitorCall[b].found \subseteq Mon!UsedRows
    BY DEF CallsMade, CallMade, Setting, Mon!Open
  <2> QED BY <1>2, <1>4, <1>8, <2>1, <2>2, MonitorRowsOf DEF SetHeld
<1>11. AcceptedRight'
  <2> SUFFICES ASSUME NEW w \in Mon!Monitored \ doubtful, NEW q \in Mon!RowsOf(w),
                      monitorRow'[q].status = "Accepted", ~Mon!BeingSet(w)', ~IsSet(q)
               PROVE  \E b \in Mon!MonitorCalls : ToBeRejected(b, q)'
    BY <1>2, <1>4, MonitorRowsOf DEF AcceptedRight
  <2>1. CASE q = r
    <3>1. monitorCall[c].answer = "Accepted" /\ SetHeld(c, w) /\ w = monitorCall[c].variable
      BY <1>2, <1>9, <2>1 DEF SetHolds
    <3>2. /\ monitorRow[r].type = monitorCall[c].type /\ monitorRow[r].id = monitorCall[c].id
          /\ monitors[monitorCall[c].id] = Mon!Wanted(c) /\ monitorCall[c].id # None
          /\ monitorRow[r].variable = monitorCall[c].variable
      BY <1>2, <2>1, <3>1, MonitorRowsOf DEF SetHeld, CallsMade, CallMade
    <3> QED BY <2>1, <3>2 DEF IsSet, Mon!Wanted, Mon!MonitorOf
  <2>2. CASE q # r
    <3>3. w # monitorCall[c].variable /\ q \in Mon!MonitorRows
      BY <1>9, <2>2, MonitorRowsOf
    <3>1. ~Mon!BeingSet(w) /\ monitorRow[q].status = "Accepted"
      BY <1>2, <1>7, <1>8, <2>2, <3>3, MonitorRowsOf
    <3>2. PICK b \in Mon!MonitorCalls : ToBeRejected(b, q)
      BY <3>1 DEF AcceptedRight
    <3> QED BY <1>2, <1>8, <3>2, MonitorRowsOf DEF ToBeRejected, Mon!At
  <2> QED BY <2>1, <2>2
<1>12. RejectedRight'
  <2> SUFFICES ASSUME NEW w \in Mon!Monitored \ doubtful, NEW q \in Mon!RowsOf(w),
                      monitorRow'[q].status = "Rejected", ~Mon!BeingSet(w)', ~Mon!BeingReported(w),
                          IsSet(q)
               PROVE  \E b \in Mon!MonitorCalls : ToBeReported(b)'
    BY <1>2, <1>4, <1>6, MonitorRowsOf DEF RejectedRight
  <2>1. CASE q = r
    <3>1. monitorCall[c].answer = "Rejected" /\ SetHeld(c, w) /\ w = monitorCall[c].variable
      BY <1>2, <1>9, <2>1 DEF SetHolds
    <3>2. /\ monitorRow[r].type = monitorCall[c].type
          /\ \A j \in Mon!MonitorIds : monitors[j] # Mon!Wanted(c)
          /\ monitorRow[r].variable = monitorCall[c].variable
      BY <1>2, <2>1, <3>1, MonitorRowsOf DEF SetHeld
    <3> QED BY <1>2, <2>1, <3>2, MonitorAccepted DEF IsSet, Mon!Wanted, Mon!MonitorOf
  <2>2. CASE q # r
    <3>3. w # monitorCall[c].variable /\ q \in Mon!MonitorRows
      BY <1>9, <2>2, MonitorRowsOf
    <3>1. ~Mon!BeingSet(w) /\ monitorRow[q].status = "Rejected"
      BY <1>2, <1>7, <1>8, <2>2, <3>3, MonitorRowsOf
    <3>2. PICK b \in Mon!MonitorCalls : ToBeReported(b)
      BY <3>1 DEF RejectedRight
    <3> QED BY <1>2, <1>3, <3>2 DEF ToBeReported
  <2> QED BY <2>1, <2>2
<1> USE <1>7, <1>8, <1>2, <1>3, <1>4, <1>5, <1>6, MonitorFrames, MonitorOtherCalls
<1>13. CallsMade'
  <2> SUFFICES ASSUME NEW b \in Mon!MonitorCalls, monitorCall'[b] # None PROVE CallMade(b)'
    BY DEF CallsMade
  <2>1. CASE b = c
    BY <2>1 DEF CallsMade, CallMade
  <2>2. CASE b # c
    BY <2>2, MonitorSetting, MonitorRowsOf DEF CallsMade, CallMade
  <2> QED BY <2>1, <2>2
<1>14. ReportsMade'
  BY DEF ReportsMade
<1>15. OneAtATime'
  <2> SUFFICES ASSUME NEW w \in Mon!Monitored \ doubtful' PROVE
                 /\ \A a, b \in Mon!MonitorCalls : Setting(a, w)' /\ Setting(b, w)' => a = b
                 /\ ~(Mon!BeingSet(w)' /\ Mon!BeingReported(w)')
    BY DEF OneAtATime
  <2>1. \A a, b \in Mon!MonitorCalls : Setting(a, w)' /\ Setting(b, w)' => a = b
    BY DEF OneAtATime
  <2>2. ~(Mon!BeingSet(w)' /\ Mon!BeingReported(w)')
    BY MonitorSetting, MonitorRowsOf DEF OneAtATime
  <2> QED BY <2>1, <2>2
<1>16. OneMonitorRow'
  BY DEF OneMonitorRow
<1>17. RowIsThere'
  BY DEF RowIsThere
<1>18. ReportHolds'
  <2>1. ASSUME NEW b \in Mon!MonitorCalls, NEW n \in Mon!BeingWritten(b)', n.variable \notin doubtful'
        PROVE  monitors'[n.id] = Mon!MonitorOf(n)
    BY <2>1 DEF ReportHolds
  <2>2. ASSUME NEW b \in Mon!MonitorCalls, NEW y \in monitorReport'[b].found,
               y[1].variable \notin doubtful'
        PROVE  y[2] # None
    BY <2>2 DEF ReportHolds
  <2>3. ASSUME NEW b \in Mon!MonitorCalls, NEW y \in monitorReport'[b].written,
               y[1].variable \notin doubtful'
        PROVE  IsSet(y[2])'
    BY <2>3, MonitorSetting, MonitorRowsOf DEF ReportHolds, ReportsMade
  <2> QED BY <2>1, <2>2, <2>3 DEF ReportHolds, Mon!MonitorOf
<1>19. ClearHolds'
  <2> SUFFICES ASSUME NEW w \in Mon!Monitored \ doubtful', NEW b \in Mon!MonitorCalls,
                      Mon!Answered(b, "Clear")'
               PROVE  ClearHeld(b, w)'
    BY DEF ClearHolds
  <2>1. monitors'[monitorCall'[b].id] # None =>
          monitors'[monitorCall'[b].id].variable # w
    BY DEF ClearHolds, ClearHeld
  <2>2. ASSUME NEW q \in Mon!RowsOf(w)',
               monitorRow'[q].id = monitorCall'[b].id \/ q \in monitorCall'[b].found
        PROVE  /\ monitorRow'[q].id = monitorCall'[b].id
               /\ ~Mon!BeingSet(w)' /\ ~Mon!BeingReported(w)'
    BY <2>2, MonitorSetting, MonitorRowsOf DEF ClearHolds, ClearHeld
  <2> QED BY <2>1, <2>2 DEF ClearHeld
<1> QED BY <1>13, <1>14, <1>15, <1>16, <1>17, <1>18, <1>10, <1>19, <1>11, <1>12

LEMMA FindRowsStep ==
  ASSUME MonitorTypeOK, MonitorInv, MonitorTypeOK',
         NEW c \in Mon!MonitorCalls, Mon!FindRows(c)
  PROVE  MonitorInv'
<1> USE MonitorConstants DEF MonitorInv
<1>1. PICK cleared \in SUBSET Mon!MonitorRows :
        /\ monitorCall' = [monitorCall EXCEPT ![c].pc = "found", ![c].found = cleared]
        /\ cleared =
             IF monitorCall[c].action = "Clear" THEN Mon!RowsWithId(monitorCall[c].id) ELSE Mon!UsedRows
  BY DEF Mon!FindRows, Mon!RowsWithId, Mon!UsedRows
<1>2a. /\ monitorCall[c] # None
       /\ monitorCall[c].action \in {"Clear", "Base"}
       /\ monitorCall[c].pc = "answered"
  BY <1>1, MonitorTyped DEF Mon!FindRows, Mon!At, MonitorTypeOK, Mon!TypeOK
<1>2b. \A b \in Mon!MonitorCalls : b # c => monitorCall'[b] = monitorCall[b]
  BY <1>1 DEF Mon!FindRows, MonitorTypeOK, Mon!TypeOK
<1>2c. monitorCall'[c] # None
  <2>1. \A rs \in SUBSET Mon!MonitorRows :
           [monitorCall[c] EXCEPT !.pc = "found", !.found = rs] \in Mon!MonitorCall
    BY <1>2a, <1>1, MonitorTyped, MonitorCallKept, Zenon DEF Mon!Wanted
  <2>2. monitorCall'[c] \in Mon!MonitorCall
    BY <1>1, <2>1 DEF MonitorTypeOK, Mon!TypeOK
  <2> QED BY <2>2, MonitorConstants
<1>2d. /\ monitorCall'[c].pc = "found"
       /\ monitorCall'[c].action = monitorCall[c].action
       /\ monitorCall'[c].id = monitorCall[c].id
       /\ monitorCall'[c].found =
            IF monitorCall[c].action = "Clear" THEN Mon!RowsWithId(monitorCall[c].id) ELSE Mon!UsedRows
  BY <1>1, MonitorTyped, <1>2a DEF Mon!FindRows, Mon!MonitorCall, MonitorTypeOK, Mon!TypeOK,
     Mon!NewCall, Mon!CallOver, Mon!At
<1>2e. /\ monitorRow' = monitorRow
       /\ monitorReport' = monitorReport
       /\ monitors' = monitors
       /\ doubtful' = doubtful
  BY <1>1 DEF Mon!FindRows
<1> USE <1>2a, <1>2b, <1>2c, <1>2d, <1>2e
<1>3. /\ \A b \in Mon!MonitorCalls : \A w : Setting(b, w)' <=> Setting(b, w)
      /\ \A w : ~Setting(c, w) /\ ~Setting(c, w)'
      /\ \A b \in Mon!MonitorCalls : Mon!Answered(b, "Clear")' <=> Mon!Answered(b, "Clear")
      /\ \A b \in Mon!MonitorCalls : Mon!Answered(b, "Base")' <=> Mon!Answered(b, "Base")
  BY MonitorOtherCalls DEF Setting, Mon!Open, Mon!Answered
<1>4. \A w : Mon!BeingSet(w)' <=> Mon!BeingSet(w)
  BY <1>3, MonitorSetting
<1>5. CallsMade'
  <2> SUFFICES ASSUME NEW b \in Mon!MonitorCalls, monitorCall'[b] # None PROVE CallMade(b)'
    BY DEF CallsMade
  <2>1. CASE b = c
    <3>1. monitorCall'[c].found \subseteq Mon!UsedRows
      BY DEF Mon!RowsWithId
    <3>2. monitorCall'[c].action = "Clear" => monitorCall'[c].id # None
      BY DEF CallsMade, CallMade
    <3> QED BY <2>1, <3>1, <3>2, MonitorFrames DEF CallMade
  <2>2. CASE b # c
    BY <2>2, MonitorFrames, MonitorOtherCalls DEF CallsMade, CallMade
  <2> QED BY <2>1, <2>2
<1>6. ClearHolds'
  <2> SUFFICES ASSUME NEW w \in Mon!Monitored \ doubtful, NEW b \in Mon!MonitorCalls,
                      Mon!Answered(b, "Clear")
               PROVE  ClearHeld(b, w)'
    BY <1>3 DEF ClearHolds
  <2>1. ClearHeld(b, w)
    BY DEF ClearHolds
  <2>2. CASE b = c
    <3>1. monitorCall'[c].found = Mon!RowsWithId(monitorCall[c].id)
      BY <2>2 DEF Mon!Answered, Mon!Open
    <3> QED BY <1>4, <2>1, <2>2, <3>1, MonitorFrames DEF ClearHeld, Mon!RowsWithId
  <2>3. CASE b # c
    BY <1>4, <2>1, <2>3, MonitorFrames DEF ClearHeld
  <2> QED BY <2>2, <2>3
<1>7. AcceptedRight'
  <2> SUFFICES ASSUME NEW w \in Mon!Monitored \ doubtful, NEW q \in Mon!RowsOf(w),
                      monitorRow[q].status = "Accepted", ~Mon!BeingSet(w), ~IsSet(q)
               PROVE  \E b \in Mon!MonitorCalls : ToBeRejected(b, q)'
    BY <1>4, MonitorFrames DEF AcceptedRight
  <2>1. PICK b \in Mon!MonitorCalls : ToBeRejected(b, q)
    BY DEF AcceptedRight
  <2>2. CASE b = c
    <3>1. q \in monitorCall'[c].found
      BY <2>1, <2>2, MonitorRowsOf DEF ToBeRejected, Mon!At, Mon!RowsWithId
    <3> QED BY <3>1 DEF ToBeRejected, Mon!At
  <2>3. CASE b # c
    BY <2>1, <2>3 DEF ToBeRejected, Mon!At
  <2> QED BY <2>2, <2>3
<1> USE <1>3, <1>4, MonitorFrames, MonitorOtherCalls
<1>8. ReportsMade'
  BY DEF ReportsMade
<1>9. OneAtATime'
  BY DEF OneAtATime
<1>10. OneMonitorRow'
  BY DEF OneMonitorRow
<1>11. RowIsThere'
  BY DEF RowIsThere
<1>12. ReportHolds'
  BY DEF ReportHolds
<1>13. SetHolds'
  BY DEF SetHolds, SetHeld
<1>14. RejectedRight'
  BY DEF RejectedRight, ToBeReported
<1> QED BY <1>5, <1>8, <1>9, <1>10, <1>11, <1>12, <1>13, <1>6, <1>7, <1>14

LEMMA RejectRowStep ==
  ASSUME MonitorTypeOK, MonitorInv, MonitorTypeOK',
         NEW c \in Mon!MonitorCalls, NEW r \in Mon!MonitorRows, Mon!RejectRow(c, r)
  PROVE  MonitorInv'
<1> USE MonitorConstants DEF MonitorInv
<1>1. /\ monitorCall[c] # None
      /\ monitorCall[c].action \in {"Clear", "Base"}
      /\ monitorCall[c].pc = "found"
      /\ r \in monitorCall[c].found /\ r \in Mon!UsedRows /\ monitorRow[r] \in Mon!MonitorRow
      /\ monitorCall[c].found \ {r} \in SUBSET Mon!MonitorRows
      /\ \A b \in Mon!MonitorCalls : b # c => monitorCall'[b] = monitorCall[b]
      /\ monitorCall'[c] # None
      /\ monitorCall'[c].action = monitorCall[c].action
      /\ monitorCall'[c].pc = monitorCall[c].pc /\ monitorCall'[c].id = monitorCall[c].id
      /\ monitorCall'[c].found = monitorCall[c].found \ {r}
      /\ \A q \in Mon!MonitorRows : q # r => monitorRow'[q] = monitorRow[q]
      /\ monitorRow'[r] # None
      /\ monitorRow'[r].status = "Rejected"
      /\ monitorRow'[r].variable = monitorRow[r].variable
      /\ monitorRow'[r].type = monitorRow[r].type /\ monitorRow'[r].id = monitorRow[r].id
      /\ monitorReport' = monitorReport
      /\ monitors' = monitors
      /\ doubtful' = doubtful
  <2>1. /\ monitorCall[c] # None
        /\ monitorCall[c].action \in {"Clear", "Base"}
        /\ monitorCall[c].pc = "found"
        /\ r \in monitorCall[c].found /\ r \in Mon!UsedRows /\ monitorRow[r] \in Mon!MonitorRow
        /\ monitorCall[c].found \ {r} \in SUBSET Mon!MonitorRows
    BY MonitorTyped DEF Mon!RejectRow, Mon!Status, Mon!At, MonitorTypeOK, Mon!TypeOK, Mon!RowsOf,
       Mon!UsedRows, CallsMade, CallMade, Mon!MonitorCall, Mon!MonitorReport
  <2>2. \A b \in Mon!MonitorCalls : b # c => monitorCall'[b] = monitorCall[b]
    BY DEF Mon!RejectRow, Mon!Status, MonitorTypeOK, Mon!TypeOK
  <2>3. monitorCall'[c] # None
    <3>1. [monitorCall[c] EXCEPT !.found = monitorCall[c].found \ {r}] \in Mon!MonitorCall
      BY <2>1, MonitorTyped, MonitorCallKept, Zenon
    <3> QED BY <2>1, <3>1 DEF Mon!RejectRow, Mon!Status, MonitorTypeOK, Mon!TypeOK, Mon!At
  <2>4. /\ monitorCall'[c].action = monitorCall[c].action
        /\ monitorCall'[c].pc = monitorCall[c].pc
        /\ monitorCall'[c].id = monitorCall[c].id
        /\ monitorCall'[c].found = monitorCall[c].found \ {r}
    BY MonitorTyped, <2>1 DEF Mon!RejectRow, Mon!Status, Mon!MonitorCall, MonitorTypeOK, Mon!TypeOK,
       Mon!NewCall, Mon!CallOver, Mon!At
  <2>5. /\ \A q \in Mon!MonitorRows : q # r => monitorRow'[q] = monitorRow[q]
        /\ monitorRow'[r].status = "Rejected"
        /\ monitorRow'[r].variable = monitorRow[r].variable
        /\ monitorRow'[r].type = monitorRow[r].type /\ monitorRow'[r].id = monitorRow[r].id
    BY MonitorTyped, <2>1 DEF Mon!RejectRow, Mon!Status, Mon!MonitorRow, MonitorTypeOK, Mon!TypeOK,
       Mon!UsedRows
  <2>6. monitorRow'[r] # None
    <3>1. [monitorRow[r] EXCEPT !.status = "Rejected"] \in Mon!MonitorRow
      BY <2>1, MonitorTyped, MonitorRowKept DEF Mon!MonitorRow, Mon!MonitorCall, Mon!Reported,
         Mon!UsedRows, CallsMade, CallMade
    <3> QED BY <2>1, <3>1 DEF Mon!RejectRow, Mon!Status, MonitorTypeOK, Mon!TypeOK
  <2>7. /\ monitorReport' = monitorReport
        /\ monitors' = monitors
        /\ doubtful' = doubtful
    BY DEF Mon!RejectRow, Mon!Status
  <2> QED BY <2>1, <2>2, <2>3, <2>4, <2>5, <2>6, <2>7
<1>2. /\ \A b \in Mon!MonitorCalls : \A w : Setting(b, w)' <=> Setting(b, w)
      /\ \A w : ~Setting(c, w) /\ ~Setting(c, w)'
      /\ \A b \in Mon!MonitorCalls : Mon!Answered(b, "Clear")' <=> Mon!Answered(b, "Clear")
      /\ \A b \in Mon!MonitorCalls : Mon!Answered(b, "Base")' <=> Mon!Answered(b, "Base")
  BY <1>1, MonitorOtherCalls DEF Setting, Mon!Open, Mon!Answered
<1>3. \A w : Mon!BeingSet(w)' <=> Mon!BeingSet(w)
  BY <1>1, <1>2, MonitorSetting
<1>4. /\ Mon!UsedRows' = Mon!UsedRows /\ \A w : Mon!RowsOf(w)' = Mon!RowsOf(w)
      /\ \A q \in Mon!UsedRows : IsSet(q)' <=> IsSet(q)
  BY <1>1, MonitorRowsAlike, MonitorFrames
    DEF Mon!UsedRows, Mon!RowsOf, IsSet, Mon!MonitorOf, Mon!Wanted
<1>5. \A b \in Mon!MonitorCalls : Mon!BeingWritten(b)' = Mon!BeingWritten(b)
  BY <1>1, MonitorFrames DEF Mon!BeingWritten, Mon!BeingReported
<1>6. \A w : Mon!BeingReported(w)' <=> Mon!BeingReported(w)
  BY <1>1, <1>2, <1>3, <1>4, <1>5, MonitorFrames DEF Mon!BeingReported, Mon!BeingWritten
<1>7. \A q \in Mon!MonitorRows : /\ monitorRow'[q].id = monitorRow[q].id
                                 /\ monitorRow'[q].type = monitorRow[q].type
                                 /\ monitorRow'[q].variable = monitorRow[q].variable
                                 /\ q # r => monitorRow'[q].status = monitorRow[q].status
  BY <1>1
<1>8. SetHolds'
  <2> SUFFICES ASSUME NEW w \in Mon!Monitored \ doubtful, NEW b \in Mon!MonitorCalls, Setting(b, w), b # c
               PROVE  SetHeld(b, w)'
    BY <1>1, <1>2 DEF SetHolds
  <2>1. SetHeld(b, w) /\ monitorCall'[b] = monitorCall[b] /\ Mon!Wanted(b)' = Mon!Wanted(b)
    BY <1>1, MonitorOtherCalls DEF SetHolds
  <2>2. monitorCall[b].found \subseteq Mon!UsedRows /\ \A q \in Mon!RowsOf(w)' : q \in Mon!RowsOf(w)
    BY <1>1, <1>7, MonitorRowsOf DEF CallsMade, CallMade, Setting, Mon!Open, Mon!UsedRows
  <2> QED BY <1>1, <1>7, <2>1, <2>2, MonitorRowsOf DEF SetHeld
<1>9. RejectedRight'
  <2> SUFFICES ASSUME NEW w \in Mon!Monitored \ doubtful, NEW q \in Mon!RowsOf(w),
                      monitorRow'[q].status = "Rejected", ~Mon!BeingSet(w), ~Mon!BeingReported(w),
                          IsSet(q)
               PROVE  \E b \in Mon!MonitorCalls : ToBeReported(b)'
    <3>1. \A w : Mon!RowsOf(w)' = Mon!RowsOf(w)
      BY <1>1, <1>7, MonitorRowsAlike DEF Mon!UsedRows
    <3>2. \A q \in Mon!UsedRows : IsSet(q)' <=> IsSet(q)
      BY <1>1, <1>7, MonitorRowsOf DEF IsSet, Mon!MonitorOf
    <3>3. \A w : (Mon!BeingSet(w)' <=> Mon!BeingSet(w)) /\ (Mon!BeingReported(w)' <=> Mon!BeingReported(w))
      BY <1>1, <1>2, MonitorSetting, MonitorFrames
    <3> QED BY <1>1, <3>1, <3>2, <3>3, MonitorRowsOf DEF RejectedRight
  <2>1. CASE q = r
    <3>1. CASE monitorCall[c].action = "Clear"
      <4>1. ClearHeld(c, w)
        BY <1>1, <3>1 DEF ClearHolds, Mon!Answered, Mon!Open
      <4>2. monitorRow[r].id = monitorCall[c].id /\ Mon!MonitorOf(monitorRow[r]).variable = w
        BY <1>1, <2>1, <4>1, MonitorAccepted, MonitorRowsOf DEF ClearHeld
      <4> QED BY <1>1, <2>1, <4>1, <4>2, MonitorAccepted DEF ClearHeld, IsSet
    <3>2. CASE monitorCall[c].action = "Base"
      BY <1>1, <3>2 DEF ToBeReported, Mon!Answered, Mon!Open
    <3> QED BY <1>1, <3>1, <3>2
  <2>2. CASE q # r
    <3>1. monitorRow[q].status = "Rejected"
      BY <1>7, <2>2, MonitorRowsOf
    <3>2. PICK b \in Mon!MonitorCalls : ToBeReported(b)
      BY <3>1 DEF RejectedRight
    <3> QED BY <1>1, <1>2, <3>2 DEF ToBeReported
  <2> QED BY <2>1, <2>2
<1> USE <1>7, <1>1, <1>2, <1>3, <1>4, <1>5, <1>6, MonitorFrames, MonitorOtherCalls
<1>10. CallsMade'
  <2> SUFFICES ASSUME NEW b \in Mon!MonitorCalls, monitorCall'[b] # None PROVE CallMade(b)'
    BY DEF CallsMade
  <2>1. CASE b = c
    BY <2>1 DEF CallsMade, CallMade
  <2>2. CASE b # c
    BY <2>2, MonitorSetting, MonitorRowsOf DEF CallsMade, CallMade
  <2> QED BY <2>1, <2>2
<1>11. ReportsMade'
  BY DEF ReportsMade
<1>12. OneAtATime'
  BY DEF OneAtATime
<1>13. OneMonitorRow'
  BY DEF OneMonitorRow
<1>14. RowIsThere'
  BY DEF RowIsThere
<1>15. ReportHolds'
  <2>1. ASSUME NEW b \in Mon!MonitorCalls, NEW n \in Mon!BeingWritten(b)', n.variable \notin doubtful'
        PROVE  monitors'[n.id] = Mon!MonitorOf(n)
    BY <2>1 DEF ReportHolds
  <2>2. ASSUME NEW b \in Mon!MonitorCalls, NEW y \in monitorReport'[b].found,
               y[1].variable \notin doubtful'
        PROVE  y[2] # None
    BY <2>2 DEF ReportHolds
  <2>3. ASSUME NEW b \in Mon!MonitorCalls, NEW y \in monitorReport'[b].written,
               y[1].variable \notin doubtful'
        PROVE  IsSet(y[2])'
    BY <2>3, MonitorSetting, MonitorRowsOf DEF ReportHolds, ReportsMade
  <2> QED BY <2>1, <2>2, <2>3 DEF ReportHolds, Mon!MonitorOf
<1>16. ClearHolds'
  <2> SUFFICES ASSUME NEW w \in Mon!Monitored \ doubtful', NEW b \in Mon!MonitorCalls,
                      Mon!Answered(b, "Clear")'
               PROVE  ClearHeld(b, w)'
    BY DEF ClearHolds
  <2>1. monitors'[monitorCall'[b].id] # None =>
          monitors'[monitorCall'[b].id].variable # w
    BY DEF ClearHolds, ClearHeld
  <2>2. ASSUME NEW q \in Mon!RowsOf(w)',
               monitorRow'[q].id = monitorCall'[b].id \/ q \in monitorCall'[b].found
        PROVE  /\ monitorRow'[q].id = monitorCall'[b].id
               /\ ~Mon!BeingSet(w)' /\ ~Mon!BeingReported(w)'
    BY <2>2, MonitorSetting, MonitorRowsOf DEF ClearHolds, ClearHeld
  <2> QED BY <2>1, <2>2 DEF ClearHeld
<1>17. AcceptedRight'
  <2> SUFFICES ASSUME NEW w \in Mon!Monitored \ doubtful', NEW q \in Mon!RowsOf(w)',
                      monitorRow'[q].status = "Accepted", ~Mon!BeingSet(w)'
               PROVE  IsSet(q)' \/ \E b \in Mon!MonitorCalls : ToBeRejected(b, q)'
    BY DEF AcceptedRight
  <2>1. CASE q = r
    BY <2>1 DEF AcceptedRight, ToBeRejected, Mon!At
  <2>2. CASE q # r
    BY <2>2, MonitorSetting, MonitorRowsOf DEF AcceptedRight, ToBeRejected, Mon!At
  <2> QED BY <2>1, <2>2
<1> QED BY <1>10, <1>11, <1>12, <1>13, <1>14, <1>15, <1>8, <1>16, <1>17, <1>9

LEMMA ClearOverStep ==
  ASSUME MonitorTypeOK, MonitorInv, MonitorTypeOK',
         NEW c \in Mon!MonitorCalls, Mon!ClearOver(c)
  PROVE  MonitorInv'
<1> USE MonitorConstants DEF MonitorInv
<1>1a. /\ monitorCall[c] # None /\ monitorCall[c].action = "Clear" /\ monitorCall[c].pc = "found"
       /\ monitorCall[c].found = {}
  BY MonitorTyped DEF Mon!ClearOver, Mon!At, MonitorTypeOK, Mon!TypeOK
<1>1b. \A b \in Mon!MonitorCalls : b # c => monitorCall'[b] = monitorCall[b]
  BY DEF Mon!ClearOver, MonitorTypeOK, Mon!TypeOK
<1>1c. monitorCall'[c] # None
  BY MonitorTyped, MonitorCallKept, MonitorCallMade, <1>1a, Zenon
    DEF Mon!ClearOver, MonitorTypeOK, Mon!TypeOK, Mon!At
<1>1d. /\ monitorCall'[c].action = "Base" /\ monitorCall'[c].pc = "over"
       /\ monitorCall'[c].found = {}
  BY MonitorTyped, <1>1a DEF Mon!ClearOver, Mon!MonitorCall, MonitorTypeOK, Mon!TypeOK, Mon!NewCall,
     Mon!CallOver, Mon!At
<1>1e. /\ monitorRow' = monitorRow
       /\ monitorReport' = monitorReport
       /\ monitors' = monitors
       /\ doubtful' = doubtful
  BY DEF Mon!ClearOver
<1> USE <1>1a, <1>1b, <1>1c, <1>1d, <1>1e
<1>2. /\ \A b \in Mon!MonitorCalls : \A w : Setting(b, w)' <=> Setting(b, w)
      /\ \A w : ~Setting(c, w) /\ ~Setting(c, w)'
      /\ ~Mon!Answered(c, "Clear")' /\ ~Mon!Answered(c, "Base")'
      /\ \A b \in Mon!MonitorCalls : Mon!Answered(b, "Base")' <=> Mon!Answered(b, "Base")
      /\ \A b \in Mon!MonitorCalls : Mon!Answered(b, "Clear")' <=> Mon!Answered(b, "Clear") /\ b # c
  BY MonitorOtherCalls DEF Setting, Mon!Open, Mon!Answered
<1>3. \A w : Mon!BeingSet(w)' <=> Mon!BeingSet(w)
  BY <1>2, MonitorSetting
<1> USE <1>2, <1>3, MonitorFrames, MonitorOtherCalls
<1>4. CallsMade'
  BY DEF CallsMade, CallMade
<1>5. ReportsMade'
  BY DEF ReportsMade
<1>6. OneAtATime'
  BY DEF OneAtATime
<1>7. OneMonitorRow'
  BY DEF OneMonitorRow
<1>8. RowIsThere'
  BY DEF RowIsThere
<1>9. ReportHolds'
  BY DEF ReportHolds
<1>10. SetHolds'
  BY DEF SetHolds, SetHeld
<1>11. ClearHolds'
  BY DEF ClearHolds, ClearHeld
<1>12. AcceptedRight'
  BY DEF AcceptedRight, ToBeRejected, Mon!At
<1>13. RejectedRight'
  BY DEF RejectedRight, ToBeReported
<1> QED BY <1>4, <1>5, <1>6, <1>7, <1>8, <1>9, <1>10, <1>11, <1>12, <1>13

LEMMA RequestReportStep ==
  ASSUME MonitorTypeOK, MonitorInv, MonitorTypeOK',
         NEW c \in Mon!MonitorCalls, Mon!RequestReport(c)
  PROVE  MonitorInv'
<1> USE MonitorConstants DEF MonitorInv
<1>1a. /\ monitorCall[c] # None /\ monitorCall[c].action = "Base" /\ monitorCall[c].pc = "found"
       /\ monitorCall[c].found = {}
  BY MonitorTyped DEF Mon!RequestReport, Mon!At, MonitorTypeOK, Mon!TypeOK
<1>1b. \A b \in Mon!MonitorCalls : b # c => monitorCall'[b] = monitorCall[b]
  BY DEF Mon!RequestReport, MonitorTypeOK, Mon!TypeOK
<1>1c. monitorCall'[c] # None
  BY MonitorTyped, MonitorCallKept, MonitorCallMade, <1>1a, Zenon
    DEF Mon!RequestReport, MonitorTypeOK, Mon!TypeOK, Mon!At
<1>1d. /\ monitorCall'[c].action = "Base" /\ monitorCall'[c].pc = "over"
       /\ monitorCall'[c].found = {}
  BY MonitorTyped, <1>1a DEF Mon!RequestReport, Mon!MonitorCall, MonitorTypeOK, Mon!TypeOK,
     Mon!NewCall, Mon!CallOver, Mon!At
<1>1e. \A b \in Mon!MonitorCalls : b # c => monitorReport'[b] = monitorReport[b]
  BY MonitorTyped DEF Mon!RequestReport, Mon!MonitorReport, MonitorTypeOK, Mon!TypeOK
<1>1f. /\ monitorReport'[c].pc = "asked"
       /\ monitorReport'[c].todo = monitorReport[c].todo
       /\ monitorReport'[c].started = monitorReport[c].started
       /\ monitorReport'[c].found = monitorReport[c].found
       /\ monitorReport'[c].written = monitorReport[c].written
  BY MonitorTyped DEF Mon!RequestReport, Mon!MonitorReport, MonitorTypeOK, Mon!TypeOK
<1>1g. /\ monitorRow' = monitorRow
       /\ monitors' = monitors
       /\ doubtful' = doubtful
  BY DEF Mon!RequestReport
<1> USE <1>1a, <1>1b, <1>1c, <1>1d, <1>1e, <1>1f, <1>1g
<1>2. /\ \A b \in Mon!MonitorCalls : \A w : Setting(b, w)' <=> Setting(b, w)
      /\ \A w : ~Setting(c, w) /\ ~Setting(c, w)'
      /\ ~Mon!Answered(c, "Clear")' /\ ~Mon!Answered(c, "Base")'
      /\ \A b \in Mon!MonitorCalls : Mon!Answered(b, "Clear")' <=> Mon!Answered(b, "Clear")
  BY MonitorOtherCalls DEF Setting, Mon!Open, Mon!Answered
<1>3. \A w : Mon!BeingSet(w)' <=> Mon!BeingSet(w)
  BY <1>2, MonitorSetting
<1>4. /\ \A b \in Mon!MonitorCalls : Mon!BeingWritten(b)' = Mon!BeingWritten(b)
      /\ \A b \in Mon!MonitorCalls :
           /\ monitorReport'[b].found = monitorReport[b].found
           /\ monitorReport'[b].written = monitorReport[b].written
  BY MonitorFrames DEF Mon!BeingWritten, Mon!BeingReported
<1>5. \A w : Mon!BeingReported(w)' <=> Mon!BeingReported(w)
  BY <1>2, <1>3, <1>4, MonitorFrames DEF Mon!BeingReported, Mon!BeingWritten
<1> USE <1>2, <1>3, <1>4, <1>5, MonitorFrames, MonitorOtherCalls
<1>6. CallsMade'
  BY DEF CallsMade, CallMade
<1>7. ReportsMade'
  BY DEF ReportsMade
<1>8. OneAtATime'
  BY DEF OneAtATime
<1>9. OneMonitorRow'
  BY DEF OneMonitorRow
<1>10. RowIsThere'
  BY DEF RowIsThere
<1>11. ReportHolds'
  BY DEF ReportHolds
<1>12. SetHolds'
  BY DEF SetHolds, SetHeld
<1>13. ClearHolds'
  BY DEF ClearHolds, ClearHeld
<1>14. AcceptedRight'
  BY DEF AcceptedRight, ToBeRejected, Mon!At
<1>15. RejectedRight'
  BY DEF RejectedRight, ToBeReported
<1> QED BY <1>6, <1>7, <1>8, <1>9, <1>10, <1>11, <1>12, <1>13, <1>14, <1>15

LEMMA ReportMonitorsStep ==
  ASSUME MonitorTypeOK, MonitorInv, MonitorTypeOK',
         NEW c \in Mon!MonitorCalls, Mon!ReportMonitors(c)
  PROVE  MonitorInv'
<1> USE MonitorConstants DEF MonitorInv
<1>1a. monitorReport[c].pc = "asked"
  BY MonitorTyped DEF Mon!ReportMonitors, Mon!At, MonitorTypeOK, Mon!TypeOK
<1>1b. \A b \in Mon!MonitorCalls : b # c => monitorReport'[b] = monitorReport[b]
  BY MonitorTyped DEF Mon!ReportMonitors, Mon!MonitorReport, MonitorTypeOK, Mon!TypeOK
<1>1c. /\ monitorReport'[c].pc = "reported" /\ monitorReport'[c].todo = Mon!OnStation
       /\ monitorReport'[c].started = monitorReport[c].started
       /\ monitorReport'[c].found = monitorReport[c].found
       /\ monitorReport'[c].written = monitorReport[c].written
  BY MonitorTyped DEF Mon!ReportMonitors, Mon!MonitorReport, MonitorTypeOK, Mon!TypeOK
<1>1d. /\ monitorCall' = monitorCall
       /\ monitorRow' = monitorRow
       /\ monitors' = monitors
  BY DEF Mon!ReportMonitors
<1>1e. /\ doubtful \subseteq doubtful'
       /\ \A i \in Mon!MonitorIds :
            /\ monitors[i] # None
            /\ Mon!BeingSet(monitors[i].variable) \/ Mon!BeingRejected(monitors[i].variable)
            => monitors[i].variable \in doubtful'
  BY MonitorTyped, MonitorOnStation, <1>1a DEF Mon!ReportMonitors, MonitorTypeOK, Mon!TypeOK
<1> USE <1>1a, <1>1b, <1>1c, <1>1d, <1>1e
<1>2. /\ Mon!BeingWritten(c)' \subseteq Mon!BeingWritten(c) \union Mon!OnStation
      /\ Mon!OnStation \subseteq Mon!BeingWritten(c)'
      /\ \A b \in Mon!MonitorCalls : b # c => Mon!BeingWritten(b)' = Mon!BeingWritten(b)
  BY MonitorFrames DEF Mon!BeingWritten, Mon!BeingReported
<1>3. OneAtATime'
  <2> SUFFICES ASSUME NEW w \in Mon!Monitored \ doubtful', Mon!BeingSet(w), Mon!BeingReported(w)'
               PROVE  FALSE
    BY MonitorFrames DEF OneAtATime
  <2>1. PICK b \in Mon!MonitorCalls : \E n \in Mon!BeingWritten(b)' : n.variable = w
    BY DEF Mon!BeingReported
  <2>2. PICK n \in Mon!BeingWritten(b)' : n.variable = w
    BY <2>1
  <2>3. CASE n \in Mon!BeingWritten(b)
    BY <2>2, <2>3 DEF OneAtATime, Mon!BeingReported
  <2>4. CASE n \in Mon!OnStation
    BY <2>2, <2>4 DEF Mon!OnStation
  <2> QED BY <1>2, <2>3, <2>4
<1>4. ReportHolds'
  <2>1. ASSUME NEW b \in Mon!MonitorCalls, NEW n \in Mon!BeingWritten(b)', n.variable \notin doubtful'
        PROVE  monitors[n.id] = Mon!MonitorOf(n)
    <3>1. CASE n \in Mon!BeingWritten(b)
      BY <2>1, <3>1 DEF ReportHolds
    <3>2. CASE n \in Mon!OnStation
      <4>1. PICK i \in Mon!MonitorIds :
              monitors[i] # None /\ n = [variable |-> monitors[i].variable,
                                         type |-> monitors[i].type, id |-> i]
        BY <3>2 DEF Mon!OnStation
      <4>2. Mon!MonitorOf(n) = Mon!MonitorOf(monitors[i]) /\ n.id = i
        BY <4>1 DEF Mon!MonitorOf
      <4> QED BY <4>1, <4>2, MonitorTyped
    <3> QED BY <1>2, <3>1, <3>2
  <2>2. \A b \in Mon!MonitorCalls : /\ monitorReport'[b].found = monitorReport[b].found
                                    /\ monitorReport'[b].written = monitorReport[b].written
    OBVIOUS
  <2> QED BY <2>1, <2>2, MonitorFrames DEF ReportHolds, Mon!MonitorOf
<1>5. ClearHolds'
  <2> SUFFICES ASSUME NEW w \in Mon!Monitored \ doubtful', NEW b \in Mon!MonitorCalls,
                      Mon!Answered(b, "Clear")
               PROVE  ClearHeld(b, w)'
    BY MonitorFrames DEF ClearHolds
  <2>1. ClearHeld(b, w)
    BY DEF ClearHolds
  <2>2. ASSUME NEW q \in Mon!RowsOf(w),
               monitorRow[q].id = monitorCall[b].id \/ q \in monitorCall[b].found,
               Mon!BeingReported(w)'
        PROVE  FALSE
    <3>1. Mon!BeingRejected(w) /\ ~Mon!BeingReported(w)
      BY <2>1, <2>2 DEF Mon!BeingRejected, ClearHeld
    <3>2. PICK a \in Mon!MonitorCalls : \E n \in Mon!BeingWritten(a)' : n.variable = w
      BY <2>2 DEF Mon!BeingReported
    <3>3. PICK n \in Mon!BeingWritten(a)' : n.variable = w
      BY <3>2
    <3>4. n \in Mon!OnStation
      BY <1>2, <3>1, <3>3 DEF Mon!BeingReported
    <3> QED BY <3>1, <3>3, <3>4 DEF Mon!OnStation
  <2> QED BY <2>1, <2>2, MonitorFrames DEF ClearHeld
<1>6. RejectedRight'
  <2> SUFFICES ASSUME NEW w \in Mon!Monitored \ doubtful', NEW q \in Mon!RowsOf(w),
                      monitorRow[q].status = "Rejected", ~Mon!BeingSet(w), ~Mon!BeingReported(w)',
                          IsSet(q)
               PROVE  \E b \in Mon!MonitorCalls : ToBeReported(b)'
    BY MonitorFrames DEF RejectedRight
  <2>1. /\ monitorRow[q].id \in Mon!MonitorIds /\ monitors[monitorRow[q].id] # None
        /\ monitors[monitorRow[q].id].variable = w
    BY MonitorAccepted, MonitorRowsOf DEF IsSet

  <2>2. PICK n \in Mon!OnStation : n.variable = w
    BY <2>1, MonitorOnStation
  <2> QED BY <1>2, <2>2 DEF Mon!BeingReported
<1> USE <1>2, MonitorFrames, MonitorOtherCalls
<1>7. CallsMade'
  BY DEF CallsMade, CallMade
<1>8. ReportsMade'
  BY DEF ReportsMade
<1>9. OneMonitorRow'
  BY DEF OneMonitorRow
<1>10. RowIsThere'
  BY DEF RowIsThere
<1>11. SetHolds'
  BY DEF SetHolds, SetHeld
<1>12. AcceptedRight'
  BY DEF AcceptedRight, ToBeRejected, Mon!At
<1> QED BY <1>7, <1>8, <1>3, <1>9, <1>10, <1>4, <1>11, <1>5, <1>12, <1>6

LEMMA ReportLostStep ==
  ASSUME MonitorTypeOK, MonitorInv, MonitorTypeOK',
         NEW c \in Mon!MonitorCalls, Mon!ReportLost(c)
  PROVE  MonitorInv'
<1> USE MonitorConstants DEF MonitorInv
<1>1a. monitorReport[c].pc = "asked"
  BY MonitorTyped DEF Mon!ReportLost, Mon!At, MonitorTypeOK, Mon!TypeOK
<1>1b. \A b \in Mon!MonitorCalls : b # c => monitorReport'[b] = monitorReport[b]
  BY MonitorTyped DEF Mon!ReportLost, Mon!MonitorReport, MonitorTypeOK, Mon!TypeOK
<1>1c. /\ monitorReport'[c].pc = "none"
       /\ monitorReport'[c].todo = monitorReport[c].todo
       /\ monitorReport'[c].started = monitorReport[c].started
       /\ monitorReport'[c].found = monitorReport[c].found
       /\ monitorReport'[c].written = monitorReport[c].written
  BY MonitorTyped DEF Mon!ReportLost, Mon!MonitorReport, MonitorTypeOK, Mon!TypeOK
<1>1d. /\ monitorCall' = monitorCall
       /\ monitorRow' = monitorRow
       /\ monitors' = monitors
  BY DEF Mon!ReportLost
<1>1e. /\ doubtful \subseteq doubtful'
       /\ \A i \in Mon!MonitorIds : monitors[i] # None => monitors[i].variable \in doubtful'
  BY MonitorTyped, MonitorOnStation, <1>1a DEF Mon!ReportLost, MonitorTypeOK, Mon!TypeOK
<1> USE <1>1a, <1>1b, <1>1c, <1>1d, <1>1e
<1>2. /\ \A b \in Mon!MonitorCalls : Mon!BeingWritten(b)' = Mon!BeingWritten(b)
      /\ \A b \in Mon!MonitorCalls :
           /\ monitorReport'[b].found = monitorReport[b].found
           /\ monitorReport'[b].written = monitorReport[b].written
  BY MonitorFrames DEF Mon!BeingWritten, Mon!BeingReported
<1>3. \A w : Mon!BeingReported(w)' <=> Mon!BeingReported(w)
  BY <1>2, MonitorFrames DEF Mon!BeingReported, Mon!BeingWritten
<1>4. RejectedRight'
  <2> SUFFICES ASSUME NEW w \in Mon!Monitored \ doubtful', NEW q \in Mon!RowsOf(w),
                      monitorRow[q].status = "Rejected", ~Mon!BeingSet(w), ~Mon!BeingReported(w)',
                          IsSet(q)
               PROVE  \E b \in Mon!MonitorCalls : ToBeReported(b)'
    BY MonitorFrames DEF RejectedRight
  <2>1. /\ monitorRow[q].id \in Mon!MonitorIds /\ monitors[monitorRow[q].id] # None
        /\ monitors[monitorRow[q].id].variable = w
    BY MonitorAccepted, MonitorRowsOf DEF IsSet
  <2> QED BY <2>1
<1> USE <1>2, <1>3, MonitorFrames, MonitorOtherCalls
<1>5. CallsMade'
  BY DEF CallsMade, CallMade
<1>6. ReportsMade'
  BY DEF ReportsMade
<1>7. OneAtATime'
  BY DEF OneAtATime
<1>8. OneMonitorRow'
  BY DEF OneMonitorRow
<1>9. RowIsThere'
  BY DEF RowIsThere
<1>10. ReportHolds'
  BY DEF ReportHolds
<1>11. SetHolds'
  BY DEF SetHolds, SetHeld
<1>12. ClearHolds'
  BY DEF ClearHolds, ClearHeld
<1>13. AcceptedRight'
  BY DEF AcceptedRight, ToBeRejected, Mon!At
<1> QED BY <1>5, <1>6, <1>7, <1>8, <1>9, <1>10, <1>11, <1>12, <1>13, <1>4

LEMMA StartVariableStep ==
  ASSUME MonitorTypeOK, MonitorInv, MonitorTypeOK',
         NEW c \in Mon!MonitorCalls, NEW v \in Mon!Monitored, Mon!StartVariable(c, v)
  PROVE  MonitorInv'
<1> USE MonitorConstants DEF MonitorInv
<1>1. PICK mine \in SUBSET monitorReport[c].todo :
        /\ monitorReport[c].started = {}
        /\ monitorReport' = [monitorReport EXCEPT ![c].todo = @ \ mine, ![c].started = mine]
  BY DEF Mon!StartVariable
<1>2a. \A b \in Mon!MonitorCalls : b # c => monitorReport'[b] = monitorReport[b]
  BY <1>1, MonitorTyped, Zenon DEF Mon!StartVariable, Mon!MonitorReport, MonitorTypeOK, Mon!TypeOK
<1>2b. /\ monitorReport'[c].pc = monitorReport[c].pc
       /\ monitorReport'[c].todo \union monitorReport'[c].started =
            monitorReport[c].todo \union monitorReport[c].started
       /\ monitorReport'[c].found = monitorReport[c].found
       /\ monitorReport'[c].written = monitorReport[c].written
  <2>1. monitorReport[c] \in Mon!MonitorReport
    BY MonitorTyped
  <2>2. monitorReport'[c] = [monitorReport[c] EXCEPT !.todo = monitorReport[c].todo \ mine,
                                                     !.started = mine]
    BY <1>1 DEF MonitorTypeOK, Mon!TypeOK
  <2>3. /\ monitorReport'[c].pc = monitorReport[c].pc
        /\ monitorReport'[c].todo = monitorReport[c].todo \ mine
        /\ monitorReport'[c].started = mine
        /\ monitorReport'[c].found = monitorReport[c].found
        /\ monitorReport'[c].written = monitorReport[c].written
    BY <2>1, <2>2 DEF Mon!MonitorReport
  <2> QED BY <1>1, <2>3
<1>2c. /\ monitorCall' = monitorCall
       /\ monitorRow' = monitorRow
       /\ monitors' = monitors
       /\ doubtful' = doubtful
  BY <1>1 DEF Mon!StartVariable
<1> USE <1>2a, <1>2b, <1>2c
<1>3. /\ \A b \in Mon!MonitorCalls : Mon!BeingWritten(b)' = Mon!BeingWritten(b)
      /\ \A b \in Mon!MonitorCalls :
           /\ monitorReport'[b].found = monitorReport[b].found
           /\ monitorReport'[b].written = monitorReport[b].written
           /\ monitorReport'[b].pc = monitorReport[b].pc
  BY <1>1, MonitorFrames DEF Mon!BeingWritten, Mon!BeingReported
<1>4. \A w : Mon!BeingReported(w)' <=> Mon!BeingReported(w)
  BY <1>3, MonitorFrames DEF Mon!BeingReported, Mon!BeingWritten
<1> USE <1>3, <1>4, MonitorFrames, MonitorOtherCalls
<1>5. CallsMade'
  BY DEF CallsMade, CallMade
<1>6. ReportsMade'
  BY DEF ReportsMade
<1>7. OneAtATime'
  BY DEF OneAtATime
<1>8. OneMonitorRow'
  BY DEF OneMonitorRow
<1>9. RowIsThere'
  BY DEF RowIsThere
<1>10. ReportHolds'
  BY DEF ReportHolds
<1>11. SetHolds'
  BY DEF SetHolds, SetHeld
<1>12. ClearHolds'
  BY DEF ClearHolds, ClearHeld
<1>13. AcceptedRight'
  BY DEF AcceptedRight, ToBeRejected, Mon!At
<1>14. RejectedRight'
  BY DEF RejectedRight, ToBeReported
<1> QED BY <1>5, <1>6, <1>7, <1>8, <1>9, <1>10, <1>11, <1>12, <1>13, <1>14

LEMMA FindReportedStep ==
  ASSUME MonitorTypeOK, MonitorInv, MonitorTypeOK',
         NEW c \in Mon!MonitorCalls, NEW m \in monitorReport[c].started, Mon!FindReported(c, m)
  PROVE  MonitorInv'
<1> USE MonitorConstants DEF MonitorInv
<1>1. PICK r \in (IF Mon!RowsOf(m.variable) = {} THEN {None} ELSE Mon!RowsOf(m.variable)) :
        monitorReport' = [monitorReport EXCEPT ![c].started = @ \ {m},
                                               ![c].found = @ \union {<<m, r>>}]
  BY DEF Mon!FindReported
<1>2a. \A b \in Mon!MonitorCalls : b # c => monitorReport'[b] = monitorReport[b]
  BY <1>1, MonitorTyped DEF Mon!FindReported, Mon!MonitorReport, MonitorTypeOK, Mon!TypeOK
<1>2b. /\ monitorReport'[c].pc = monitorReport[c].pc
       /\ monitorReport'[c].todo = monitorReport[c].todo
       /\ monitorReport'[c].written = monitorReport[c].written
       /\ monitorReport'[c].started = monitorReport[c].started \ {m}
       /\ monitorReport'[c].found = monitorReport[c].found \union {<<m, r>>}
  BY <1>1, MonitorTyped DEF Mon!FindReported, Mon!MonitorReport, MonitorTypeOK, Mon!TypeOK
<1>2c. /\ monitorCall' = monitorCall
       /\ monitorRow' = monitorRow
       /\ monitors' = monitors
       /\ doubtful' = doubtful
  BY <1>1 DEF Mon!FindReported
<1>2d. m \in Mon!BeingWritten(c)
  BY <1>1, MonitorTyped DEF Mon!FindReported, Mon!At, MonitorTypeOK, Mon!TypeOK, Mon!BeingWritten,
     CallsMade, CallMade, Mon!MonitorCall, Mon!MonitorReport
<1> USE <1>2a, <1>2b, <1>2c, <1>2d
<1>3. \A b \in Mon!MonitorCalls : Mon!BeingWritten(b)' = Mon!BeingWritten(b)
  <2>1. \A b \in Mon!MonitorCalls \ {c} : Mon!BeingWritten(b)' = Mon!BeingWritten(b)
    BY DEF Mon!BeingWritten
  <2>2. ASSUME NEW n PROVE n \in Mon!BeingWritten(c)' <=> n \in Mon!BeingWritten(c)
    <3>1. <<m, r>>[1] = m
      OBVIOUS
    <3>2. (\E x \in monitorReport'[c].found \union monitorReport'[c].written : n = x[1]) <=>
          n = m \/ \E x \in monitorReport[c].found \union monitorReport[c].written : n = x[1]
      BY <3>1
    <3> QED BY <3>2, MonitorWritten
  <2>3. Mon!BeingWritten(c)' = Mon!BeingWritten(c)
    BY <2>2
  <2> QED BY <2>1, <2>3
<1>4. \A w : Mon!BeingReported(w)' <=> Mon!BeingReported(w)
  BY <1>3, MonitorFrames DEF Mon!BeingReported, Mon!BeingWritten
<1>5. ReportHolds'
  <2>1. ASSUME NEW b \in Mon!MonitorCalls, NEW y \in monitorReport'[b].found,
               y[1].variable \notin doubtful
        PROVE  y[2] # None
    <3>1. CASE y \in monitorReport[b].found
      BY <2>1, <3>1 DEF ReportHolds
    <3>2. CASE y = <<m, r>>
      <4>1. /\ m.variable \in Mon!Monitored \ doubtful /\ m.id \in Mon!MonitorIds
            /\ monitors[m.id] # None /\ monitors[m.id].variable = m.variable
        BY <2>1, <3>2, MonitorAccepted DEF ReportHolds
      <4>2. Mon!RowsOf(m.variable) # {}
        BY <4>1 DEF RowIsThere
      <4>3. r \in Mon!MonitorRows
        BY <1>1, <4>2, MonitorRowsOf
      <4> QED BY <3>2, <4>3, MonitorConstants
    <3> QED BY <3>1, <3>2
  <2>2. \A b \in Mon!MonitorCalls : monitorReport'[b].written = monitorReport[b].written
    OBVIOUS
  <2> QED BY <1>3, <2>1, <2>2, MonitorFrames DEF ReportHolds
<1> USE <1>3, <1>4, MonitorFrames, MonitorOtherCalls
<1>6. CallsMade'
  BY DEF CallsMade, CallMade
<1>7. ReportsMade'
  BY DEF ReportsMade
<1>8. OneAtATime'
  BY DEF OneAtATime
<1>9. OneMonitorRow'
  BY DEF OneMonitorRow
<1>10. RowIsThere'
  BY DEF RowIsThere
<1>11. SetHolds'
  BY DEF SetHolds, SetHeld
<1>12. ClearHolds'
  BY DEF ClearHolds, ClearHeld
<1>13. AcceptedRight'
  BY DEF AcceptedRight, ToBeRejected, Mon!At
<1>14. RejectedRight'
  BY DEF RejectedRight, ToBeReported
<1> QED BY <1>6, <1>7, <1>8, <1>9, <1>10, <1>5, <1>11, <1>12, <1>13, <1>14

LEMMA WriteReportedStep ==
  ASSUME MonitorTypeOK, MonitorInv, MonitorTypeOK',
         NEW c \in Mon!MonitorCalls, NEW x \in monitorReport[c].found, Mon!WriteReported(c, x[1], x[2])
  PROVE  MonitorInv'
<1> USE MonitorConstants DEF MonitorInv
<1>1. PICK s \in Mon!MonitorRows :
        /\ IF x[2] = None THEN Mon!IsNew(s) ELSE s = x[2]
        /\ monitorRow' = [monitorRow EXCEPT ![s] =
             [variable |-> x[1].variable, type |-> x[1].type, id |-> x[1].id,
              status |-> IF x[2] = None THEN None ELSE monitorRow[s].status]]
        /\ monitorReport' = [monitorReport EXCEPT ![c].found = @ \ {<<x[1], x[2]>>},
                                               ![c].written = @ \union {<<x[1], s>>}]
  BY DEF Mon!WriteReported
<1>2. /\ \A b \in Mon!MonitorCalls : b # c => monitorReport'[b] = monitorReport[b]
      /\ monitorReport'[c].pc = monitorReport[c].pc
      /\ monitorReport'[c].todo = monitorReport[c].todo
      /\ monitorReport'[c].started = monitorReport[c].started
      /\ monitorReport'[c].found = monitorReport[c].found \ {<<x[1], x[2]>>}
      /\ monitorReport'[c].written = monitorReport[c].written \union {<<x[1], s>>}
      /\ Mon!RowsWithId(x[1].id) \subseteq {x[2]}
      /\ x[1] \in Mon!Reported /\ x[1].id \in Mon!MonitorIds /\ x[1].id # None
      /\ x[1] \in Mon!BeingWritten(c)
      /\ x[2] # None => s \in Mon!RowsOf(x[1].variable) /\ monitorRow[s] \in Mon!MonitorRow
      /\ \A q \in Mon!MonitorRows : q # s => monitorRow'[q] = monitorRow[q]
      /\ monitorRow'[s] # None
      /\ monitorRow'[s].variable = x[1].variable /\ monitorRow'[s].type = x[1].type
      /\ monitorRow'[s].id = x[1].id
      /\ x[2] = None => monitorRow'[s].status = None /\ monitorRow[s] = None
      /\ x[2] # None => monitorRow'[s].status = monitorRow[s].status
      /\ monitorCall' = monitorCall
      /\ monitors' = monitors
      /\ doubtful' = doubtful
  <2>1. \A b \in Mon!MonitorCalls : b # c => monitorReport'[b] = monitorReport[b]
    BY <1>1, MonitorTyped DEF Mon!WriteReported, Mon!MonitorReport, MonitorTypeOK, Mon!TypeOK
  <2>2. /\ monitorReport'[c].pc = monitorReport[c].pc
        /\ monitorReport'[c].todo = monitorReport[c].todo
        /\ monitorReport'[c].started = monitorReport[c].started
        /\ monitorReport'[c].found = monitorReport[c].found \ {<<x[1], x[2]>>}
        /\ monitorReport'[c].written = monitorReport[c].written \union {<<x[1], s>>}
    BY <1>1, MonitorTyped DEF Mon!WriteReported, Mon!MonitorReport, MonitorTypeOK, Mon!TypeOK
  <2>3. /\ Mon!RowsWithId(x[1].id) \subseteq {x[2]}
        /\ x[1] \in Mon!Reported /\ x[1].id \in Mon!MonitorIds /\ x[1].id # None
        /\ x[1] \in Mon!BeingWritten(c)
        /\ x[2] # None => s \in Mon!RowsOf(x[1].variable) /\ monitorRow[s] \in Mon!MonitorRow
    BY <1>1, MonitorTyped DEF Mon!WriteReported, Mon!At, MonitorTypeOK, Mon!TypeOK, Mon!Reported,
       Mon!BeingWritten, ReportsMade, Mon!RowsOf, Mon!UsedRows, CallsMade, CallMade,
       Mon!MonitorCall, Mon!MonitorReport
  <2>4. /\ \A q \in Mon!MonitorRows : q # s => monitorRow'[q] = monitorRow[q]
        /\ monitorRow'[s].variable = x[1].variable /\ monitorRow'[s].type = x[1].type
        /\ monitorRow'[s].id = x[1].id
        /\ x[2] = None => monitorRow'[s].status = None /\ monitorRow[s] = None
        /\ x[2] # None => monitorRow'[s].status = monitorRow[s].status
    <3>1. \A q \in Mon!MonitorRows : q # s => monitorRow'[q] = monitorRow[q]
      BY <1>1 DEF MonitorTypeOK, Mon!TypeOK
    <3>2. monitorRow'[s] = [variable |-> x[1].variable, type |-> x[1].type, id |-> x[1].id,
                            status |-> IF x[2] = None THEN None ELSE monitorRow[s].status]
      BY <1>1 DEF MonitorTypeOK, Mon!TypeOK
    <3>3. x[2] = None => monitorRow[s] = None
      BY <1>1 DEF Mon!IsNew, Mon!UsedRows
    <3> QED BY <3>1, <3>2, <3>3
  <2>5. monitorRow'[s] # None
    <3>1. [variable |-> x[1].variable, type |-> x[1].type, id |-> x[1].id,
           status |-> IF x[2] = None THEN None ELSE monitorRow[s].status] \in Mon!MonitorRow
      BY <2>3, <1>1, MonitorTyped, MonitorRowKept
        DEF Mon!MonitorRow, Mon!MonitorCall, Mon!Reported, Mon!UsedRows, CallsMade, CallMade
    <3> QED BY <1>1, <2>3, <3>1 DEF Mon!WriteReported, MonitorTypeOK, Mon!TypeOK
  <2>6. /\ monitorCall' = monitorCall
        /\ monitors' = monitors
        /\ doubtful' = doubtful
    BY <1>1 DEF Mon!WriteReported
  <2> QED BY <2>1, <2>2, <2>3, <2>4, <2>5, <2>6
<1>3. /\ Mon!UsedRows' = Mon!UsedRows \union {s}
      /\ \A w : w # x[1].variable => Mon!RowsOf(w)' = Mon!RowsOf(w)
      /\ Mon!RowsOf(x[1].variable)' = Mon!RowsOf(x[1].variable) \union {s}
      /\ \A q \in Mon!UsedRows : q # s => (IsSet(q)' <=> IsSet(q))
  BY <1>2, MonitorRowsAlike, MonitorFrames
    DEF Mon!UsedRows, Mon!RowsOf, IsSet, Mon!MonitorOf, Mon!Wanted
<1>4. \A b \in Mon!MonitorCalls : Mon!BeingWritten(b)' = Mon!BeingWritten(b)
  <2>1. \A b \in Mon!MonitorCalls \ {c} : Mon!BeingWritten(b)' = Mon!BeingWritten(b)
    BY <1>2 DEF Mon!BeingWritten
  <2>2. ASSUME NEW n PROVE n \in Mon!BeingWritten(c)' <=> n \in Mon!BeingWritten(c)
    <3>1. <<x[1], s>>[1] = x[1] /\ <<x[1], x[2]>>[1] = x[1]
      OBVIOUS
    <3>2. <<x[1], s>> \in monitorReport'[c].written /\ x \in monitorReport[c].found
      BY <1>2
    <3>3. \A y : /\ y \in monitorReport[c].found \union monitorReport[c].written =>
                      \/ y \in monitorReport'[c].found \union monitorReport'[c].written
                      \/ y = <<x[1], x[2]>>
                 /\ y \in monitorReport'[c].found \union monitorReport'[c].written =>
                      \/ y \in monitorReport[c].found \union monitorReport[c].written
                      \/ y = <<x[1], s>>
      BY <1>2
    <3>4. (\E y \in monitorReport'[c].found \union monitorReport'[c].written : n = y[1]) <=>
          (\E y \in monitorReport[c].found \union monitorReport[c].written : n = y[1])
      BY <3>1, <3>2, <3>3
    <3> QED BY <1>2, <3>4, MonitorWritten
  <2>3. Mon!BeingWritten(c)' = Mon!BeingWritten(c)
    BY <2>2
  <2> QED BY <2>1, <2>3
<1>5. \A w : Mon!BeingReported(w)' <=> Mon!BeingReported(w)
  BY <1>2, <1>3, <1>4, MonitorFrames DEF Mon!BeingReported, Mon!BeingWritten
<1>6. /\ x[1].variable \in Mon!Monitored
      /\ Mon!BeingReported(x[1].variable)
      /\ x[1].variable \notin doubtful =>
           /\ s \in Mon!RowsOf(x[1].variable) /\ ~Mon!BeingSet(x[1].variable)
           /\ IsSet(s)' /\ monitors[x[1].id] # None
           /\ monitors[x[1].id].variable = x[1].variable
      /\ \A w : w # x[1].variable =>
           \A q \in Mon!RowsOf(w) : q # s /\ q \in Mon!UsedRows /\ monitorRow'[q] = monitorRow[q]
  <2>1. x[1].variable \in Mon!Monitored /\ Mon!BeingReported(x[1].variable)
    BY <1>2, MonitorAccepted DEF Mon!BeingReported
  <2>2. ASSUME x[1].variable \notin doubtful
        PROVE  /\ s \in Mon!RowsOf(x[1].variable) /\ ~Mon!BeingSet(x[1].variable)
               /\ IsSet(s)' /\ monitors[x[1].id] # None
               /\ monitors[x[1].id].variable = x[1].variable
    <3>1. x[2] # None /\ monitors[x[1].id] = Mon!MonitorOf(x[1])
      BY <1>2, <2>2 DEF ReportHolds
    <3>2. monitors[x[1].id] # None /\ monitors[x[1].id].variable = x[1].variable
      BY <1>2, <3>1, MonitorAccepted
    <3>3. IsSet(s)'
      BY <1>2, <3>1 DEF IsSet, Mon!MonitorOf
    <3> QED BY <1>2, <2>1, <2>2, <3>1, <3>2, <3>3 DEF OneAtATime
  <2>3. s \in Mon!UsedRows => s \in Mon!RowsOf(x[1].variable)
    BY <1>2 DEF Mon!UsedRows
  <2>4. ASSUME NEW w, w # x[1].variable, NEW q \in Mon!RowsOf(w)
        PROVE  q # s /\ q \in Mon!UsedRows /\ monitorRow'[q] = monitorRow[q]
    <3>1. q # s /\ q \in Mon!UsedRows /\ q \in Mon!MonitorRows
      BY <2>3, <2>4, MonitorRowsOf
    <3> QED BY <1>2, <3>1
  <2> QED BY <2>1, <2>2, <2>4
<1>7. OneMonitorRow'
  <2> SUFFICES ASSUME NEW w \in Mon!Monitored \ doubtful
               PROVE  /\ \A p, q \in Mon!RowsOf(w)' : p = q
                      /\ \A b \in Mon!MonitorCalls : Setting(b, w) /\ monitorCall[b].pc = "looked"
                           /\ monitorCall[b].found = {} => Mon!RowsOf(w)' = {}
    BY <1>2, MonitorFrames DEF OneMonitorRow
  <2>1. Mon!RowsOf(w)' = Mon!RowsOf(w)
    <3>1. CASE w = x[1].variable
      BY <1>3, <1>6, <3>1, Zenon
    <3>2. CASE w # x[1].variable
      BY <1>3, <3>2
    <3> QED BY <3>1, <3>2
  <2> QED BY <2>1 DEF OneMonitorRow
<1>8. ReportHolds'
  <2>1. ASSUME NEW b \in Mon!MonitorCalls, NEW y \in monitorReport'[b].written,
               y[1].variable \notin doubtful
        PROVE  IsSet(y[2])'
    <3>1. CASE y \in monitorReport[b].written
      <4>1. y[2] \in Mon!RowsOf(y[1].variable) /\ IsSet(y[2])
        BY <2>1, <3>1, MonitorAccepted DEF ReportHolds
      <4>2. CASE y[2] = s
        BY <1>6, <2>1, <4>1, <4>2
      <4>3. CASE y[2] # s
        BY <1>3, <4>1, <4>3, MonitorRowsOf
      <4> QED BY <4>2, <4>3
    <3>2. CASE y = <<x[1], s>>
      BY <1>6, <2>1, <3>2
    <3> QED BY <1>2, <3>1, <3>2
  <2>2. \A b \in Mon!MonitorCalls : monitorReport'[b].found \subseteq monitorReport[b].found
    BY <1>2
  <2> QED BY <1>2, <1>4, <2>1, <2>2 DEF ReportHolds
<1>9. SetHolds'
  <2> SUFFICES ASSUME NEW w \in Mon!Monitored \ doubtful, NEW b \in Mon!MonitorCalls, Setting(b, w)
               PROVE  SetHeld(b, w)'
    BY <1>2, MonitorFrames DEF SetHolds
  <2>1. SetHeld(b, w) /\ monitorCall[b].found \subseteq Mon!RowsOf(w)
    BY MonitorRowsOf DEF SetHolds, CallsMade, CallMade, Setting, Mon!Open
  <2>2. w # x[1].variable
    BY <1>6, MonitorSetting
  <2> QED BY <1>2, <1>3, <1>6, <2>1, <2>2, MonitorFrames DEF SetHeld
<1>10. ClearHolds'
  <2> SUFFICES ASSUME NEW w \in Mon!Monitored \ doubtful, NEW b \in Mon!MonitorCalls,
                      Mon!Answered(b, "Clear")
               PROVE  ClearHeld(b, w)'
    BY <1>2, MonitorFrames DEF ClearHolds
  <2>1. ClearHeld(b, w)
    BY DEF ClearHolds
  <2>2. CASE w = x[1].variable
    <3>1. Mon!RowsOf(w)' = Mon!RowsOf(w) /\ monitorCall[b].id # x[1].id
      BY <1>3, <1>6, <2>1, <2>2, Zenon DEF ClearHeld
    <3>2. \A q \in Mon!RowsOf(w) :
            monitorRow[q].id # monitorCall[b].id /\ q \notin monitorCall[b].found
      BY <1>6, <2>1, <2>2 DEF ClearHeld
    <3>3. \A q \in Mon!RowsOf(w) : monitorRow'[q].id # monitorCall[b].id
      BY <1>2, <3>1, <3>2, MonitorRowsOf
    <3> QED BY <1>2, <2>1, <3>1, <3>2, <3>3 DEF ClearHeld
  <2>3. CASE w # x[1].variable
    BY <1>2, <1>3, <1>5, <1>6, <2>1, <2>3, MonitorFrames DEF ClearHeld
  <2> QED BY <2>2, <2>3
<1>11. AcceptedRight'
  <2> SUFFICES ASSUME NEW w \in Mon!Monitored \ doubtful, NEW q \in Mon!RowsOf(w)',
                      monitorRow'[q].status = "Accepted", ~Mon!BeingSet(w)
               PROVE  IsSet(q)' \/ \E b \in Mon!MonitorCalls : ToBeRejected(b, q)'
    BY <1>2, <1>5, MonitorFrames DEF AcceptedRight
  <2>1. w = x[1].variable => Mon!RowsOf(w)' = Mon!RowsOf(w)
    BY <1>3, <1>6
  <2>2. CASE w = x[1].variable /\ q = s
    BY <1>6, <2>2
  <2>3. CASE ~(w = x[1].variable /\ q = s)
    <3>1. q \in Mon!RowsOf(w) /\ monitorRow'[q] = monitorRow[q] /\ (IsSet(q)' <=> IsSet(q))
      <4>1. CASE w = x[1].variable
        BY <1>2, <1>3, <2>1, <2>3, <4>1, MonitorRowsOf
      <4>2. CASE w # x[1].variable
        BY <1>3, <1>6, <4>2
      <4> QED BY <4>1, <4>2
    <3>2. IsSet(q) \/ \E b \in Mon!MonitorCalls : ToBeRejected(b, q)
      BY <3>1 DEF AcceptedRight
    <3>3. ASSUME NEW b \in Mon!MonitorCalls, ToBeRejected(b, q)
          PROVE  ToBeRejected(b, q)'
      BY <1>2, <3>1, <3>3, MonitorFrames DEF ToBeRejected, Mon!At
    <3> QED BY <3>1, <3>2, <3>3
  <2> QED BY <2>2, <2>3
<1>12. RejectedRight'
  <2> SUFFICES ASSUME NEW w \in Mon!Monitored \ doubtful, NEW q \in Mon!RowsOf(w)',
                      monitorRow'[q].status = "Rejected", ~Mon!BeingSet(w), ~Mon!BeingReported(w)
               PROVE  ~IsSet(q)' \/ \E b \in Mon!MonitorCalls : ToBeReported(b)'
    BY <1>2, <1>5, MonitorFrames DEF RejectedRight
  <2>1. w = x[1].variable => Mon!RowsOf(w)' = Mon!RowsOf(w)
    BY <1>3, <1>6
  <2>2. CASE w = x[1].variable /\ q = s
    BY <1>6, <2>2
  <2>3. CASE ~(w = x[1].variable /\ q = s)
    <3>1. q \in Mon!RowsOf(w) /\ monitorRow'[q] = monitorRow[q] /\ (IsSet(q)' <=> IsSet(q))
      <4>1. CASE w = x[1].variable
        BY <1>2, <1>3, <2>1, <2>3, <4>1, MonitorRowsOf
      <4>2. CASE w # x[1].variable
        BY <1>3, <1>6, <4>2
      <4> QED BY <4>1, <4>2
    <3>2. ~IsSet(q) \/ \E b \in Mon!MonitorCalls : ToBeReported(b)
      BY <3>1 DEF RejectedRight
    <3>3. ASSUME NEW b \in Mon!MonitorCalls, ToBeReported(b)
          PROVE  ToBeReported(b)'
      BY <1>2, <3>1, <3>3, MonitorFrames DEF ToBeReported
    <3> QED BY <3>1, <3>2, <3>3
  <2> QED BY <2>2, <2>3
<1> USE <1>2, <1>3, <1>4, <1>5, MonitorFrames, MonitorOtherCalls
<1>13. CallsMade'
  <2> SUFFICES ASSUME NEW b \in Mon!MonitorCalls, monitorCall'[b] # None PROVE CallMade(b)'
    BY DEF CallsMade
  <2>1. CASE b = c
    BY <2>1, MonitorSetting, MonitorRowsOf DEF CallsMade, CallMade
  <2>2. CASE b # c
    BY <2>2, MonitorSetting, MonitorRowsOf DEF CallsMade, CallMade
  <2> QED BY <2>1, <2>2
<1>14. ReportsMade'
  BY DEF ReportsMade
<1>15. OneAtATime'
  BY DEF OneAtATime
<1>16. RowIsThere'
  BY DEF RowIsThere
<1> QED BY <1>13, <1>14, <1>15, <1>7, <1>16, <1>8, <1>9, <1>10, <1>11, <1>12

LEMMA ReportedIdTakenStep ==
  ASSUME MonitorTypeOK, MonitorInv, MonitorTypeOK',
         NEW c \in Mon!MonitorCalls, NEW x \in monitorReport[c].found,
         Mon!ReportedIdTaken(c, x[1], x[2])
  PROVE  MonitorInv'
<1> USE MonitorConstants DEF MonitorInv
<1>1a. \A b \in Mon!MonitorCalls : b # c => monitorReport'[b] = monitorReport[b]
  BY MonitorTyped DEF Mon!ReportedIdTaken, Mon!MonitorReport, MonitorTypeOK, Mon!TypeOK
<1>1b. /\ monitorReport'[c].pc = monitorReport[c].pc
       /\ monitorReport'[c].todo = {}
       /\ monitorReport'[c].started = monitorReport[c].started
       /\ monitorReport'[c].written = monitorReport[c].written
       /\ monitorReport'[c].found = monitorReport[c].found \ {<<x[1], x[2]>>}
  BY MonitorTyped DEF Mon!ReportedIdTaken, Mon!MonitorReport, MonitorTypeOK, Mon!TypeOK
<1>1c. /\ doubtful \subseteq doubtful'
       /\ \A n \in monitorReport[c].todo \union {x[1]} : n.variable \in doubtful'
  BY MonitorTyped, MonitorOnStation DEF Mon!ReportedIdTaken, MonitorTypeOK, Mon!TypeOK
<1>1d. /\ monitorCall' = monitorCall
       /\ monitorRow' = monitorRow
       /\ monitors' = monitors
  BY DEF Mon!ReportedIdTaken
<1> USE <1>1a, <1>1b, <1>1c, <1>1d
<1>2. /\ \A b \in Mon!MonitorCalls : Mon!BeingWritten(b)' \subseteq Mon!BeingWritten(b)
      /\ \A b \in Mon!MonitorCalls : \A n \in Mon!BeingWritten(b) :
           n \in Mon!BeingWritten(b)' \/ n.variable \in doubtful'
  BY MonitorFrames DEF Mon!BeingWritten, Mon!BeingReported
<1>3. \A w : w \notin doubtful' => (Mon!BeingReported(w)' <=> Mon!BeingReported(w))
  BY <1>2, MonitorFrames DEF Mon!BeingReported, Mon!BeingWritten
<1> USE <1>2, <1>3, MonitorFrames, MonitorOtherCalls
<1>4. CallsMade'
  BY DEF CallsMade, CallMade
<1>5. ReportsMade'
  BY DEF ReportsMade
<1>6. OneAtATime'
  BY DEF OneAtATime
<1>7. OneMonitorRow'
  BY DEF OneMonitorRow
<1>8. RowIsThere'
  BY DEF RowIsThere
<1>9. ReportHolds'
  BY DEF ReportHolds
<1>10. SetHolds'
  BY DEF SetHolds, SetHeld
<1>11. ClearHolds'
  BY DEF ClearHolds, ClearHeld
<1>12. AcceptedRight'
  BY DEF AcceptedRight, ToBeRejected, Mon!At
<1>13. RejectedRight'
  BY DEF RejectedRight, ToBeReported
<1> QED BY <1>4, <1>5, <1>6, <1>7, <1>8, <1>9, <1>10, <1>11, <1>12, <1>13

LEMMA StatusReportedStep ==
  ASSUME MonitorTypeOK, MonitorInv, MonitorTypeOK',
         NEW c \in Mon!MonitorCalls, NEW x \in monitorReport[c].written,
         Mon!StatusReported(c, x[1], x[2])
  PROVE  MonitorInv'
<1> USE MonitorConstants DEF MonitorInv
<1>1a. \A b \in Mon!MonitorCalls : b # c => monitorReport'[b] = monitorReport[b]
  BY MonitorTyped DEF Mon!StatusReported, Mon!Status, Mon!MonitorReport, MonitorTypeOK, Mon!TypeOK
<1>1b. /\ monitorReport'[c].pc = monitorReport[c].pc
       /\ monitorReport'[c].todo = monitorReport[c].todo
       /\ monitorReport'[c].started = monitorReport[c].started
       /\ monitorReport'[c].found = monitorReport[c].found
       /\ monitorReport'[c].written = monitorReport[c].written \ {<<x[1], x[2]>>}
  BY MonitorTyped DEF Mon!StatusReported, Mon!Status, Mon!MonitorReport, MonitorTypeOK, Mon!TypeOK
<1>1c. x[2] \in Mon!RowsOf(x[1].variable) /\ x[2] \in Mon!UsedRows /\ monitorRow[x[2]] \in Mon!MonitorRow
  BY MonitorTyped DEF Mon!StatusReported, Mon!Status, Mon!At, MonitorTypeOK, Mon!TypeOK,
     ReportsMade, Mon!RowsOf, Mon!UsedRows, CallsMade, CallMade, Mon!MonitorCall, Mon!MonitorReport
<1>1d. /\ \A q \in Mon!MonitorRows : q # x[2] => monitorRow'[q] = monitorRow[q]
       /\ monitorRow'[x[2]].status = "Accepted"
       /\ monitorRow'[x[2]].variable = monitorRow[x[2]].variable
       /\ monitorRow'[x[2]].type = monitorRow[x[2]].type
       /\ monitorRow'[x[2]].id = monitorRow[x[2]].id
  BY MonitorTyped, <1>1c DEF Mon!StatusReported, Mon!Status, Mon!MonitorRow, MonitorTypeOK,
     Mon!TypeOK, Mon!UsedRows
<1>1e. monitorRow'[x[2]] # None
  <2>1. [monitorRow[x[2]] EXCEPT !.status = "Accepted"] \in Mon!MonitorRow
    BY <1>1c, MonitorTyped, MonitorRowKept DEF Mon!MonitorRow, Mon!MonitorCall, Mon!Reported,
       Mon!UsedRows, CallsMade, CallMade
  <2> QED BY <1>1c, <2>1 DEF Mon!StatusReported, Mon!Status, MonitorTypeOK, Mon!TypeOK
<1>1f. /\ monitorCall' = monitorCall
       /\ monitors' = monitors
       /\ doubtful' = doubtful
  BY DEF Mon!StatusReported, Mon!Status
<1> USE <1>1a, <1>1b, <1>1c, <1>1d, <1>1e, <1>1f
<1>2. /\ Mon!UsedRows' = Mon!UsedRows /\ \A w : Mon!RowsOf(w)' = Mon!RowsOf(w)
      /\ \A q \in Mon!UsedRows : IsSet(q)' <=> IsSet(q)
  BY MonitorRowsAlike, MonitorFrames DEF Mon!UsedRows, Mon!RowsOf, IsSet, Mon!MonitorOf, Mon!Wanted
<1>3. \A b \in Mon!MonitorCalls : Mon!BeingWritten(b)' \subseteq Mon!BeingWritten(b)
  BY MonitorFrames DEF Mon!BeingWritten, Mon!BeingReported
<1>4. \A w : Mon!BeingReported(w) /\ w # x[1].variable => Mon!BeingReported(w)'
  BY <1>2, <1>3, MonitorFrames DEF Mon!BeingReported, Mon!BeingWritten
<1>5. \A q \in Mon!MonitorRows : /\ monitorRow'[q].id = monitorRow[q].id
                                 /\ monitorRow'[q].type = monitorRow[q].type
                                 /\ monitorRow'[q].variable = monitorRow[q].variable
                                 /\ q # x[2] => monitorRow'[q].status = monitorRow[q].status
  OBVIOUS
<1>6. \A w : Mon!BeingReported(w)' => Mon!BeingReported(w)
  BY <1>3 DEF Mon!BeingReported
<1>7. SetHolds'
  <2> SUFFICES ASSUME NEW w \in Mon!Monitored \ doubtful, NEW b \in Mon!MonitorCalls, Setting(b, w)
               PROVE  SetHeld(b, w)'
    BY MonitorFrames DEF SetHolds
  <2>1. SetHeld(b, w) /\ Mon!Wanted(b)' = Mon!Wanted(b)
    BY MonitorFrames DEF SetHolds
  <2>2. monitorCall[b].found \subseteq Mon!UsedRows
    BY DEF CallsMade, CallMade, Setting, Mon!Open
  <2> QED BY <1>2, <1>5, <2>1, <2>2, MonitorRowsOf DEF SetHeld
<1>8. AcceptedRight'
  <2> SUFFICES ASSUME NEW w \in Mon!Monitored \ doubtful, NEW q \in Mon!RowsOf(w),
                      monitorRow'[q].status = "Accepted", ~Mon!BeingSet(w), ~IsSet(q)
               PROVE  \E b \in Mon!MonitorCalls : ToBeRejected(b, q)'
    BY <1>2, MonitorRowsOf, MonitorFrames DEF AcceptedRight
  <2>1. CASE q = x[2]
    <3>1. w = x[1].variable
      BY <2>1, MonitorRowsOf
    <3>2. IsSet(x[2])
      BY <3>1 DEF ReportHolds
    <3> QED BY <2>1, <3>2
  <2>2. CASE q # x[2]
    <3>1. monitorRow[q].status = "Accepted"
      BY <1>5, <2>2, MonitorRowsOf
    <3>2. PICK b \in Mon!MonitorCalls : ToBeRejected(b, q)
      BY <3>1 DEF AcceptedRight
    <3> QED BY <1>5, <3>2, MonitorRowsOf DEF ToBeRejected, Mon!At
  <2> QED BY <2>1, <2>2
<1>9. RejectedRight'
  <2> SUFFICES ASSUME NEW w \in Mon!Monitored \ doubtful, NEW q \in Mon!RowsOf(w),
                      monitorRow'[q].status = "Rejected", ~Mon!BeingSet(w), ~Mon!BeingReported(w)',
                          IsSet(q)
               PROVE  \E b \in Mon!MonitorCalls : ToBeReported(b)'
    BY <1>2, MonitorRowsOf, MonitorFrames DEF RejectedRight
  <2>1. q # x[2]
    OBVIOUS
  <2>2. w # x[1].variable
    BY <2>1 DEF OneMonitorRow
  <2>3. monitorRow[q].status = "Rejected" /\ ~Mon!BeingReported(w)
    BY <1>4, <1>5, <2>1, <2>2, MonitorRowsOf
  <2>4. PICK b \in Mon!MonitorCalls : ToBeReported(b)
    BY <2>3 DEF RejectedRight
  <2> QED BY <2>4, MonitorFrames DEF ToBeReported
<1> USE <1>5, <1>6, <1>2, <1>3, <1>4, MonitorFrames, MonitorOtherCalls
<1>10. CallsMade'
  <2> SUFFICES ASSUME NEW b \in Mon!MonitorCalls, monitorCall'[b] # None PROVE CallMade(b)'
    BY DEF CallsMade
  <2>1. CASE b = c
    BY <2>1, MonitorSetting, MonitorRowsOf DEF CallsMade, CallMade
  <2>2. CASE b # c
    BY <2>2, MonitorSetting, MonitorRowsOf DEF CallsMade, CallMade
  <2> QED BY <2>1, <2>2
<1>11. ReportsMade'
  BY DEF ReportsMade
<1>12. OneAtATime'
  <2> SUFFICES ASSUME NEW w \in Mon!Monitored \ doubtful' PROVE
                 /\ \A a, b \in Mon!MonitorCalls : Setting(a, w)' /\ Setting(b, w)' => a = b
                 /\ ~(Mon!BeingSet(w)' /\ Mon!BeingReported(w)')
    BY DEF OneAtATime
  <2>1. \A a, b \in Mon!MonitorCalls : Setting(a, w)' /\ Setting(b, w)' => a = b
    BY DEF OneAtATime
  <2>2. ~(Mon!BeingSet(w)' /\ Mon!BeingReported(w)')
    BY MonitorSetting, MonitorRowsOf DEF OneAtATime
  <2> QED BY <2>1, <2>2
<1>13. OneMonitorRow'
  BY DEF OneMonitorRow
<1>14. RowIsThere'
  BY DEF RowIsThere
<1>15. ReportHolds'
  <2>1. ASSUME NEW b \in Mon!MonitorCalls, NEW n \in Mon!BeingWritten(b)', n.variable \notin doubtful'
        PROVE  monitors'[n.id] = Mon!MonitorOf(n)
    BY <2>1 DEF ReportHolds
  <2>2. ASSUME NEW b \in Mon!MonitorCalls, NEW y \in monitorReport'[b].found,
               y[1].variable \notin doubtful'
        PROVE  y[2] # None
    BY <2>2 DEF ReportHolds
  <2>3. ASSUME NEW b \in Mon!MonitorCalls, NEW y \in monitorReport'[b].written,
               y[1].variable \notin doubtful'
        PROVE  IsSet(y[2])'
    BY <2>3, MonitorSetting, MonitorRowsOf DEF ReportHolds, ReportsMade
  <2> QED BY <2>1, <2>2, <2>3 DEF ReportHolds, Mon!MonitorOf
<1>16. ClearHolds'
  <2> SUFFICES ASSUME NEW w \in Mon!Monitored \ doubtful', NEW b \in Mon!MonitorCalls,
                      Mon!Answered(b, "Clear")'
               PROVE  ClearHeld(b, w)'
    BY DEF ClearHolds
  <2>1. monitors'[monitorCall'[b].id] # None =>
          monitors'[monitorCall'[b].id].variable # w
    BY DEF ClearHolds, ClearHeld
  <2>2. ASSUME NEW q \in Mon!RowsOf(w)',
               monitorRow'[q].id = monitorCall'[b].id \/ q \in monitorCall'[b].found
        PROVE  /\ monitorRow'[q].id = monitorCall'[b].id
               /\ ~Mon!BeingSet(w)' /\ ~Mon!BeingReported(w)'
    BY <2>2, MonitorSetting, MonitorRowsOf DEF ClearHolds, ClearHeld
  <2> QED BY <2>1, <2>2 DEF ClearHeld
<1> QED BY <1>10, <1>11, <1>12, <1>13, <1>14, <1>15, <1>7, <1>16, <1>8, <1>9

LEMMA MonitorStep == ASSUME MonitorTypeOK, MonitorInv, MonitorTypeOK', Mon!Next PROVE MonitorInv'
<1>37. ASSUME NEW c \in Mon!MonitorCalls, Mon!FindMonitor(c) PROVE MonitorInv'
  <2>1. CASE /\ monitorCall' = [monitorCall EXCEPT ![c] = Mon!CallOver]
             /\ \A r \in Mon!RowsOf(monitorCall[c].variable) : monitorRow[r].type # monitorCall[c].type
    BY <2>1, <1>37, MonitorNotFound DEF Mon!FindMonitor
  <2>2. CASE \E r \in Mon!RowsOf(monitorCall[c].variable) :
               /\ monitorRow[r].type = monitorCall[c].type
               /\ monitorCall' = [monitorCall EXCEPT ![c].found = {r}, ![c].pc =
                    IF monitorCall[c].answer = "Accepted" THEN "found" ELSE "identified"]
    BY <2>2, <1>37, MonitorFound DEF Mon!FindMonitor, FoundIn
  <2> QED BY <1>37, <2>1, <2>2 DEF Mon!FindMonitor
<1>38. ASSUME NEW c \in Mon!MonitorCalls, Mon!CallNext(c) PROVE MonitorInv'
  BY <1>38, LookUpMonitorStep, StoreMonitorStep, SendClearStep, SendBaseStep, AcceptSetStep, RefuseSetStep, AcceptClearStep, AcceptBaseStep, RefuseStep, AnswerLostStep, StoreIdStep, IdTakenStep,
     StoreStatusStep, FindRowsStep, RejectRowStep, ClearOverStep, RequestReportStep, <1>37, Zenon DEF Mon!CallNext
<1>39. ASSUME NEW c \in Mon!MonitorCalls, Mon!ReportNext(c) PROVE MonitorInv'
  BY <1>39, ReportMonitorsStep, ReportLostStep, StartVariableStep, FindReportedStep, WriteReportedStep, ReportedIdTakenStep, StatusReportedStep, Zenon DEF Mon!ReportNext
<1> QED BY <1>38, <1>39, Zenon DEF Mon!Next

LEMMA MonitorStutter ==
  ASSUME MonitorTypeOK, MonitorInv, UNCHANGED monitorVars
  PROVE  (MonitorTypeOK /\ MonitorInv)'
<1> USE DEF monitorVars
<1>1. MonitorTypeOK'
  BY DEF MonitorTypeOK, Mon!TypeOK
<1>2. CallsMade' /\ ReportsMade'
  BY DEF MonitorInv, CallsMade, CallMade, ReportsMade, Mon!Wanted, Mon!MonitorOf, Mon!UsedRows,
     Mon!RowsOf
<1>3. OneAtATime' /\ OneMonitorRow' /\ RowIsThere'
  BY DEF MonitorInv, OneAtATime, OneMonitorRow, RowIsThere, Setting, Mon!Open, Mon!BeingSet,
     Mon!BeingReported, Mon!BeingWritten, Mon!RowsOf, Mon!UsedRows
<1>4. ReportHolds' /\ SetHolds' /\ ClearHolds'
  BY DEF MonitorInv, ReportHolds, SetHolds, SetHeld, ClearHolds, ClearHeld, Setting, Mon!Open,
     Mon!Answered, Mon!BeingSet, Mon!BeingReported, Mon!BeingWritten, Mon!RowsOf, Mon!UsedRows,
     IsSet, Mon!MonitorOf, Mon!Wanted
<1>5. AcceptedRight' /\ RejectedRight'
  BY DEF MonitorInv, AcceptedRight, RejectedRight, ToBeRejected, ToBeReported, Mon!At, Mon!Open,
     Mon!Answered, Mon!BeingSet, Mon!BeingReported, Mon!BeingWritten, Mon!RowsOf, Mon!UsedRows,
     IsSet, Mon!MonitorOf
<1> QED BY <1>1, <1>2, <1>3, <1>4, <1>5 DEF MonitorInv

LEMMA MonitorInvariant == Mon!Spec => [](MonitorTypeOK /\ MonitorInv)
<1>1. Mon!Init => MonitorTypeOK /\ MonitorInv
  BY MonitorInit
<1>2. MonitorTypeOK /\ MonitorInv /\ [Mon!Next]_(Mon!monitorVars) => (MonitorTypeOK /\ MonitorInv)'
  BY MonitorType, MonitorStep, MonitorStutter DEF monitorVars, Mon!monitorVars
<1> QED BY <1>1, <1>2, PTL DEF Mon!Spec

LEMMA MonitorsKnownHolds == Mon!Spec => []Mon!MonitorsKnown
<1>1. ASSUME MonitorTypeOK, MonitorInv, Mon!MonitorsSettled, NEW r \in Mon!UsedRows,
             monitorRow[r].variable \notin doubtful
      PROVE  /\ monitorRow[r].status = "Accepted" => IsSet(r)
             /\ monitorRow[r].status = "Rejected" => ~IsSet(r)
  <2>1. monitorRow[r].variable \in Mon!Monitored \ doubtful /\ r \in Mon!RowsOf(monitorRow[r].variable)
    BY <1>1, MonitorConstants DEF MonitorTypeOK, Mon!TypeOK, Mon!UsedRows, Mon!RowsOf,
       Mon!MonitorRow
  <2>2. ~Mon!BeingSet(monitorRow[r].variable) /\ ~Mon!BeingReported(monitorRow[r].variable)
    BY <1>1 DEF Mon!MonitorsSettled, Mon!BeingSet, Mon!BeingReported, Mon!BeingWritten, Mon!Open,
       Mon!Answered
  <2>3. \A c \in Mon!MonitorCalls : ~ToBeRejected(c, r) /\ ~ToBeReported(c)
    BY <1>1 DEF Mon!MonitorsSettled, ToBeRejected, ToBeReported, Mon!At, Mon!Open, Mon!Answered
  <2> QED BY <1>1, <2>1, <2>2, <2>3 DEF MonitorInv, AcceptedRight, RejectedRight
<1>2. MonitorTypeOK /\ MonitorInv => Mon!MonitorsKnown
  BY <1>1 DEF Mon!MonitorsKnown, IsSet
<1> QED BY <1>2, MonitorInvariant, PTL

(* When every call and report on the monitors of a station is handled, a   *)
(* row whose last status is Accepted is of a monitor the station has under *)
(* that id, and one that was Rejected last is not, for any variables and   *)
(* types, any ids and any calls and reports that interleave, unless the    *)
(* history says that the copy of the variable may be wrong.                *)
THEOREM MonitorsAreKnown == Spec => []MonitorsKnown
<1>1. Mon!MonitorsKnown => MonitorsKnown
  BY Zenon DEF MonitorsKnown
<1> QED BY <1>1, MonitorsKnownHolds, PartsRun, PTL

-----------------------------------------------------------------------------
(* All the parts. *)

(* Every variable of every part keeps its type.                            *)
THEOREM TypeCorrect ==
  Spec => [](/\ AuthList!TypeOK /\ Booking!TypeOK /\ Tx16!TypeOK /\ Boot16!TypeOK
            /\ Auth!TypeOK /\ Device!TypeOK /\ Profile!TypeOK /\ Display!TypeOK
            /\ Status!TypeOK /\ Webhook!TypeOK /\ Hashes!TypeOK /\ Mon!TypeOK)
<1>1. AuthTypeOK => Auth!TypeOK
  BY DEF AuthTypeOK, Auth!TypeOK, CheckRecords
<1>2. /\ (ListTypeOK => AuthList!TypeOK)
      /\ (BookingTypeOK => Booking!TypeOK)
      /\ (TxTypeOK => Tx16!TypeOK)
      /\ (Boot16TypeOK => Boot16!TypeOK)
      /\ (DeviceTypeOK => Device!TypeOK)
      /\ (ProfileTypeOK => Profile!TypeOK)
      /\ (DisplayTypeOK => Display!TypeOK)
      /\ (StatusTypeOK => Status!TypeOK)
      /\ (WebhookTypeOK => Webhook!TypeOK)
      /\ (HashTypeOK => Hashes!TypeOK)
      /\ (MonitorTypeOK => Mon!TypeOK)
  BY DEF ListTypeOK, BookingTypeOK, TxTypeOK, Boot16TypeOK, DeviceTypeOK, ProfileTypeOK,
     DisplayTypeOK, StatusTypeOK, WebhookTypeOK, HashTypeOK, MonitorTypeOK
<1> QED BY <1>1, <1>2, PartsRun, ListInvariant, BookingInvariant, TxInvariant, Boot16Invariant,
   AuthInvariant, DeviceInvariant, ProfileInvariant, DisplayInvariant, StatusInvariant,
   WebhookInvariant, HashInvariant, MonitorInvariant, PTL
=============================================================================
