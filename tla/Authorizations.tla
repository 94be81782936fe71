----------------------------- MODULE Authorizations ----------------------------
(***************************************************************************)
(* Whether a driver may charge, decided for one idToken at one station by  *)
(* four handlers: Authorize of OCPP 2.0.1 and 1.6 in the EVDriver module,  *)
(* TransactionEvent (Started) and StartTransaction in the Transactions     *)
(* module.  Each reads the Authorization row and asks the                  *)
(* RealTimeAuthorizer; meanwhile the row may change.                       *)
(*                                                                         *)
(* Authorize also looks at the EVSEs of the station, of which the device   *)
(* model knows connector type and id; a prefix in a row stands for the     *)
(* EVSEs whose ids have it.                                                *)
(***************************************************************************)
EXTENDS Naturals, FiniteSets

CONSTANTS
  Evses, TypeOf,      \* the EVSEs of the station, their connector types
  Authorizations,     \* the rows there may be (see AuthorizationRows)
  MaxChecks,          \* bound on the requests
  None

Checks == 1..MaxChecks
ConnectorTypes == {TypeOf[e] : e \in Evses}

VARIABLES
  authorization,  \* the Authorization row of the token, or None
  check           \* the handlers: what they were asked, have read and answered

authorizationVars == <<authorization, check>>

(* A type is listed once; the list of prefixes may match nothing here.     *)
TypeLists == {list \in UNION {[1..n -> ConnectorTypes] : n \in 0..Cardinality(ConnectorTypes)} :
                \A i, j \in DOMAIN list : list[i] = list[j] => i = j}

(* realTime is Allowed also when there is no realTimeAuth or no URL.       *)
AuthorizationRows ==
  [status : {"Accepted", "Blocked", None}, expired : BOOLEAN, concurrentTransaction : BOOLEAN,
   realTime : {"Allowed", "AllowedOffline", "Never"},
   allowedTypes : TypeLists \union {None}, disallowedEvses : SUBSET Evses \union {None}]

Actions == {"Authorize", "Authorize16", "TransactionEvent", "StartTransaction"}
Verdicts == {"ALLOWED", "refused", "failed"}
Statuses == {"Accepted", "Blocked", "Invalid", "Unknown", "ConcurrentTx",
             "NotAllowedTypeEVSE", "NotAtThisLocation", "refused", "error"}

(* The token is a NoAuthorization one, or its contract certificate is not  *)
(* accepted: Authorize has nothing to look up.                             *)
IdTokens == {"plain", "none", "badCertificate"}

TypeOK ==
  /\ authorization \in AuthorizationRows \union {None}
  /\ check \in [Checks -> [action : Actions, token : IdTokens,
                           pc : {"received", "asking", "answered"},
                           seen : AuthorizationRows \union {None},
                           verdict : Verdicts \union {None}, evses : SUBSET Evses,
                           status : Statuses \union {None}] \union {None}]

Init ==
  /\ authorization = None
  /\ check = [c \in Checks |-> None]

-----------------------------------------------------------------------------
(* The row.  An operator adds it to the database, blocks the token, or its *)
(* cacheExpiryDateTime passes.                                             *)

Register(row) ==
  /\ authorization = None
  /\ authorization' = row
  /\ UNCHANGED check

Block ==
  /\ authorization # None
  /\ authorization' = [authorization EXCEPT !.status = "Blocked"]
  /\ UNCHANGED check

Expire ==
  /\ authorization # None
  /\ authorization' = [authorization EXCEPT !.expired = TRUE]
  /\ UNCHANGED check

-----------------------------------------------------------------------------
(* The EVSEs of Authorize. *)

(* indexOf(...) > 0: the first type of the list is not found.              *)
FoundTypes(types) == {types[i] : i \in DOMAIN types \ {1}}

(* The EVSEs with an allowed type; of these, or of all when no types are   *)
(* given, the ones whose ids match a prefix stay.                          *)
EvsesOf(row) ==
  LET byType == {e \in Evses : row.allowedTypes # None => TypeOf[e] \in FoundTypes(row.allowedTypes)}
  IN  IF row.disallowedEvses = None THEN byType ELSE byType \intersect row.disallowedEvses

Restricted(row) == row.allowedTypes # None \/ row.disallowedEvses # None

(* Nothing is left: by the types alone, or by the prefixes.                *)
RefusedAtEvses(row) ==
  IF row.allowedTypes # None
     /\ \A e \in Evses : TypeOf[e] \notin FoundTypes(row.allowedTypes)
  THEN "NotAllowedTypeEVSE"
  ELSE IF Restricted(row) /\ EvsesOf(row) = {} THEN "NotAtThisLocation" ELSE None

-----------------------------------------------------------------------------
(* The handlers. *)

Receive(c, action, token) ==
  /\ check[c] = None /\ \A d \in Checks : d < c => check[d] # None
  /\ token # "plain" => action = "Authorize"
  /\ check' = [check EXCEPT ![c] =
       [action |-> action, token |-> token, pc |-> "received", seen |-> None,
        verdict |-> None, evses |-> {}, status |-> None]]
  /\ UNCHANGED authorization

Answer(c, seen, status) ==
  check' = [check EXCEPT ![c] = [@ EXCEPT !.seen = seen, !.status = status, !.pc = "answered"]]

(* A NoAuthorization token is accepted, a bad certificate leaves Unknown.  *)
AnswerUnread(c) ==
  /\ check[c] # None /\ check[c].pc = "received" /\ check[c].token # "plain"
  /\ Answer(c, None, IF check[c].token = "none" THEN "Accepted" ELSE "Unknown")
  /\ UNCHANGED authorization

(* No row: Authorize assumes the token to be valid.                        *)
Unregistered(action) ==
  CASE action = "Authorize" -> "Accepted"
    [] action = "TransactionEvent" -> "Unknown"
    [] OTHER -> "Invalid"

(* What the row alone says against the token, None if nothing.  Without a  *)
(* status Authorize throws, in the mapper, and the others accept.          *)
Refused(action, row) ==
  IF row.status = None THEN (IF action = "Authorize" THEN "error" ELSE "Accepted")
  ELSE IF row.status # "Accepted"
       \* _handleOCPP16Authorize keeps its default.
       THEN (IF action = "Authorize16" THEN "Invalid" ELSE row.status)
  ELSE IF row.expired THEN "Invalid"
  ELSE IF action = "Authorize" THEN RefusedAtEvses(row) ELSE None

(* The check for active transactions: always for StartTransaction, and for *)
(* TransactionEvent if the row says so.                                    *)
Concurrent(action, row, active) ==
  /\ active
  /\ action = "StartTransaction" \/ (action = "TransactionEvent" /\ row.concurrentTransaction)

(* The row is read and looked at; when nothing is against the token, and   *)
(* the row does not rule it out, the RealTimeAuthorizer asks its partner.  *)
ReadAuthorization(c, active) ==
  /\ check[c] # None /\ check[c].pc = "received" /\ check[c].token = "plain"
  /\ LET row == authorization
         action == check[c].action
     IN  IF row = None THEN Answer(c, None, Unregistered(action))
         ELSE IF Refused(action, row) # None THEN Answer(c, row, Refused(action, row))
         ELSE IF Concurrent(action, row, active) THEN Answer(c, row, "ConcurrentTx")
         ELSE check' = [check EXCEPT ![c] = [@ EXCEPT
                !.seen = row,
                !.evses = IF action = "Authorize" /\ Restricted(row) THEN EvsesOf(row) ELSE {},
                !.pc = IF row.realTime = "Allowed" THEN "answered" ELSE "asking",
                !.status = IF row.realTime = "Allowed" THEN "Accepted" ELSE None]]
  /\ UNCHANGED authorization

\* Mutant: a request that fails is accepted whatever the row says.
AcceptsOffline(row, verdict) == verdict \in {"ALLOWED", "failed"}

(* What the RealTimeAuthorizer makes of it: a request that fails is        *)
(* accepted if the row is AllowedOffline.                                  *)
Accepts(row, verdict) ==
  verdict = "ALLOWED" \/ (verdict = "failed" /\ row.realTime = "AllowedOffline")

AuthorizerAnswers(c, verdict) ==
  /\ check[c] # None /\ check[c].pc = "asking"
  /\ check' = [check EXCEPT ![c] = [@ EXCEPT
       !.verdict = verdict, !.pc = "answered",
       !.status = IF Accepts(check[c].seen, verdict) THEN "Accepted" ELSE "refused"]]
  /\ UNCHANGED authorization

-----------------------------------------------------------------------------
Next ==
  \/ \E row \in Authorizations : Register(row)
  \/ Block \/ Expire
  \/ \E c \in Checks :
       \/ \E action \in Actions, token \in IdTokens : Receive(c, action, token)
       \/ AnswerUnread(c)
       \/ \E active \in BOOLEAN : ReadAuthorization(c, active)
       \/ \E verdict \in Verdicts : AuthorizerAnswers(c, verdict)

Spec == Init /\ [][Next]_authorizationVars

-----------------------------------------------------------------------------
(* Properties. *)

Answered(c) == check[c] # None /\ check[c].pc = "answered"

(* Who is entitled to charge, by the row that was read and the partner's   *)
(* verdict.                                                                *)
Entitled(row, verdict) ==
  /\ row.status = "Accepted" /\ ~row.expired
  /\ \/ row.realTime = "Allowed"
     \/ verdict = "ALLOWED"
     \/ verdict = "failed" /\ row.realTime = "AllowedOffline"

(* The four handlers decide alike, although each spells the decision out   *)
(* for itself: of a token with a status they accept who is entitled to     *)
(* charge, and refuse such a one only for what just they look at, its      *)
(* EVSEs or its other transactions.  Nobody is accepted at EVSEs of a type *)
(* that is not allowed.                                                    *)
OneDecision ==
  \A c \in Checks : Answered(c) /\ check[c].seen # None /\ check[c].seen.status # None =>
    LET row == check[c].seen IN
      /\ check[c].status = "Accepted" =>
           /\ Entitled(row, check[c].verdict)
           /\ check[c].action = "Authorize" /\ row.allowedTypes # None =>
                /\ check[c].evses # {}
                /\ \A e \in check[c].evses : \E i \in DOMAIN row.allowedTypes :
                     TypeOf[e] = row.allowedTypes[i]
      /\ Entitled(row, check[c].verdict) =>
           \/ check[c].status = "Accepted"
           \/ /\ check[c].action = "Authorize"
              /\ check[c].status \in {"NotAllowedTypeEVSE", "NotAtThisLocation"}
           \/ /\ check[c].action \in {"TransactionEvent", "StartTransaction"}
              /\ check[c].status = "ConcurrentTx"

(* "If present, this list will be used to prevent charging at evses which  *)
(* match one of its strings" (AuthorizationRestrictions).                  *)
DisallowedIsRefused ==
  \A c \in Checks : Answered(c) /\ check[c].seen # None /\ check[c].status = "Accepted"
                      /\ check[c].seen.disallowedEvses # None =>
    check[c].evses \intersect check[c].seen.disallowedEvses = {}
===============================================================================
