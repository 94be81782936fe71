----------------------------- MODULE LocalAuthList -----------------------------
(***************************************************************************)
(* The local authorization list of one OCPP 2.0.1 station: sendLocalList   *)
(* of the EVDriver API, LocalAuthListService, the handlers of the answers  *)
(* to SendLocalList and GetLocalListVersion, and the LocalAuthList         *)
(* repository.                                                             *)
(*                                                                         *)
(* The station holds the list; the database keeps a copy of it, one row of *)
(* LocalListVersion, that the CSMS changes when the station has answered.  *)
(* The service checks a new list against the copy, awaits, and sends it.   *)
(***************************************************************************)
EXTENDS Naturals, FiniteSets

CONSTANTS
  Lists,      \* the SendLocalList requests, by correlation id
  Operator,   \* the GetLocalListVersion call of an operator
  Tokens,
  MaxVersion, \* bound on version numbers
  MaxEntries, \* LocalAuthListCtrlr.Entries.maxLimit
  None

Queries == Lists \union {Operator}  \* a version query per list, and the operator's
Versions == 0..MaxVersion
UpdateTypes == {"Full", "Differential"}
Request == [version : Versions, updateType : UpdateTypes, tokens : SUBSET Tokens]
NoList == [version |-> 0, tokens |-> {}]

VARIABLES
  listRow,     \* LocalListVersion of the station, with its tokens, or None
  rowId,       \* primary keys used so far
  apiRead,     \* per request: the row its check has read
  request,     \* per request: what it asks for, or None
  listCall,    \* per request: how far the call is, or the status answered
  listFound,   \* per answer in its database transaction: the key it found, 0 for none
  query,       \* per version query: how far it is
  queryAnswer, \* the version the station answered to it
  stationList, \* the list on the station
  disturbed    \* history: the copy has missed a change (see the actions)

listVars == <<listRow, rowId, apiRead, request, listCall, listFound, query, queryAnswer,
              stationList, disturbed>>
apiVars == <<apiRead, request>>
rowVars == <<listRow, rowId>>

Statuses == {"Accepted", "Failed", "VersionMismatch"}
Row == [id : Nat, version : Versions, tokens : SUBSET Tokens]

TypeOK ==
  /\ listRow \in Row \union {None} /\ rowId \in Nat
  /\ apiRead \in [Lists -> [version : Versions, tokens : SUBSET Tokens]]
  /\ request \in [Lists -> Request \union {None}]
  /\ listCall \in [Lists -> {"new", "read", "sent", "updating", "over"} \union Statuses]
  /\ listFound \in [Queries -> Nat]
  /\ query \in [Queries -> {"none", "sent", "answered", "updating", "over"}]
  /\ queryAnswer \in [Queries -> Versions]
  /\ stationList \in [version : Versions, tokens : SUBSET Tokens]
  /\ disturbed \in BOOLEAN

Init ==
  /\ listRow = None /\ rowId = 0
  /\ apiRead = [l \in Lists |-> NoList]
  /\ request = [l \in Lists |-> None]
  /\ listCall = [l \in Lists |-> "new"]
  /\ listFound = [q \in Queries |-> 0]
  /\ query = [q \in Queries |-> "none"]
  /\ queryAnswer = [q \in Queries |-> 0]
  /\ stationList = NoList
  /\ disturbed = FALSE

(* Answers of the station that have not been handled. *)
Unhandled == {l \in Lists : listCall[l] \in Statuses \union {"updating"}}
             \union {q \in Queries : query[q] \in {"answered", "updating"}}

-----------------------------------------------------------------------------
(* The API. *)

(* persistSendLocalList...: the row of LocalListVersion is read ... *)
ReadListVersion(l) ==
  /\ listCall[l] = "new"
  /\ apiRead' = [apiRead EXCEPT ![l] = IF listRow = None THEN NoList
                   ELSE [version |-> listRow.version, tokens |-> listRow.tokens]]
  /\ listCall' = [listCall EXCEPT ![l] = "read"]
  /\ UNCHANGED <<rowVars, request, listFound, query, queryAnswer, stationList, disturbed>>

(* The length of the updated list, as it is counted before it is sent. *)
UpdatedLength(l, r) ==
  Cardinality(r.tokens \union IF r.updateType = "Full" THEN {} ELSE apiRead[l].tokens)

(* ... a list with a higher version is persisted and, unless it gets too   *)
(* long, sent; any other request is refused with an exception.             *)
SendLocalList(l, r) ==
  /\ listCall[l] = "read"
  /\ r.version > 0 /\ r.version > apiRead[l].version
  /\ request' = [request EXCEPT ![l] = r]
  /\ listCall' = [listCall EXCEPT ![l] = IF UpdatedLength(l, r) > MaxEntries THEN "over"
                                         ELSE "sent"]
  /\ UNCHANGED <<rowVars, apiRead, listFound, query, queryAnswer, stationList, disturbed>>

(* An operator asks for the version. *)
GetLocalListVersion ==
  /\ query[Operator] = "none"
  /\ query' = [query EXCEPT ![Operator] = "sent"]
  /\ UNCHANGED <<rowVars, apiVars, listCall, listFound, queryAnswer, stationList, disturbed>>

-----------------------------------------------------------------------------
(* The station. *)

(* The list the station holds once it has accepted the request (updates    *)
(* that take tokens off the list are left out).                            *)
Updated(list, r) ==
  [version |-> r.version,
   tokens |-> r.tokens \union IF r.updateType = "Full" THEN {} ELSE list.tokens]

(* A differential update must have a higher version than the list it updates. *)
Mismatched(l) ==
  request[l].updateType = "Differential" /\ request[l].version <= stationList.version

(* The station answers; an answer that comes while an earlier one is still *)
(* being handled may be handled out of order.                              *)
AnswerSendLocalList(l, status) ==
  /\ listCall[l] = "sent"
  /\ status = "VersionMismatch" <=> Mismatched(l)
  /\ listCall' = [listCall EXCEPT ![l] = status]
  /\ stationList' = IF status = "Accepted" THEN Updated(stationList, request[l])
                    ELSE stationList
  /\ disturbed' = (disturbed \/ Unhandled # {})
  /\ UNCHANGED <<rowVars, apiVars, listFound, query, queryAnswer>>

(* The station accepts, and its answer is lost or comes after the timeout. *)
AnswerLost(l) ==
  /\ listCall[l] = "sent" /\ ~Mismatched(l)
  /\ listCall' = [listCall EXCEPT ![l] = "over"]
  /\ stationList' = Updated(stationList, request[l])
  /\ disturbed' = TRUE
  /\ UNCHANGED <<rowVars, apiVars, listFound, query, queryAnswer>>

(* Its answer to a version query sets the copy right again, if it is       *)
(* handled alone.                                                          *)
AnswerGetLocalListVersion(q) ==
  /\ query[q] = "sent"
  /\ query' = [query EXCEPT ![q] = "answered"]
  /\ queryAnswer' = [queryAnswer EXCEPT ![q] = stationList.version]
  /\ disturbed' = (Unhandled # {})
  /\ UNCHANGED <<rowVars, apiVars, listCall, listFound, stationList>>

-----------------------------------------------------------------------------
(* The handlers of the answers. *)

FoundRow == IF listRow = None THEN 0 ELSE listRow.id

(* _handleSendLocalList: the request is looked up by its correlation id.   *)
(* The tokens belong to another table and are not read with it.            *)
LookedUp(l) == [request[l] EXCEPT !.tokens = {}]

NewRow(version, tokens) == [id |-> rowId + 1, version |-> version, tokens |-> tokens]

(* Failed is logged. *)
HandleFailed(l) ==
  /\ listCall[l] = "Failed"
  /\ listCall' = [listCall EXCEPT ![l] = "over"]
  /\ UNCHANGED <<rowVars, apiVars, listFound, query, queryAnswer, stationList, disturbed>>

\* Mutant: a mismatch is treated as an acceptance.
HandleVersionMismatchAsAccepted(l) ==
  /\ listCall[l] = "VersionMismatch"
  /\ listCall' = [listCall EXCEPT ![l] = "Accepted"]
  /\ UNCHANGED <<rowVars, apiVars, listFound, query, queryAnswer, stationList, disturbed>>

(* After a mismatch the station is asked for its version. *)
HandleVersionMismatch(l) ==
  /\ listCall[l] = "VersionMismatch"
  /\ listCall' = [listCall EXCEPT ![l] = "over"]
  /\ query' = [query EXCEPT ![l] = "sent"]
  /\ UNCHANGED <<rowVars, apiVars, listFound, queryAnswer, stationList, disturbed>>

(* replaceLocalListVersion...: a transaction finds the row of the station ... *)
FindForFull(l) ==
  /\ listCall[l] = "Accepted" /\ LookedUp(l).updateType = "Full"
  /\ listCall' = [listCall EXCEPT ![l] = "updating"]
  /\ listFound' = [listFound EXCEPT ![l] = FoundRow]
  /\ UNCHANGED <<rowVars, apiVars, query, queryAnswer, stationList, disturbed>>

(* ... and replaces it.  When it found none and there is one by now, the   *)
(* new row is refused: the station's row is unique.                        *)
ReplaceListVersion(l) ==
  /\ listCall[l] = "updating"
  /\ listCall' = [listCall EXCEPT ![l] = "over"]
  /\ IF listFound[l] = 0 /\ listRow # None THEN UNCHANGED rowVars
     ELSE /\ listRow' = NewRow(LookedUp(l).version, LookedUp(l).tokens)
          /\ rowId' = rowId + 1
  /\ listFound' = [listFound EXCEPT ![l] = 0]
  /\ UNCHANGED <<apiVars, query, queryAnswer, stationList, disturbed>>

(* updateLocalListVersion...: without tokens the version is set in one     *)
(* statement, which throws when there is no row.                           *)
UpdateListVersion(l) ==
  /\ listCall[l] = "Accepted" /\ LookedUp(l).updateType = "Differential"
  /\ listCall' = [listCall EXCEPT ![l] = "over"]
  /\ IF listRow = None
     THEN listRow' = listRow /\ disturbed' = TRUE
     ELSE /\ listRow' = [listRow EXCEPT !.version = LookedUp(l).version,
                                        !.tokens = @ \union LookedUp(l).tokens]
          /\ disturbed' = disturbed
  /\ UNCHANGED <<rowId, apiVars, listFound, query, queryAnswer, stationList>>

(* validateOrReplaceLocalListVersionForStation: a transaction finds the    *)
(* row; a version that is the same already ends it ...                     *)
FindForVersion(q) ==
  /\ query[q] = "answered"
  /\ IF listRow # None /\ listRow.version = queryAnswer[q]
     THEN query' = [query EXCEPT ![q] = "over"] /\ listFound' = listFound
     ELSE /\ query' = [query EXCEPT ![q] = "updating"]
          /\ listFound' = [listFound EXCEPT ![q] = FoundRow]
  /\ UNCHANGED <<rowVars, apiVars, listCall, queryAnswer, stationList, disturbed>>

(* ... otherwise the tokens are dropped and the version is set, or a row   *)
(* made; a row that has been replaced meanwhile is not touched.            *)
ReplaceVersion(q) ==
  /\ query[q] = "updating"
  /\ query' = [query EXCEPT ![q] = "over"]
  /\ IF listFound[q] = 0 /\ listRow = None
     THEN listRow' = NewRow(queryAnswer[q], {}) /\ rowId' = rowId + 1
     ELSE /\ listRow' = IF listFound[q] # 0 /\ listFound[q] = FoundRow
                        THEN [listRow EXCEPT !.version = queryAnswer[q], !.tokens = {}]
                        ELSE listRow
          /\ rowId' = rowId
  /\ listFound' = [listFound EXCEPT ![q] = 0]
  /\ UNCHANGED <<apiVars, listCall, queryAnswer, stationList, disturbed>>

-----------------------------------------------------------------------------
ListNext(l) ==
  \/ ReadListVersion(l) \/ \E r \in Request : SendLocalList(l, r)
  \/ \E status \in Statuses : AnswerSendLocalList(l, status)
  \/ AnswerLost(l) \/ HandleFailed(l) \/ HandleVersionMismatch(l)
  \/ FindForFull(l) \/ ReplaceListVersion(l) \/ UpdateListVersion(l)

Next ==
  \/ \E l \in Lists : ListNext(l)
  \/ GetLocalListVersion
  \/ \E q \in Queries : AnswerGetLocalListVersion(q) \/ FindForVersion(q) \/ ReplaceVersion(q)

Spec == Init /\ [][Next]_listVars

-----------------------------------------------------------------------------
(* Properties. *)

CopyOfVersion == IF listRow = None THEN 0 ELSE listRow.version
CopyOfTokens == IF listRow = None THEN {} ELSE listRow.tokens

(* When no answer is waiting to be handled, the version on record, which   *)
(* the next list is checked against, is the one the station has: with      *)
(* several lists in flight, whatever versions they have and however the    *)
(* station answered, unless answers were handled side by side, one got     *)
(* lost, or a differential update found no row; a version query the        *)
(* station answers after that sets it right.                               *)
VersionFollows == Unhandled = {} /\ ~disturbed => CopyOfVersion = stationList.version
===============================================================================
