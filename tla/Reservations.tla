------------------------------ MODULE Reservations -----------------------------
(***************************************************************************)
(* Reservations at OCPP 2.0.1 stations: reserveNow and cancelReservation   *)
(* of the EVDriver API, the handlers of their answers and of               *)
(* ReservationStatusUpdate, and the end of a reservation by the            *)
(* transaction that uses it (TransactionService.deactivateReservation).    *)
(*                                                                         *)
(* A reservation has the id of the request, which is unique at its         *)
(* station, and the databaseId of its row.  The API and the station's own  *)
(* requests go by station and id; the handlers of the answers look the     *)
(* request up among the messages sent and take its id for a databaseId.    *)
(* Answers and requests are handled by different modules, in any order.    *)
(***************************************************************************)
EXTENDS Naturals, FiniteSets

CONSTANTS
  Stations,
  MaxId,      \* bound on the reservation ids
  MaxCalls,   \* bound on the ReserveNow and CancelReservation calls made
  None

Ids == 1..MaxId
Calls == 1..MaxCalls
Keys == 1..(MaxId * Cardinality(Stations))  \* databaseIds: one per station and id

VARIABLES
  rows,       \* the Reservation table, by databaseId
  call,       \* the calls, with the status answered
  held,       \* the reservations the stations hold
  notice,     \* per reservation: a request of its station that it has ended
  misread,    \* history: an answer did not find its request, or cancelled nothing
  crossed     \* history: the station spoke of a reservation again before it was handled

reservationVars == <<rows, call, held, notice, misread, crossed>>

Row == [station : Stations, id : Ids, isActive : BOOLEAN, terminated : BOOLEAN]
Call == [action : {"ReserveNow", "CancelReservation"}, station : Stations, id : Ids,
         status : {"sent", "Accepted", "Rejected", "handled"}]
Notices == {"none", "ended", "used"}

TypeOK ==
  /\ rows \in [Keys -> Row \union {None}]
  /\ call \in [Calls -> Call \union {None}]
  /\ held \subseteq Stations \X Ids
  /\ notice \in [Stations \X Ids -> Notices]
  /\ misread \in BOOLEAN /\ crossed \in BOOLEAN

Init ==
  /\ rows = [k \in Keys |-> None]
  /\ call = [c \in Calls |-> None]
  /\ held = {}
  /\ notice = [r \in Stations \X Ids |-> "none"]
  /\ misread = FALSE /\ crossed = FALSE

Matches(k, s, i) == rows[k] # None /\ rows[k].station = s /\ rows[k].id = i
NextKey(k) == rows[k] = None /\ \A j \in Keys : j < k => rows[j] # None

-----------------------------------------------------------------------------
(* The API. *)

NewCall(c, action, s, i) ==
  /\ call[c] = None /\ \A d \in Calls : d < c => call[d] # None
  /\ call' = [call EXCEPT ![c] = [action |-> action, station |-> s, id |-> i,
                                  status |-> "sent"]]

(* reserveNow: createOrUpdateReservation stores the reservation inactive,  *)
(* and the call is sent.                                                   *)
ReserveNow(c, s, i) ==
  /\ NewCall(c, "ReserveNow", s, i)
  /\ \E k \in Keys :
       \/ Matches(k, s, i) /\ rows' = [rows EXCEPT ![k].isActive = FALSE]
       \/ /\ \A j \in Keys : ~Matches(j, s, i)
          /\ NextKey(k)
          /\ rows' = [rows EXCEPT ![k] =
                        [station |-> s, id |-> i, isActive |-> FALSE, terminated |-> FALSE]]
  /\ UNCHANGED <<held, notice, misread, crossed>>

(* cancelReservation: refused when there is no such reservation. *)
CancelReservation(c, s, i) ==
  /\ NewCall(c, "CancelReservation", s, i)
  /\ \E k \in Keys : Matches(k, s, i)
  /\ UNCHANGED <<rows, held, notice, misread, crossed>>

-----------------------------------------------------------------------------
(* The stations. *)

Unhandled(s, i) ==
  \/ notice[<<s, i>>] # "none"
  \/ \E c \in Calls : /\ call[c] # None /\ call[c].station = s /\ call[c].id = i
                      /\ call[c].status \in {"Accepted", "Rejected"}

(* A station that holds the reservation replaces it; one that does not may *)
(* be occupied or faulted.                                                 *)
AnswerReserveNow(c, accepted) ==
  /\ call[c] # None /\ call[c].action = "ReserveNow" /\ call[c].status = "sent"
  /\ LET r == <<call[c].station, call[c].id>> IN
       /\ r \in held => accepted
       /\ held' = IF accepted THEN held \union {r} ELSE held
       /\ crossed' = (crossed \/ Unhandled(r[1], r[2]))
  /\ call' = [call EXCEPT ![c].status = IF accepted THEN "Accepted" ELSE "Rejected"]
  /\ UNCHANGED <<rows, notice, misread>>

(* It rejects to cancel what it does not hold.                             *)
AnswerCancelReservation(c) ==
  /\ call[c] # None /\ call[c].action = "CancelReservation" /\ call[c].status = "sent"
  /\ LET r == <<call[c].station, call[c].id>> IN
       /\ call' = [call EXCEPT ![c].status = IF r \in held THEN "Accepted" ELSE "Rejected"]
       /\ held' = held \ {r}
       /\ crossed' = (crossed \/ Unhandled(r[1], r[2]))
  /\ UNCHANGED <<rows, notice, misread>>

(* The reservation expires or is removed (ReservationStatusUpdate), or a   *)
(* transaction uses it (TransactionEvent with a reservationId).            *)
EndReservation(s, i, how) ==
  /\ <<s, i>> \in held /\ notice[<<s, i>>] = "none"
  /\ held' = held \ {<<s, i>>}
  /\ notice' = [notice EXCEPT ![<<s, i>>] = how]
  /\ crossed' = (crossed \/ Unhandled(s, i))
  /\ UNCHANGED <<rows, call, misread>>

-----------------------------------------------------------------------------
(* The handlers. *)

(* updateByKey: the key of the table is databaseId; nothing is updated     *)
(* when there is no such row.                                              *)
UpdateByKey(k, active) ==
  IF k \in Keys /\ rows[k] # None THEN [rows EXCEPT ![k].isActive = active] ELSE rows

(* The request is found only if dispatchMessageSent, which nobody waits    *)
(* for, has stored it by now; otherwise the answer is logged and dropped.  *)
Answered(c, action) ==
  /\ call[c] # None /\ call[c].action = action /\ call[c].status \in {"Accepted", "Rejected"}
  /\ call' = [call EXCEPT ![c].status = "handled"]

\* Mutant: any answer activates the reservation.
HandleReserveNowAlways(c, found) ==
  /\ Answered(c, "ReserveNow")
  /\ rows' = IF found THEN UpdateByKey(call[c].id, TRUE) ELSE rows
  /\ misread' = (misread \/ ~found)
  /\ UNCHANGED <<held, notice, crossed>>

(* _handleReserveNow: active if the station has accepted.                  *)
HandleReserveNow(c, found) ==
  /\ Answered(c, "ReserveNow")
  /\ rows' = IF found THEN UpdateByKey(call[c].id, call[c].status = "Accepted") ELSE rows
  /\ misread' = (misread \/ ~found)
  /\ UNCHANGED <<held, notice, crossed>>

(* _handleCancelReservation: active if the station has rejected, although  *)
(* it does so when it holds no such reservation.                           *)
HandleCancelReservation(c, found) ==
  /\ Answered(c, "CancelReservation")
  /\ rows' = IF found THEN UpdateByKey(call[c].id, call[c].status = "Rejected") ELSE rows
  /\ misread' = (misread \/ ~found \/ call[c].status = "Rejected")
  /\ UNCHANGED <<held, notice, crossed>>

(* _handleReservationStatusUpdate, and deactivateReservation after a       *)
(* TransactionEvent: both go by station and id.                            *)
HandleNotice(s, i) ==
  /\ notice[<<s, i>>] # "none"
  /\ rows' = [k \in Keys |->
       IF ~Matches(k, s, i) THEN rows[k]
       ELSE [rows[k] EXCEPT !.isActive = FALSE,
                            !.terminated = @ \/ notice[<<s, i>>] = "used"]]
  /\ notice' = [notice EXCEPT ![<<s, i>>] = "none"]
  /\ UNCHANGED <<call, held, misread, crossed>>

-----------------------------------------------------------------------------
Next ==
  \/ \E c \in Calls, s \in Stations, i \in Ids :
       ReserveNow(c, s, i) \/ CancelReservation(c, s, i)
  \/ \E c \in Calls :
       \/ AnswerCancelReservation(c)
       \/ \E accepted \in BOOLEAN : AnswerReserveNow(c, accepted)
       \/ \E found \in BOOLEAN : HandleReserveNow(c, found) \/ HandleCancelReservation(c, found)
  \/ \E s \in Stations, i \in Ids :
       \/ \E how \in {"ended", "used"} : EndReservation(s, i, how)
       \/ HandleNotice(s, i)

Spec == Init /\ [][Next]_reservationVars

-----------------------------------------------------------------------------
(* Properties. *)

(* The keys the handlers of answers go by fit: every reservation made has  *)
(* the databaseId of its row for an id.                                    *)
KeysAgree ==
  /\ \A k \in Keys : rows[k] # None => rows[k].id = k
  /\ \A c \in Calls : call[c] # None => Matches(call[c].id, call[c].station, call[c].id)

Settled(s, i) ==
  /\ notice[<<s, i>>] = "none"
  /\ \A c \in Calls : call[c] # None /\ call[c].station = s /\ call[c].id = i
                        => call[c].status = "handled"

(* Once what a station has said of a reservation is handled, the           *)
(* reservation is active exactly if the station holds it: made, replaced,  *)
(* refused, cancelled, expired or used, in any order at several stations.  *)
(* It takes ids that agree with the keys of the rows, every answer handled *)
(* before the station goes on with the same reservation (modules do not    *)
(* wait for each other), no answer without its request, and no rejected    *)
(* cancellation, which activates a reservation that is not there.          *)
ActiveIsHeld ==
  KeysAgree /\ ~misread /\ ~crossed =>
    \A k \in Keys : rows[k] # None /\ Settled(rows[k].station, rows[k].id) =>
      (rows[k].isActive <=> <<rows[k].station, rows[k].id>> \in held)
===============================================================================
