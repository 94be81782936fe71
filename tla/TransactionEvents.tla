--------------------------- MODULE TransactionEvents ---------------------------
(***************************************************************************)
(* One OCPP 2.0.1 transaction in the Transactions module, from its Started *)
(* to its Ended event: the handler of TransactionEvent with the database   *)
(* transaction that creates or updates the Transaction row, the periodic   *)
(* cost notifier, and the handler of GetTransactionStatus answers.         *)
(*                                                                         *)
(* The station's events are numbered 0..Last: 0 is Started, Last is Ended, *)
(* the others Updated, each with one meter reading taken at that moment.   *)
(* Energy is counted in readings and a kWh costs 1: a cost is the energy   *)
(* it was computed from.  The costs go out at an interval                  *)
(* (costUpdatedInterval, the shipped configuration), never on meter        *)
(* values; only Started carries an idToken; no event carries a             *)
(* reservation or changes other columns of the row.                        *)
(***************************************************************************)
EXTENDS FiniteSets, TransactionConstants

VARIABLES
  row,        \* the Transaction row: isActive, totalKwh, totalCost
  stored,     \* the events, with their readings, in the database
  handler,    \* handler[h]: one execution of _handleTransactionEvent
  run,        \* run[n]: one execution of _tryNotify
  scheduled,  \* the transaction is in the registry of Scheduler
  current,    \* station: the event it has to deliver
  awaiting,   \* station: the handler whose answer it waits for
  ended,      \* station: the Ended event has been sent
  answered,   \* station: the events it got a result for
  query,      \* ongoingIndicator of a GetTransactionStatus answer under way
  timeouts,
  queries,
  crossed     \* history: something older was under way when Ended was read or committed

stationVars == <<current, awaiting, ended, answered, timeouts>>
vars == <<row, stored, handler, run, scheduled, stationVars, query, queries, crossed>>

Events == 0..Last
Idle == [pc |-> "idle", event |-> 0, snapshot |-> None, accepted |-> FALSE, kwh |-> 0]
Asleep == [pc |-> "idle", kwh |-> 0]

(***************************************************************************)
(* MeterValueUtils.getTotalKwh on register readings: last minus first.     *)
(***************************************************************************)
IsFirst(a, S) == a \in S /\ \A b \in S : a <= b
IsLast(a, S) == a \in S /\ \A b \in S : b <= a
\* Mutant: the last reading, not what it differs from the first.
KwhOfRegister(S) == IF S = {} THEN 0 ELSE CHOOSE a \in S : IsLast(a, S)

Kwh(S) == IF \E a, b \in S : a # b
          THEN (CHOOSE a \in S : IsLast(a, S)) - (CHOOSE a \in S : IsFirst(a, S))
          ELSE 0

(* What the event sets isActive to. *)
Active(e) == e # Last

(* The update of the row writes only what differs from the row read before,
   and what it writes stays locked until the commit. *)
ChangesActive(r) == r.snapshot \in BOOLEAN /\ r.snapshot # Active(r.event)
Locked(h) == \E g \in Handlers \ {h} : handler[g].pc = "stored" /\ ChangesActive(handler[g])

Init ==
  /\ row = None
  /\ stored = {}
  /\ handler = [h \in Handlers |-> Idle]
  /\ run = [n \in Runs |-> Asleep]
  /\ scheduled = FALSE
  /\ current = 0
  /\ awaiting = None
  /\ ended = FALSE
  /\ answered = {}
  /\ query = None
  /\ timeouts = 0
  /\ queries = 0
  /\ crossed = FALSE

--------------------------------------------------------------------------------
(* The station delivers its events in order, one at a time. *)
SendEvent(h) ==
  /\ handler[h].pc = "idle"
  /\ awaiting = None
  /\ current \in Events
  /\ awaiting' = h
  /\ ended' = (ended \/ current = Last)
  /\ handler' = [handler EXCEPT ![h] = [Idle EXCEPT !.pc = "received", !.event = current]]
  /\ UNCHANGED <<row, stored, run, scheduled, current, answered, query, timeouts, queries,
                 crossed>>

(* No answer in time: it sends the event again, or goes on with the next. *)
GiveUp ==
  /\ awaiting # None
  /\ timeouts < MaxTimeouts
  /\ timeouts' = timeouts + 1
  /\ awaiting' = None
  /\ current' \in {current, current + 1}
  /\ UNCHANGED <<row, stored, handler, run, scheduled, ended, answered, query, queries, crossed>>

(***************************************************************************)
(* _handleTransactionEvent                                                 *)
(***************************************************************************)
(* What is older than the Ended event of handler h and still under way. *)
Crossing(h) ==
  /\ handler[h].event = Last
  /\ Last \notin stored
  /\ \/ \E g \in Handlers \ {h} : handler[g].pc \in {"received", "read", "stored"}
                                  /\ handler[g].event # Last
     \/ \E n \in Runs : run[n].pc \in {"active", "kwh", "cost"}
     \/ query = TRUE

(* authorizeOcpp201IdToken: whether the token of a Started event is accepted
   depends on the token, its authorization and the authorizers: any outcome. *)
Authorized(e) == IF e = 0 THEN BOOLEAN ELSE {FALSE}

(* The idToken is authorized and the row is read. *)
ReadTransaction(h) ==
  /\ handler[h].pc = "received"
  /\ \E accepted \in Authorized(handler[h].event) :
       handler' = [handler EXCEPT ![h].pc = "read", ![h].accepted = accepted,
                     ![h].snapshot = IF row = None THEN None ELSE row.isActive]
  /\ crossed' = (crossed \/ Crossing(h))
  /\ UNCHANGED <<row, stored, run, scheduled, stationVars, query, queries>>

\* Mutant: the readings are read outside of the database transaction.
StoreEventUnseen(h) ==
  /\ handler[h].pc = "read"
  /\ ChangesActive(handler[h]) => ~Locked(h)
  /\ handler' = [handler EXCEPT ![h].pc = "stored", ![h].kwh = Kwh(stored)]
  /\ UNCHANGED <<row, stored, run, scheduled, stationVars, query, queries, crossed>>

(* The row is updated, the event and its reading are created, and the energy
   is computed from all readings that are visible: the committed ones and its
   own.  None of it is visible to others before the commit. *)
StoreEvent(h) ==
  /\ handler[h].pc = "read"
  /\ ChangesActive(handler[h]) => ~Locked(h)
  /\ handler' = [handler EXCEPT ![h].pc = "stored",
                   ![h].kwh = Kwh(stored \cup {handler[h].event})]
  /\ UNCHANGED <<row, stored, run, scheduled, stationVars, query, queries, crossed>>

NewRow(r) == [isActive |-> Active(r.event), totalKwh |-> r.kwh, totalCost |-> 0]
UpdatedRow(r) == [row EXCEPT !.isActive = IF ChangesActive(r) THEN Active(r.event) ELSE @,
                             !.totalKwh = r.kwh]

Commit(h) ==
  LET r == handler[h] IN
  /\ r.pc = "stored"
  /\ r.snapshot # None \/ row = None
  /\ ~Locked(h)
  /\ row' = IF r.snapshot = None THEN NewRow(r) ELSE UpdatedRow(r)
  /\ stored' = stored \cup {r.event}
  /\ handler' = [handler EXCEPT ![h].pc = IF r.event = Last THEN "cost" ELSE "answer"]
  /\ crossed' = (crossed \/ Crossing(h))
  /\ UNCHANGED <<run, scheduled, stationVars, query, queries>>

\* Mutant: the handler that was rolled back answers all the same.
CommitFailsSilently(h) ==
  /\ handler[h].pc = "stored"
  /\ handler[h].snapshot = None
  /\ row # None
  /\ handler' = [handler EXCEPT ![h].pc = "answer"]
  /\ UNCHANGED <<row, stored, run, scheduled, stationVars, query, queries, crossed>>

(* Two handlers created the row: stationId and transactionId are unique, the
   second one is rolled back and answered with a CallError. *)
CommitFails(h) ==
  /\ handler[h].pc = "stored"
  /\ handler[h].snapshot = None
  /\ row # None
  /\ handler' = [handler EXCEPT ![h] = Idle]
  /\ awaiting' = IF awaiting = h THEN None ELSE awaiting
  /\ UNCHANGED <<row, stored, run, scheduled, current, ended, answered, query, timeouts, queries,
                 crossed>>

(* Ended: the total cost is stored, unless it is 0. *)
StoreCost(h) ==
  /\ handler[h].pc = "cost"
  /\ ~Locked(h)
  /\ row' = IF handler[h].kwh = 0 THEN row ELSE [row EXCEPT !.totalCost = handler[h].kwh]
  /\ handler' = [handler EXCEPT ![h].pc = "answer"]
  /\ UNCHANGED <<stored, run, scheduled, stationVars, query, queries, crossed>>

Answer(h) ==
  /\ handler[h].pc = "answer"
  /\ handler' = [handler EXCEPT ![h] = IF @.accepted THEN [@ EXCEPT !.pc = "schedule"] ELSE Idle]
  /\ IF awaiting = h
     THEN /\ awaiting' = None
          /\ current' = current + 1
          /\ answered' = answered \cup {handler[h].event}
     ELSE UNCHANGED <<awaiting, current, answered>>
  /\ UNCHANGED <<row, stored, run, scheduled, ended, query, timeouts, queries, crossed>>

(* The accepted Started event: notifyWhileActive, once per transaction. *)
Schedule(h) ==
  /\ handler[h].pc = "schedule"
  /\ scheduled' = TRUE
  /\ handler' = [handler EXCEPT ![h] = Idle]
  /\ UNCHANGED <<row, stored, run, stationVars, query, queries, crossed>>

(***************************************************************************)
(* CostNotifier: the interval starts a run whether or not the last one has *)
(* ended.                                                                  *)
(***************************************************************************)
\* Mutant: the run does not ask whether the transaction is still active.
TryNotifyAlways(n) ==
  /\ scheduled
  /\ run[n].pc = "idle"
  /\ run' = [run EXCEPT ![n].pc = IF row # None THEN "active" ELSE "inactive"]
  /\ UNCHANGED <<row, stored, handler, scheduled, stationVars, query, queries, crossed>>

TryNotify(n) ==
  /\ scheduled
  /\ run[n].pc = "idle"
  /\ run' = [run EXCEPT ![n].pc = IF row # None /\ row.isActive THEN "active" ELSE "inactive"]
  /\ UNCHANGED <<row, stored, handler, scheduled, stationVars, query, queries, crossed>>

Unschedule(n) ==
  /\ run[n].pc = "inactive"
  /\ scheduled' = FALSE
  /\ run' = [run EXCEPT ![n] = Asleep]
  /\ UNCHANGED <<row, stored, handler, stationVars, query, queries, crossed>>

(* recalculateTotalKwh reads the readings ... *)
ReadMeterValues(n) ==
  /\ run[n].pc = "active"
  /\ run' = [run EXCEPT ![n] = [pc |-> "kwh", kwh |-> Kwh(stored)]]
  /\ UNCHANGED <<row, stored, handler, scheduled, stationVars, query, queries, crossed>>

(* ... and saves their total, whatever has been committed since. *)
SaveTotalKwh(n) ==
  /\ run[n].pc = "kwh"
  /\ ~Locked(None)
  /\ row' = [row EXCEPT !.totalKwh = run[n].kwh]
  /\ run' = [run EXCEPT ![n].pc = "cost"]
  /\ UNCHANGED <<stored, handler, scheduled, stationVars, query, queries, crossed>>

(* The cost is saved and sent: CostUpdated changes nothing here, failed or not. *)
SaveTotalCost(n) ==
  /\ run[n].pc = "cost"
  /\ ~Locked(None)
  /\ row' = [row EXCEPT !.totalCost = run[n].kwh]
  /\ run' = [run EXCEPT ![n] = Asleep]
  /\ UNCHANGED <<stored, handler, scheduled, stationVars, query, queries, crossed>>

(***************************************************************************)
(* GetTransactionStatus: the station answers for the moment it is asked,   *)
(* _handleGetTransactionStatus writes that to the row later.               *)
(***************************************************************************)
AnswerStatus ==
  /\ query = None
  /\ queries < MaxQueries
  /\ queries' = queries + 1
  /\ query' = ~ended
  /\ UNCHANGED <<row, stored, handler, run, scheduled, stationVars, crossed>>

HandleGetTransactionStatus ==
  /\ query # None
  /\ ~Locked(None)
  /\ row' = IF row = None THEN None ELSE [row EXCEPT !.isActive = query]
  /\ query' = None
  /\ UNCHANGED <<stored, handler, run, scheduled, stationVars, queries, crossed>>

--------------------------------------------------------------------------------
HandlerStep(h) ==
  \/ ReadTransaction(h) \/ StoreEvent(h) \/ Commit(h) \/ CommitFails(h)
  \/ StoreCost(h) \/ Answer(h) \/ Schedule(h)
RunStep(n) ==
  TryNotify(n) \/ Unschedule(n) \/ ReadMeterValues(n) \/ SaveTotalKwh(n) \/ SaveTotalCost(n)

Next ==
  \/ \E h \in Handlers : SendEvent(h) \/ HandlerStep(h)
  \/ \E n \in Runs : RunStep(n)
  \/ GiveUp
  \/ AnswerStatus
  \/ HandleGetTransactionStatus

(* A handler or a run that has begun goes on, and an interval fires again and
   again; neither the station nor an operator has to do anything. *)
Fairness ==
  /\ \A h \in Handlers : WF_vars(HandlerStep(h))
  /\ \A n \in Runs : WF_vars(RunStep(n))
  /\ WF_vars(HandleGetTransactionStatus)

Spec == Init /\ [][Next]_vars /\ Fairness

--------------------------------------------------------------------------------
(* Type invariant of the row, the handlers, the cost runs and the station. *)
TypeOK ==
  /\ row \in {None} \cup [isActive : BOOLEAN, totalKwh : Int, totalCost : Int]
  /\ stored \in SUBSET Events
  /\ (row = None) <=> (stored = {})
  /\ handler \in [Handlers -> [pc : {"idle", "received", "read", "stored", "cost", "answer",
                                     "schedule"},
                               event : Events, snapshot : BOOLEAN \cup {None},
                               accepted : BOOLEAN, kwh : Int]]
  /\ run \in [Runs -> [pc : {"idle", "active", "inactive", "kwh", "cost"}, kwh : Int]]
  /\ scheduled \in BOOLEAN
  /\ current \in 0..Last + 1
  /\ awaiting \in Handlers \cup {None}
  /\ ended \in BOOLEAN
  /\ answered \in SUBSET Events
  /\ query \in BOOLEAN \cup {None}
  /\ timeouts \in 0..MaxTimeouts
  /\ queries \in 0..MaxQueries
  /\ crossed \in BOOLEAN

(* The cost that an operator or the driver reads is always that of two readings
   that are really stored, whatever handlers and cost runs overwrite each
   other: it may be old, never invented or too high. *)
Differences(S) == {d \in 0..Last : \E a, b \in S : d = b - a}
CostIsReal == row # None => {row.totalCost, row.totalKwh} \subseteq Differences(stored)

(* An event the station has got a result for, and will not send again, is in
   the database: a handler that lost the race to create the row does not answer. *)
AnsweredIsStored == answered \subseteq stored

(* Once Ended is committed the transaction is inactive and has its final energy,
   and once Ended is answered its final cost, and both stay, repeated Ended
   events, cost intervals and status answers notwithstanding; unless something
   older was under way when its handler read the row or committed it. *)
EndedIsFinal ==
  Last \in stored /\ ~crossed =>
    /\ ~row.isActive
    /\ row.totalKwh = Kwh(stored)
    /\ Last \in answered => row.totalCost = Kwh(stored)

(* The cost interval of an ended transaction is cleared for good, also when it
   was registered late. *)
CostsStop == (Last \in stored /\ ~crossed) ~> []~scheduled
================================================================================
