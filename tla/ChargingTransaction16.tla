------------------------- MODULE ChargingTransaction16 -------------------------
(***************************************************************************)
(* OCPP 1.6 transactions with one idTag at several stations: the handlers  *)
(* of StartTransaction, MeterValues and StopTransaction, the check for     *)
(* concurrent transactions, and the TransactionEvent repository.           *)
(*                                                                         *)
(* A station sends one request at a time and repeats it when it gets no    *)
(* answer in time; the handler of the first one still runs then.  The      *)
(* handlers read an entity, await, and save what they changed of it.       *)
(* Energy is in kWh on the station's meter.                                *)
(***************************************************************************)
EXTENDS Naturals, FiniteSets

CONSTANTS
  Stations,
  MaxTx,        \* bound on the transactions made
  MaxStarts,    \* bound on the StartTransaction requests handled
  MaxRepeats,   \* bound on the StopTransaction requests repeated
  MaxSamples,   \* bound on the MeterValues requests handled side by side
  MaxMeter,     \* bound on the meters
  None

TxIds == 1..MaxTx
Starts == 1..MaxStarts
Attempts == 1..2   \* a StopTransaction and its repetition
Meter == 0..MaxMeter

VARIABLES
  tx,       \* the Transaction table, with meterStart, meterStop and the readings
  start,    \* the handlers of StartTransaction
  sample,   \* the handler of MeterValues of each transaction
  stop,     \* the handlers of StopTransaction of each transaction
  station,  \* what a station does, and for which transaction
  waiting,  \* has it a request without an answer?
  meter,    \* its meter
  hurried,  \* history: transactions stopped while a reading was being handled
  astray    \* history: was a start repeated or not answered, or did it meet another handler?

tx16Vars == <<tx, start, sample, stop, station, waiting, meter, hurried, astray>>

Tx == [active : BOOLEAN, totalKwh : Meter, meterStart : Meter,
       meterStop : Meter \union {None}, readings : SUBSET Meter]
Start == [station : Stations, pc : {"queued", "accepted", "created", "refused", "over"},
          meterStart : Meter, tx : TxIds \union {None}]
Sample == [pc : {"idle", "queued", "saved", "computed"}, seen : Meter, total : Meter]
Stop == [pc : {"none", "queued", "answered", "found", "stored", "over"},
         meterStop : Meter, seen : Meter]

TypeOK ==
  /\ tx \in [TxIds -> Tx \union {None}]
  /\ start \in [Starts -> Start \union {None}]
  /\ sample \in [TxIds -> Sample]
  /\ stop \in [TxIds -> [Attempts -> Stop]]
  /\ station \in [Stations -> [mode : {"idle", "starting", "charging", "stopping"},
                               tx : TxIds \union {None}]]
  /\ waiting \in [Stations -> BOOLEAN]
  /\ meter \in [Stations -> Meter]
  /\ hurried \subseteq TxIds /\ astray \in BOOLEAN

Idle == [mode |-> "idle", tx |-> None]
NoSample == [pc |-> "idle", seen |-> 0, total |-> 0]
NoStop == [pc |-> "none", meterStop |-> 0, seen |-> 0]
StopOver == [pc |-> "over", meterStop |-> 0, seen |-> 0]

Init ==
  /\ tx = [t \in TxIds |-> None]
  /\ start = [n \in Starts |-> None]
  /\ sample = [t \in TxIds |-> NoSample]
  /\ stop = [t \in TxIds |-> [a \in Attempts |-> NoStop]]
  /\ station = [s \in Stations |-> Idle]
  /\ waiting = [s \in Stations |-> FALSE]
  /\ meter = [s \in Stations |-> 0]
  /\ hurried = {} /\ astray = FALSE

stationVars == <<station, waiting, meter>>

(* Requests whose handlers have not ended. *)
StartRunning(n) == start[n] # None /\ start[n].pc # "over"
StopRunning(t) == \E a \in Attempts : stop[t][a].pc \notin {"none", "over"}

NextStart(n) == start[n] = None /\ \A m \in Starts : m < n => start[m] # None
NextTx(t) == tx[t] = None /\ \A u \in TxIds : u < t => tx[u] # None

-----------------------------------------------------------------------------
(* The stations. *)

NewStart(n, s) ==
  /\ NextStart(n)
  /\ start' = [start EXCEPT ![n] = [station |-> s, pc |-> "queued",
                                    meterStart |-> meter[s], tx |-> None]]

(* A car is plugged in.  A start beside another one, or beside a stop that *)
(* has been answered but not stored yet, is noted.                         *)
SendStart(n, s) ==
  /\ station[s] = Idle
  /\ NewStart(n, s)
  /\ station' = [station EXCEPT ![s].mode = "starting"]
  /\ waiting' = [waiting EXCEPT ![s] = TRUE]
  /\ astray' = (astray \/ (\E m \in Starts : StartRunning(m))
                       \/ (\E t \in TxIds : StopRunning(t)))
  /\ UNCHANGED <<tx, sample, stop, meter, hurried>>

(* No answer in time: the station repeats the request. *)
RepeatStart(n, s) ==
  /\ station[s].mode = "starting" /\ waiting[s]
  /\ NewStart(n, s)
  /\ astray' = TRUE
  /\ UNCHANGED <<tx, sample, stop, stationVars, hurried>>

MeterRuns(s) ==
  /\ station[s].mode = "charging" /\ meter[s] < MaxMeter
  /\ meter' = [meter EXCEPT ![s] = @ + 1]
  /\ UNCHANGED <<tx, start, sample, stop, station, waiting, hurried, astray>>

SendMeterValues(s) ==
  /\ station[s].mode = "charging" /\ ~waiting[s]
  /\ LET t == station[s].tx IN
       /\ sample[t].pc = "idle"
       /\ Cardinality({u \in TxIds : sample[u].pc # "idle"}) < MaxSamples
       /\ sample' = [sample EXCEPT ![t] = [pc |-> "queued", seen |-> 0, total |-> meter[s]]]
  /\ waiting' = [waiting EXCEPT ![s] = TRUE]
  /\ UNCHANGED <<tx, start, stop, station, meter, hurried, astray>>

(* No answer in time: the reading is given up. *)
GiveUpMeterValues(s) ==
  /\ station[s].mode = "charging" /\ waiting[s]
  /\ waiting' = [waiting EXCEPT ![s] = FALSE]
  /\ UNCHANGED <<tx, start, sample, stop, station, meter, hurried, astray>>

(* The car leaves.  A reading still being handled meets the stop. *)
SendStop(s) ==
  /\ station[s].mode = "charging" /\ ~waiting[s]
  /\ LET t == station[s].tx IN
       /\ stop' = [stop EXCEPT ![t][1] = [NoStop EXCEPT !.pc = "queued",
                                                         !.meterStop = meter[s]]]
       /\ hurried' = IF sample[t].pc # "idle" THEN hurried \union {t} ELSE hurried
  /\ station' = [station EXCEPT ![s].mode = "stopping"]
  /\ waiting' = [waiting EXCEPT ![s] = TRUE]
  /\ UNCHANGED <<tx, start, sample, meter, astray>>

RepeatStop(s) ==
  /\ station[s].mode = "stopping" /\ waiting[s]
  /\ stop[station[s].tx][2].pc = "none"
  /\ Cardinality({t \in TxIds : stop[t][2].pc # "none"}) < MaxRepeats
  /\ stop' = [stop EXCEPT ![station[s].tx][2] =
                [NoStop EXCEPT !.pc = "queued", !.meterStop = meter[s]]]
  /\ UNCHANGED <<tx, start, sample, stationVars, hurried, astray>>

-----------------------------------------------------------------------------
(* StartTransaction. *)

(* authorizeOcpp16IdToken, for a valid idTag: refused as ConcurrentTx when *)
(* it has an active transaction.                                           *)
Authorize(n) ==
  /\ start[n] # None /\ start[n].pc = "queued"
  /\ start' = [start EXCEPT ![n].pc =
                 IF \E t \in TxIds : tx[t] # None /\ tx[t].active THEN "refused" ELSE "accepted"]
  /\ UNCHANGED <<tx, sample, stop, stationVars, hurried, astray>>

(* createTransactionByStartTransaction: one database transaction. *)
CreateTransaction(n, t) ==
  /\ start[n] # None /\ start[n].pc = "accepted" /\ NextTx(t)
  /\ tx' = [tx EXCEPT ![t] = [active |-> TRUE, totalKwh |-> 0, readings |-> {},
                              meterStart |-> start[n].meterStart, meterStop |-> None]]
  /\ start' = [start EXCEPT ![n].pc = "created", ![n].tx = t]
  /\ UNCHANGED <<sample, stop, stationVars, hurried, astray>>

(* It throws, for a connector there is not or a row that cannot be stored, *)
(* and the answer is Invalid.                                              *)
CreateFails(n) ==
  /\ start[n] # None /\ start[n].pc = "accepted"
  /\ start' = [start EXCEPT ![n].pc = "refused"]
  /\ UNCHANGED <<tx, sample, stop, stationVars, hurried, astray>>

(* The answer: the station takes it for its last request only.             *)
AnswerStart(n) ==
  /\ start[n] # None /\ start[n].pc \in {"created", "refused"}
  /\ LET s == start[n].station
         last == /\ station[s].mode = "starting" /\ waiting[s]
                 /\ \A m \in Starts : start[m] # None /\ start[m].station = s => m <= n
     IN IF last
        THEN /\ station' = [station EXCEPT ![s] =
                  IF start[n].pc = "created" THEN [mode |-> "charging", tx |-> start[n].tx]
                  ELSE Idle]
             /\ waiting' = [waiting EXCEPT ![s] = FALSE]
        ELSE UNCHANGED <<station, waiting>>
  /\ start' = [start EXCEPT ![n] = [@ EXCEPT !.pc = "over", !.meterStart = 0, !.tx = None]]
  /\ UNCHANGED <<tx, sample, stop, meter, hurried, astray>>

(* An answer that is not sent is lost on the station. *)
StartNotAnswered(n) ==
  /\ start[n] # None /\ start[n].pc \in {"created", "refused"}
  /\ start' = [start EXCEPT ![n] = [@ EXCEPT !.pc = "over", !.meterStart = 0, !.tx = None]]
  /\ astray' = TRUE
  /\ UNCHANGED <<tx, sample, stop, stationVars, hurried>>

-----------------------------------------------------------------------------
(* MeterValues: updateTransactionByMeterValues reads the entity and saves  *)
(* the reading ...                                                         *)
SaveReading(t) ==
  /\ sample[t].pc = "queued"
  /\ tx' = [tx EXCEPT ![t].readings = @ \union {sample[t].total}]
  /\ sample' = [sample EXCEPT ![t] = [pc |-> "saved", seen |-> tx[t].totalKwh, total |-> 0]]
  /\ UNCHANGED <<start, stop, stationVars, hurried, astray>>

(* ... reads all readings: getTotalKwh is last minus first ... *)
Highest(readings) == CHOOSE x \in readings : \A y \in readings : y <= x
Lowest(readings) == CHOOSE x \in readings : \A y \in readings : x <= y
GetTotalKwh(readings) == Highest(readings) - Lowest(readings)

ComputeTotal(t) ==
  /\ sample[t].pc = "saved"
  /\ sample' = [sample EXCEPT ![t].pc = "computed", ![t].total = GetTotalKwh(tx[t].readings)]
  /\ UNCHANGED <<tx, start, stop, stationVars, hurried, astray>>

(* An entity writes a field only when it differs from what it has read. *)
SaveKwh(t, seen, kwh) == IF kwh = seen THEN tx[t].totalKwh ELSE kwh

(* ... and updates the row; then the station is answered. *)
UpdateTotal(t) ==
  /\ sample[t].pc = "computed"
  /\ tx' = [tx EXCEPT ![t].totalKwh = SaveKwh(t, sample[t].seen, sample[t].total)]
  /\ sample' = [sample EXCEPT ![t] = NoSample]
  /\ waiting' = [s \in Stations |->
       IF station[s] = [mode |-> "charging", tx |-> t] THEN FALSE ELSE waiting[s]]
  /\ UNCHANGED <<start, stop, station, meter, hurried, astray>>

-----------------------------------------------------------------------------
(* StopTransaction: the answer comes first ... *)
AnswerStop(t, a) ==
  /\ stop[t][a].pc = "queued"
  /\ stop' = [stop EXCEPT ![t][a].pc = "answered"]
  /\ station' = [s \in Stations |->
       IF station[s] = [mode |-> "stopping", tx |-> t] THEN Idle ELSE station[s]]
  /\ waiting' = [s \in Stations |->
       IF station[s] = [mode |-> "stopping", tx |-> t] THEN FALSE ELSE waiting[s]]
  /\ UNCHANGED <<tx, start, sample, meter, hurried, astray>>

(* ... and the handler goes on when it is not sent ... *)
StopNotAnswered(t, a) ==
  /\ stop[t][a].pc = "queued"
  /\ stop' = [stop EXCEPT ![t][a].pc = "answered"]
  /\ UNCHANGED <<tx, start, sample, stationVars, hurried, astray>>

(* ... then the entity is read ... *)
FindTransaction(t, a) ==
  /\ stop[t][a].pc = "answered"
  /\ stop' = [stop EXCEPT ![t][a].pc = "found", ![t][a].seen = tx[t].totalKwh]
  /\ UNCHANGED <<tx, start, sample, stationVars, hurried, astray>>

\* Mutant: the transaction is ended where its total is saved.
CreateStopTransactionOnly(t, a) ==
  /\ stop[t][a].pc = "found"
  /\ IF tx[t].meterStop # None
     THEN tx' = tx /\ stop' = [stop EXCEPT ![t][a] = StopOver]
     ELSE /\ tx' = [tx EXCEPT ![t].meterStop = stop[t][a].meterStop]
          /\ stop' = [stop EXCEPT ![t][a] = StopOver]
  /\ UNCHANGED <<start, sample, stationVars, hurried, astray>>

(* ... createStopTransaction stores the stop, once per transaction: a      *)
(* second one throws; and the row is inactive ...                          *)
CreateStopTransaction(t, a) ==
  /\ stop[t][a].pc = "found"
  /\ IF tx[t].meterStop # None
     THEN tx' = tx /\ stop' = [stop EXCEPT ![t][a] = StopOver]
     ELSE /\ tx' = [tx EXCEPT ![t].meterStop = stop[t][a].meterStop, ![t].active = FALSE]
          /\ stop' = [stop EXCEPT ![t][a].pc = "stored"]
  /\ UNCHANGED <<start, sample, stationVars, hurried, astray>>

\* Mutant: the energy is taken from the readings.
SaveTransactionReadings(t, a) ==
  /\ stop[t][a].pc = "stored"
  /\ tx' = [tx EXCEPT ![t].active = FALSE]
  /\ stop' = [stop EXCEPT ![t][a] = StopOver]
  /\ UNCHANGED <<start, sample, stationVars, hurried, astray>>

(* ... and the entity read first is saved with the final energy. *)
SaveTransaction(t, a) ==
  /\ stop[t][a].pc = "stored"
  /\ tx' = [tx EXCEPT ![t].active = FALSE,
                      ![t].totalKwh = SaveKwh(t, stop[t][a].seen,
                                              stop[t][a].meterStop - tx[t].meterStart)]
  /\ stop' = [stop EXCEPT ![t][a] = StopOver]
  /\ UNCHANGED <<start, sample, stationVars, hurried, astray>>

-----------------------------------------------------------------------------
Next ==
  \/ \E n \in Starts, s \in Stations : SendStart(n, s) \/ RepeatStart(n, s)
  \/ \E s \in Stations :
       \/ MeterRuns(s) \/ SendMeterValues(s) \/ GiveUpMeterValues(s)
       \/ SendStop(s) \/ RepeatStop(s)
  \/ \E n \in Starts :
       \/ Authorize(n) \/ (\E t \in TxIds : CreateTransaction(n, t)) \/ CreateFails(n)
       \/ AnswerStart(n) \/ StartNotAnswered(n)
  \/ \E t \in TxIds :
       \/ SaveReading(t) \/ ComputeTotal(t) \/ UpdateTotal(t)
       \/ \E a \in Attempts : \/ AnswerStop(t, a) \/ StopNotAnswered(t, a)
                              \/ FindTransaction(t, a) \/ CreateStopTransaction(t, a)
                              \/ SaveTransaction(t, a)

Spec == Init /\ [][Next]_tx16Vars

-----------------------------------------------------------------------------
(* Properties. *)

Active(t) == tx[t] # None /\ tx[t].active
Charging(t) == \E s \in Stations : station[s].tx = t

(* The idTag has one active transaction at most, and it is one a station  *)
(* is charging or about to, or one whose stop is being handled: nothing    *)
(* blocks the idTag for ever, however stops are repeated and readings      *)
(* overlap.  Unless a StartTransaction was repeated or its answer was not  *)
(* sent, which makes a transaction no station knows of, or two handlers    *)
(* met: the check for concurrent transactions and the row it looks for are *)
(* two steps.                                                              *)
NoGhostTransaction ==
  ~astray =>
    /\ \A t, u \in TxIds : Active(t) /\ Active(u) => t = u
    /\ \A t \in TxIds : Active(t) =>
         \/ Charging(t) \/ StopRunning(t)
         \/ \E n \in Starts : StartRunning(n) /\ start[n].tx = t

(* A transaction that has been stopped is billed for the energy between    *)
(* its start and its stop, whatever its readings say and however often the *)
(* stop is repeated, unless a reading is handled late.                     *)
FinalEnergy ==
  \A t \in TxIds :
    tx[t] # None /\ tx[t].meterStop # None /\ ~StopRunning(t) /\ t \notin hurried =>
      /\ ~tx[t].active
      /\ tx[t].totalKwh = tx[t].meterStop - tx[t].meterStart
===============================================================================
