----------------------- MODULE TransactionEvents_proofs -----------------------
(***************************************************************************)
(* Proofs about TransactionEvents, for any number of events, handlers and  *)
(* cost runs, any number of repetitions and of status calls.               *)
(***************************************************************************)
EXTENDS TransactionEvents, WellFoundedInduction, TLAPS

--------------------------------------------------------------------------------
(* Energy and readings. *)

LEMMA FirstExists ==
  ASSUME NEW S \in SUBSET Nat, S # {}
  PROVE  \E a \in S : IsFirst(a, S)
<1> DEFINE R == OpToRel(<, Nat)
<1>1. IsWellFoundedOn(R, Nat)
  BY NatLessThanWellFounded
<1>2. \E a \in S : \A b \in S : ~(<<b, a>> \in R)
  <2> HIDE DEF R
  <2> QED BY <1>1, WFMin
<1>3. PICK a \in S : \A b \in S : ~(<<b, a>> \in R)
  BY <1>2
<1>4. \A b \in S : ~(b < a)
  BY <1>3, Zenon DEF OpToRel
<1> HIDE DEF R
<1>5. \A b \in S : a <= b
  BY <1>4
<1> QED BY <1>5 DEF IsFirst

LEMMA LastExists ==
  ASSUME NEW S \in SUBSET Events, S # {}
  PROVE  \E a \in S : IsLast(a, S)
<1> DEFINE T == {Last - a : a \in S}
<1>1. T \in SUBSET Nat /\ T # {}
  <2>1. ASSUME NEW a \in S PROVE Last - a \in Nat
    BY LastAssumption DEF Events
  <2>2. PICK a \in S : TRUE
    OBVIOUS
  <2>3. Last - a \in T
    OBVIOUS
  <2> QED BY <2>1, <2>3
<1>2. PICK c \in T : IsFirst(c, T)
  BY <1>1, FirstExists, Zenon
<1>3. PICK a \in S : c = Last - a
  OBVIOUS
<1>4. ASSUME NEW b \in S PROVE b <= a
  <2>1. Last - b \in T
    OBVIOUS
  <2>2. c <= Last - b
    BY <1>2, <2>1 DEF IsFirst
  <2> QED BY <2>2, <1>3, LastAssumption DEF Events
<1> QED BY <1>4 DEF IsLast

(* The energy is a difference of two of the readings, and 0 only if there are
   not two readings to compare. *)
LEMMA KwhReal ==
  ASSUME NEW S \in SUBSET Events, S # {}
  PROVE  /\ Kwh(S) \in Differences(S)
         /\ Kwh(S) \in Int
         /\ Kwh(S) = 0 => Differences(S) = {0}
<1>1. S \in SUBSET Nat
  BY LastAssumption DEF Events
<1>2. PICK z \in S : TRUE
  OBVIOUS
<1>3. CASE \E a, b \in S : a # b
  <2> DEFINE l == CHOOSE a \in S : IsLast(a, S)
             f == CHOOSE a \in S : IsFirst(a, S)
  <2>1. l \in S /\ IsLast(l, S)
    BY LastExists
  <2>2. f \in S /\ IsFirst(f, S)
    BY <1>1, FirstExists
  <2>3. Kwh(S) = l - f
    BY <1>3 DEF Kwh
  <2> HIDE DEF l, f
  <2>4. f <= l /\ f # l
    <3>1. PICK a \in S, b \in S : a # b
      BY <1>3
    <3> QED BY <2>1, <2>2, <3>1, <1>1 DEF IsLast, IsFirst
  <2>5. l - f \in Differences(S)
    BY <2>1, <2>2, <2>4, LastAssumption DEF Differences, Events
  <2> QED BY <2>1, <2>2, <2>3, <2>4, <2>5, <1>1
<1>4. CASE \A a, b \in S : a = b
  <2>1. Kwh(S) = 0
    BY <1>4 DEF Kwh
  <2>2. 0 \in Differences(S)
    BY <1>1, <1>2, LastAssumption DEF Differences
  <2>3. \A d \in Differences(S) : d = 0
    BY <1>1, <1>4 DEF Differences
  <2> QED BY <2>1, <2>2, <2>3
<1> QED BY <1>3, <1>4

LEMMA DifferencesGrow ==
  ASSUME NEW S, NEW T, S \subseteq T
  PROVE  Differences(S) \subseteq Differences(T)
BY DEF Differences

LEMMA ZeroDifference ==
  ASSUME NEW S \in SUBSET Events, S # {}
  PROVE  0 \in Differences(S)
<1>1. PICK z \in S : TRUE
  OBVIOUS
<1> QED BY LastAssumption DEF Differences, Events

--------------------------------------------------------------------------------
(* The inductive invariants. *)

Written == {"cost", "answer", "schedule"}
HandlerStates == {"idle", "received", "read", "stored"} \cup Written
RunStates == {"idle", "active", "inactive", "kwh", "cost"}
HandlerType == [pc : HandlerStates, event : Events, snapshot : BOOLEAN \cup {None},
                accepted : BOOLEAN, kwh : Int]
RunType == [pc : RunStates, kwh : Int]
RowType == [isActive : BOOLEAN, totalKwh : Int, totalCost : Int]

(* The parts of TypeOK, with what the station's part needs to be inductive. *)
BooleansOK == scheduled \in BOOLEAN /\ ended \in BOOLEAN /\ crossed \in BOOLEAN
QueryOK == query \in BOOLEAN \cup {None}
RowOK == row \in {None} \cup RowType
StoredOK == stored \in SUBSET Events /\ (row = None <=> stored = {})
HandlersOK == handler \in [Handlers -> HandlerType]
RunsOK == run \in [Runs -> RunType]
StationOK ==
  /\ current \in 0..Last + 1
  /\ awaiting \in Handlers \cup {None}
  /\ awaiting # None => current \in Events
  /\ answered \in SUBSET Events
  /\ timeouts \in 0..MaxTimeouts
  /\ queries \in 0..MaxQueries

(* Who writes to the row has seen it. *)
RowSeen ==
  /\ \A h \in Handlers :
       \/ handler[h].pc \in {"read", "stored"} /\ handler[h].snapshot # None
       \/ handler[h].pc = "cost"
       => row # None
  /\ \A n \in Runs : run[n].pc \in {"active", "kwh", "cost"} => row # None

(* What a handler has committed, and what the station was told. *)
AnsweredInv ==
  /\ \A h \in Handlers : handler[h].pc \in Written => handler[h].event \in stored
  /\ \A h \in Handlers : handler[h].pc = "cost" => handler[h].event = Last
  /\ answered \subseteq stored

(* What the handlers and the cost runs have computed and may still write. *)
CostInv ==
  /\ CostIsReal
  /\ \A h \in Handlers : handler[h].pc \in {"stored", "cost"} =>
       handler[h].kwh \in Differences(stored \cup {handler[h].event})
  /\ \A n \in Runs : run[n].pc \in {"kwh", "cost"} => run[n].kwh \in Differences(stored)

(* The station: it has sent what it is past. *)
SentInv ==
  /\ \A h \in Handlers : handler[h].pc # "idle" /\ handler[h].event = Last => ended
  /\ Last \in stored => ended
  /\ ended => current \in {Last, Last + 1}
  /\ awaiting # None /\ current = Last => ended

(* Nothing older than the Ended event can still write. *)
NoOlder ==
  /\ \A g \in Handlers : handler[g].event # Last =>
       handler[g].pc \notin {"received", "read", "stored"}
  /\ query # TRUE

(* A handler of the Ended event that has read the row and was not crossed. *)
Settling ==
  \A h \in Handlers :
    handler[h].event = Last /\ handler[h].pc \in {"read", "stored"} /\ ~crossed =>
      /\ NoOlder
      /\ handler[h].snapshot = FALSE => row # None /\ row.isActive = FALSE
      /\ handler[h].pc = "stored" => handler[h].kwh = Kwh(stored \cup {Last})

(* After the commit of the Ended event, if that was not crossed. *)
Settled ==
  Last \in stored /\ ~crossed =>
    /\ NoOlder
    /\ \A n \in Runs : run[n].pc \in {"idle", "inactive"}
    /\ row.isActive = FALSE
    /\ row.totalKwh = Kwh(stored)
    /\ \A h \in Handlers : handler[h].event = Last =>
         /\ handler[h].pc = "cost" => handler[h].kwh = Kwh(stored)
         /\ handler[h].pc = "answer" => row.totalCost = Kwh(stored)
    /\ Last \in answered => row.totalCost = Kwh(stored)

--------------------------------------------------------------------------------
(* Type correctness. *)

TypeInv ==
  /\ BooleansOK /\ QueryOK /\ RowOK /\ StoredOK /\ HandlersOK /\ RunsOK /\ StationOK
  /\ RowSeen

LEMMA TypeParts == TypeInv => TypeOK
BY Zenon DEF TypeInv, TypeOK, BooleansOK, QueryOK, RowOK, StoredOK, HandlersOK, RunsOK, StationOK,
   HandlerType, HandlerStates, Written, RunType, RunStates, RowType

LEMMA IdleTyped == Idle \in HandlerType /\ Asleep \in RunType
BY LastAssumption DEF Idle, Asleep, HandlerType, HandlerStates, Written, RunType, RunStates, Events

LEMMA InitTyped == Init => TypeInv
<1> SUFFICES ASSUME Init PROVE TypeInv
  OBVIOUS
<1>1. HandlersOK /\ RunsOK
  BY IdleTyped DEF Init, HandlersOK, RunsOK
<1>2. RowOK /\ StoredOK /\ StationOK /\ QueryOK
  BY LastAssumption, BoundsAssumption DEF Init, RowOK, StoredOK, StationOK, QueryOK, Events
<1>3. BooleansOK
  BY Zenon DEF Init, BooleansOK
<1>4. RowSeen
  BY DEF Init, RowSeen, Idle, Asleep
<1> QED BY <1>1, <1>2, <1>3, <1>4 DEF TypeInv

(* A row that is there stays, with values of its type. *)
LEMMA RowStep == TypeInv /\ [Next]_vars => RowOK' /\ (row # None => row' # None)
<1> SUFFICES ASSUME TypeInv, [Next]_vars PROVE RowOK' /\ (row # None => row' # None)
  OBVIOUS
<1> DEFINE Goal == RowOK' /\ (row # None => row' # None)
<1> USE DEF TypeInv, RowOK
<1>0. \A r \in RowType : r # None
  BY NoneAssumption DEF RowType
<1>1. ASSUME NEW h \in Handlers, Commit(h) PROVE Goal
  <2>1. handler[h] \in HandlerType
    BY DEF HandlersOK
  <2>2. CASE handler[h].snapshot = None
    <3>1. Active(handler[h].event) \in BOOLEAN /\ handler[h].kwh \in Int
      BY <2>1 DEF HandlerType, Active
    <3>2. row' = NewRow(handler[h])
      BY <1>1, <2>2 DEF Commit
    <3>3. row' \in RowType
      BY <3>1, <3>2 DEF NewRow, RowType
    <3> QED BY <3>3, <1>0
  <2>3. CASE handler[h].snapshot # None
    <3>1. Active(handler[h].event) \in BOOLEAN /\ handler[h].kwh \in Int
      BY <2>1 DEF HandlerType, Active
    <3>2. row \in RowType
      BY <1>1, <2>3 DEF Commit, RowSeen
    <3>3. row' = UpdatedRow(handler[h])
      BY <1>1, <2>3 DEF Commit
    <3>4. row' \in RowType
      BY <3>1, <3>2, <3>3 DEF UpdatedRow, RowType
    <3> QED BY <3>4, <1>0
  <2> QED BY <2>2, <2>3
<1>2. ASSUME NEW h \in Handlers, StoreCost(h) PROVE Goal
  <2>1. handler[h] \in HandlerType /\ row \in RowType
    BY <1>2 DEF HandlersOK, StoreCost, RowSeen
  <2>2. row' \in RowType
    BY <1>2, <2>1 DEF StoreCost, HandlerType, RowType
  <2> QED BY <2>2, <1>0
<1>3. ASSUME NEW n \in Runs, SaveTotalKwh(n) \/ SaveTotalCost(n) PROVE Goal
  <2>1. run[n] \in RunType /\ row \in RowType
    BY <1>3 DEF RunsOK, SaveTotalKwh, SaveTotalCost, RowSeen
  <2>2. row' \in RowType
    BY <1>3, <2>1 DEF SaveTotalKwh, SaveTotalCost, RunType, RowType
  <2> QED BY <2>2, <1>0
<1>4. CASE HandleGetTransactionStatus
  <2>1. CASE row = None
    BY <1>4, <2>1 DEF HandleGetTransactionStatus
  <2>2. CASE row \in RowType
    <3>1. query \in BOOLEAN /\ row # None
      BY <1>4, <2>2, <1>0 DEF HandleGetTransactionStatus, QueryOK
    <3>2. row' = [row EXCEPT !.isActive = query]
      BY <1>4, <3>1 DEF HandleGetTransactionStatus
    <3>3. row' \in RowType
      BY <2>2, <3>1, <3>2 DEF RowType
    <3> QED BY <3>3, <1>0
  <2> QED BY <2>1, <2>2
<1>5. ASSUME row' = row PROVE Goal
  BY <1>5
<1>6. CASE UNCHANGED vars
  BY <1>6, <1>5 DEF vars
<1>7. ASSUME NEW h \in Handlers,
             \/ SendEvent(h) \/ ReadTransaction(h) \/ StoreEvent(h) \/ CommitFails(h)
             \/ Answer(h) \/ Schedule(h)
      PROVE  Goal
  BY <1>7, <1>5 DEF SendEvent, ReadTransaction, StoreEvent, CommitFails, Answer, Schedule
<1>8. ASSUME NEW n \in Runs, TryNotify(n) \/ Unschedule(n) \/ ReadMeterValues(n)
      PROVE  Goal
  BY <1>8, <1>5 DEF TryNotify, Unschedule, ReadMeterValues
<1>9. CASE GiveUp \/ AnswerStatus
  BY <1>9, <1>5 DEF GiveUp, AnswerStatus
<1> QED BY <1>1, <1>2, <1>3, <1>4, <1>6, <1>7, <1>8, <1>9, Zenon DEF Next, HandlerStep, RunStep

LEMMA StoredStep == TypeInv /\ [Next]_vars => StoredOK' /\ stored \subseteq stored'
<1> SUFFICES ASSUME TypeInv, [Next]_vars PROVE StoredOK' /\ stored \subseteq stored'
  OBVIOUS
<1> DEFINE Goal == StoredOK' /\ stored \subseteq stored'
<1>0. RowOK' /\ (row # None => row' # None)
  BY RowStep
<1>1. ASSUME NEW h \in Handlers, Commit(h) PROVE Goal
  <2>1. handler[h] \in HandlerType
    BY DEF HandlersOK, TypeInv
  <2>2. row' # None
    <3>1. CASE handler[h].snapshot # None
      BY <1>0, <1>1, <3>1 DEF TypeInv, RowSeen, Commit
    <3>2. CASE handler[h].snapshot = None
      <4>1. Active(handler[h].event) \in BOOLEAN /\ handler[h].kwh \in Int
        BY <2>1 DEF HandlerType, Active
      <4>2. NewRow(handler[h]) \in RowType
        BY <4>1 DEF NewRow, RowType
      <4>3. \A r \in RowType : r # None
        BY NoneAssumption DEF RowType
      <4> QED BY <1>1, <3>2, <4>2, <4>3 DEF Commit
    <3> QED BY <3>1, <3>2
  <2>3. stored' = stored \cup {handler[h].event} /\ handler[h].event \in Events
    BY <1>1, <2>1 DEF Commit, HandlerType
  <2> QED BY <2>2, <2>3 DEF TypeInv, StoredOK
<1>2. ASSUME stored' = stored, row' = None <=> row = None PROVE Goal
  BY <1>2 DEF TypeInv, StoredOK
<1>3. ASSUME NEW h \in Handlers, StoreCost(h) PROVE Goal
  BY <1>0, <1>2, <1>3 DEF StoreCost, TypeInv, RowSeen
<1>4. ASSUME NEW n \in Runs, SaveTotalKwh(n) \/ SaveTotalCost(n) PROVE Goal
  BY <1>0, <1>2, <1>4 DEF SaveTotalKwh, SaveTotalCost, TypeInv, RowSeen
<1>5. CASE HandleGetTransactionStatus
  BY <1>0, <1>2, <1>5 DEF HandleGetTransactionStatus
<1>6. CASE UNCHANGED vars
  BY <1>6, <1>2 DEF vars
<1>7. ASSUME NEW h \in Handlers,
             \/ SendEvent(h) \/ ReadTransaction(h) \/ StoreEvent(h) \/ CommitFails(h)
             \/ Answer(h) \/ Schedule(h)
      PROVE  Goal
  BY <1>7, <1>2 DEF SendEvent, ReadTransaction, StoreEvent, CommitFails, Answer, Schedule
<1>8. ASSUME NEW n \in Runs, TryNotify(n) \/ Unschedule(n) \/ ReadMeterValues(n)
      PROVE  Goal
  BY <1>8, <1>2 DEF TryNotify, Unschedule, ReadMeterValues
<1>9. CASE GiveUp \/ AnswerStatus
  BY <1>9, <1>2 DEF GiveUp, AnswerStatus
<1> QED BY <1>1, <1>3, <1>4, <1>5, <1>6, <1>7, <1>8, <1>9, Zenon DEF Next, HandlerStep, RunStep

LEMMA HandlersStep == TypeInv /\ [Next]_vars => HandlersOK'
<1> SUFFICES ASSUME TypeInv, [Next]_vars PROVE HandlersOK'
  OBVIOUS
<1>0. \A h \in Handlers : handler[h] \in HandlerType
  BY DEF TypeInv, HandlersOK
<1>1. ASSUME NEW h \in Handlers, NEW r \in HandlerType, handler' = [handler EXCEPT ![h] = r]
      PROVE  HandlersOK'
  BY <1>1 DEF TypeInv, HandlersOK
<1>2. ASSUME NEW h \in Handlers, SendEvent(h) PROVE HandlersOK'
  <2>1. [Idle EXCEPT !.pc = "received", !.event = current] \in HandlerType
    <3>1. current \in Events
      BY <1>2 DEF SendEvent
    <3> QED BY <3>1, IdleTyped DEF HandlerType, HandlerStates
  <2>2. handler' = [handler EXCEPT ![h] = [Idle EXCEPT !.pc = "received", !.event = current]]
    BY <1>2 DEF SendEvent
  <2> QED BY <1>1, <2>1, <2>2
<1>3. ASSUME NEW h \in Handlers, ReadTransaction(h) PROVE HandlersOK'
  <2>1. PICK accepted \in BOOLEAN :
          handler' = [handler EXCEPT ![h].pc = "read", ![h].accepted = accepted,
                        ![h].snapshot = IF row = None THEN None ELSE row.isActive]
    BY <1>3 DEF ReadTransaction, Authorized
  <2>2. (IF row = None THEN None ELSE row.isActive) \in BOOLEAN \cup {None}
    BY DEF TypeInv, RowOK, RowType
  <2> DEFINE snap == IF row = None THEN None ELSE row.isActive
             r == [handler[h] EXCEPT !.pc = "read", !.accepted = accepted, !.snapshot = snap]
  <2>3. handler' = [handler EXCEPT ![h] = r]
    BY <2>1 DEF TypeInv, HandlersOK, HandlerType
  <2>4. snap \in BOOLEAN \cup {None}
    BY <2>2
  <2> HIDE DEF snap
  <2>5. r \in HandlerType
    BY <1>0, <2>4 DEF HandlerType, HandlerStates
  <2> QED BY <1>1, <2>3, <2>5
<1>4. ASSUME NEW h \in Handlers, StoreEvent(h) PROVE HandlersOK'
  <2> DEFINE k == Kwh(stored \cup {handler[h].event})
             r == [handler[h] EXCEPT !.pc = "stored", !.kwh = k]
  <2>1. handler' = [handler EXCEPT ![h] = r]
    BY <1>4 DEF StoreEvent, TypeInv, HandlersOK, HandlerType
  <2>2. stored \cup {handler[h].event} \in SUBSET Events
    BY <1>0 DEF TypeInv, StoredOK, HandlerType
  <2>3. k \in Int
    BY <2>2, KwhReal
  <2> HIDE DEF k
  <2>4. r \in HandlerType
    BY <1>0, <2>3 DEF HandlerType, HandlerStates
  <2> QED BY <1>1, <2>1, <2>4
<1>5. ASSUME NEW h \in Handlers, Commit(h) \/ StoreCost(h) PROVE HandlersOK'
  <2>1. PICK p \in HandlerStates : handler' = [handler EXCEPT ![h].pc = p]
    BY <1>5 DEF Commit, StoreCost, HandlerStates, Written
  <2>2. handler' = [handler EXCEPT ![h] = [handler[h] EXCEPT !.pc = p]]
    BY <2>1 DEF TypeInv, HandlersOK
  <2>3. [handler[h] EXCEPT !.pc = p] \in HandlerType
    BY <1>0 DEF HandlerType
  <2> QED BY <1>1, <2>2, <2>3
<1>6. ASSUME NEW h \in Handlers, Answer(h) PROVE HandlersOK'
  <2>1. [handler[h] EXCEPT !.pc = "schedule"] \in HandlerType
    BY <1>0 DEF HandlerType, HandlerStates, Written
  <2>2. \/ handler' = [handler EXCEPT ![h] = Idle]
        \/ handler' = [handler EXCEPT ![h] = [handler[h] EXCEPT !.pc = "schedule"]]
    BY <1>6 DEF Answer, TypeInv, HandlersOK
  <2> QED BY <1>1, <2>1, <2>2, IdleTyped
<1>7. ASSUME NEW h \in Handlers, CommitFails(h) \/ Schedule(h) PROVE HandlersOK'
  BY <1>1, <1>7, IdleTyped DEF CommitFails, Schedule
<1>8. ASSUME handler' = handler PROVE HandlersOK'
  BY <1>8 DEF TypeInv, HandlersOK
<1>9. ASSUME NEW n \in Runs, RunStep(n) PROVE HandlersOK'
  BY <1>8, <1>9 DEF RunStep, TryNotify, Unschedule, ReadMeterValues, SaveTotalKwh, SaveTotalCost
<1>10. CASE GiveUp \/ AnswerStatus \/ HandleGetTransactionStatus \/ UNCHANGED vars
  BY <1>8, <1>10 DEF GiveUp, AnswerStatus, HandleGetTransactionStatus, vars
<1> QED BY <1>2, <1>3, <1>4, <1>5, <1>6, <1>7, <1>9, <1>10, Zenon DEF Next, HandlerStep

LEMMA RunsStep == TypeInv /\ [Next]_vars => RunsOK'
<1> SUFFICES ASSUME TypeInv, [Next]_vars PROVE RunsOK'
  OBVIOUS
<1>0. \A n \in Runs : run[n] \in RunType
  BY DEF TypeInv, RunsOK
<1>1. ASSUME NEW n \in Runs, NEW r \in RunType, run' = [run EXCEPT ![n] = r]
      PROVE  RunsOK'
  BY <1>1 DEF TypeInv, RunsOK
<1>2. ASSUME NEW n \in Runs, ReadMeterValues(n) PROVE RunsOK'
  <2>1. stored # {}
    BY <1>2 DEF ReadMeterValues, TypeInv, RowSeen, StoredOK
  <2>2. Kwh(stored) \in Int
    BY <2>1, KwhReal DEF TypeInv, StoredOK
  <2>3. [pc |-> "kwh", kwh |-> Kwh(stored)] \in RunType
    BY <2>2 DEF RunType, RunStates
  <2> QED BY <1>1, <1>2, <2>3 DEF ReadMeterValues
<1>3. ASSUME NEW n \in Runs, TryNotify(n) \/ SaveTotalKwh(n) PROVE RunsOK'
  <2>1. PICK p \in RunStates : run' = [run EXCEPT ![n].pc = p]
    BY <1>3 DEF TryNotify, SaveTotalKwh, RunStates
  <2>2. run' = [run EXCEPT ![n] = [run[n] EXCEPT !.pc = p]]
    BY <2>1 DEF TypeInv, RunsOK
  <2>3. [run[n] EXCEPT !.pc = p] \in RunType
    BY <1>0 DEF RunType
  <2> QED BY <1>1, <2>2, <2>3
<1>4. ASSUME NEW n \in Runs, Unschedule(n) \/ SaveTotalCost(n) PROVE RunsOK'
  BY <1>1, <1>4, IdleTyped DEF Unschedule, SaveTotalCost
<1>5. ASSUME run' = run PROVE RunsOK'
  BY <1>5 DEF TypeInv, RunsOK
<1>6. ASSUME NEW h \in Handlers, SendEvent(h) \/ HandlerStep(h) PROVE RunsOK'
  BY <1>5, <1>6 DEF SendEvent, HandlerStep, ReadTransaction, StoreEvent, Commit, CommitFails,
     StoreCost, Answer, Schedule
<1>7. CASE GiveUp \/ AnswerStatus \/ HandleGetTransactionStatus \/ UNCHANGED vars
  BY <1>5, <1>7 DEF GiveUp, AnswerStatus, HandleGetTransactionStatus, vars
<1> QED BY <1>2, <1>3, <1>4, <1>6, <1>7, Zenon DEF Next, RunStep

LEMMA StationStep == TypeInv /\ [Next]_vars => StationOK'
<1> SUFFICES ASSUME TypeInv, [Next]_vars PROVE StationOK'
  OBVIOUS
<1> USE LastAssumption, BoundsAssumption DEF TypeInv, StationOK
<1>1. ASSUME NEW h \in Handlers, SendEvent(h) PROVE StationOK'
  BY <1>1 DEF SendEvent
<1>2. CASE GiveUp
  BY <1>2 DEF GiveUp, Events
<1>3. ASSUME NEW h \in Handlers, Answer(h) PROVE StationOK'
  <2>1. handler[h].event \in Events
    BY DEF HandlersOK, HandlerType
  <2>2. h # None
    BY NoneAssumption
  <2> QED BY <1>3, <2>1, <2>2 DEF Answer, Events
<1>4. ASSUME NEW h \in Handlers, CommitFails(h) PROVE StationOK'
  BY <1>4 DEF CommitFails
<1>5. CASE AnswerStatus
  BY <1>5 DEF AnswerStatus, stationVars
<1>6. ASSUME UNCHANGED <<stationVars, queries>> PROVE StationOK'
  BY <1>6 DEF stationVars
<1>7. ASSUME NEW h \in Handlers,
             ReadTransaction(h) \/ StoreEvent(h) \/ Commit(h) \/ StoreCost(h) \/ Schedule(h)
      PROVE  StationOK'
  BY <1>6, <1>7, Zenon DEF ReadTransaction, StoreEvent, Commit, StoreCost, Schedule
<1>8. ASSUME NEW n \in Runs, RunStep(n) PROVE StationOK'
  BY <1>6, <1>8, Zenon DEF RunStep, TryNotify, Unschedule, ReadMeterValues, SaveTotalKwh,
     SaveTotalCost
<1>9. CASE HandleGetTransactionStatus \/ UNCHANGED vars
  BY <1>6, <1>9, Zenon DEF HandleGetTransactionStatus, vars
<1> QED BY <1>1, <1>2, <1>3, <1>4, <1>5, <1>7, <1>8, <1>9, Zenon DEF Next, HandlerStep

LEMMA BooleansStep == TypeInv /\ [Next]_vars => BooleansOK' /\ QueryOK'
<1> SUFFICES ASSUME TypeInv, [Next]_vars PROVE BooleansOK' /\ QueryOK'
  OBVIOUS
<1> USE DEF TypeInv, BooleansOK, QueryOK, stationVars
<1>1. ASSUME NEW h \in Handlers, SendEvent(h) \/ HandlerStep(h) PROVE BooleansOK' /\ QueryOK'
  BY <1>1, Zenon DEF SendEvent, HandlerStep, ReadTransaction, StoreEvent, Commit, CommitFails,
     StoreCost, Answer, Schedule, Crossing
<1>2. ASSUME NEW n \in Runs, RunStep(n) PROVE BooleansOK' /\ QueryOK'
  BY <1>2, Zenon DEF RunStep, TryNotify, Unschedule, ReadMeterValues, SaveTotalKwh, SaveTotalCost
<1>3. CASE GiveUp \/ AnswerStatus \/ HandleGetTransactionStatus \/ UNCHANGED vars
  BY <1>3, Zenon DEF GiveUp, AnswerStatus, HandleGetTransactionStatus, vars
<1> QED BY <1>1, <1>2, <1>3, Zenon DEF Next

LEMMA RowSeenStep == TypeInv /\ [Next]_vars => RowSeen'
<1> SUFFICES ASSUME TypeInv, [Next]_vars PROVE RowSeen'
  OBVIOUS
<1>0. row # None => row' # None
  BY RowStep
<1> DEFINE Saw(r) == \/ r.pc \in {"read", "stored"} /\ r.snapshot # None
                     \/ r.pc = "cost"
           Runner(r) == r.pc \in {"active", "kwh", "cost"}
<1>1. /\ \A h \in Handlers : Saw(handler[h]) => row # None
      /\ \A n \in Runs : Runner(run[n]) => row # None
      /\ handler \in [Handlers -> HandlerType] /\ run \in [Runs -> RunType]
  BY DEF TypeInv, RowSeen, HandlersOK, RunsOK
<1>2. /\ RowSeen' <=> /\ \A h \in Handlers : Saw(handler'[h]) => row' # None
                      /\ \A n \in Runs : Runner(run'[n]) => row' # None
  BY DEF RowSeen
<1>3. ASSUME NEW h \in Handlers, run' = run,
             \A g \in Handlers \ {h} : handler'[g] = handler[g],
             Saw(handler'[h]) => row' # None
      PROVE  RowSeen'
  BY <1>0, <1>1, <1>2, <1>3
<1>4. ASSUME NEW n \in Runs, handler' = handler,
             \A m \in Runs \ {n} : run'[m] = run[m],
             Runner(run'[n]) => row' # None
      PROVE  RowSeen'
  BY <1>0, <1>1, <1>2, <1>4
<1>5. ASSUME handler' = handler, run' = run PROVE RowSeen'
  BY <1>0, <1>1, <1>2, <1>5
<1>6. ASSUME NEW h \in Handlers, SendEvent(h) \/ Schedule(h) \/ CommitFails(h) \/ Answer(h)
      PROVE  RowSeen'
  <2>1. run' = run /\ \A g \in Handlers \ {h} : handler'[g] = handler[g]
    BY <1>1, <1>6 DEF SendEvent, Schedule, CommitFails, Answer
  <2>2. handler'[h].pc \in {"idle", "received", "schedule"}
    <3>1. /\ Idle.pc = "idle"
          /\ [Idle EXCEPT !.pc = "received", !.event = current].pc = "received"
          /\ [handler[h] EXCEPT !.pc = "schedule"].pc = "schedule"
      BY <1>1 DEF Idle, HandlerType
    <3>2. CASE SendEvent(h)
      BY <1>1, <3>1, <3>2 DEF SendEvent
    <3>3. CASE Schedule(h) \/ CommitFails(h)
      BY <1>1, <3>1, <3>3 DEF Schedule, CommitFails
    <3>4. CASE Answer(h)
      BY <1>1, <3>1, <3>4 DEF Answer
    <3> QED BY <1>6, <3>2, <3>3, <3>4
  <2> QED BY <1>3, <2>1, <2>2
<1>7. ASSUME NEW h \in Handlers, ReadTransaction(h) PROVE RowSeen'
  <2>1. run' = run /\ \A g \in Handlers \ {h} : handler'[g] = handler[g]
    BY <1>1, <1>7 DEF ReadTransaction
  <2>2. handler'[h].pc = "read" /\ row' = row
        /\ handler'[h].snapshot = IF row = None THEN None ELSE row.isActive
    BY <1>1, <1>7 DEF ReadTransaction, HandlerType
  <2> QED BY <1>3, <2>1, <2>2
<1>8. ASSUME NEW h \in Handlers, StoreEvent(h) PROVE RowSeen'
  <2>1. run' = run /\ \A g \in Handlers \ {h} : handler'[g] = handler[g]
    BY <1>1, <1>8 DEF StoreEvent
  <2>2. handler'[h].pc = "stored" /\ handler[h].pc = "read"
        /\ handler'[h].snapshot = handler[h].snapshot
    BY <1>1, <1>8 DEF StoreEvent, HandlerType
  <2> QED BY <1>0, <1>1, <1>3, <2>1, <2>2
<1>9. ASSUME NEW h \in Handlers, Commit(h) \/ StoreCost(h) PROVE RowSeen'
  <2>1. run' = run /\ \A g \in Handlers \ {h} : handler'[g] = handler[g]
    BY <1>1, <1>9 DEF Commit, StoreCost
  <2>2. handler'[h].pc \in {"cost", "answer"}
    BY <1>1, <1>9 DEF Commit, StoreCost, HandlerType
  <2>3. row' # None
    <3>1. CASE StoreCost(h)
      BY <1>0, <1>1, <3>1 DEF StoreCost
    <3>2. CASE Commit(h)
      <4>1. stored' # {}
        BY <3>2 DEF Commit
      <4> QED BY <4>1, StoredStep DEF StoredOK
    <3> QED BY <1>9, <3>1, <3>2
  <2> QED BY <1>3, <2>1, <2>3
<1>10. ASSUME NEW n \in Runs, RunStep(n) PROVE RowSeen'
  <2>1. handler' = handler /\ \A m \in Runs \ {n} : run'[m] = run[m]
    BY <1>1, <1>10 DEF RunStep, TryNotify, Unschedule, ReadMeterValues, SaveTotalKwh, SaveTotalCost
  <2>2. CASE TryNotify(n)
    <3>1. row' = row /\ (run'[n].pc = "active" => row # None)
          /\ run'[n].pc \in {"active", "inactive"}
      BY <1>1, <2>2 DEF TryNotify, RunType
    <3> QED BY <1>4, <2>1, <3>1
  <2>3. CASE ReadMeterValues(n) \/ SaveTotalKwh(n)
    <3>1. Runner(run[n])
      BY <2>3 DEF ReadMeterValues, SaveTotalKwh
    <3> QED BY <1>0, <1>1, <1>4, <2>1, <3>1
  <2>4. CASE Unschedule(n) \/ SaveTotalCost(n)
    <3>1. run'[n].pc = "idle"
      BY <1>1, <2>4 DEF Unschedule, SaveTotalCost, Asleep
    <3> QED BY <1>4, <2>1, <3>1
  <2> QED BY <1>10, <2>2, <2>3, <2>4 DEF RunStep
<1>11. CASE GiveUp \/ AnswerStatus \/ HandleGetTransactionStatus \/ UNCHANGED vars
  BY <1>5, <1>11 DEF GiveUp, AnswerStatus, HandleGetTransactionStatus, vars
<1> QED BY <1>6, <1>7, <1>8, <1>9, <1>10, <1>11, Zenon DEF Next, HandlerStep

LEMMA TypeInvariant == Spec => []TypeInv
<1>1. TypeInv /\ [Next]_vars => TypeInv'
  BY RowStep, StoredStep, HandlersStep, RunsStep, StationStep, BooleansStep, RowSeenStep, Zenon
     DEF TypeInv
<1> QED BY InitTyped, <1>1, PTL DEF Spec

(* Row, events, handlers, cost runs and station always hold what TypeOK says:
   in particular there is a row exactly if an event is stored. *)
THEOREM TypeCorrect == Spec => []TypeOK
BY TypeInvariant, TypeParts, PTL

--------------------------------------------------------------------------------
(* What a step does to the handler or the run that takes it. *)

LEMMA HandlerEffect ==
  ASSUME TypeInv, NEW h \in Handlers
  PROVE  /\ SendEvent(h) \/ HandlerStep(h) =>
              run' = run /\ \A g \in Handlers \ {h} : handler'[g] = handler[g]
         /\ SendEvent(h) => handler'[h].pc = "received" /\ handler'[h].event = current
         /\ ReadTransaction(h) => /\ handler'[h].pc = "read"
                                  /\ handler'[h].event = handler[h].event
                                  /\ handler'[h].snapshot = IF row = None THEN None ELSE row.isActive
         /\ StoreEvent(h) => /\ handler'[h].pc = "stored"
                             /\ handler'[h].event = handler[h].event
                             /\ handler'[h].snapshot = handler[h].snapshot
                             /\ handler'[h].kwh = Kwh(stored \cup {handler[h].event})
         /\ Commit(h) => /\ handler'[h].pc = IF handler[h].event = Last THEN "cost" ELSE "answer"
                         /\ handler'[h].event = handler[h].event
                         /\ handler'[h].kwh = handler[h].kwh
         /\ StoreCost(h) => handler'[h].pc = "answer" /\ handler'[h].event = handler[h].event
         /\ Answer(h) => /\ handler'[h].pc \in {"idle", "schedule"}
                         /\ handler'[h].pc = "schedule" => handler'[h].event = handler[h].event
         /\ CommitFails(h) \/ Schedule(h) => handler'[h].pc = "idle"
<1>0. handler \in [Handlers -> HandlerType] /\ Idle.pc = "idle"
  BY DEF TypeInv, HandlersOK, Idle
<1>1. SendEvent(h) \/ HandlerStep(h) =>
        run' = run /\ \A g \in Handlers \ {h} : handler'[g] = handler[g]
  BY <1>0 DEF HandlerStep, SendEvent, ReadTransaction, StoreEvent, Commit, CommitFails, StoreCost,
     Answer, Schedule
<1>2. SendEvent(h) => handler'[h].pc = "received" /\ handler'[h].event = current
  BY <1>0 DEF SendEvent, Idle
<1>3. ReadTransaction(h) =>
        /\ handler'[h].pc = "read"
        /\ handler'[h].event = handler[h].event
        /\ handler'[h].snapshot = IF row = None THEN None ELSE row.isActive
  BY <1>0 DEF ReadTransaction, HandlerType
<1>4. StoreEvent(h) =>
        /\ handler'[h].pc = "stored"
        /\ handler'[h].event = handler[h].event
        /\ handler'[h].snapshot = handler[h].snapshot
        /\ handler'[h].kwh = Kwh(stored \cup {handler[h].event})
  BY <1>0 DEF StoreEvent, HandlerType
<1>5. Commit(h) => /\ handler'[h].pc = IF handler[h].event = Last THEN "cost" ELSE "answer"
                   /\ handler'[h].event = handler[h].event
                   /\ handler'[h].kwh = handler[h].kwh
  BY <1>0 DEF Commit, HandlerType
<1>6. StoreCost(h) => handler'[h].pc = "answer" /\ handler'[h].event = handler[h].event
  BY <1>0 DEF StoreCost, HandlerType
<1>7. Answer(h) => /\ handler'[h].pc \in {"idle", "schedule"}
                   /\ handler'[h].pc = "schedule" => handler'[h].event = handler[h].event
  BY <1>0 DEF Answer, HandlerType
<1>8. CommitFails(h) \/ Schedule(h) => handler'[h].pc = "idle"
  BY <1>0 DEF CommitFails, Schedule
<1> QED BY <1>1, <1>2, <1>3, <1>4, <1>5, <1>6, <1>7, <1>8

LEMMA RunEffect ==
  ASSUME TypeInv, NEW n \in Runs
  PROVE  /\ RunStep(n) =>
              /\ UNCHANGED <<handler, stored, current, awaiting, ended, answered, query, crossed>>
              /\ \A m \in Runs \ {n} : run'[m] = run[m]
         /\ TryNotify(n) => /\ row' = row
                            /\ run'[n].pc = IF row # None /\ row.isActive THEN "active"
                                            ELSE "inactive"
         /\ Unschedule(n) => row' = row /\ run'[n].pc = "idle"
         /\ ReadMeterValues(n) => row' = row /\ run'[n].pc = "kwh" /\ run'[n].kwh = Kwh(stored)
         /\ SaveTotalKwh(n) => /\ row' = [row EXCEPT !.totalKwh = run[n].kwh]
                               /\ run'[n].pc = "cost" /\ run'[n].kwh = run[n].kwh
         /\ SaveTotalCost(n) => /\ row' = [row EXCEPT !.totalCost = run[n].kwh]
                                /\ run'[n].pc = "idle"
<1>0. run \in [Runs -> RunType] /\ Asleep.pc = "idle"
  BY DEF TypeInv, RunsOK, Asleep
<1>1. RunStep(n) =>
        /\ UNCHANGED <<handler, stored, current, awaiting, ended, answered, query, crossed>>
        /\ \A m \in Runs \ {n} : run'[m] = run[m]
  BY <1>0 DEF RunStep, TryNotify, Unschedule, ReadMeterValues, SaveTotalKwh, SaveTotalCost,
     stationVars
<1>2. TryNotify(n) => /\ row' = row
                      /\ run'[n].pc = IF row # None /\ row.isActive THEN "active" ELSE "inactive"
  BY <1>0 DEF TryNotify, RunType
<1>3. Unschedule(n) => row' = row /\ run'[n].pc = "idle"
  BY <1>0 DEF Unschedule
<1>4. ReadMeterValues(n) => row' = row /\ run'[n].pc = "kwh" /\ run'[n].kwh = Kwh(stored)
  BY <1>0 DEF ReadMeterValues
<1>5. SaveTotalKwh(n) => /\ row' = [row EXCEPT !.totalKwh = run[n].kwh]
                         /\ run'[n].pc = "cost" /\ run'[n].kwh = run[n].kwh
  BY <1>0 DEF SaveTotalKwh, RunType
<1>6. SaveTotalCost(n) => /\ row' = [row EXCEPT !.totalCost = run[n].kwh]
                          /\ run'[n].pc = "idle"
  BY <1>0 DEF SaveTotalCost
<1> QED BY <1>1, <1>2, <1>3, <1>4, <1>5, <1>6

--------------------------------------------------------------------------------
(* An answered event is stored. *)

LEMMA AnsweredStep == TypeInv /\ AnsweredInv /\ [Next]_vars => AnsweredInv'
<1> SUFFICES ASSUME TypeInv, AnsweredInv, [Next]_vars PROVE AnsweredInv'
  OBVIOUS
<1>0. stored \subseteq stored'
  BY StoredStep
<1>1. ASSUME handler' = handler, answered' = answered PROVE AnsweredInv'
  BY <1>0, <1>1 DEF AnsweredInv
<1>2. ASSUME NEW h \in Handlers, handler'[h].pc \notin Written, answered' = answered,
             \A g \in Handlers \ {h} : handler'[g] = handler[g]
      PROVE  AnsweredInv'
  BY <1>0, <1>2 DEF AnsweredInv, Written
<1>3. ASSUME NEW h \in Handlers,
             SendEvent(h) \/ ReadTransaction(h) \/ StoreEvent(h) \/ CommitFails(h) \/ Schedule(h)
      PROVE  AnsweredInv'
  <2>1. answered' = answered
    BY <1>3 DEF SendEvent, ReadTransaction, StoreEvent, CommitFails, Schedule, stationVars
  <2>2. handler'[h].pc \notin Written
    BY <1>3, HandlerEffect DEF Written
  <2>3. \A g \in Handlers \ {h} : handler'[g] = handler[g]
    BY <1>3, HandlerEffect DEF HandlerStep
  <2> QED BY <1>2, <2>1, <2>2, <2>3
<1>4. ASSUME NEW h \in Handlers, Commit(h) \/ StoreCost(h) PROVE AnsweredInv'
  <2>1. /\ \A g \in Handlers \ {h} : handler'[g] = handler[g]
        /\ handler'[h].event = handler[h].event
        /\ handler'[h].pc = "cost" => handler[h].event = Last
    BY <1>4, HandlerEffect DEF HandlerStep
  <2>2. answered' = answered
    BY <1>4 DEF Commit, StoreCost, stationVars
  <2>3. handler[h].event \in stored'
    BY <1>0, <1>4 DEF Commit, StoreCost, AnsweredInv, Written
  <2> QED BY <1>0, <2>1, <2>2, <2>3 DEF AnsweredInv
<1>5. ASSUME NEW h \in Handlers, Answer(h) PROVE AnsweredInv'
  <2>1. /\ \A g \in Handlers \ {h} : handler'[g] = handler[g]
        /\ handler'[h].pc \in {"idle", "schedule"}
        /\ handler'[h].pc = "schedule" => handler'[h].event = handler[h].event
    BY <1>5, HandlerEffect DEF HandlerStep
  <2>2. handler[h].event \in stored
    BY <1>5 DEF Answer, AnsweredInv, Written
  <2>3. answered' \subseteq answered \cup {handler[h].event}
    BY <1>5 DEF Answer
  <2> QED BY <1>0, <2>1, <2>2, <2>3 DEF AnsweredInv, Written
<1>6. ASSUME NEW n \in Runs, RunStep(n) PROVE AnsweredInv'
  BY <1>1, <1>6, RunEffect
<1>7. CASE GiveUp \/ AnswerStatus \/ HandleGetTransactionStatus \/ UNCHANGED vars
  BY <1>1, <1>7 DEF GiveUp, AnswerStatus, HandleGetTransactionStatus, vars, stationVars
<1> QED BY <1>3, <1>4, <1>5, <1>6, <1>7, Zenon DEF Next, HandlerStep

LEMMA AnsweredInvariant == Spec => []AnsweredInv
<1>1. Init => AnsweredInv
  BY DEF Init, AnsweredInv, Idle, Written
<1> QED BY <1>1, AnsweredStep, TypeInvariant, PTL DEF Spec

(* No event that the station has been told is stored can be missing. *)
THEOREM AnswersKept == Spec => []AnsweredIsStored
<1>1. AnsweredInv => AnsweredIsStored
  BY DEF AnsweredInv, AnsweredIsStored
<1> QED BY <1>1, AnsweredInvariant, PTL

--------------------------------------------------------------------------------
(* Every cost and every energy is a difference of two stored readings. *)

LEMMA CostStep == TypeInv /\ AnsweredInv /\ CostInv /\ [Next]_vars => CostInv'
<1> SUFFICES ASSUME TypeInv, AnsweredInv, CostInv, [Next]_vars PROVE CostInv'
  OBVIOUS
<1> DEFINE RowReal(r, S) == r # None => r.totalCost \in Differences(S)
                                        /\ r.totalKwh \in Differences(S)
           Holds(r, S) == r.pc \in {"stored", "cost"} => r.kwh \in Differences(S \cup {r.event})
           Carries(r, S) == r.pc \in {"kwh", "cost"} => r.kwh \in Differences(S)
<1>0. /\ RowReal(row, stored)
      /\ \A h \in Handlers : Holds(handler[h], stored)
      /\ \A n \in Runs : Carries(run[n], stored)
  BY DEF CostInv, CostIsReal
<1>1. ASSUME RowReal(row', stored'), \A h \in Handlers : Holds(handler'[h], stored'),
             \A n \in Runs : Carries(run'[n], stored')
      PROVE  CostInv'
  BY <1>1 DEF CostInv, CostIsReal, Differences
<1>2. stored \subseteq stored' /\ stored \in SUBSET Events /\ stored' \in SUBSET Events
  BY StoredStep DEF TypeInv, StoredOK
<1>3. /\ Differences(stored) \subseteq Differences(stored')
      /\ \A e : Differences(stored \cup {e}) \subseteq Differences(stored' \cup {e})
  BY <1>2 DEF Differences
<1>4. /\ RowReal(row, stored')
      /\ \A h \in Handlers : Holds(handler[h], stored')
      /\ \A n \in Runs : Carries(run[n], stored')
  BY <1>0, <1>3
<1> HIDE DEF RowReal, Holds, Carries
<1>5. ASSUME NEW h \in Handlers, run' = run, Holds(handler'[h], stored'),
             \A g \in Handlers \ {h} : handler'[g] = handler[g], RowReal(row', stored')
      PROVE  CostInv'
  BY <1>1, <1>4, <1>5
<1>6. ASSUME NEW n \in Runs, handler' = handler, Carries(run'[n], stored'),
             \A m \in Runs \ {n} : run'[m] = run[m], RowReal(row', stored')
      PROVE  CostInv'
  BY <1>1, <1>4, <1>6
<1>7. ASSUME NEW h \in Handlers,
             \/ SendEvent(h) \/ ReadTransaction(h) \/ CommitFails(h) \/ Answer(h) \/ Schedule(h)
      PROVE  CostInv'
  <2>1. handler'[h].pc \notin {"stored", "cost"}
        /\ run' = run /\ \A g \in Handlers \ {h} : handler'[g] = handler[g]
    BY <1>7, HandlerEffect DEF HandlerStep
  <2>2. row' = row
    BY <1>7 DEF SendEvent, ReadTransaction, CommitFails, Answer, Schedule
  <2>3. Holds(handler'[h], stored')
    BY <2>1 DEF Holds
  <2> QED BY <1>4, <1>5, <2>1, <2>2, <2>3
<1>8. ASSUME NEW h \in Handlers, StoreEvent(h) PROVE CostInv'
  <2>1. /\ handler'[h].event = handler[h].event
        /\ handler'[h].kwh = Kwh(stored \cup {handler[h].event})
        /\ run' = run /\ \A g \in Handlers \ {h} : handler'[g] = handler[g]
    BY <1>8, HandlerEffect DEF HandlerStep
  <2>2. row' = row /\ stored' = stored
    BY <1>8 DEF StoreEvent
  <2>3. stored \cup {handler[h].event} \in SUBSET Events
    BY <1>2 DEF TypeInv, HandlersOK, HandlerType
  <2>4. Kwh(stored \cup {handler[h].event}) \in Differences(stored \cup {handler[h].event})
    BY <2>3, KwhReal
  <2>5. Holds(handler'[h], stored')
    BY <2>1, <2>2, <2>4 DEF Holds
  <2> QED BY <1>4, <1>5, <2>1, <2>2, <2>5
<1>9. ASSUME NEW h \in Handlers, Commit(h) PROVE CostInv'
  <2>1. /\ handler'[h].event = handler[h].event
        /\ handler'[h].kwh = handler[h].kwh
        /\ run' = run /\ \A g \in Handlers \ {h} : handler'[g] = handler[g]
    BY <1>9, HandlerEffect DEF HandlerStep
  <2>2. stored' = stored \cup {handler[h].event}
    BY <1>9 DEF Commit
  <2>3. handler[h].kwh \in Differences(stored')
    BY <1>0, <1>9, <2>2 DEF Commit, Holds
  <2>4. stored' \cup {handler[h].event} = stored'
    BY <2>2
  <2>5. Holds(handler'[h], stored')
    BY <2>1, <2>3, <2>4 DEF Holds
  <2>6. CASE handler[h].snapshot = None
    <3>1. row' = NewRow(handler[h])
      BY <1>9, <2>6 DEF Commit
    <3>2. row'.totalKwh = handler[h].kwh /\ row'.totalCost = 0
      BY <3>1 DEF NewRow
    <3>3. 0 \in Differences(stored')
      BY <1>2, <2>2, ZeroDifference
    <3> QED BY <1>5, <2>1, <2>3, <2>5, <3>2, <3>3 DEF RowReal
  <2>7. CASE handler[h].snapshot # None
    <3>1. row # None /\ row \in RowType
      BY <1>9, <2>7 DEF Commit, TypeInv, RowSeen, RowOK
    <3>2. row' = UpdatedRow(handler[h])
      BY <1>9, <2>7 DEF Commit
    <3>3. row'.totalKwh = handler[h].kwh /\ row'.totalCost = row.totalCost
      BY <3>1, <3>2 DEF UpdatedRow, RowType
    <3> QED BY <1>4, <1>5, <2>1, <2>3, <2>5, <3>1, <3>3 DEF RowReal
  <2> QED BY <2>6, <2>7
<1>10. ASSUME NEW h \in Handlers, StoreCost(h) PROVE CostInv'
  <2>1. /\ handler'[h].pc = "answer"
        /\ run' = run /\ \A g \in Handlers \ {h} : handler'[g] = handler[g]
    BY <1>10, HandlerEffect DEF HandlerStep
  <2>2. Holds(handler'[h], stored')
    BY <2>1 DEF Holds
  <2>3. handler[h].event \in stored /\ stored' = stored
    BY <1>10 DEF StoreCost, AnsweredInv, Written
  <2>4. stored \cup {handler[h].event} = stored
    BY <2>3
  <2>5. handler[h].kwh \in Differences(stored')
    BY <1>0, <1>10, <2>3, <2>4 DEF StoreCost, Holds
  <2>6. row # None /\ row \in RowType
    BY <1>10 DEF StoreCost, TypeInv, RowSeen, RowOK
  <2>7. \/ row' = row
        \/ row'.totalCost = handler[h].kwh /\ row'.totalKwh = row.totalKwh
    BY <1>10, <2>6 DEF StoreCost, RowType
  <2>8. RowReal(row', stored')
    BY <1>4, <2>5, <2>6, <2>7 DEF RowReal
  <2> QED BY <1>5, <2>1, <2>2, <2>8
<1>11. ASSUME NEW n \in Runs, RunStep(n) PROVE CostInv'
  <2>1. handler' = handler /\ stored' = stored /\ \A m \in Runs \ {n} : run'[m] = run[m]
    BY <1>11, RunEffect
  <2>2. CASE TryNotify(n) \/ Unschedule(n)
    <3>1. row' = row /\ run'[n].pc \notin {"kwh", "cost"}
      BY <2>2, RunEffect
    <3>2. Carries(run'[n], stored')
      BY <3>1 DEF Carries
    <3> QED BY <1>4, <1>6, <2>1, <3>1, <3>2
  <2>3. CASE ReadMeterValues(n)
    <3>1. row' = row /\ run'[n].kwh = Kwh(stored)
      BY <2>3, RunEffect
    <3>2. stored # {}
      BY <2>3 DEF ReadMeterValues, TypeInv, RowSeen, StoredOK
    <3>3. Kwh(stored) \in Differences(stored)
      BY <1>2, <3>2, KwhReal
    <3>4. Carries(run'[n], stored')
      BY <2>1, <3>1, <3>3 DEF Carries
    <3> QED BY <1>4, <1>6, <2>1, <3>1, <3>4
  <2>4. CASE SaveTotalKwh(n) \/ SaveTotalCost(n)
    <3>1. row # None /\ row \in RowType /\ run[n].pc \in {"kwh", "cost"}
      BY <2>4 DEF SaveTotalKwh, SaveTotalCost, TypeInv, RowSeen, RowOK
    <3>2. run[n].kwh \in Differences(stored')
      BY <1>4, <3>1 DEF Carries
    <3>3. \/ row' = [row EXCEPT !.totalKwh = run[n].kwh]
          \/ row' = [row EXCEPT !.totalCost = run[n].kwh]
      BY <2>4, RunEffect
    <3>4. {row'.totalKwh, row'.totalCost} \subseteq {row.totalKwh, row.totalCost, run[n].kwh}
      BY <3>1, <3>3 DEF RowType
    <3>5. RowReal(row', stored')
      BY <1>4, <3>1, <3>2, <3>4 DEF RowReal
    <3>6. run'[n].pc \in {"kwh", "cost"} => run'[n].kwh = run[n].kwh
      BY <2>4, RunEffect
    <3>7. Carries(run'[n], stored')
      BY <3>2, <3>6 DEF Carries
    <3> QED BY <1>6, <2>1, <3>5, <3>7
  <2> QED BY <1>11, <2>2, <2>3, <2>4 DEF RunStep
<1>12. CASE HandleGetTransactionStatus
  <2>1. handler' = handler /\ run' = run
    BY <1>12 DEF HandleGetTransactionStatus
  <2>2. CASE row = None
    BY <1>1, <1>4, <1>12, <2>1, <2>2 DEF HandleGetTransactionStatus
  <2>3. CASE row # None
    <3>1. row \in RowType
      BY <2>3 DEF TypeInv, RowOK
    <3>2. row' = [row EXCEPT !.isActive = query]
      BY <1>12, <2>3 DEF HandleGetTransactionStatus
    <3>3. row'.totalKwh = row.totalKwh /\ row'.totalCost = row.totalCost
      BY <3>1, <3>2 DEF RowType
    <3>4. RowReal(row', stored')
      BY <1>4, <2>3, <3>3 DEF RowReal
    <3> QED BY <1>1, <1>4, <2>1, <3>4
  <2> QED BY <2>2, <2>3
<1>13. CASE GiveUp \/ AnswerStatus \/ UNCHANGED vars
  <2>1. handler' = handler /\ run' = run /\ row' = row
    BY <1>13 DEF GiveUp, AnswerStatus, vars
  <2> QED BY <1>1, <1>4, <2>1
<1> QED BY <1>7, <1>8, <1>9, <1>10, <1>11, <1>12, <1>13, Zenon DEF Next, HandlerStep

LEMMA CostInvariant == Spec => []CostInv
<1>1. Init => CostInv
  BY DEF Init, CostInv, CostIsReal, Idle, Asleep
<1> QED BY <1>1, CostStep, TypeInvariant, AnsweredInvariant, PTL DEF Spec

(* No race between handlers and cost runs makes up a cost: it is always that of
   two readings that are stored. *)
THEOREM RealCost == Spec => []CostIsReal
<1>1. CostInv => CostIsReal
  BY DEF CostInv
<1> QED BY <1>1, CostInvariant, PTL

--------------------------------------------------------------------------------
(* The end of the transaction. *)

LEMMA SentStep == TypeInv /\ SentInv /\ [Next]_vars => SentInv'
<1> SUFFICES ASSUME TypeInv, SentInv, [Next]_vars PROVE SentInv'
  OBVIOUS
<1> DEFINE Sent(r, e) == r.pc # "idle" /\ r.event = Last => e
<1>0. /\ \A h \in Handlers : Sent(handler[h], ended)
      /\ ended => current \in {Last, Last + 1}
      /\ awaiting # None => current \in Events
      /\ Last \in Int /\ current \in Int
  BY LastAssumption DEF SentInv, TypeInv, StationOK, Events
<1> USE DEF SentInv
<1>1. ASSUME NEW h \in Handlers, SendEvent(h) PROVE SentInv'
  <2>1. /\ ended' = (ended \/ current = Last) /\ current' = current /\ stored' = stored
        /\ handler'[h].event = current
        /\ \A g \in Handlers \ {h} : handler'[g] = handler[g]
    BY <1>1, HandlerEffect DEF SendEvent
  <2> QED BY <1>0, <2>1
<1>2. ASSUME NEW h \in Handlers, ReadTransaction(h) \/ StoreEvent(h) \/ Commit(h) \/ StoreCost(h)
      PROVE  SentInv'
  <2>1. /\ UNCHANGED <<ended, current, awaiting>>
        /\ stored' \subseteq stored \cup {handler[h].event}
        /\ handler[h].pc # "idle"
    BY <1>2 DEF ReadTransaction, StoreEvent, Commit, StoreCost, stationVars
  <2>2. /\ handler'[h].event = handler[h].event
        /\ \A g \in Handlers \ {h} : handler'[g] = handler[g]
    BY <1>2, HandlerEffect DEF HandlerStep
  <2> QED BY <1>0, <2>1, <2>2
<1>3. ASSUME NEW h \in Handlers, Answer(h) PROVE SentInv'
  <2>1. /\ ended' = ended /\ stored' = stored
        /\ \/ awaiting # None /\ current' = current + 1 /\ awaiting' = None
           \/ UNCHANGED <<current, awaiting>>
        /\ handler[h].pc # "idle"
    BY <1>3, NoneAssumption DEF Answer
  <2>2. /\ handler'[h].pc # "idle" => handler'[h].event = handler[h].event
        /\ \A g \in Handlers \ {h} : handler'[g] = handler[g]
    BY <1>3, HandlerEffect DEF HandlerStep
  <2> QED BY <1>0, <2>1, <2>2 DEF Events
<1>4. ASSUME NEW h \in Handlers, CommitFails(h) \/ Schedule(h) PROVE SentInv'
  <2>1. /\ ended' = ended /\ stored' = stored /\ current' = current
        /\ awaiting' = None \/ awaiting' = awaiting
    BY <1>4 DEF CommitFails, Schedule, stationVars
  <2>2. /\ handler'[h].pc = "idle"
        /\ \A g \in Handlers \ {h} : handler'[g] = handler[g]
    BY <1>4, HandlerEffect DEF HandlerStep
  <2> QED BY <1>0, <2>1, <2>2
<1>5. CASE GiveUp
  BY <1>0, <1>5 DEF GiveUp, Events
<1>6. ASSUME UNCHANGED <<handler, stored, ended, current, awaiting>> PROVE SentInv'
  BY <1>6
<1>7. ASSUME NEW n \in Runs, RunStep(n) PROVE SentInv'
  BY <1>6, <1>7, RunEffect
<1>8. CASE AnswerStatus \/ HandleGetTransactionStatus \/ UNCHANGED vars
  BY <1>6, <1>8 DEF AnswerStatus, HandleGetTransactionStatus, vars, stationVars
<1> QED BY <1>1, <1>2, <1>3, <1>4, <1>5, <1>7, <1>8, Zenon DEF Next, HandlerStep

(* Once Ended has been sent and nothing older is under way, nothing older
   appears again. *)
LEMMA NoOlderStays == TypeInv /\ SentInv /\ ended /\ NoOlder /\ [Next]_vars => NoOlder'
<1> SUFFICES ASSUME TypeInv, SentInv, ended, NoOlder, [Next]_vars PROVE NoOlder'
  OBVIOUS
<1> USE DEF NoOlder
<1>1. ASSUME NEW h \in Handlers, SendEvent(h) PROVE NoOlder'
  <2>1. current = Last /\ query' = query
    BY <1>1, LastAssumption DEF SendEvent, SentInv, Events
  <2>2. /\ handler'[h].event = Last
        /\ \A g \in Handlers \ {h} : handler'[g] = handler[g]
    BY <1>1, <2>1, HandlerEffect
  <2> QED BY <2>1, <2>2
<1>2. ASSUME NEW h \in Handlers,
             \/ ReadTransaction(h) \/ StoreEvent(h) \/ Commit(h) \/ StoreCost(h) \/ CommitFails(h)
             \/ Schedule(h) \/ Answer(h)
      PROVE  NoOlder'
  <2>1. query' = query
    BY <1>2 DEF ReadTransaction, StoreEvent, Commit, StoreCost, CommitFails, Schedule, Answer
  <2>2. /\ \A g \in Handlers \ {h} : handler'[g] = handler[g]
        /\ \/ handler'[h].event = handler[h].event /\ handler[h].pc \in {"received", "read"}
           \/ handler'[h].pc \notin {"received", "read", "stored"}
    BY <1>2, HandlerEffect DEF HandlerStep, ReadTransaction, StoreEvent
  <2> QED BY <2>1, <2>2
<1>3. ASSUME NEW n \in Runs, RunStep(n) PROVE NoOlder'
  BY <1>3, RunEffect
<1>4. CASE AnswerStatus
  <2>1. handler' = handler /\ query' = ~ended
    BY <1>4 DEF AnswerStatus
  <2> QED BY <2>1
<1>5. CASE GiveUp \/ HandleGetTransactionStatus \/ UNCHANGED vars
  <2>1. handler' = handler
    BY <1>5 DEF GiveUp, HandleGetTransactionStatus, vars
  <2>2. query' = query \/ query' = None
    BY <1>5 DEF GiveUp, HandleGetTransactionStatus, vars
  <2>3. None # TRUE
    BY NoneAssumption
  <2> QED BY <2>1, <2>2, <2>3
<1> QED BY <1>1, <1>2, <1>3, <1>4, <1>5, Zenon DEF Next, HandlerStep

(* While nothing older is under way no step makes the row active again, and
   the only event that can still be stored is Ended. *)
LEMMA QuietStep ==
  TypeInv /\ NoOlder /\ [Next]_vars =>
    /\ stored' \cup {Last} = stored \cup {Last}
    /\ row # None /\ row.isActive = FALSE => row' # None /\ row'.isActive = FALSE
<1> SUFFICES ASSUME TypeInv, NoOlder, [Next]_vars
             PROVE  /\ stored' \cup {Last} = stored \cup {Last}
                    /\ row # None /\ row.isActive = FALSE => row' # None /\ row'.isActive = FALSE
  OBVIOUS
<1> DEFINE Goal == /\ stored' \cup {Last} = stored \cup {Last}
                   /\ row # None /\ row.isActive = FALSE => row' # None /\ row'.isActive = FALSE
<1>0. (row # None => row' # None) /\ (row # None => row \in RowType)
  BY RowStep DEF TypeInv, RowOK
<1>1. ASSUME NEW h \in Handlers, Commit(h) PROVE Goal
  <2>1. handler[h].event = Last /\ stored' = stored \cup {handler[h].event}
    BY <1>1 DEF Commit, NoOlder
  <2>2. CASE row = None
    BY <2>1, <2>2
  <2>3. CASE row # None
    <3>1. row' = UpdatedRow(handler[h])
      BY <1>1, <2>3 DEF Commit
    <3>2. row'.isActive = IF ChangesActive(handler[h]) THEN Active(handler[h].event)
                          ELSE row.isActive
      BY <1>0, <2>3, <3>1 DEF UpdatedRow, RowType
    <3>3. Active(handler[h].event) = FALSE
      BY <2>1 DEF Active
    <3> QED BY <1>0, <2>1, <2>3, <3>2, <3>3
  <2> QED BY <2>2, <2>3
<1>2. ASSUME NEW h \in Handlers, StoreCost(h) PROVE Goal
  <2>1. stored' = stored
    BY <1>2 DEF StoreCost
  <2>2. row # None => row'.isActive = row.isActive
    BY <1>0, <1>2 DEF StoreCost, RowType
  <2> QED BY <1>0, <2>1, <2>2
<1>3. ASSUME row' = row, stored' = stored PROVE Goal
  BY <1>3
<1>4. ASSUME NEW n \in Runs, RunStep(n) PROVE Goal
  <2>1. stored' = stored
    BY <1>4, RunEffect
  <2>2. CASE SaveTotalKwh(n) \/ SaveTotalCost(n)
    <3>1. row # None => row'.isActive = row.isActive
      BY <1>0, <2>2 DEF SaveTotalKwh, SaveTotalCost, RowType
    <3> QED BY <1>0, <2>1, <3>1
  <2>3. CASE TryNotify(n) \/ Unschedule(n) \/ ReadMeterValues(n)
    <3>1. row' = row
      BY <2>3, RunEffect
    <3> QED BY <1>3, <2>1, <3>1
  <2> QED BY <1>4, <2>2, <2>3 DEF RunStep
<1>5. CASE HandleGetTransactionStatus
  <2>1. stored' = stored /\ query = FALSE
    BY <1>5 DEF HandleGetTransactionStatus, NoOlder, TypeInv, QueryOK
  <2>2. row # None => row'.isActive = FALSE
    BY <1>0, <1>5, <2>1 DEF HandleGetTransactionStatus, RowType
  <2> QED BY <1>0, <2>1, <2>2
<1>6. ASSUME NEW h \in Handlers,
             \/ SendEvent(h) \/ ReadTransaction(h) \/ StoreEvent(h) \/ CommitFails(h)
             \/ Answer(h) \/ Schedule(h)
      PROVE  Goal
  BY <1>3, <1>6 DEF SendEvent, ReadTransaction, StoreEvent, CommitFails, Answer, Schedule
<1>7. CASE GiveUp \/ AnswerStatus \/ UNCHANGED vars
  BY <1>3, <1>7 DEF GiveUp, AnswerStatus, vars
<1> QED BY <1>1, <1>2, <1>4, <1>5, <1>6, <1>7, Zenon DEF Next, HandlerStep

LEMMA CrossedStep == TypeInv /\ [Next]_vars => (crossed => crossed')
BY Zenon DEF TypeInv, BooleansOK, Next, HandlerStep, RunStep, SendEvent, ReadTransaction, StoreEvent,
   Commit, CommitFails, StoreCost, Answer, Schedule, TryNotify, Unschedule, ReadMeterValues,
   SaveTotalKwh, SaveTotalCost, GiveUp, AnswerStatus, HandleGetTransactionStatus, vars

EndInv == TypeInv /\ AnsweredInv /\ CostInv /\ SentInv /\ Settling /\ Settled

LEMMA SettlingStep == EndInv /\ [Next]_vars => Settling'
<1> SUFFICES ASSUME EndInv, [Next]_vars, NEW h \in Handlers,
                    handler'[h].event = Last, handler'[h].pc \in {"read", "stored"}, ~crossed'
             PROVE  /\ NoOlder'
                    /\ handler'[h].snapshot = FALSE => row' # None /\ row'.isActive = FALSE
                    /\ handler'[h].pc = "stored" => handler'[h].kwh = Kwh(stored' \cup {Last})
  BY DEF Settling
<1>0. ~crossed /\ TypeInv /\ SentInv
  BY CrossedStep DEF EndInv
<1>1. ASSUME handler'[h] = handler[h]
      PROVE  /\ NoOlder'
             /\ handler'[h].snapshot = FALSE => row' # None /\ row'.isActive = FALSE
             /\ handler'[h].pc = "stored" => handler'[h].kwh = Kwh(stored' \cup {Last})
  <2>1. /\ NoOlder /\ ended
        /\ handler[h].snapshot = FALSE => row # None /\ row.isActive = FALSE
        /\ handler[h].pc = "stored" => handler[h].kwh = Kwh(stored \cup {Last})
    BY <1>0, <1>1 DEF EndInv, Settling, SentInv
  <2> QED BY <1>0, <1>1, <2>1, NoOlderStays, QuietStep
<1>2. CASE ReadTransaction(h)
  <2>1. /\ handler'[h].event = handler[h].event /\ handler'[h].pc = "read"
        /\ handler'[h].snapshot = IF row = None THEN None ELSE row.isActive
    BY <1>0, <1>2, HandlerEffect
  <2>2. row' = row /\ ~Crossing(h) /\ ended /\ handler[h].event = Last
    BY <1>0, <1>2, <2>1 DEF ReadTransaction, SentInv
  <2>3. NoOlder
    <3>1. CASE Last \in stored
      BY <1>0, <3>1 DEF EndInv, Settled
    <3>2. CASE Last \notin stored
      BY <2>2, <3>2 DEF Crossing, NoOlder
    <3> QED BY <3>1, <3>2
  <2>4. NoOlder'
    BY <1>0, <2>2, <2>3, NoOlderStays
  <2>5. None # FALSE
    BY NoneAssumption
  <2> QED BY <2>1, <2>2, <2>4, <2>5
<1>3. CASE StoreEvent(h)
  <2>1. /\ handler'[h].event = handler[h].event /\ handler'[h].pc = "stored"
        /\ handler'[h].snapshot = handler[h].snapshot
        /\ handler'[h].kwh = Kwh(stored \cup {handler[h].event})
    BY <1>0, <1>3, HandlerEffect
  <2>2. row' = row /\ stored' = stored /\ handler[h].pc = "read" /\ handler[h].event = Last
    BY <1>3, <2>1 DEF StoreEvent
  <2>3. /\ NoOlder /\ ended
        /\ handler[h].snapshot = FALSE => row # None /\ row.isActive = FALSE
    BY <1>0, <2>2 DEF EndInv, Settling, SentInv
  <2>4. NoOlder'
    BY <1>0, <2>3, NoOlderStays
  <2> QED BY <2>1, <2>2, <2>3, <2>4
<1>4. CASE SendEvent(h) \/ Commit(h) \/ CommitFails(h) \/ StoreCost(h) \/ Answer(h) \/ Schedule(h)
  <2>1. handler'[h].pc \notin {"read", "stored"}
    BY <1>0, <1>4, HandlerEffect
  <2> QED BY <2>1
<1>5. ASSUME NEW g \in Handlers \ {h}, SendEvent(g) \/ HandlerStep(g) PROVE handler'[h] = handler[h]
  BY <1>0, <1>5, HandlerEffect
<1>6. ASSUME NEW n \in Runs, RunStep(n) PROVE handler'[h] = handler[h]
  BY <1>0, <1>6, RunEffect
<1>7. ASSUME GiveUp \/ AnswerStatus \/ HandleGetTransactionStatus \/ UNCHANGED vars
      PROVE  handler'[h] = handler[h]
  BY <1>7 DEF GiveUp, AnswerStatus, HandleGetTransactionStatus, vars
<1>8. \/ handler'[h] = handler[h]
      \/ SendEvent(h) \/ HandlerStep(h)
  BY <1>5, <1>6, <1>7, Zenon DEF Next
<1>9. CASE HandlerStep(h)
  BY <1>2, <1>3, <1>4, <1>9 DEF HandlerStep
<1> QED BY <1>1, <1>4, <1>8, <1>9

(* The commit of the first Ended event settles the row. *)
LEMMA CommitSettles ==
  ASSUME EndInv, NEW h \in Handlers, Commit(h), Last \notin stored, handler[h].event = Last,
         ~crossed', [Next]_vars
  PROVE  Settled'
<1>0. ~crossed /\ TypeInv /\ SentInv /\ AnsweredInv /\ handler[h].pc = "stored" /\ ~Crossing(h)
  BY CrossedStep DEF EndInv, Commit
<1>1. /\ handler'[h].pc = "cost" /\ handler'[h].event = Last /\ handler'[h].kwh = handler[h].kwh
      /\ run' = run /\ \A g \in Handlers \ {h} : handler'[g] = handler[g]
  BY <1>0, HandlerEffect DEF HandlerStep
<1>2. /\ NoOlder /\ ended
      /\ handler[h].snapshot = FALSE => row.isActive = FALSE
      /\ handler[h].kwh = Kwh(stored \cup {Last})
  BY <1>0 DEF EndInv, Settling, SentInv
<1>3. NoOlder'
  BY <1>0, <1>2, NoOlderStays
<1>4. \A n \in Runs : run'[n].pc \in {"idle", "inactive"}
  <2>1. \A n \in Runs : run[n].pc \in RunStates
    BY <1>0 DEF TypeInv, RunsOK, RunType
  <2> QED BY <1>0, <1>1, <2>1 DEF Crossing, RunStates
<1>5. stored' = stored \cup {Last} /\ answered' = answered
  BY DEF Commit, stationVars
<1>6. row'.isActive = FALSE /\ row'.totalKwh = handler[h].kwh
  <2>1. CASE handler[h].snapshot = None
    <3>1. row' = NewRow(handler[h])
      BY <2>1 DEF Commit
    <3> QED BY <3>1 DEF NewRow, Active
  <2>2. CASE handler[h].snapshot # None
    <3>1. row' = UpdatedRow(handler[h])
      BY <2>2 DEF Commit
    <3>2. row \in RowType /\ handler[h].snapshot \in BOOLEAN
      BY <1>0, <2>2 DEF TypeInv, RowSeen, RowOK, HandlersOK, HandlerType
    <3>3. /\ row'.isActive = IF ChangesActive(handler[h]) THEN Active(handler[h].event)
                             ELSE row.isActive
          /\ row'.totalKwh = handler[h].kwh
      BY <3>1, <3>2 DEF UpdatedRow, RowType
    <3>4. Active(handler[h].event) = FALSE
      BY DEF Active
    <3>5. ChangesActive(handler[h]) \/ row.isActive = FALSE
      BY <1>2, <3>2, <3>4 DEF ChangesActive
    <3> QED BY <3>3, <3>4, <3>5
  <2> QED BY <2>1, <2>2
<1>7. \A g \in Handlers \ {h} : handler[g].event = Last => handler[g].pc \notin {"cost", "answer"}
  BY <1>0 DEF AnsweredInv, Written
<1>8. Last \notin answered'
  BY <1>0, <1>5 DEF AnsweredInv
<1> QED BY <1>1, <1>2, <1>3, <1>4, <1>5, <1>6, <1>7, <1>8 DEF Settled

(* No step unsettles it. *)
LEMMA SettledStays ==
  ASSUME EndInv, Last \in stored, ~crossed', [Next]_vars
  PROVE  Settled'
<1>0. ~crossed /\ TypeInv /\ SentInv /\ AnsweredInv /\ ended
  BY CrossedStep DEF EndInv, SentInv
<1>1. /\ NoOlder
      /\ \A n \in Runs : run[n].pc \in {"idle", "inactive"}
      /\ row.isActive = FALSE /\ row.totalKwh = Kwh(stored)
      /\ \A h \in Handlers : handler[h].event = Last =>
           /\ handler[h].pc = "cost" => handler[h].kwh = Kwh(stored)
           /\ handler[h].pc = "answer" => row.totalCost = Kwh(stored)
      /\ Last \in answered => row.totalCost = Kwh(stored)
      /\ stored \cup {Last} = stored
  BY <1>0 DEF EndInv, Settled
<1>2. row # None /\ row \in RowType
  BY <1>0 DEF TypeInv, StoredOK, RowOK
<1>3. NoOlder' /\ stored' \cup {Last} = stored /\ row'.isActive = FALSE
  BY <1>0, <1>1, <1>2, NoOlderStays, QuietStep
<1>4. stored' = stored
  BY <1>0, <1>1, <1>3, StoredStep
<1>5. ASSUME NEW h \in Handlers, run' = run, row'.totalKwh = Kwh(stored),
             \A g \in Handlers \ {h} : handler'[g] = handler[g],
             row'.totalCost = row.totalCost \/ row'.totalCost = Kwh(stored),
             answered' = answered \/ row'.totalCost = Kwh(stored) \/ Last \notin answered',
             handler'[h].event = Last =>
               /\ handler'[h].pc = "cost" => handler'[h].kwh = Kwh(stored)
               /\ handler'[h].pc = "answer" => row'.totalCost = Kwh(stored)
      PROVE  Settled'
  BY <1>1, <1>3, <1>4, <1>5 DEF Settled
<1>6. ASSUME NEW h \in Handlers,
             SendEvent(h) \/ ReadTransaction(h) \/ StoreEvent(h) \/ CommitFails(h) \/ Schedule(h)
      PROVE  Settled'
  <2>1. row' = row /\ answered' = answered
    BY <1>6 DEF SendEvent, ReadTransaction, StoreEvent, CommitFails, Schedule, stationVars
  <2>2. /\ handler'[h].pc \notin {"cost", "answer"}
        /\ run' = run /\ \A g \in Handlers \ {h} : handler'[g] = handler[g]
    BY <1>0, <1>6, HandlerEffect DEF HandlerStep
  <2> QED BY <1>1, <1>5, <2>1, <2>2
<1>7. ASSUME NEW h \in Handlers, Commit(h) PROVE Settled'
  <2>1. /\ handler[h].pc = "stored" /\ handler[h].event = Last
        /\ answered' = answered
    BY <1>1, <1>7 DEF Commit, NoOlder, stationVars
  <2>2. handler[h].kwh = Kwh(stored)
    BY <1>0, <1>1, <2>1 DEF EndInv, Settling
  <2>3. /\ handler'[h].pc = "cost" /\ handler'[h].kwh = handler[h].kwh
        /\ run' = run /\ \A g \in Handlers \ {h} : handler'[g] = handler[g]
    BY <1>0, <1>7, <2>1, HandlerEffect DEF HandlerStep
  <2>4. row' = UpdatedRow(handler[h])
    BY <1>2, <1>7 DEF Commit
  <2>5. row'.totalKwh = handler[h].kwh /\ row'.totalCost = row.totalCost
    BY <1>2, <2>4 DEF UpdatedRow, RowType
  <2> QED BY <1>5, <2>1, <2>2, <2>3, <2>5
<1>8. ASSUME NEW h \in Handlers, StoreCost(h) PROVE Settled'
  <2>1. handler[h].pc = "cost" /\ handler[h].event = Last /\ answered' = answered
    BY <1>0, <1>8 DEF StoreCost, AnsweredInv, stationVars
  <2>2. /\ handler'[h].pc = "answer"
        /\ run' = run /\ \A g \in Handlers \ {h} : handler'[g] = handler[g]
    BY <1>0, <1>8, HandlerEffect DEF HandlerStep
  <2>3. handler[h].kwh = Kwh(stored)
    BY <1>1, <2>1
  <2>4. row'.totalKwh = row.totalKwh
    BY <1>2, <1>8 DEF StoreCost, RowType
  <2>5. row'.totalCost = Kwh(stored)
    <3>1. CASE handler[h].kwh = 0
      <4>1. row.totalCost \in Differences(stored)
        BY <1>2 DEF EndInv, CostInv, CostIsReal
      <4>2. Differences(stored) = {0}
        BY <1>0, <2>3, <3>1, KwhReal DEF TypeInv, StoredOK
      <4> QED BY <1>8, <2>3, <3>1, <4>1, <4>2 DEF StoreCost
    <3>2. CASE handler[h].kwh # 0
      BY <1>2, <1>8, <2>3, <3>2 DEF StoreCost, RowType
    <3> QED BY <3>1, <3>2
  <2> QED BY <1>1, <1>5, <2>1, <2>2, <2>4, <2>5
<1>9. ASSUME NEW h \in Handlers, Answer(h) PROVE Settled'
  <2>1. row' = row /\ handler[h].pc = "answer"
        /\ answered' \subseteq answered \cup {handler[h].event}
    BY <1>9 DEF Answer
  <2>2. /\ handler'[h].pc \notin {"cost", "answer"}
        /\ run' = run /\ \A g \in Handlers \ {h} : handler'[g] = handler[g]
    BY <1>0, <1>9, HandlerEffect DEF HandlerStep
  <2>3. row'.totalCost = Kwh(stored) \/ Last \notin answered'
    BY <1>1, <2>1
  <2> QED BY <1>1, <1>5, <2>1, <2>2, <2>3
<1>10. ASSUME NEW n \in Runs, RunStep(n) PROVE Settled'
  <2>1. /\ handler' = handler /\ answered' = answered
        /\ \A m \in Runs \ {n} : run'[m] = run[m]
    BY <1>0, <1>10, RunEffect
  <2>2. row' = row /\ run'[n].pc \in {"idle", "inactive"}
    <3>1. ~ReadMeterValues(n) /\ ~SaveTotalKwh(n) /\ ~SaveTotalCost(n)
      BY <1>1 DEF ReadMeterValues, SaveTotalKwh, SaveTotalCost
    <3> QED BY <1>0, <1>1, <1>10, <3>1, RunEffect DEF RunStep
  <2> QED BY <1>1, <1>3, <1>4, <2>1, <2>2 DEF Settled
<1>11. CASE HandleGetTransactionStatus
  <2>1. handler' = handler /\ answered' = answered /\ run' = run
    BY <1>11 DEF HandleGetTransactionStatus, stationVars
  <2>2. row'.totalKwh = row.totalKwh /\ row'.totalCost = row.totalCost
    BY <1>2, <1>11 DEF HandleGetTransactionStatus, RowType
  <2> QED BY <1>1, <1>3, <1>4, <2>1, <2>2 DEF Settled
<1>12. CASE GiveUp \/ AnswerStatus \/ UNCHANGED vars
  <2>1. handler' = handler /\ answered' = answered /\ run' = run /\ row' = row
    BY <1>12 DEF GiveUp, AnswerStatus, vars, stationVars
  <2> QED BY <1>1, <1>3, <1>4, <2>1 DEF Settled
<1> QED BY <1>6, <1>7, <1>8, <1>9, <1>10, <1>11, <1>12, Zenon DEF Next, HandlerStep

LEMMA SettledStep == EndInv /\ [Next]_vars => Settled'
<1> SUFFICES ASSUME EndInv, [Next]_vars, Last \in stored', ~crossed' PROVE Settled'
  BY DEF Settled
<1>1. CASE Last \in stored
  BY <1>1, SettledStays
<1>2. CASE Last \notin stored
  <2>1. ASSUME stored' = stored PROVE FALSE
    BY <1>2, <2>1
  <2>2. \E h \in Handlers : Commit(h)
    BY <2>1, Zenon DEF Next, HandlerStep, RunStep, SendEvent, ReadTransaction, StoreEvent,
       CommitFails, StoreCost, Answer, Schedule, TryNotify, Unschedule, ReadMeterValues,
       SaveTotalKwh, SaveTotalCost, GiveUp, AnswerStatus, HandleGetTransactionStatus, vars
  <2>3. PICK h \in Handlers : Commit(h)
    BY <2>2
  <2>4. handler[h].event = Last
    BY <1>2, <2>3 DEF Commit
  <2> QED BY <1>2, <2>3, <2>4, CommitSettles
<1> QED BY <1>1, <1>2

LEMMA EndInvariant == Spec => []EndInv
<1>1. Init => SentInv /\ Settling /\ Settled
  BY LastAssumption, NoneAssumption DEF Init, SentInv, Settling, Settled, Idle
<1>2. SentInv /\ Settling /\ Settled /\ TypeInv /\ AnsweredInv /\ CostInv /\ [Next]_vars
      => (SentInv /\ Settling /\ Settled)'
  BY SentStep, SettlingStep, SettledStep DEF EndInv
<1>3. Spec => [](SentInv /\ Settling /\ Settled)
  BY <1>1, <1>2, TypeInvariant, AnsweredInvariant, CostInvariant, PTL DEF Spec
<1>4. SentInv /\ Settling /\ Settled /\ TypeInv /\ AnsweredInv /\ CostInv => EndInv
  BY DEF EndInv
<1> QED BY <1>3, <1>4, TypeInvariant, AnsweredInvariant, CostInvariant, PTL

(* An Ended event that nothing older crosses is final: status, energy and cost
   of the transaction do not change any more, whatever is sent, asked or timed
   afterwards. *)
THEOREM FinalEnd == Spec => []EndedIsFinal
<1>1. EndInv => EndedIsFinal
  BY DEF EndInv, Settled, EndedIsFinal
<1> QED BY <1>1, EndInvariant, PTL

(* Once it is final no cost run is computing: the interval can start no more,
   and the runs that were under way have ended. *)
CostsQuiet == Last \in stored /\ ~crossed => \A n \in Runs : run[n].pc \in {"idle", "inactive"}

(* The driver gets no more costs of a transaction that is final: what CostsStop
   says, but for the claim that the interval is cleared. *)
THEOREM NoMoreCosts == Spec => []CostsQuiet
<1>1. EndInv => CostsQuiet
  BY DEF EndInv, Settled, CostsQuiet
<1> QED BY <1>1, EndInvariant, PTL

(* Nothing crosses the Ended event after its commit. *)
LEMMA CrossedStays == TypeInv /\ Last \in stored /\ [Next]_vars => crossed' = crossed
BY Zenon DEF TypeInv, BooleansOK, Next, HandlerStep, RunStep, SendEvent, ReadTransaction, StoreEvent,
   Commit, CommitFails, StoreCost, Answer, Schedule, TryNotify, Unschedule, ReadMeterValues,
   SaveTotalKwh, SaveTotalCost, GiveUp, AnswerStatus, HandleGetTransactionStatus, vars, Crossing

(* The events that were answered stay answered. *)
LEMMA AnsweredGrow == [Next]_vars => answered \subseteq answered'
BY Zenon DEF Next, HandlerStep, RunStep, SendEvent, ReadTransaction, StoreEvent,
   Commit, CommitFails, StoreCost, Answer, Schedule, TryNotify, Unschedule, ReadMeterValues,
   SaveTotalKwh, SaveTotalCost, GiveUp, AnswerStatus, HandleGetTransactionStatus, vars, stationVars

(* When the Ended event has been answered, and nothing older crossed it, no step
   changes the row or stores an event: repeated Ended events write what is there
   already, and nothing else writes. *)
THEOREM RowIsFinal ==
  Spec => [][(Last \in answered /\ ~crossed) => UNCHANGED <<row, stored>>]_vars
<1>1. ASSUME EndInv, EndInv', Last \in answered, ~crossed, [Next]_vars
      PROVE  UNCHANGED <<row, stored>>
  <2>1. Last \in stored /\ TypeInv /\ TypeInv'
    BY <1>1 DEF EndInv, AnsweredInv
  <2>2. ~crossed' /\ Last \in answered' /\ stored \subseteq stored'
    BY <1>1, <2>1, CrossedStays, AnsweredGrow, StoredStep
  <2>3. stored' = stored
    BY <1>1, <2>1, <2>2, QuietStep DEF EndInv, Settled
  <2>4. row \in RowType /\ row' \in RowType
    BY <2>1, <2>3 DEF TypeInv, RowOK, StoredOK
  <2>5. /\ row.isActive = FALSE /\ row.totalKwh = Kwh(stored) /\ row.totalCost = Kwh(stored)
        /\ row'.isActive = FALSE /\ row'.totalKwh = Kwh(stored') /\ row'.totalCost = Kwh(stored')
    BY <1>1, <2>1, <2>2, <2>3 DEF EndInv, Settled
  <2>6. row' = row
    BY <2>3, <2>4, <2>5 DEF RowType
  <2> QED BY <2>3, <2>6
<1>2. EndInv /\ EndInv' /\ [Next]_vars =>
        [(Last \in answered /\ ~crossed) => UNCHANGED <<row, stored>>]_vars
  BY <1>1
<1> QED BY <1>2, EndInvariant, PTL DEF Spec
================================================================================
