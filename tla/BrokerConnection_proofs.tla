------------------------ MODULE BrokerConnection_proofs ------------------------
(***************************************************************************)
(* Proofs about BrokerConnection, for any number of concurrent runs of     *)
(* _connectWithRetry.                                                      *)
(***************************************************************************)
EXTENDS BrokerConnection, TLAPS

(* The induction: a failing breaker keeps the interval; without either a   *)
(* connection is being made or there is one in _connection, and that one   *)
(* has listeners unless the run that made it is still at work; so has the  *)
(* connection of the channel in use unless it was overtaken.               *)
Inv ==
  /\ TypeOK
  /\ breaker = "FAILING" => interval
  /\ channel = Undefined => Reconnecting
  /\ breaker = "OPEN" /\ connection = Undefined => \E r \in Runs : run[r] = "connect"
  /\ connection # Undefined =>
       Active(connection) \/ (connection \in listened /\ conn[connection] # "none")
  /\ channel # Undefined => run[channel] = "idle" /\ (overtaken \/ channel \in listened)
  /\ LossIsNoticed

LEMMA InitInv == Init => Inv
<1> SUFFICES ASSUME Init PROVE Inv
  OBVIOUS
<1>1. PICK r \in Runs : run = [x \in Runs |-> IF x = r THEN "connect" ELSE "idle"]
  BY DEF Init, FirstRun
<1>2. run[r] = "connect" /\ Active(r)
  BY <1>1 DEF Active
<1>3. QED
  BY <1>1, <1>2 DEF Init, Inv, TypeOK, Reconnecting, LossIsNoticed, OnDeadConnection

LEMMA TypeStep == TypeOK /\ [Next]_vars => TypeOK'
<1> SUFFICES ASSUME TypeOK, [Next]_vars PROVE TypeOK'
  OBVIOUS
<1> USE DEF TypeOK, links, fields, TriggerFailure
<1>1. CASE IntervalFires
  BY <1>1 DEF IntervalFires, Start
<1>2. CASE BrokerDown \/ BrokerUp \/ ReplacedLost \/ ChannelCloses
  BY <1>2 DEF BrokerDown, BrokerUp, ReplacedLost, ChannelCloses
<1>3. ASSUME NEW last \in BOOLEAN, ReplacedEvent(last) PROVE TypeOK'
  BY <1>3 DEF ReplacedEvent, HandleDisconnect
<1>4. ASSUME NEW r \in Runs, RunNext(r) PROVE TypeOK'
  <2>1. CASE ConnectOk(r)      BY <2>1 DEF ConnectOk
  <2>2. CASE ConnectFails(r)   BY <2>2 DEF ConnectFails
  <2>3. CASE ChannelOk(r)
    BY <2>3 DEF ChannelOk, SetupConnectionListeners, TriggerSuccess, Start
  <2>4. CASE ChannelFails(r)   BY <2>4 DEF ChannelFails
  <2>5. CASE Retry(r)          BY <2>5 DEF Retry
  <2>6. CASE CloseEvent(r)     BY <2>6 DEF CloseEvent, HandleDisconnect
  <2>7. CASE UnhandledError(r) BY <2>7 DEF UnhandledError, FirstRun
  <2>8. CASE ConnectionLost(r) BY <2>8 DEF ConnectionLost
  <2>9. QED
    BY <1>4, <2>1, <2>2, <2>3, <2>4, <2>5, <2>6, <2>7, <2>8 DEF RunNext
<1>5. CASE UNCHANGED vars
  BY <1>5 DEF vars
<1>6. QED
  BY <1>1, <1>2, <1>3, <1>4, <1>5 DEF Next

LEMMA StepInv == Inv /\ [Next]_vars => Inv'
<1> SUFFICES ASSUME Inv, [Next]_vars PROVE Inv'
  OBVIOUS
<1>0. TypeOK /\ TypeOK'
  BY TypeStep DEF Inv
<1> USE <1>0, BrokerConnectionAssumption
    DEF TypeOK, Inv, Reconnecting, Active, LossIsNoticed, OnDeadConnection, EventToCome, links, fields, TriggerFailure
<1>1. CASE IntervalFires
  BY <1>1 DEF IntervalFires, Start
<1>2. CASE BrokerDown
  BY <1>2 DEF BrokerDown
<1>3. CASE BrokerUp
  BY <1>3 DEF BrokerUp
<1>7. CASE ReplacedLost \/ ChannelCloses
  BY <1>7 DEF ReplacedLost, ChannelCloses
<1>4. ASSUME NEW last \in BOOLEAN, ReplacedEvent(last) PROVE Inv'
  BY <1>4 DEF ReplacedEvent, HandleDisconnect
<1>5. ASSUME NEW r \in Runs, RunNext(r) PROVE Inv'
  <2>1. CASE ConnectOk(r)      BY <2>1 DEF ConnectOk
  <2>2. CASE ConnectFails(r)   BY <2>2 DEF ConnectFails
  <2>3. CASE ChannelOk(r)
    <3>1. CASE breaker = "OPEN"
      BY <2>3, <3>1 DEF ChannelOk, SetupConnectionListeners, TriggerSuccess
    <3>2. CASE breaker = "FAILING"
      <4>1. PICK s \in Runs \ {r} : Start([run EXCEPT ![r] = "idle"], s)
        BY <2>3, <3>2 DEF ChannelOk, TriggerSuccess
      <4>2. run'[s] = "connect" /\ conn'[r] = "live" /\ channel' = r
            /\ connection' = connection /\ connection # s /\ breaker' = "OPEN"
            /\ run'[r] = "idle"
        BY <2>3, <3>2, <4>1 DEF ChannelOk, TriggerSuccess, Start
      <4>3. connection # Undefined =>
              \/ run'[connection] # "idle"
              \/ connection \in listened' /\ conn'[connection] # "none"
        BY <2>3, <4>1, <4>2 DEF ChannelOk, SetupConnectionListeners, Start
      <4>4. overtaken' \/ r \in listened'
        BY <2>3 DEF ChannelOk, SetupConnectionListeners
      <4>5. QED
        BY <4>2, <4>3, <4>4
    <3>3. QED
      BY <3>1, <3>2
  <2>4. CASE ChannelFails(r)   BY <2>4 DEF ChannelFails
  <2>5. CASE Retry(r)          BY <2>5 DEF Retry
  <2>6. CASE CloseEvent(r)     BY <2>6, ZenonT(60) DEF CloseEvent, HandleDisconnect
  <2>7. CASE UnhandledError(r)
    <3>1. PICK s \in Runs : run' = [x \in Runs |-> IF x = s THEN "connect" ELSE "idle"]
      BY <2>7 DEF UnhandledError, FirstRun
    <3>2. run'[s] = "connect"
      BY <3>1
    <3>3. QED
      BY <2>7, <3>2 DEF UnhandledError
  <2>8. CASE ConnectionLost(r) BY <2>8 DEF ConnectionLost
  <2>9. QED
    BY <1>5, <2>1, <2>2, <2>3, <2>4, <2>5, <2>6, <2>7, <2>8 DEF RunNext
<1>6. CASE UNCHANGED vars
  BY <1>6 DEF vars
<1>8. QED
  BY <1>1, <1>2, <1>3, <1>4, <1>5, <1>6, <1>7 DEF Next

LEMMA InvHolds == Spec => []Inv
BY InitInv, StepInv, PTL DEF Spec

(* TypeOK: every field keeps its type, whatever runs meet.                 *)
THEOREM TypeCorrect == Spec => []TypeOK
<1>1. Inv => TypeOK
  BY DEF Inv
<1>2. QED
  BY <1>1, InvHolds, PTL

(* DownIsRetried: an endpoint without a channel is being reconnected.      *)
THEOREM Retried == Spec => []DownIsRetried
<1>1. Inv => DownIsRetried
  BY DEF Inv, DownIsRetried, Reconnecting
<1>2. QED
  BY <1>1, InvHolds, PTL

(* LossIsNoticed: an endpoint never sits on the channel of a lost          *)
(* connection unaware, unless that one was lost alone and had been         *)
(* overtaken before it could get its listeners.                            *)
THEOREM Noticed == Spec => []LossIsNoticed
<1>1. Inv => LossIsNoticed
  BY DEF Inv
<1>2. QED
  BY <1>1, InvHolds, PTL

(* The part of Recovers that no fairness is needed for. *)
Settled ==
  /\ Working
  /\ \A r \in Runs : conn[r] # "broken"
  /\ "broken" \notin replaced
StaysSettled == Settled /\ up' /\ ~LossAlone => Settled'

LEMMA SettledStep == Inv /\ Next => StaysSettled
<1> SUFFICES ASSUME Inv, Next, Settled, up', ~LossAlone PROVE Settled'
  BY DEF StaysSettled
<1> USE DEF Settled, Working
<1>0. TypeOK /\ channel \in Runs
  BY DEF Inv, TypeOK
<1>1. CASE IntervalFires
  BY <1>0, <1>1 DEF TypeOK, IntervalFires, Start, fields
<1>2. CASE BrokerDown
  BY <1>2 DEF BrokerDown
<1>3. CASE BrokerUp
  BY <1>0, <1>3 DEF BrokerUp, links, fields
<1>4. ASSUME NEW last \in BOOLEAN, ReplacedEvent(last) PROVE Settled'
  BY <1>4 DEF ReplacedEvent
<1>5. ASSUME NEW r \in Runs, RunNext(r) PROVE Settled'
  <2>1. CASE ConnectOk(r)
    BY <1>0, <2>1 DEF TypeOK, ConnectOk
  <2>2. CASE ConnectFails(r)
    BY <1>0, <2>2 DEF ConnectFails, links, fields
  <2>3. CASE ChannelOk(r)
    <3>1. channel' = r /\ r # Undefined /\ conn[r] = "live" /\ alone' = "nothing"
      BY <2>3, BrokerConnectionAssumption DEF ChannelOk
    <3>2. CASE UNCHANGED <<conn, replaced>>
      BY <3>1, <3>2
    <3>3. ASSUME NEW s \in Runs \ {r}, Start([run EXCEPT ![r] = "idle"], s) PROVE Settled'
      BY <1>0, <3>1, <3>3 DEF TypeOK, Start
    <3>4. QED
      BY <2>3, <3>2, <3>3 DEF ChannelOk, TriggerSuccess
  <2>4. CASE ChannelFails(r)
    BY <1>0, <2>4 DEF ChannelFails, links, fields
  <2>5. CASE Retry(r)
    BY <1>0, <2>5 DEF Retry, links, fields
  <2>6. CASE CloseEvent(r)
    BY <2>6 DEF CloseEvent
  <2>7. CASE UnhandledError(r)
    BY <2>7 DEF UnhandledError
  <2>8. QED
    BY <1>5, <2>1, <2>2, <2>3, <2>4, <2>5, <2>6, <2>7 DEF RunNext, LossAlone
<1>6. QED
  BY <1>1, <1>2, <1>3, <1>4, <1>5 DEF Next, LossAlone

(* An endpoint that has a channel on a live connection, and has heard of   *)
(* every loss, keeps one as long as the broker stays up and no connection  *)
(* or channel is lost alone: neither the runs that are still retrying, nor *)
(* those that the interval or the OPEN callback start, nor the connections *)
(* they replace take it away.                                              *)
THEOREM RecoveryKept == Spec => [][StaysSettled]_vars
<1>1. Inv /\ [Next]_vars => [StaysSettled]_vars
  BY SettledStep
<1>2. QED
  BY <1>1, InvHolds, PTL DEF Spec
================================================================================
