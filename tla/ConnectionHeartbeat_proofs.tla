----------------------- MODULE ConnectionHeartbeat_proofs -----------------------
(***************************************************************************)
(* Proofs about ConnectionHeartbeat, for any number of sockets and any     *)
(* ping interval.                                                          *)
(***************************************************************************)
EXTENDS ConnectionHeartbeat, TLAPS

LEMMA TimerType == Off = -1 /\ Timer = -1 .. Interval /\ Interval \in Nat \ {0}
BY HeartbeatAssumption DEF Off, Timer

(* What clearing the stored timer does to the timers. *)
LEMMA ClearStoredType ==
  ASSUME TypeOK, ClearStored
  PROVE  /\ pongIn' \in [Sockets -> Timer] /\ stored' \in Sockets \union {NoSocket}
         /\ \A k \in Sockets : pongIn'[k] \in {Off, pongIn[k]}
         /\ \A k \in Sockets : stored = k => pongIn'[k] = Off
<1>1. Off \in Timer
  BY TimerType
<1>2. QED
  BY <1>1, HeartbeatAssumption DEF TypeOK, ClearStored

LEMMA CountDownType ==
  ASSUME NEW timers \in [Sockets -> Timer]
  PROVE  /\ CountDown(timers) \in [Sockets -> Timer]
         /\ \A k \in Sockets : CountDown(timers)[k] = Off <=> timers[k] = Off
BY TimerType DEF CountDown

LEMMA TypeStep == TypeOK /\ [Next]_vars => TypeOK'
<1> SUFFICES ASSUME TypeOK, [Next]_vars PROVE TypeOK'
  OBVIOUS
<1>0. Interval \in Timer /\ Off \in Timer
  BY TimerType
<1>1. CASE Tick
  BY <1>1, CountDownType DEF Tick, TypeOK
<1>2. ASSUME NEW k \in Sockets, SocketNext(k) PROVE TypeOK'
  <2>1. CASE Open(k)
    BY <2>1, <1>0 DEF Open, TypeOK
  <2>2. CASE PingDue(k)
    BY <2>2, <1>0 DEF PingDue, TypeOK, LookedUp, Lookup
  <2>3. CASE SendPing(k)
    BY <2>3, <1>0 DEF SendPing, TypeOK, Close, Lookup
  <2>4. CASE OnPong(k)
    BY <2>4, ClearStoredType DEF OnPong, TypeOK, LookedUp, Lookup
  <2>5. CASE AfterPong(k)
    BY <2>5, <1>0, ZenonT(60) DEF AfterPong, TypeOK, Close, Lookup
  <2>6. CASE PongDue(k)
    BY <2>6, <1>0 DEF PongDue, TypeOK, Close
  <2>7. CASE OnClose(k)
    BY <2>7, ClearStoredType DEF OnClose, TypeOK
  <2>8. CASE PeerCloses(k)
    BY <2>8 DEF PeerCloses, TypeOK, Close
  <2>9. CASE PeerDies(k)
    BY <2>9 DEF PeerDies, TypeOK
  <2>10. QED
    BY <1>2, <2>1, <2>2, <2>3, <2>4, <2>5, <2>6, <2>7, <2>8, <2>9 DEF SocketNext
<1>3. CASE UNCHANGED vars
  BY <1>3 DEF vars, TypeOK
<1>4. QED
  BY <1>1, <1>2, <1>3 DEF Next

LEMMA TypeInit == Init => TypeOK
<1>1. Off \in Timer
  BY TimerType
<1>2. ASSUME Init
      PROVE  /\ alive \in [Sockets -> BOOLEAN] /\ pinged \in [Sockets -> BOOLEAN]
             /\ phase \in [Sockets -> {"new", "open", "closing", "closed"}]
             /\ pinging \in [Sockets -> Lookup] /\ ponging \in [Sockets -> Lookup]
  <2>1. /\ alive = [k \in Sockets |-> TRUE] /\ pinged = [k \in Sockets |-> FALSE]
        /\ phase = [k \in Sockets |-> "new"] /\ pinging = [k \in Sockets |-> "none"]
        /\ ponging = [k \in Sockets |-> "none"]
    BY <1>2 DEF Init
  <2>2. alive \in [Sockets -> BOOLEAN] /\ pinged \in [Sockets -> BOOLEAN]
    BY <2>1, Zenon
  <2>3. QED
    BY <2>1, <2>2 DEF Lookup
<1>3. ASSUME Init PROVE pingIn \in [Sockets -> Timer] /\ pongIn \in [Sockets -> Timer]
  <2>1. pingIn = [k \in Sockets |-> Off] /\ pongIn = [k \in Sockets |-> Off]
    BY <1>3 DEF Init
  <2>2. QED
    BY <2>1, <1>1, Zenon
<1>4. ASSUME Init
      PROVE  stored \in Sockets \union {NoSocket} /\ connEntry \in BOOLEAN /\ rested \subseteq Sockets
  BY <1>4 DEF Init
<1>5. QED
  BY <1>2, <1>3, <1>4 DEF TypeOK

-----------------------------------------------------------------------------
(* A station has one connection that is not closed yet, and its entry is   *)
(* there while that one is open.                                           *)
Live(k) == phase[k] \in {"open", "closing"}
EntryInv ==
  /\ \A j, k \in Sockets : Live(j) /\ Live(k) => j = k
  /\ OpenHasEntry

LEMMA EntryStep == TypeOK /\ EntryInv /\ [Next]_vars => EntryInv'
<1> SUFFICES ASSUME TypeOK, EntryInv, [Next]_vars PROVE EntryInv'
  OBVIOUS
<1> USE DEF EntryInv, OpenHasEntry, Live
<1>1. CASE Tick
  BY <1>1 DEF Tick
<1>2. ASSUME NEW k \in Sockets, SocketNext(k) PROVE EntryInv'
  <2>1. CASE Open(k)
    BY <2>1 DEF Open, TypeOK
  <2>2. CASE PingDue(k)
    BY <2>2 DEF PingDue
  <2>3. CASE SendPing(k)
    BY <2>3 DEF SendPing, TypeOK, Close
  <2>4. CASE OnPong(k)
    BY <2>4 DEF OnPong
  <2>5. CASE AfterPong(k)
    BY <2>5 DEF AfterPong, TypeOK, Close
  <2>6. CASE PongDue(k)
    BY <2>6 DEF PongDue, TypeOK, Close
  <2>7. CASE OnClose(k)
    BY <2>7 DEF OnClose, TypeOK
  <2>8. CASE PeerCloses(k)
    BY <2>8 DEF PeerCloses, TypeOK, Close
  <2>9. CASE PeerDies(k)
    BY <2>9 DEF PeerDies
  <2>10. QED
    BY <1>2, <2>1, <2>2, <2>3, <2>4, <2>5, <2>6, <2>7, <2>8, <2>9 DEF SocketNext
<1>3. CASE UNCHANGED vars
  BY <1>3 DEF vars
<1>4. QED
  BY <1>1, <1>2, <1>3 DEF Next

(* TypeOK: timers, sockets and entry keep their types.                     *)
THEOREM TypeCorrect == Spec => []TypeOK
BY TypeInit, TypeStep, PTL DEF Spec

(* OpenHasEntry: a callback of an earlier connection never removes the     *)
(* cache entry of the connection in use.                                   *)
THEOREM EntryKept == Spec => []OpenHasEntry
<1>1. Init => TypeOK /\ EntryInv
  BY TypeInit DEF Init, EntryInv, OpenHasEntry, Live
<1>2. TypeOK /\ EntryInv /\ [Next]_vars => (TypeOK /\ EntryInv)'
  BY TypeStep, EntryStep
<1>3. TypeOK /\ EntryInv => OpenHasEntry
  BY DEF EntryInv
<1>4. QED
  BY <1>1, <1>2, <1>3, PTL DEF Spec

-----------------------------------------------------------------------------
(* While a rested socket is open, the timers and callbacks are its own and *)
(* a running pong timer of it is the stored one.                           *)
Alone(k) ==
  \A j \in Sockets \ {k} : /\ pingIn[j] = Off /\ pongIn[j] = Off
                           /\ pinging[j] = "none" /\ ponging[j] = "none"
TimerInv ==
  \A k \in rested :
    /\ phase[k] # "new"
    /\ phase[k] = "open" => /\ Alone(k)
                            /\ pongIn[k] # Off => pinged[k] /\ stored = k

LEMMA OnceOpened ==
  TypeOK /\ TimerInv /\ [Next]_vars => \A k \in rested' : phase'[k] # "new"
<1> SUFFICES ASSUME TypeOK, TimerInv, [Next]_vars, NEW k \in rested'
             PROVE  phase'[k] # "new"
  OBVIOUS
<1> USE DEF TypeOK, TimerInv, Close
<1>1. CASE Tick
  BY <1>1 DEF Tick
<1>2. ASSUME NEW j \in Sockets, SocketNext(j) PROVE phase'[k] # "new"
  BY <1>2 DEF SocketNext, Open, PingDue, SendPing, OnPong, AfterPong, PongDue, OnClose,
              PeerCloses, PeerDies
<1>3. CASE UNCHANGED vars
  BY <1>3 DEF vars
<1>4. QED
  BY <1>1, <1>2, <1>3 DEF Next

LEMMA TimerStep == TypeOK /\ EntryInv /\ TimerInv /\ [Next]_vars => TimerInv'
<1> SUFFICES ASSUME TypeOK, EntryInv, TimerInv, [Next]_vars,
                    NEW r \in rested', phase'[r] = "open"
             PROVE  /\ Alone(r)'
                    /\ pongIn'[r] # Off => pinged'[r] /\ stored' = r
  BY OnceOpened DEF TimerInv
<1>0. r \in Sockets
  BY TypeStep DEF TypeOK
<1>1. CASE Tick
  <2>1. /\ \A k \in Sockets : pingIn'[k] = Off <=> pingIn[k] = Off
        /\ \A k \in Sockets : pongIn'[k] = Off <=> pongIn[k] = Off
    BY <1>1, CountDownType DEF Tick, TypeOK
  <2>2. QED
    BY <1>0, <1>1, <2>1 DEF Tick, TimerInv, Alone
<1>2. ASSUME NEW k \in Sockets, SocketNext(k)
      PROVE  /\ Alone(r)'
             /\ pongIn'[r] # Off => pinged'[r] /\ stored' = r
  <2>0. ASSUME r \in rested, phase[r] = "open"
        PROVE  /\ Alone(r)
               /\ pongIn[r] # Off => pinged[r] /\ stored = r
               /\ k # r => /\ ~Live(k) /\ pingIn[k] # 0 /\ pongIn[k] # 0
                           /\ pinging[k] = "none" /\ ponging[k] = "none"
    BY <2>0, <1>0, TimerType DEF TimerInv, Alone, EntryInv, Live
  <2>1. CASE Open(k)
    <3>1. r = k
      BY <2>1, <1>0 DEF Open, TypeOK
    <3>2. CASE TimersLeft \/ InCallback
      BY <2>1, <3>1, <3>2 DEF Open, TypeOK, TimerInv
    <3>3. CASE ~TimersLeft /\ ~InCallback
      BY <2>1, <3>1, <3>3 DEF Open, TimersLeft, InCallback, Alone, TypeOK
    <3>4. QED
      BY <3>2, <3>3
  <2>2. CASE PingDue(k)
    BY <2>2, <2>0, <1>0 DEF PingDue, TypeOK, Alone
  <2>3. CASE SendPing(k)
    BY <2>3, <2>0, <1>0 DEF SendPing, TypeOK, Close, Alone
  <2>4. CASE OnPong(k)
    BY <2>4, <2>0, <1>0, ClearStoredType DEF OnPong, TypeOK, Alone, Live
  <2>5. CASE AfterPong(k)
    BY <2>5, <2>0, <1>0 DEF AfterPong, TypeOK, Close, Alone
  <2>6. CASE PongDue(k)
    BY <2>6, <2>0, <1>0 DEF PongDue, TypeOK, Close, Alone
  <2>7. CASE OnClose(k)
    BY <2>7, <2>0, <1>0 DEF OnClose, TypeOK, Live
  <2>8. CASE PeerCloses(k)
    BY <2>8, <2>0, <1>0 DEF PeerCloses, TypeOK, Close, Alone
  <2>9. CASE PeerDies(k)
    BY <2>9, <2>0, <1>0 DEF PeerDies, TypeOK, Alone
  <2>10. QED
    BY <1>2, <2>1, <2>2, <2>3, <2>4, <2>5, <2>6, <2>7, <2>8, <2>9 DEF SocketNext
<1>3. CASE UNCHANGED vars
  BY <1>0, <1>3 DEF vars, TimerInv, Alone
<1>4. QED
  BY <1>1, <1>2, <1>3 DEF Next

(* AnsweredNotTimed: a socket that was opened when the timers of the last  *)
(* connection were gone is never given up after it has answered.           *)
THEOREM AnswersCount == Spec => []AnsweredNotTimed
<1> DEFINE Inv == TypeOK /\ EntryInv /\ TimerInv
<1>1. Init => Inv
  BY TypeInit DEF Init, EntryInv, OpenHasEntry, Live, TimerInv
<1>2. Inv /\ [Next]_vars => Inv'
  BY TypeStep, EntryStep, TimerStep
<1>3. Inv => AnsweredNotTimed
  BY DEF TimerInv, AnsweredNotTimed
<1>4. QED
  BY <1>1, <1>2, <1>3, PTL DEF Spec

-----------------------------------------------------------------------------
(* Ping and pong go round: an open socket waits for one thing at a time,   *)
(* and while that is the answer to a ping its pong timer runs, also when   *)
(* _pingTimeouts has the timer of another socket.                          *)
NotPinging(k) == pingIn[k] = Off /\ pinging[k] = "none"
NotPonging(k) == ~pinged[k] /\ ponging[k] = "none"
WaitsToPing(k) == pingIn[k] # Off /\ pinging[k] = "none" /\ NotPonging(k)
SendsPing(k) == pingIn[k] = Off /\ pinging[k] # "none" /\ NotPonging(k)
AwaitsPong(k) == NotPinging(k) /\ pinged[k] /\ ponging[k] = "none" /\ pongIn[k] # Off
HandlesPong(k) == NotPinging(k) /\ ~pinged[k] /\ ponging[k] # "none"
RoundInv ==
  \A k \in Sockets :
    /\ phase[k] = "new" => NotPinging(k) /\ NotPonging(k)
    /\ phase[k] = "open" => WaitsToPing(k) \/ SendsPing(k) \/ AwaitsPong(k) \/ HandlesPong(k)

(* A socket whose station has fallen silent, and the ticks it has left.    *)
Silent(k) == phase[k] = "open" /\ ~alive[k]
Patience(k) ==
  IF pinged[k] THEN pongIn[k]
  ELSE IF pingIn[k] # Off THEN pingIn[k] + Interval
  ELSE IF pinging[k] # "none" THEN Interval
  ELSE 2 * Interval

LEMMA RoundStep == TypeOK /\ EntryInv /\ RoundInv /\ [Next]_vars => RoundInv'
<1> SUFFICES ASSUME TypeOK, EntryInv, RoundInv, [Next]_vars, NEW r \in Sockets
             PROVE  /\ phase'[r] = "new" => NotPinging(r)' /\ NotPonging(r)'
                    /\ phase'[r] = "open" =>
                         WaitsToPing(r)' \/ SendsPing(r)' \/ AwaitsPong(r)' \/ HandlesPong(r)'
  BY DEF RoundInv
<1> USE DEF NotPinging, NotPonging, WaitsToPing, SendsPing, AwaitsPong, HandlesPong
<1>0. /\ phase[r] = "new" => NotPinging(r) /\ NotPonging(r)
      /\ phase[r] = "open" => WaitsToPing(r) \/ SendsPing(r) \/ AwaitsPong(r) \/ HandlesPong(r)
  BY DEF RoundInv
<1>1. CASE Tick
  BY <1>0, <1>1, CountDownType DEF Tick, TypeOK
<1>2. ASSUME NEW k \in Sockets, SocketNext(k)
      PROVE  /\ phase'[r] = "new" => NotPinging(r)' /\ NotPonging(r)'
             /\ phase'[r] = "open" =>
                  WaitsToPing(r)' \/ SendsPing(r)' \/ AwaitsPong(r)' \/ HandlesPong(r)'
  <2>0. Interval # Off
    BY HeartbeatAssumption DEF Off
  <2>1. CASE Open(k)
    BY <1>0, <2>0, <2>1 DEF Open, TypeOK
  <2>2. CASE PingDue(k)
    BY <1>0, <2>2 DEF PingDue, TypeOK, LookedUp, Off
  <2>3. CASE SendPing(k)
    BY <1>0, <2>0, <2>3 DEF SendPing, TypeOK, Close
  <2>4. CASE OnPong(k)
    BY <1>0, <2>4, ClearStoredType DEF OnPong, TypeOK, LookedUp, EntryInv, Live
  <2>5. CASE AfterPong(k)
    BY <1>0, <2>0, <2>5 DEF AfterPong, TypeOK, Close
  <2>6. CASE PongDue(k)
    BY <1>0, <2>6 DEF PongDue, TypeOK, Close
  <2>7. CASE OnClose(k)
    BY <1>0, <2>7, ClearStoredType DEF OnClose, TypeOK, EntryInv, Live
  <2>8. CASE PeerCloses(k)
    BY <1>0, <2>8 DEF PeerCloses, TypeOK, Close
  <2>9. CASE PeerDies(k)
    BY <1>0, <2>9 DEF PeerDies, TypeOK
  <2>10. QED
    BY <1>2, <2>1, <2>2, <2>3, <2>4, <2>5, <2>6, <2>7, <2>8, <2>9 DEF SocketNext
<1>3. CASE UNCHANGED vars
  BY <1>0, <1>3 DEF vars
<1>4. QED
  BY <1>1, <1>2, <1>3 DEF Next

LEMMA RoundHolds == Spec => [](TypeOK /\ EntryInv /\ RoundInv)
<1>1. Init => TypeOK /\ EntryInv /\ RoundInv
  BY TypeInit DEF Init, EntryInv, OpenHasEntry, Live, RoundInv, NotPinging, NotPonging
<1>2. (TypeOK /\ EntryInv /\ RoundInv) /\ [Next]_vars => (TypeOK /\ EntryInv /\ RoundInv)'
  BY TypeStep, EntryStep, RoundStep
<1>3. QED
  BY <1>1, <1>2, PTL DEF Spec

LEMMA PatienceType ==
  ASSUME TypeOK, RoundInv, NEW k \in Sockets, phase[k] = "open"
  PROVE  Patience(k) \in 0 .. 2 * Interval
<1>1. pingIn[k] \in Off .. Interval /\ pongIn[k] \in Off .. Interval
  BY DEF TypeOK, Timer
<1>2. pinged[k] => pongIn[k] # Off
  BY DEF RoundInv, WaitsToPing, SendsPing, AwaitsPong, HandlesPong, NotPonging
<1>3. QED
  BY <1>1, <1>2, HeartbeatAssumption DEF Patience, Off

(* A tick takes of the patience with a silent socket, no other step adds   *)
(* to it.                                                                  *)
LEMMA TickTakesPatience ==
  ASSUME TypeOK, RoundInv, Tick, NEW r \in Sockets, Silent(r)
  PROVE  Patience(r)' <= Patience(r) /\ Patience(r)' < Patience(r)
<1> USE DEF NotPinging, NotPonging, WaitsToPing, SendsPing, AwaitsPong, HandlesPong
<1>0. WaitsToPing(r) \/ SendsPing(r) \/ AwaitsPong(r) \/ HandlesPong(r)
  BY DEF Silent, RoundInv
<1>1. /\ pingIn[r] \in Off .. Interval /\ pongIn[r] \in Off .. Interval
      /\ Interval \in Nat \ {0}
  BY HeartbeatAssumption DEF TypeOK, Timer
<1>2. /\ pingIn[r] # 0 /\ pongIn[r] # 0 /\ pinging[r] = "none" /\ ponging[r] = "none"
      /\ UNCHANGED <<pinged, pinging, ponging>>
  BY DEF Tick, Due, InCallback
<1>3. /\ pingIn'[r] = IF pingIn[r] > 0 THEN pingIn[r] - 1 ELSE pingIn[r]
      /\ pongIn'[r] = IF pongIn[r] > 0 THEN pongIn[r] - 1 ELSE pongIn[r]
  BY DEF Tick, CountDown
<1>4. QED
  BY <1>0, <1>1, <1>2, <1>3 DEF Off, Patience

LEMMA SocketKeepsPatience ==
  ASSUME TypeOK, EntryInv, RoundInv, NEW k \in Sockets, SocketNext(k),
         NEW r \in Sockets, Silent(r), Silent(r)'
  PROVE  Patience(r)' <= Patience(r)
<1>0. phase[r] = "open" /\ phase'[r] = "open" /\ ~alive[r] /\ ~alive'[r]
  BY DEF Silent
<1>1. WaitsToPing(r) \/ SendsPing(r) \/ AwaitsPong(r) \/ HandlesPong(r)
  BY <1>0 DEF RoundInv
<1>2. /\ pingIn[r] \in Off .. Interval /\ pongIn[r] \in Off .. Interval
      /\ Interval \in Nat \ {0} /\ Patience(r) \in 0 .. 2 * Interval
  BY <1>0, PatienceType, HeartbeatAssumption DEF TypeOK, Timer
<1>3. connEntry /\ \A j \in Sockets \ {r} : phase[j] \notin {"open", "closing"}
  BY <1>0 DEF EntryInv, OpenHasEntry, Live
<1>4. CASE /\ pinged'[r] = pinged[r] /\ pingIn'[r] = pingIn[r]
           /\ pongIn'[r] = pongIn[r] /\ pinging'[r] = pinging[r]
  BY <1>2, <1>4 DEF Patience
<1>5. CASE Open(k)
  BY <1>0, <1>5 DEF Open
<1>6. CASE PingDue(k)
  <2>1. CASE k = r
    <3>1. pingIn[r] = 0 /\ ~pinged[r] /\ pinged'[r] = pinged[r]
      BY <1>1, <1>6, <2>1 DEF PingDue, Off, WaitsToPing, SendsPing, AwaitsPong, HandlesPong,
                              NotPinging, NotPonging
    <3>2. pingIn'[r] = Off /\ pinging'[r] \in {"found", "absent"}
      BY <1>6, <2>1 DEF PingDue, TypeOK, LookedUp
    <3>3. QED
      BY <1>2, <3>1, <3>2 DEF Patience, Off
  <2>2. QED
    BY <1>4, <1>6, <2>1 DEF PingDue, TypeOK
<1>7. CASE SendPing(k)
  <2>1. CASE k = r
    <3>1. pingIn[r] = Off /\ ~pinged[r] /\ pinging[r] # "none"
      BY <1>1, <1>7, <2>1 DEF SendPing, WaitsToPing, SendsPing, AwaitsPong, HandlesPong,
                              NotPinging, NotPonging
    <3>2. pinging[r] = "found"
      BY <1>0, <1>7, <2>1 DEF SendPing, TypeOK, Close
    <3>3. pinged'[r] /\ pongIn'[r] = Interval
      BY <1>0, <1>7, <2>1, <3>2 DEF SendPing, TypeOK
    <3>4. QED
      BY <1>2, <3>1, <3>3 DEF Patience
  <2>2. QED
    BY <1>4, <1>7, <2>1 DEF SendPing, TypeOK
<1>8. CASE OnPong(k)
  BY <1>0, <1>3, <1>8 DEF OnPong
<1>9. CASE AfterPong(k)
  <2>1. CASE k = r
    <3>1. pingIn[r] = Off /\ ~pinged[r] /\ pinging[r] = "none"
      BY <1>1, <1>9, <2>1 DEF AfterPong, WaitsToPing, SendsPing, AwaitsPong, HandlesPong,
                              NotPinging, NotPonging
    <3>2. ponging[r] = "found"
      BY <1>0, <1>9, <2>1 DEF AfterPong, TypeOK, Close
    <3>3. ~pinged'[r] /\ pingIn'[r] = Interval
      BY <1>9, <2>1, <3>1, <3>2 DEF AfterPong, TypeOK
    <3>4. QED
      BY <1>2, <3>1, <3>3 DEF Patience, Off
  <2>2. QED
    BY <1>4, <1>9, <2>1 DEF AfterPong, TypeOK
<1>10. CASE PongDue(k)
  <2>1. k # r
    BY <1>0, <1>10 DEF PongDue, TypeOK, Close
  <2>2. QED
    BY <1>4, <1>10, <2>1 DEF PongDue, TypeOK
<1>11. CASE OnClose(k)
  BY <1>0, <1>3, <1>11 DEF OnClose
<1>12. CASE PeerCloses(k)
  BY <1>4, <1>12 DEF PeerCloses
<1>13. CASE PeerDies(k)
  BY <1>4, <1>13 DEF PeerDies
<1>14. QED
  BY <1>5, <1>6, <1>7, <1>8, <1>9, <1>10, <1>11, <1>12, <1>13 DEF SocketNext

(* What a silent station has left is bounded, and counted down. *)
SilenceMeasured == \A k \in Sockets : Silent(k) => Patience(k) \in 0 .. 2 * Interval
SilenceCounted ==
  \A k \in Sockets : Silent(k) /\ Silent(k)' =>
    Patience(k)' <= Patience(k) /\ (Tick => Patience(k)' < Patience(k))

(* The part of SilentIsClosed that no fairness is needed for: a station    *)
(* that has fallen silent on an open socket has at most two ping intervals *)
(* left (the pong timer and the ping timer of _ping, one after the other), *)
(* and each tick takes one of them whatever else happens: the pongs, the   *)
(* closing and the timers of the station's earlier sockets give it none    *)
(* back.  Time stands still only for a timer that is due or a callback     *)
(* that is between its awaits.                                             *)
THEOREM SilenceIsBounded == Spec => []SilenceMeasured /\ [][SilenceCounted]_vars
<1>1. TypeOK /\ EntryInv /\ RoundInv => SilenceMeasured
  BY PatienceType DEF SilenceMeasured, Silent
<1>2. (TypeOK /\ EntryInv /\ RoundInv) /\ [Next]_vars => [SilenceCounted]_vars
  <2> SUFFICES ASSUME TypeOK, EntryInv, RoundInv, Next,
                      NEW r \in Sockets, Silent(r), Silent(r)'
               PROVE  Patience(r)' <= Patience(r) /\ (Tick => Patience(r)' < Patience(r))
    BY DEF SilenceCounted
  <2>1. CASE Tick
    BY <2>1, TickTakesPatience
  <2>2. CASE ~Tick
    BY <2>2, SocketKeepsPatience DEF Next
  <2>3. QED
    BY <2>1, <2>2
<1>3. QED
  BY <1>1, <1>2, RoundHolds, PTL DEF Spec
===============================================================================
