----------------------- MODULE StationConnection_proofs -----------------------
(***************************************************************************)
(* Theorems about StationConnection, for any number of connections and of  *)
(* failures.                                                               *)
(***************************************************************************)
EXTENDS StationConnection, TLAPS

LEMMA QueueType ==
  ASSUME NEW k \in Sockets, NEW kind \in Kinds PROVE Queue(k, kind) \in Queues
BY DEF Kinds, Queues, Queue

LEMMA CallsAre == "online" \in Calls /\ \A kind \in Kinds : kind \in Calls /\ kind # "online"
BY DEF Calls, Kinds

LEMMA FailsType ==
  ASSUME failures \in 0..MaxFailures, Fails PROVE failures' \in 0..MaxFailures
BY StationConnectionAssumption DEF Fails

LEMMA TypeStep == TypeOK /\ [Next]_allVars => TypeOK'
<1> SUFFICES ASSUME TypeOK, [Next]_allVars PROVE TypeOK'
  OBVIOUS
<1> USE StationConnectionAssumption
    DEF TypeOK, SetPhase, SetDereg, SetSub, socketVars, brokerVars, connectVars
<1>1. CASE SendLookup /\ UNCHANGED connectVars
  BY <1>1 DEF SendLookup
<1>2. CASE SendOrClose /\ UNCHANGED connectVars
  BY <1>2 DEF SendOrClose
<1>3. ASSUME NEW k \in Sockets, Connect(k) PROVE TypeOK'
  BY <1>3 DEF Connect
<1>4. ASSUME NEW k \in Sockets, CacheConnection(k), UNCHANGED connectVars PROVE TypeOK'
  BY <1>4 DEF CacheConnection
<1>5. ASSUME NEW k \in Sockets, SetOnline(k), UNCHANGED connectVars PROVE TypeOK'
  BY <1>5, CallsAre DEF SetOnline
<1>6. ASSUME NEW k \in Sockets, Registered(k), UNCHANGED connectVars PROVE TypeOK'
  BY <1>6 DEF Registered
<1>7. ASSUME NEW k \in Sockets, RegisterFails(k), UNCHANGED connectVars PROVE TypeOK'
  BY <1>7 DEF RegisterFails
<1>8. ASSUME NEW k \in Sockets, NEW kind \in Kinds, SubscribeConsume(k, kind), UNCHANGED connectVars
      PROVE  TypeOK'
  BY <1>8, CallsAre, QueueType DEF SubscribeConsume
<1>9. ASSUME NEW k \in Sockets, NEW kind \in Kinds, SubscribeWrite(k, kind), UNCHANGED connectVars
      PROVE  TypeOK'
  <2>1. subRead[k][kind] \subseteq Queues
    OBVIOUS
  <2>2. cachedQueues' \subseteq Queues /\ lost' \subseteq Queues
    BY <1>9, <2>1, QueueType DEF SubscribeWrite
  <2> QED BY <1>9, <2>2, CallsAre DEF SubscribeWrite
<1>10. ASSUME NEW k \in Sockets, NEW call \in Calls, CallFails(k, call), UNCHANGED connectVars
      PROVE  TypeOK'
  BY <1>10, FailsType DEF CallFails
<1>11. ASSUME NEW k \in Sockets, PeerCloses(k), UNCHANGED connectVars PROVE TypeOK'
  BY <1>11 DEF PeerCloses
<1>12. ASSUME NEW k \in Sockets, OnClose(k), UNCHANGED connectVars PROVE TypeOK'
  BY <1>12 DEF OnClose
<1>13. ASSUME NEW k \in Sockets, DeregisterOffline(k), UNCHANGED connectVars PROVE TypeOK'
  BY <1>13 DEF DeregisterOffline
<1>14. ASSUME NEW k \in Sockets, DeregisterFails(k), UNCHANGED connectVars PROVE TypeOK'
  BY <1>14, FailsType DEF DeregisterFails
<1>15. ASSUME NEW k \in Sockets, UnsubscribeRead(k), UNCHANGED connectVars PROVE TypeOK'
  BY <1>15 DEF UnsubscribeRead
<1>16. ASSUME NEW k \in Sockets, UnsubscribeDelete(k), UNCHANGED connectVars PROVE TypeOK'
  BY <1>16 DEF UnsubscribeDelete
<1>17. ASSUME NEW k \in Sockets, UnsubscribeFails(k), UNCHANGED connectVars PROVE TypeOK'
  BY <1>17, FailsType DEF UnsubscribeFails
<1>18. ASSUME NEW k \in Sockets, UnsubscribeForget(k), UNCHANGED connectVars PROVE TypeOK'
  BY <1>18 DEF UnsubscribeForget
<1>19. CASE UNCHANGED allVars  BY <1>19 DEF allVars, vars
<1> QED BY ONLY [Next]_allVars, <1>1, <1>2, <1>3, <1>4, <1>5, <1>6, <1>7, <1>8, <1>9,
             <1>10, <1>11, <1>12, <1>13, <1>14, <1>15, <1>16, <1>17, <1>18, <1>19
           DEF Next, ServerNext, SocketNext, Finished, allVars

(* Every variable keeps its type. *)
THEOREM TypeCorrect == Spec => []TypeOK
<1>1. ASSUME Init PROVE TypeOK
  <2>1. sub \in [Sockets -> [Calls -> {"none", "started", "consuming", "done", "failed"}]]
    BY <1>1 DEF Init
  <2>2. subRead \in [Sockets -> [Kinds -> SUBSET Queues]]
    <3>1. [kind \in Kinds |-> {}] \in [Kinds -> SUBSET Queues]
      OBVIOUS
    <3> QED BY <1>1, <3>1 DEF Init
  <2>3. 0 \in 0..MaxFailures /\ None \in Sockets \union {None}
    BY StationConnectionAssumption
  <2>4. FALSE \in BOOLEAN /\ online \in BOOLEAN /\ split \in [Sockets -> BOOLEAN]
    BY <1>1 DEF Init
  <2>5. deregRead \in [Sockets -> SUBSET Queues] /\ queues \subseteq Queues
        /\ cachedQueues \subseteq Queues /\ lost \subseteq Queues
    BY <1>1 DEF Init
  <2> QED BY <1>1, <2>1, <2>2, <2>3, <2>4, <2>5 DEF Init, TypeOK
<1> QED BY <1>1, TypeStep, PTL DEF Spec

-----------------------------------------------------------------------------
(* Each trace a connection leaves belongs to one that is still to remove   *)
(* it, or was rejected, or failed to; isOnline may be older than that.     *)
NotMarked(k) == dereg[k] \in {"none", "offline", "failed"}
Progress ==
  \A k \in Sockets :
    /\ dereg[k] # "none" <=> phase[k] = "closed"
    /\ phase[k] \in {"new", "caching"} => \A call \in Calls : sub[k][call] = "none"
    /\ phase[k] \in {"open", "closed"} => \A call \in Calls : sub[k][call] = "done"
OnlineInv ==
  online => \/ \A k \in Sockets : NotMarked(k)
            \/ \E k \in Sockets : sub[k]["online"] = "done" /\ NotMarked(k)
EntryInv == connEntry => \E k \in Sockets : phase[k] \in {"registering", "open", "rejected"}
CurrentInv == current # None => phase[current] \in {"caching", "registering", "open", "rejected"}
TraceInv == Progress /\ OnlineInv /\ EntryInv /\ CurrentInv

LEMMA TraceStep ==
  ASSUME TypeOK, TraceInv, [Next]_allVars PROVE TraceInv'
<1> USE StationConnectionAssumption
    DEF SetPhase, SetDereg, SetSub, socketVars, brokerVars, connectVars, TypeOK, TraceInv, NotMarked
<1>1. CASE SendLookup /\ UNCHANGED connectVars
  <2>1. Progress'  BY <1>1 DEF SendLookup, Progress
  <2>2. OnlineInv'  BY <1>1 DEF SendLookup, OnlineInv
  <2>3. EntryInv'  BY <1>1 DEF SendLookup, EntryInv
  <2>4. CurrentInv'  BY <1>1 DEF SendLookup, CurrentInv
  <2> QED BY <2>1, <2>2, <2>3, <2>4
<1>2. CASE SendOrClose /\ UNCHANGED connectVars
  <2>1. Progress'  BY <1>2 DEF SendOrClose, Progress
  <2>2. OnlineInv'  BY <1>2 DEF SendOrClose, OnlineInv
  <2>3. EntryInv'  BY <1>2 DEF SendOrClose, EntryInv
  <2>4. CurrentInv'  BY <1>2 DEF SendOrClose, CurrentInv
  <2> QED BY <2>1, <2>2, <2>3, <2>4
<1>3. ASSUME NEW k \in Sockets, Connect(k) PROVE TraceInv'
  <2>1. Progress'  BY <1>3 DEF Connect, Progress
  <2>2. OnlineInv'  BY <1>3 DEF Connect, OnlineInv
  <2>3. EntryInv'  BY <1>3 DEF Connect, EntryInv
  <2>4. CurrentInv'  BY <1>3 DEF Connect, CurrentInv
  <2> QED BY <2>1, <2>2, <2>3, <2>4
<1>4. ASSUME NEW k \in Sockets, CacheConnection(k), UNCHANGED connectVars PROVE TraceInv'
  <2>1. Progress'  BY <1>4 DEF CacheConnection, Progress
  <2>2. OnlineInv'
    BY <1>4, CallsAre DEF CacheConnection, OnlineInv, Progress
  <2>3. EntryInv'  BY <1>4 DEF CacheConnection, EntryInv
  <2>4. CurrentInv'  BY <1>4 DEF CacheConnection, CurrentInv
  <2> QED BY <2>1, <2>2, <2>3, <2>4
<1>5. ASSUME NEW k \in Sockets, SetOnline(k), UNCHANGED connectVars PROVE TraceInv'
  <2>1. Progress'  BY <1>5 DEF SetOnline, Progress
  <2>2. OnlineInv'
    BY <1>5, CallsAre DEF SetOnline, OnlineInv, Progress
  <2>3. EntryInv'  BY <1>5 DEF SetOnline, EntryInv
  <2>4. CurrentInv'  BY <1>5 DEF SetOnline, CurrentInv
  <2> QED BY <2>1, <2>2, <2>3, <2>4
<1>6. ASSUME NEW k \in Sockets, Registered(k), UNCHANGED connectVars PROVE TraceInv'
  <2>1. Progress'  BY <1>6 DEF Registered, Progress
  <2>2. OnlineInv'  BY <1>6 DEF Registered, OnlineInv
  <2>3. EntryInv'  BY <1>6 DEF Registered, EntryInv
  <2>4. CurrentInv'  BY <1>6 DEF Registered, CurrentInv
  <2> QED BY <2>1, <2>2, <2>3, <2>4
<1>7. ASSUME NEW k \in Sockets, RegisterFails(k), UNCHANGED connectVars PROVE TraceInv'
  <2>1. Progress'  BY <1>7 DEF RegisterFails, Progress
  <2>2. OnlineInv'  BY <1>7 DEF RegisterFails, OnlineInv
  <2>3. EntryInv'  BY <1>7 DEF RegisterFails, EntryInv
  <2>4. CurrentInv'  BY <1>7 DEF RegisterFails, CurrentInv
  <2> QED BY <2>1, <2>2, <2>3, <2>4
<1>8. ASSUME NEW k \in Sockets, NEW kind \in Kinds, SubscribeConsume(k, kind), UNCHANGED connectVars
      PROVE  TraceInv'
  <2>1. Progress'  BY <1>8 DEF SubscribeConsume, Progress
  <2>2. OnlineInv'  BY <1>8 DEF SubscribeConsume, OnlineInv
  <2>3. EntryInv'  BY <1>8 DEF SubscribeConsume, EntryInv
  <2>4. CurrentInv'  BY <1>8 DEF SubscribeConsume, CurrentInv
  <2> QED BY <2>1, <2>2, <2>3, <2>4
<1>9. ASSUME NEW k \in Sockets, NEW kind \in Kinds, SubscribeWrite(k, kind), UNCHANGED connectVars
      PROVE  TraceInv'
  <2>1. Progress'  BY <1>9 DEF SubscribeWrite, Progress
  <2>2. OnlineInv'  BY <1>9 DEF SubscribeWrite, OnlineInv
  <2>3. EntryInv'  BY <1>9 DEF SubscribeWrite, EntryInv
  <2>4. CurrentInv'  BY <1>9 DEF SubscribeWrite, CurrentInv
  <2> QED BY <2>1, <2>2, <2>3, <2>4
<1>10. ASSUME NEW k \in Sockets, NEW call \in Calls, CallFails(k, call), UNCHANGED connectVars
      PROVE  TraceInv'
  <2>1. Progress'  BY <1>10 DEF CallFails, Progress
  <2>2. OnlineInv'  BY <1>10 DEF CallFails, OnlineInv
  <2>3. EntryInv'  BY <1>10 DEF CallFails, EntryInv
  <2>4. CurrentInv'  BY <1>10 DEF CallFails, CurrentInv
  <2> QED BY <2>1, <2>2, <2>3, <2>4
<1>11. ASSUME NEW k \in Sockets, PeerCloses(k), UNCHANGED connectVars PROVE TraceInv'
  <2>1. Progress'  BY <1>11 DEF PeerCloses, Progress
  <2>2. OnlineInv'  BY <1>11 DEF PeerCloses, OnlineInv
  <2>3. EntryInv'  BY <1>11 DEF PeerCloses, EntryInv
  <2>4. CurrentInv'  BY <1>11 DEF PeerCloses, CurrentInv
  <2> QED BY <2>1, <2>2, <2>3, <2>4
<1>12. ASSUME NEW k \in Sockets, OnClose(k), UNCHANGED connectVars PROVE TraceInv'
  <2>1. Progress'  BY <1>12 DEF OnClose, Progress
  <2>2. OnlineInv'  BY <1>12 DEF OnClose, OnlineInv
  <2>3. EntryInv'  BY <1>12 DEF OnClose, EntryInv
  <2>4. CurrentInv'  BY <1>12 DEF OnClose, CurrentInv
  <2> QED BY <2>1, <2>2, <2>3, <2>4
<1>13. ASSUME NEW k \in Sockets, DeregisterOffline(k), UNCHANGED connectVars PROVE TraceInv'
  <2>1. Progress'  BY <1>13 DEF DeregisterOffline, Progress
  <2>2. OnlineInv'  BY <1>13 DEF DeregisterOffline, OnlineInv
  <2>3. EntryInv'  BY <1>13 DEF DeregisterOffline, EntryInv
  <2>4. CurrentInv'  BY <1>13 DEF DeregisterOffline, CurrentInv
  <2> QED BY <2>1, <2>2, <2>3, <2>4
<1>14. ASSUME NEW k \in Sockets, DeregisterFails(k), UNCHANGED connectVars PROVE TraceInv'
  <2>1. Progress'  BY <1>14 DEF DeregisterFails, Progress
  <2>2. OnlineInv'  BY <1>14 DEF DeregisterFails, OnlineInv
  <2>3. EntryInv'  BY <1>14 DEF DeregisterFails, EntryInv
  <2>4. CurrentInv'  BY <1>14 DEF DeregisterFails, CurrentInv
  <2> QED BY <2>1, <2>2, <2>3, <2>4
<1>15. ASSUME NEW k \in Sockets, UnsubscribeRead(k), UNCHANGED connectVars PROVE TraceInv'
  <2>1. Progress'  BY <1>15 DEF UnsubscribeRead, Progress
  <2>2. OnlineInv'  BY <1>15 DEF UnsubscribeRead, OnlineInv
  <2>3. EntryInv'  BY <1>15 DEF UnsubscribeRead, EntryInv
  <2>4. CurrentInv'  BY <1>15 DEF UnsubscribeRead, CurrentInv
  <2> QED BY <2>1, <2>2, <2>3, <2>4
<1>16. ASSUME NEW k \in Sockets, UnsubscribeDelete(k), UNCHANGED connectVars PROVE TraceInv'
  <2>1. Progress'  BY <1>16 DEF UnsubscribeDelete, Progress
  <2>2. OnlineInv'  BY <1>16 DEF UnsubscribeDelete, OnlineInv
  <2>3. EntryInv'  BY <1>16 DEF UnsubscribeDelete, EntryInv
  <2>4. CurrentInv'  BY <1>16 DEF UnsubscribeDelete, CurrentInv
  <2> QED BY <2>1, <2>2, <2>3, <2>4
<1>17. ASSUME NEW k \in Sockets, UnsubscribeFails(k), UNCHANGED connectVars PROVE TraceInv'
  <2>1. Progress'  BY <1>17 DEF UnsubscribeFails, Progress
  <2>2. OnlineInv'  BY <1>17 DEF UnsubscribeFails, OnlineInv
  <2>3. EntryInv'  BY <1>17 DEF UnsubscribeFails, EntryInv
  <2>4. CurrentInv'  BY <1>17 DEF UnsubscribeFails, CurrentInv
  <2> QED BY <2>1, <2>2, <2>3, <2>4
<1>18. ASSUME NEW k \in Sockets, UnsubscribeForget(k), UNCHANGED connectVars PROVE TraceInv'
  <2>1. Progress'  BY <1>18 DEF UnsubscribeForget, Progress
  <2>2. OnlineInv'  BY <1>18 DEF UnsubscribeForget, OnlineInv
  <2>3. EntryInv'  BY <1>18 DEF UnsubscribeForget, EntryInv
  <2>4. CurrentInv'  BY <1>18 DEF UnsubscribeForget, CurrentInv
  <2> QED BY <2>1, <2>2, <2>3, <2>4
<1>19. CASE UNCHANGED allVars  BY <1>19 DEF allVars, vars, Progress, OnlineInv, EntryInv, CurrentInv
<1> QED BY ONLY [Next]_allVars, <1>1, <1>2, <1>3, <1>4, <1>5, <1>6, <1>7, <1>8, <1>9,
             <1>10, <1>11, <1>12, <1>13, <1>14, <1>15, <1>16, <1>17, <1>18, <1>19
           DEF Next, ServerNext, SocketNext, Finished, allVars

LEMMA TraceHolds == Spec => []TraceInv
<1>1. Init => TraceInv
  BY StationConnectionAssumption
     DEF Init, TraceInv, Progress, OnlineInv, EntryInv, CurrentInv, NotMarked, Calls
<1> QED BY <1>1, TraceStep, TypeCorrect, PTL DEF Spec

-----------------------------------------------------------------------------
(* A station that connects again only after its last connection has been   *)
(* cleaned up has no connection in use but the latest ...                  *)
Unused(k) == phase[k] = "new" \/ Gone(k)
OneInUse == \A k \in Sockets : k # latest => Unused(k)

(* ... what that connection has registered so far is in place ...          *)
Registering(k) == phase[k] \in {"registering", "open"}
PartsInPlace ==
  \A k \in Sockets :
    /\ phase[k] = "caching" \/ Registering(k) => current = k
    /\ Registering(k) => connEntry /\ dereg[k] = "none"
    /\ Registering(k) /\ sub[k]["online"] = "done" => online
    /\ \A kind \in Kinds :
         Registering(k) /\ sub[k][kind] \in {"consuming", "done"} => Queue(k, kind) \in queues

(* ... and once it is closed it goes offline for good.                     *)
Offline ==
  latest \in Sockets /\ phase[latest] = "closed" =>
    /\ ~connEntry /\ current = None
    /\ dereg[latest] \in {"lookup", "delete", "forget", "done"} => ~online

OneInPlace == OneInUse /\ PartsInPlace /\ Offline
SequentialInv == ~overlapped => OneInPlace

LEMMA SequentialStep ==
  ASSUME TypeOK, Progress, OneInPlace, [Next]_allVars, ~overlapped' PROVE OneInPlace'
<1> USE StationConnectionAssumption, CallsAre
    DEF SetPhase, SetDereg, SetSub, socketVars, brokerVars, connectVars, TypeOK,
        Progress, OneInPlace, Unused, Registering, Gone, SubsSettled, Queue
<1>1. CASE SendLookup /\ UNCHANGED connectVars
  <2>1. OneInUse'  BY <1>1 DEF SendLookup, OneInUse
  <2>2. PartsInPlace'  BY <1>1 DEF SendLookup, PartsInPlace
  <2>3. Offline'  BY <1>1 DEF SendLookup, Offline
  <2> QED BY <2>1, <2>2, <2>3
<1>2. CASE SendOrClose /\ UNCHANGED connectVars
  <2>1. OneInUse'  BY <1>2 DEF SendOrClose, OneInUse
  <2>2. PartsInPlace'  BY <1>2 DEF SendOrClose, PartsInPlace
  <2>3. Offline'  BY <1>2 DEF SendOrClose, Offline
  <2> QED BY <2>1, <2>2, <2>3
<1>3. ASSUME NEW k \in Sockets, Connect(k) PROVE OneInPlace'
  <2>1. OneInUse'
    <3>1. \A j \in Sockets : Unused(j)  BY <1>3 DEF Connect, Quiet
    <3> QED BY <1>3, <3>1 DEF Connect, OneInUse
  <2>2. PartsInPlace'
    <3>1. \A j \in Sockets : Unused(j)  BY <1>3 DEF Connect, Quiet
    <3> QED BY <1>3, <3>1 DEF Connect, PartsInPlace
  <2>3. Offline'
    <3>1. \A j \in Sockets : Unused(j)  BY <1>3 DEF Connect, Quiet
    <3> QED BY <1>3, <3>1 DEF Connect, Offline
  <2> QED BY <2>1, <2>2, <2>3
<1>4. ASSUME NEW k \in Sockets, CacheConnection(k), UNCHANGED connectVars PROVE OneInPlace'
  <2>1. OneInUse'
    BY <1>4 DEF CacheConnection, OneInUse
  <2>2. PartsInPlace'
    BY <1>4 DEF CacheConnection, OneInUse, PartsInPlace
  <2>3. Offline'
    BY <1>4 DEF CacheConnection, OneInUse, Offline
  <2> QED BY <2>1, <2>2, <2>3
<1>5. ASSUME NEW k \in Sockets, SetOnline(k), UNCHANGED connectVars PROVE OneInPlace'
  <2>1. OneInUse'
    BY <1>5 DEF SetOnline, OneInUse
  <2>2. PartsInPlace'
    BY <1>5 DEF SetOnline, OneInUse, PartsInPlace
  <2>3. Offline'
    BY <1>5 DEF SetOnline, OneInUse, Offline
  <2> QED BY <2>1, <2>2, <2>3
<1>6. ASSUME NEW k \in Sockets, Registered(k), UNCHANGED connectVars PROVE OneInPlace'
  <2>1. OneInUse'
    BY <1>6 DEF Registered, OneInUse
  <2>2. PartsInPlace'
    BY <1>6 DEF Registered, OneInUse, PartsInPlace
  <2>3. Offline'
    BY <1>6 DEF Registered, OneInUse, Offline
  <2> QED BY <2>1, <2>2, <2>3
<1>7. ASSUME NEW k \in Sockets, RegisterFails(k), UNCHANGED connectVars PROVE OneInPlace'
  <2>1. OneInUse'
    BY <1>7 DEF RegisterFails, OneInUse
  <2>2. PartsInPlace'
    BY <1>7 DEF RegisterFails, OneInUse, PartsInPlace
  <2>3. Offline'
    BY <1>7 DEF RegisterFails, OneInUse, Offline
  <2> QED BY <2>1, <2>2, <2>3
<1>8. ASSUME NEW k \in Sockets, NEW kind \in Kinds, SubscribeConsume(k, kind), UNCHANGED connectVars
      PROVE  OneInPlace'
  <2>1. OneInUse'
    BY <1>8 DEF SubscribeConsume, OneInUse
  <2>2. PartsInPlace'
    BY <1>8 DEF SubscribeConsume, OneInUse, PartsInPlace
  <2>3. Offline'
    BY <1>8 DEF SubscribeConsume, OneInUse, Offline
  <2> QED BY <2>1, <2>2, <2>3
<1>9. ASSUME NEW k \in Sockets, NEW kind \in Kinds, SubscribeWrite(k, kind), UNCHANGED connectVars
      PROVE  OneInPlace'
  <2>1. OneInUse'
    BY <1>9 DEF SubscribeWrite, OneInUse
  <2>2. PartsInPlace'
    BY <1>9 DEF SubscribeWrite, OneInUse, PartsInPlace
  <2>3. Offline'
    BY <1>9 DEF SubscribeWrite, OneInUse, Offline
  <2> QED BY <2>1, <2>2, <2>3
<1>10. ASSUME NEW k \in Sockets, NEW call \in Calls, CallFails(k, call), UNCHANGED connectVars
      PROVE  OneInPlace'
  <2>1. OneInUse'
    BY <1>10 DEF CallFails, OneInUse
  <2>2. PartsInPlace'
    BY <1>10 DEF CallFails, OneInUse, PartsInPlace
  <2>3. Offline'
    BY <1>10 DEF CallFails, OneInUse, Offline
  <2> QED BY <2>1, <2>2, <2>3
<1>11. ASSUME NEW k \in Sockets, PeerCloses(k), UNCHANGED connectVars PROVE OneInPlace'
  <2>1. OneInUse'
    BY <1>11 DEF PeerCloses, OneInUse
  <2>2. PartsInPlace'
    BY <1>11 DEF PeerCloses, OneInUse, PartsInPlace
  <2>3. Offline'
    BY <1>11 DEF PeerCloses, OneInUse, Offline
  <2> QED BY <2>1, <2>2, <2>3
<1>12. ASSUME NEW k \in Sockets, OnClose(k), UNCHANGED connectVars PROVE OneInPlace'
  <2>1. OneInUse'
    BY <1>12 DEF OnClose, OneInUse
  <2>2. PartsInPlace'
    BY <1>12 DEF OnClose, OneInUse, PartsInPlace
  <2>3. Offline'
    BY <1>12 DEF OnClose, OneInUse, Offline
  <2> QED BY <2>1, <2>2, <2>3
<1>13. ASSUME NEW k \in Sockets, DeregisterOffline(k), UNCHANGED connectVars PROVE OneInPlace'
  <2>1. OneInUse'
    BY <1>13 DEF DeregisterOffline, OneInUse
  <2>2. PartsInPlace'
    <3>0. k = latest  BY <1>13 DEF DeregisterOffline, OneInUse
    <3>1. \A j \in Sockets : j # k => Unused(j)
      BY ONLY <3>0, OneInPlace DEF OneInUse, OneInPlace
    <3>2. \A j \in Sockets : ~Registering(j)  BY <1>13, <3>1 DEF DeregisterOffline
    <3>3. phase' = phase /\ current' = current  BY <1>13 DEF DeregisterOffline
    <3> QED BY <3>2, <3>3 DEF PartsInPlace
  <2>3. Offline'
    BY <1>13 DEF DeregisterOffline, OneInUse, Offline
  <2> QED BY <2>1, <2>2, <2>3
<1>14. ASSUME NEW k \in Sockets, DeregisterFails(k), UNCHANGED connectVars PROVE OneInPlace'
  <2>1. OneInUse'
    BY <1>14 DEF DeregisterFails, OneInUse
  <2>2. PartsInPlace'
    BY <1>14 DEF DeregisterFails, OneInUse, PartsInPlace
  <2>3. Offline'
    BY <1>14 DEF DeregisterFails, OneInUse, Offline
  <2> QED BY <2>1, <2>2, <2>3
<1>15. ASSUME NEW k \in Sockets, UnsubscribeRead(k), UNCHANGED connectVars PROVE OneInPlace'
  <2>1. OneInUse'
    BY <1>15 DEF UnsubscribeRead, OneInUse
  <2>2. PartsInPlace'
    BY <1>15 DEF UnsubscribeRead, OneInUse, PartsInPlace
  <2>3. Offline'
    BY <1>15 DEF UnsubscribeRead, OneInUse, Offline
  <2> QED BY <2>1, <2>2, <2>3
<1>16. ASSUME NEW k \in Sockets, UnsubscribeDelete(k), UNCHANGED connectVars PROVE OneInPlace'
  <2>1. OneInUse'
    BY <1>16 DEF UnsubscribeDelete, OneInUse
  <2>2. PartsInPlace'
    <3>0. k = latest  BY <1>16 DEF UnsubscribeDelete, OneInUse
    <3>1. \A j \in Sockets : j # k => Unused(j)
      BY ONLY <3>0, OneInPlace DEF OneInUse, OneInPlace
    <3>2. \A j \in Sockets : ~Registering(j)  BY <1>16, <3>1 DEF UnsubscribeDelete
    <3>3. phase' = phase /\ current' = current  BY <1>16 DEF UnsubscribeDelete
    <3> QED BY <3>2, <3>3 DEF PartsInPlace
  <2>3. Offline'
    BY <1>16 DEF UnsubscribeDelete, OneInUse, Offline
  <2> QED BY <2>1, <2>2, <2>3
<1>17. ASSUME NEW k \in Sockets, UnsubscribeFails(k), UNCHANGED connectVars PROVE OneInPlace'
  <2>1. OneInUse'
    BY <1>17 DEF UnsubscribeFails, OneInUse
  <2>2. PartsInPlace'
    <3>0. k = latest  BY <1>17 DEF UnsubscribeFails, OneInUse
    <3>1. \A j \in Sockets : j # k => Unused(j)
      BY ONLY <3>0, OneInPlace DEF OneInUse, OneInPlace
    <3>2. \A j \in Sockets : ~Registering(j)  BY <1>17, <3>1 DEF UnsubscribeFails
    <3>3. phase' = phase /\ current' = current  BY <1>17 DEF UnsubscribeFails
    <3> QED BY <3>2, <3>3 DEF PartsInPlace
  <2>3. Offline'
    BY <1>17 DEF UnsubscribeFails, OneInUse, Offline
  <2> QED BY <2>1, <2>2, <2>3
<1>18. ASSUME NEW k \in Sockets, UnsubscribeForget(k), UNCHANGED connectVars PROVE OneInPlace'
  <2>1. OneInUse'
    BY <1>18 DEF UnsubscribeForget, OneInUse
  <2>2. PartsInPlace'
    BY <1>18 DEF UnsubscribeForget, OneInUse, PartsInPlace
  <2>3. Offline'
    BY <1>18 DEF UnsubscribeForget, OneInUse, Offline
  <2> QED BY <2>1, <2>2, <2>3
<1>19. CASE UNCHANGED allVars  BY <1>19 DEF allVars, vars, OneInUse, PartsInPlace, Offline
<1> QED BY ONLY [Next]_allVars, <1>1, <1>2, <1>3, <1>4, <1>5, <1>6, <1>7, <1>8, <1>9,
             <1>10, <1>11, <1>12, <1>13, <1>14, <1>15, <1>16, <1>17, <1>18, <1>19
           DEF Next, ServerNext, SocketNext, Finished, allVars

LEMMA SequentialHolds == Spec => []SequentialInv
<1>1. Init => SequentialInv
  BY StationConnectionAssumption
     DEF Init, SequentialInv, OneInPlace, OneInUse, PartsInPlace, Offline, Unused, Registering
<1>2. [Next]_allVars /\ overlapped => overlapped'
  BY DEF Next, Connect, allVars, connectVars
<1>3. TypeOK /\ TraceInv /\ SequentialInv /\ [Next]_allVars => SequentialInv'
  BY <1>2, SequentialStep DEF SequentialInv, TraceInv
<1> QED BY <1>1, <1>3, TypeCorrect, TraceHolds, PTL DEF Spec

(* Without overlapping connections, a station with a healthy registered    *)
(* connection can be reached, whatever became of its earlier connections,  *)
(* their registrations and their deregistrations.                          *)
THEOREM SequentialReachable == Spec => []OpenIsReachable
<1>1. TypeOK /\ TraceInv /\ SequentialInv => OpenIsReachable
  BY DEF OpenIsReachable, Healthy, SequentialInv, OneInPlace, PartsInPlace, Registering,
         TraceInv, Progress, Calls
<1> QED BY <1>1, TypeCorrect, TraceHolds, SequentialHolds, PTL

(* A station whose connections are all closed and deregistered is offline  *)
(* everywhere, however many it made and however they overlapped; so is one *)
(* whose connections did not overlap when its latest is deregistered,      *)
(* whatever calls failed before.                                           *)
THEOREM OfflineAtLast == Spec => []OfflineWhenGone
<1>1. TypeOK /\ TraceInv /\ AllDeregistered => ~connEntry /\ current = None /\ ~online
  BY DEF TypeOK, TraceInv, Progress, OnlineInv, EntryInv, CurrentInv, NotMarked, AllDeregistered,
         Calls
<1>2. TypeOK /\ TraceInv /\ SequentialInv /\ Cleaned => ~connEntry /\ current = None /\ ~online
  BY DEF TypeOK, TraceInv, Progress, SequentialInv, OneInPlace, Offline, Cleaned
<1> QED BY <1>1, <1>2, TypeCorrect, TraceHolds, SequentialHolds, PTL DEF OfflineWhenGone

-----------------------------------------------------------------------------
(* What is consumed is in the cached list, was overwritten there, or is    *)
(* about to be added ...                                                   *)
NameKept(q) ==
  \/ q \in cachedQueues \union lost
  \/ \E kind \in Kinds : sub[q[1]][kind] = "consuming" /\ q = Queue(q[1], kind)
NamesKept == \A q \in queues : NameKept(q)

(* ... so that the latest connection, when it has deleted what it read     *)
(* there, leaves only what was overwritten.                                *)
QueuesDeleted ==
  \A k \in Sockets : k = latest =>
    /\ dereg[k] = "delete" => queues \subseteq deregRead[k] \union lost
    /\ dereg[k] \in {"forget", "done"} => queues \subseteq lost

QueuesInPlace == NamesKept /\ QueuesDeleted
QueuesInv == ~overlapped => QueuesInPlace

LEMMA NamesStable ==
  ASSUME TypeOK, NamesKept, queues' \subseteq queues, lost \subseteq lost',
         cachedQueues \subseteq cachedQueues' \union lost',
         \A k \in Sockets, kind \in Kinds : sub[k][kind] = "consuming" =>
           sub'[k][kind] = "consuming" /\ split'[k] = split[k]
  PROVE  NamesKept'
<1> SUFFICES ASSUME NEW q \in queues' PROVE NameKept(q)'
  BY DEF NamesKept
<1>1. q[1] \in Sockets
  BY DEF TypeOK, Queues
<1> QED BY <1>1 DEF NamesKept, NameKept, Queue

LEMMA QueuesStep ==
  ASSUME TypeOK, Progress, OneInPlace, QueuesInPlace, [Next]_allVars, ~overlapped'
  PROVE  QueuesInPlace'
<1> USE StationConnectionAssumption, CallsAre
    DEF SetPhase, SetDereg, SetSub, socketVars, brokerVars, connectVars, TypeOK,
        Progress, OneInPlace, OneInUse, Unused, Gone, SubsSettled, Queue, Queues, QueuesInPlace
<1>1. CASE SendLookup /\ UNCHANGED connectVars
  <2>1. NamesKept'
    BY <1>1, NamesStable DEF SendLookup
  <2>2. QueuesDeleted'  BY <1>1 DEF SendLookup, QueuesDeleted
  <2> QED BY <2>1, <2>2
<1>2. CASE SendOrClose /\ UNCHANGED connectVars
  <2>1. NamesKept'
    BY <1>2, NamesStable DEF SendOrClose
  <2>2. QueuesDeleted'  BY <1>2 DEF SendOrClose, QueuesDeleted
  <2> QED BY <2>1, <2>2
<1>3. ASSUME NEW k \in Sockets, Connect(k) PROVE QueuesInPlace'
  <2>1. NamesKept'
    BY <1>3, NamesStable DEF Connect
  <2>2. QueuesDeleted'
    BY <1>3 DEF Connect, Quiet, QueuesDeleted
  <2> QED BY <2>1, <2>2
<1>4. ASSUME NEW k \in Sockets, CacheConnection(k), UNCHANGED connectVars PROVE QueuesInPlace'
  <2>1. NamesKept'
    BY <1>4, NamesStable DEF CacheConnection
  <2>2. QueuesDeleted'
    BY <1>4 DEF CacheConnection, QueuesDeleted
  <2> QED BY <2>1, <2>2
<1>5. ASSUME NEW k \in Sockets, SetOnline(k), UNCHANGED connectVars PROVE QueuesInPlace'
  <2>1. NamesKept'
    BY <1>5, NamesStable DEF SetOnline
  <2>2. QueuesDeleted'
    BY <1>5 DEF SetOnline, QueuesDeleted
  <2> QED BY <2>1, <2>2
<1>6. ASSUME NEW k \in Sockets, Registered(k), UNCHANGED connectVars PROVE QueuesInPlace'
  <2>1. NamesKept'
    BY <1>6, NamesStable DEF Registered
  <2>2. QueuesDeleted'
    BY <1>6 DEF Registered, QueuesDeleted
  <2> QED BY <2>1, <2>2
<1>7. ASSUME NEW k \in Sockets, RegisterFails(k), UNCHANGED connectVars PROVE QueuesInPlace'
  <2>1. NamesKept'
    BY <1>7, NamesStable DEF RegisterFails
  <2>2. QueuesDeleted'
    BY <1>7 DEF RegisterFails, QueuesDeleted
  <2> QED BY <2>1, <2>2
<1>8. ASSUME NEW k \in Sockets, NEW kind \in Kinds, SubscribeConsume(k, kind), UNCHANGED connectVars
      PROVE  QueuesInPlace'
  <2>1. NamesKept'
    BY <1>8 DEF SubscribeConsume, NamesKept, NameKept
  <2>2. QueuesDeleted'
    <3>1. phase[k] # "closed" /\ phase[k] # "caching"  BY <1>8 DEF SubscribeConsume
    <3>2. k = latest  BY <1>8 DEF SubscribeConsume
    <3> QED BY <1>8, <3>1, <3>2 DEF SubscribeConsume, QueuesDeleted
  <2> QED BY <2>1, <2>2
<1>9. ASSUME NEW k \in Sockets, NEW kind \in Kinds, SubscribeWrite(k, kind), UNCHANGED connectVars
      PROVE  QueuesInPlace'
  <2>1. NamesKept'
    BY <1>9 DEF SubscribeWrite, NamesKept, NameKept
  <2>2. QueuesDeleted'
    BY <1>9 DEF SubscribeWrite, QueuesDeleted
  <2> QED BY <2>1, <2>2
<1>10. ASSUME NEW k \in Sockets, NEW call \in Calls, CallFails(k, call), UNCHANGED connectVars
      PROVE  QueuesInPlace'
  <2>1. NamesKept'
    BY <1>10, NamesStable DEF CallFails
  <2>2. QueuesDeleted'
    BY <1>10 DEF CallFails, QueuesDeleted
  <2> QED BY <2>1, <2>2
<1>11. ASSUME NEW k \in Sockets, PeerCloses(k), UNCHANGED connectVars PROVE QueuesInPlace'
  <2>1. NamesKept'
    BY <1>11, NamesStable DEF PeerCloses
  <2>2. QueuesDeleted'
    BY <1>11 DEF PeerCloses, QueuesDeleted
  <2> QED BY <2>1, <2>2
<1>12. ASSUME NEW k \in Sockets, OnClose(k), UNCHANGED connectVars PROVE QueuesInPlace'
  <2>1. NamesKept'
    BY <1>12, NamesStable DEF OnClose
  <2>2. QueuesDeleted'
    BY <1>12 DEF OnClose, QueuesDeleted
  <2> QED BY <2>1, <2>2
<1>13. ASSUME NEW k \in Sockets, DeregisterOffline(k), UNCHANGED connectVars PROVE QueuesInPlace'
  <2>1. NamesKept'
    BY <1>13, NamesStable DEF DeregisterOffline
  <2>2. QueuesDeleted'
    BY <1>13 DEF DeregisterOffline, QueuesDeleted
  <2> QED BY <2>1, <2>2
<1>14. ASSUME NEW k \in Sockets, DeregisterFails(k), UNCHANGED connectVars PROVE QueuesInPlace'
  <2>1. NamesKept'
    BY <1>14, NamesStable DEF DeregisterFails
  <2>2. QueuesDeleted'
    BY <1>14 DEF DeregisterFails, QueuesDeleted
  <2> QED BY <2>1, <2>2
<1>15. ASSUME NEW k \in Sockets, UnsubscribeRead(k), UNCHANGED connectVars PROVE QueuesInPlace'
  <2>1. NamesKept'
    BY <1>15, NamesStable DEF UnsubscribeRead
  <2>2. QueuesDeleted'
    <3>1. k = latest /\ phase[k] = "closed"  BY <1>15 DEF UnsubscribeRead
    <3>2. \A j \in Sockets, kind \in Kinds : sub[j][kind] # "consuming"
      BY <1>15, <3>1 DEF UnsubscribeRead
    <3>3. \A q \in queues : q[1] \in Sockets
      OBVIOUS
    <3>4. queues \subseteq cachedQueues \union lost
      BY <3>2, <3>3 DEF NamesKept, NameKept
    <3> QED BY <1>15, <3>4 DEF UnsubscribeRead, QueuesDeleted
  <2> QED BY <2>1, <2>2
<1>16. ASSUME NEW k \in Sockets, UnsubscribeDelete(k), UNCHANGED connectVars PROVE QueuesInPlace'
  <2>1. NamesKept'
    BY <1>16, NamesStable DEF UnsubscribeDelete
  <2>2. QueuesDeleted'
    BY <1>16 DEF UnsubscribeDelete, QueuesDeleted
  <2> QED BY <2>1, <2>2
<1>17. ASSUME NEW k \in Sockets, UnsubscribeFails(k), UNCHANGED connectVars PROVE QueuesInPlace'
  <2>1. NamesKept'
    BY <1>17, NamesStable DEF UnsubscribeFails
  <2>2. QueuesDeleted'
    BY <1>17 DEF UnsubscribeFails, QueuesDeleted
  <2> QED BY <2>1, <2>2
<1>18. ASSUME NEW k \in Sockets, UnsubscribeForget(k), UNCHANGED connectVars PROVE QueuesInPlace'
  <2>1. NamesKept'
    <3>1. queues \subseteq lost /\ queues' = queues /\ lost' = lost
      BY <1>18 DEF UnsubscribeForget, QueuesDeleted
    <3> QED BY <3>1 DEF NamesKept, NameKept
  <2>2. QueuesDeleted'
    BY <1>18 DEF UnsubscribeForget, QueuesDeleted
  <2> QED BY <2>1, <2>2
<1>19. CASE UNCHANGED allVars  BY <1>19 DEF allVars, vars, NamesKept, QueuesDeleted, NameKept
<1> QED BY ONLY [Next]_allVars, <1>1, <1>2, <1>3, <1>4, <1>5, <1>6, <1>7, <1>8, <1>9,
             <1>10, <1>11, <1>12, <1>13, <1>14, <1>15, <1>16, <1>17, <1>18, <1>19
           DEF Next, ServerNext, SocketNext, Finished, allVars

LEMMA QueuesHold == Spec => []QueuesInv
<1>1. Init => QueuesInv
  BY StationConnectionAssumption DEF Init, QueuesInv, QueuesInPlace, NamesKept, QueuesDeleted
<1>2. [Next]_allVars /\ overlapped => overlapped'
  BY DEF Next, Connect, allVars, connectVars
<1>3. TypeOK /\ TraceInv /\ SequentialInv /\ QueuesInv /\ [Next]_allVars => QueuesInv'
  BY <1>2, QueuesStep DEF QueuesInv, SequentialInv, TraceInv
<1> QED BY <1>1, <1>3, TypeCorrect, TraceHolds, SequentialHolds, PTL DEF Spec

(* Without overlapping connections, a station whose latest connection is   *)
(* deregistered leaves no queue behind but those whose name a subscription *)
(* overwrote, whatever calls failed before.                                *)
THEOREM QueuesRemoved == Spec => []NoOrphanQueues
<1>1. TypeOK /\ QueuesInv => NoOrphanQueues
  BY StationConnectionAssumption DEF NoOrphanQueues, Cleaned, TypeOK, QueuesInv, QueuesInPlace,
         QueuesDeleted
<1> QED BY <1>1, TypeCorrect, QueuesHold, PTL

-----------------------------------------------------------------------------
(* When it left none behind before it connected, no message comes for it   *)
(* until its connection is in the cache.                                   *)
NoMessageYet ==
  /\ ~connEntry => current = None \/ (phase[current] = "caching" /\ queues = {})
  /\ send = "absent" => current = None
NobodyClosed == \A k \in Sockets : closedBy[k] # "server"
Kept == NoMessageYet /\ NobodyClosed
KeptInv == ~overlapped /\ ~residue => Kept

LEMMA KeptStep ==
  ASSUME TypeOK, Progress, OneInPlace, Kept, [Next]_allVars, ~overlapped', ~residue'
  PROVE  Kept'
<1> USE StationConnectionAssumption, CallsAre
    DEF SetPhase, SetDereg, SetSub, socketVars, brokerVars, connectVars, TypeOK,
        Progress, OneInPlace, OneInUse, Unused, Gone, SubsSettled, Kept
<1>1. CASE SendLookup /\ UNCHANGED connectVars
  <2>1. NoMessageYet'  BY <1>1 DEF SendLookup, NoMessageYet
  <2>2. NobodyClosed'  BY <1>1 DEF SendLookup, NobodyClosed
  <2> QED BY <2>1, <2>2
<1>2. CASE SendOrClose /\ UNCHANGED connectVars
  <2>1. NoMessageYet'
    BY <1>2 DEF SendOrClose, NoMessageYet
  <2>2. NobodyClosed'
    BY <1>2 DEF SendOrClose, NobodyClosed, NoMessageYet
  <2> QED BY <2>1, <2>2
<1>3. ASSUME NEW k \in Sockets, Connect(k) PROVE Kept'
  <2>1. NoMessageYet'  BY <1>3 DEF Connect, NoMessageYet
  <2>2. NobodyClosed'  BY <1>3 DEF Connect, NobodyClosed
  <2> QED BY <2>1, <2>2
<1>4. ASSUME NEW k \in Sockets, CacheConnection(k), UNCHANGED connectVars PROVE Kept'
  <2>1. NoMessageYet'
    BY <1>4 DEF CacheConnection, NoMessageYet
  <2>2. NobodyClosed'
    BY <1>4 DEF CacheConnection, NobodyClosed, NoMessageYet
  <2> QED BY <2>1, <2>2
<1>5. ASSUME NEW k \in Sockets, SetOnline(k), UNCHANGED connectVars PROVE Kept'
  <2>1. NoMessageYet'
    BY <1>5 DEF SetOnline, NoMessageYet
  <2>2. NobodyClosed'
    BY <1>5 DEF SetOnline, NobodyClosed, NoMessageYet
  <2> QED BY <2>1, <2>2
<1>6. ASSUME NEW k \in Sockets, Registered(k), UNCHANGED connectVars PROVE Kept'
  <2>1. NoMessageYet'
    BY <1>6 DEF Registered, NoMessageYet
  <2>2. NobodyClosed'
    BY <1>6 DEF Registered, NobodyClosed, NoMessageYet
  <2> QED BY <2>1, <2>2
<1>7. ASSUME NEW k \in Sockets, RegisterFails(k), UNCHANGED connectVars PROVE Kept'
  <2>1. NoMessageYet'
    BY <1>7 DEF RegisterFails, NoMessageYet
  <2>2. NobodyClosed'
    BY <1>7 DEF RegisterFails, NobodyClosed, NoMessageYet
  <2> QED BY <2>1, <2>2
<1>8. ASSUME NEW k \in Sockets, NEW kind \in Kinds, SubscribeConsume(k, kind), UNCHANGED connectVars
      PROVE  Kept'
  <2>1. NoMessageYet'
    <3>1. phase[k] # "closed" /\ phase[k] # "caching"  BY <1>8 DEF SubscribeConsume
    <3>2. k = latest  BY <1>8 DEF SubscribeConsume
    <3>3. current \in Sockets => phase[current] # "caching"
      BY <3>1, <3>2
    <3>4. ~connEntry => current = None
      BY <3>3 DEF NoMessageYet
    <3> QED BY <1>8, <3>4 DEF SubscribeConsume, NoMessageYet
  <2>2. NobodyClosed'
    BY <1>8 DEF SubscribeConsume, NobodyClosed, NoMessageYet
  <2> QED BY <2>1, <2>2
<1>9. ASSUME NEW k \in Sockets, NEW kind \in Kinds, SubscribeWrite(k, kind), UNCHANGED connectVars
      PROVE  Kept'
  <2>1. NoMessageYet'
    BY <1>9 DEF SubscribeWrite, NoMessageYet
  <2>2. NobodyClosed'
    BY <1>9 DEF SubscribeWrite, NobodyClosed, NoMessageYet
  <2> QED BY <2>1, <2>2
<1>10. ASSUME NEW k \in Sockets, NEW call \in Calls, CallFails(k, call), UNCHANGED connectVars
      PROVE  Kept'
  <2>1. NoMessageYet'
    BY <1>10 DEF CallFails, NoMessageYet
  <2>2. NobodyClosed'
    BY <1>10 DEF CallFails, NobodyClosed, NoMessageYet
  <2> QED BY <2>1, <2>2
<1>11. ASSUME NEW k \in Sockets, PeerCloses(k), UNCHANGED connectVars PROVE Kept'
  <2>1. NoMessageYet'
    BY <1>11 DEF PeerCloses, NoMessageYet
  <2>2. NobodyClosed'
    BY <1>11 DEF PeerCloses, NobodyClosed, NoMessageYet
  <2> QED BY <2>1, <2>2
<1>12. ASSUME NEW k \in Sockets, OnClose(k), UNCHANGED connectVars PROVE Kept'
  <2>1. NoMessageYet'
    BY <1>12 DEF OnClose, NoMessageYet
  <2>2. NobodyClosed'
    BY <1>12 DEF OnClose, NobodyClosed, NoMessageYet
  <2> QED BY <2>1, <2>2
<1>13. ASSUME NEW k \in Sockets, DeregisterOffline(k), UNCHANGED connectVars PROVE Kept'
  <2>1. NoMessageYet'
    BY <1>13 DEF DeregisterOffline, NoMessageYet
  <2>2. NobodyClosed'
    BY <1>13 DEF DeregisterOffline, NobodyClosed, NoMessageYet
  <2> QED BY <2>1, <2>2
<1>14. ASSUME NEW k \in Sockets, DeregisterFails(k), UNCHANGED connectVars PROVE Kept'
  <2>1. NoMessageYet'
    BY <1>14 DEF DeregisterFails, NoMessageYet
  <2>2. NobodyClosed'
    BY <1>14 DEF DeregisterFails, NobodyClosed, NoMessageYet
  <2> QED BY <2>1, <2>2
<1>15. ASSUME NEW k \in Sockets, UnsubscribeRead(k), UNCHANGED connectVars PROVE Kept'
  <2>1. NoMessageYet'
    BY <1>15 DEF UnsubscribeRead, NoMessageYet
  <2>2. NobodyClosed'
    BY <1>15 DEF UnsubscribeRead, NobodyClosed, NoMessageYet
  <2> QED BY <2>1, <2>2
<1>16. ASSUME NEW k \in Sockets, UnsubscribeDelete(k), UNCHANGED connectVars PROVE Kept'
  <2>1. NoMessageYet'
    BY <1>16 DEF UnsubscribeDelete, NoMessageYet
  <2>2. NobodyClosed'
    BY <1>16 DEF UnsubscribeDelete, NobodyClosed, NoMessageYet
  <2> QED BY <2>1, <2>2
<1>17. ASSUME NEW k \in Sockets, UnsubscribeFails(k), UNCHANGED connectVars PROVE Kept'
  <2>1. NoMessageYet'
    BY <1>17 DEF UnsubscribeFails, NoMessageYet
  <2>2. NobodyClosed'
    BY <1>17 DEF UnsubscribeFails, NobodyClosed, NoMessageYet
  <2> QED BY <2>1, <2>2
<1>18. ASSUME NEW k \in Sockets, UnsubscribeForget(k), UNCHANGED connectVars PROVE Kept'
  <2>1. NoMessageYet'
    BY <1>18 DEF UnsubscribeForget, NoMessageYet
  <2>2. NobodyClosed'
    BY <1>18 DEF UnsubscribeForget, NobodyClosed, NoMessageYet
  <2> QED BY <2>1, <2>2
<1>19. CASE UNCHANGED allVars  BY <1>19 DEF allVars, vars, NoMessageYet, NobodyClosed
<1> QED BY ONLY [Next]_allVars, <1>1, <1>2, <1>3, <1>4, <1>5, <1>6, <1>7, <1>8, <1>9,
             <1>10, <1>11, <1>12, <1>13, <1>14, <1>15, <1>16, <1>17, <1>18, <1>19
           DEF Next, ServerNext, SocketNext, Finished, allVars

(* Under the same condition, and when no queue was left behind as it       *)
(* connected, the server closes no connection for not having found it.     *)
THEOREM HealthyAreKept == Spec => []HealthyKept
<1>1. Init => KeptInv
  BY StationConnectionAssumption DEF Init, KeptInv, Kept, NoMessageYet, NobodyClosed
<1>2. /\ [Next]_allVars /\ overlapped => overlapped'
      /\ [Next]_allVars /\ residue => residue'
  <2>1. [Next]_allVars /\ overlapped => overlapped'
    BY DEF Next, Connect, allVars, connectVars
  <2>2. [Next]_allVars /\ residue => residue'
    BY DEF Next, Connect, allVars, connectVars
  <2> QED BY <2>1, <2>2
<1>3. TypeOK /\ TraceInv /\ SequentialInv /\ KeptInv /\ [Next]_allVars => KeptInv'
  BY <1>2, KeptStep DEF KeptInv, SequentialInv, TraceInv
<1>4. KeptInv => HealthyKept
  BY DEF KeptInv, Kept, NobodyClosed, HealthyKept
<1> QED BY <1>1, <1>3, <1>4, TypeCorrect, TraceHolds, SequentialHolds, PTL DEF Spec
===============================================================================
