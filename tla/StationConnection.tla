--------------------------- MODULE StationConnection ---------------------------
(***************************************************************************)
(* The connection of one station: WebsocketNetworkConnection (_onConnection*)
(* the close handler, sendMessage), MessageRouterImpl.registerConnection   *)
(* and deregisterConnection, and RabbitMqReceiver.subscribe / unsubscribe. *)
(*                                                                         *)
(* All of it is keyed by the station's identifier and none of it by the    *)
(* socket, while a station may come back on a new socket before the server *)
(* has noticed, or finished, the end of the old one.                       *)
(*                                                                         *)
(* Nothing handles the rejection of a deregisterConnection that throws: it *)
(* stops where it is.  Where Node.js then ends the process, as it does by  *)
(* default, sockets, queues and cache go with it, and the next process     *)
(* starts in Init, with what the database said.  The cache does not fail.  *)
(***************************************************************************)
EXTENDS Naturals, FiniteSets

CONSTANTS
  Sockets,      \* the connections the station makes, each used once
  None,
  MaxFailures   \* bound: calls of the broker or the database that fail

ASSUME StationConnectionAssumption == None \notin Sockets /\ MaxFailures \in Nat

Kinds == {"request", "response"}      \* the two subscriptions of a connection
Calls == Kinds \union {"online"}      \* what registerConnection does, side by side
Queues == Sockets \X Kinds

VARIABLES
  phase,       \* progress of each socket in _onConnection
  closedBy,    \* who closed the socket: nobody yet, the peer, or the server
  sub,         \* progress of each call of its registration
  split,       \* does the clock tick between its two subscriptions?
  dereg,       \* progress of its deregisterConnection
  current,     \* _identifierConnections.get(identifier)
  connEntry,   \* is there an entry in CacheNamespace.Connections?
  online,      \* chargingStation.isOnline in the database
  queues,      \* queues consumed by this instance
  cachedQueues,\* the queue names in the receiver's cache
  subRead,     \* names a subscription has read and not yet written back
  deregRead,   \* names a deregistration has read
  send,        \* absent: a sendMessage in progress has not found the connection
  failures,    \* calls that have failed
  \* History:
  lost,        \* names that a subscription overwrote in the cache, before an overlap
  latest,      \* the socket that connected last
  overlapped,  \* has it connected before its last connection was cleaned up?
  residue      \* has it connected while earlier queues were still consumed?

vars == <<phase, closedBy, sub, split, dereg, current, connEntry, online,
          queues, cachedQueues, subRead, deregRead, send, failures, lost>>

socketVars == <<phase, closedBy, split>>
brokerVars == <<queues, cachedQueues, subRead, lost>>
connectVars == <<latest, overlapped, residue>>
allVars == <<vars, connectVars>>

(* Queue names are rabbit_queue_<identifier>_<Date.now()>: subscriptions   *)
(* made in the same millisecond share a queue.                             *)
Queue(k, kind) == <<k, IF split[k] THEN kind ELSE "request">>

TypeOK ==
  /\ phase \in [Sockets -> {"new", "caching", "registering", "open", "closed", "rejected"}]
  /\ closedBy \in [Sockets -> {"nobody", "peer", "server"}]
  /\ sub \in [Sockets -> [Calls -> {"none", "started", "consuming", "done", "failed"}]]
  /\ split \in [Sockets -> BOOLEAN]
  /\ dereg \in [Sockets -> {"none", "offline", "lookup", "delete", "forget", "done", "failed"}]
  /\ current \in Sockets \union {None}
  /\ connEntry \in BOOLEAN /\ online \in BOOLEAN
  /\ queues \subseteq Queues /\ cachedQueues \subseteq Queues
  /\ subRead \in [Sockets -> [Kinds -> SUBSET Queues]]
  /\ deregRead \in [Sockets -> SUBSET Queues]
  /\ send \in {"idle", "absent"}
  /\ failures \in 0..MaxFailures
  /\ lost \subseteq Queues /\ latest \in Sockets \union {None}
  /\ overlapped \in BOOLEAN /\ residue \in BOOLEAN

Init ==
  /\ phase = [k \in Sockets |-> "new"]
  /\ closedBy = [k \in Sockets |-> "nobody"]
  /\ sub = [k \in Sockets |-> [call \in Calls |-> "none"]]
  /\ split = [k \in Sockets |-> FALSE]
  /\ dereg = [k \in Sockets |-> "none"]
  /\ current = None /\ connEntry = FALSE /\ online \in BOOLEAN
  /\ queues = {} /\ cachedQueues = {}
  /\ subRead = [k \in Sockets |-> [kind \in Kinds |-> {}]]
  /\ deregRead = [k \in Sockets |-> {}]
  /\ send = "idle" /\ failures = 0
  /\ lost = {} /\ latest = None /\ overlapped = FALSE /\ residue = FALSE

SetPhase(k, from, to) == phase[k] = from /\ phase' = [phase EXCEPT ![k] = to]
SetDereg(k, from, to) == dereg[k] = from /\ dereg' = [dereg EXCEPT ![k] = to]
SetSub(k, call, from, to) ==
  sub[k][call] = from /\ sub' = [sub EXCEPT ![k][call] = to]

(* A call of the broker or the database fails. *)
Fails == failures < MaxFailures /\ failures' = failures + 1

(* The server has nothing left to do for the socket. *)
SubsSettled(k) == \A call \in Calls : sub[k][call] \in {"none", "done", "failed"}
Gone(k) == \/ phase[k] = "closed" /\ dereg[k] \in {"done", "failed"}
           \/ phase[k] = "rejected" /\ SubsSettled(k)
Quiet == \A k \in Sockets : phase[k] = "new" \/ Gone(k)

-----------------------------------------------------------------------------
(* Connecting. *)

(* A connection is cached under createIdentifier(tenantId, stationId); the *)
(* ConnectedStationFilter looks the bare station id of the URL up.         *)
ConnectionKey == <<"tenantId", "stationId">>
FilterKey == <<"stationId">>
AlreadyConnected == FilterKey = ConnectionKey /\ connEntry

(* The upgrade request passes the authenticator, and _onConnection runs up *)
(* to its first await.  Which of the unused sockets it is makes no         *)
(* difference.                                                             *)
Connect(k) ==
  /\ ~AlreadyConnected
  /\ SetPhase(k, "new", "caching")
  /\ k = CHOOSE j \in Sockets : phase[j] = "new"
  /\ current' = k /\ latest' = k
  /\ overlapped' = (overlapped \/ ~Quiet \/ send # "idle")
  /\ residue' = (residue \/ queues # {})
  /\ UNCHANGED <<closedBy, split, sub, dereg, connEntry, online, brokerVars, deregRead,
                 send, failures>>

\* Mutant: the connection is put in the cache once it is registered.
CacheConnectionLater(k) ==
  /\ SetPhase(k, "caching", "registering")
  /\ sub' = [sub EXCEPT ![k] = [call \in Calls |-> "started"]]
  /\ \E tick \in BOOLEAN : split' = [split EXCEPT ![k] = tick]
  /\ UNCHANGED <<closedBy, dereg, current, connEntry, online, brokerVars,
                 deregRead, send, failures>>

(* cache.set of the connection, then registerConnection starts its calls.  *)
CacheConnection(k) ==
  /\ SetPhase(k, "caching", "registering")
  /\ connEntry' = TRUE
  /\ sub' = [sub EXCEPT ![k] = [call \in Calls |-> "started"]]
  /\ \E tick \in BOOLEAN : split' = [split EXCEPT ![k] = tick]
  /\ UNCHANGED <<closedBy, dereg, current, online, brokerVars, deregRead, send, failures>>

(* subscribe: assert, bind and consume the queue, and read the list of     *)
(* queue names from the cache ...                                          *)
SubscribeConsume(k, kind) ==
  /\ SetSub(k, kind, "started", "consuming")
  /\ queues' = queues \union {Queue(k, kind)}
  /\ subRead' = [subRead EXCEPT ![k][kind] = cachedQueues]
  /\ UNCHANGED <<socketVars, dereg, current, connEntry, online, cachedQueues, lost, deregRead,
                 send, failures>>

(* ... and write it back with the new name. *)
SubscribeWrite(k, kind) ==
  /\ SetSub(k, kind, "consuming", "done")
  /\ cachedQueues' = subRead[k][kind] \union {Queue(k, kind)}
  /\ lost' = IF overlapped THEN lost ELSE lost \union (cachedQueues \ cachedQueues')
  /\ subRead' = [subRead EXCEPT ![k][kind] = {}]
  /\ UNCHANGED <<socketVars, dereg, current, connEntry, online, queues,
                 deregRead, send, failures>>

(* setChargingStationIsOnlineAndOCPPVersion(true), beside the subscriptions. *)
SetOnline(k) ==
  /\ SetSub(k, "online", "started", "done")
  /\ online' = TRUE
  /\ UNCHANGED <<socketVars, dereg, current, connEntry, brokerVars, deregRead, send, failures>>

(* One of these calls throws: RabbitMQ is down ("cannot subscribe"), the   *)
(* channel fails, or the database does.                                    *)
CallFails(k, call) ==
  /\ SetSub(k, call, "started", "failed")
  /\ Fails
  /\ UNCHANGED <<socketVars, dereg, current, connEntry, online, brokerVars, deregRead, send>>

\* Mutant: registration is over as soon as the station is online.
RegisteredEarly(k) ==
  /\ sub[k]["online"] = "done"
  /\ SetPhase(k, "registering", "open")
  /\ UNCHANGED <<closedBy, split, sub, dereg, current, connEntry, online, brokerVars,
                 deregRead, send, failures>>

(* All four are done: the event handlers are installed, the socket resumed. *)
Registered(k) ==
  /\ \A call \in Calls : sub[k][call] = "done"
  /\ SetPhase(k, "registering", "open")
  /\ UNCHANGED <<closedBy, split, sub, dereg, current, connEntry, online, brokerVars,
                 deregRead, send, failures>>

\* Mutant: only a registration that failed altogether is a failure.
RegisterFailsAll(k) ==
  /\ \A call \in Calls : sub[k][call] = "failed"
  /\ SetPhase(k, "registering", "rejected")
  /\ UNCHANGED <<closedBy, split, sub, dereg, current, connEntry, online, brokerVars,
                 deregRead, send, failures>>

(* One of them failed: the socket is closed, without a close handler. *)
RegisterFails(k) ==
  /\ \E call \in Calls : sub[k][call] = "failed"
  /\ SetPhase(k, "registering", "rejected")
  /\ UNCHANGED <<closedBy, split, sub, dereg, current, connEntry, online, brokerVars,
                 deregRead, send, failures>>

-----------------------------------------------------------------------------
(* Disconnecting. *)

(* The station or the network ends the connection.  A socket paused during *)
(* registration emits 'close' only after it has been resumed: until then   *)
(* nothing knows of it.                                                    *)
PeerCloses(k) ==
  /\ phase[k] = "open" /\ closedBy[k] = "nobody"
  /\ closedBy' = [closedBy EXCEPT ![k] = "peer"]
  /\ UNCHANGED <<phase, split, sub, dereg, current, connEntry, online, brokerVars,
                 deregRead, send, failures>>

\* Mutant: the cache entry is removed only when the map still has the socket.
OnCloseCurrentOnly(k) ==
  /\ closedBy[k] # "nobody"
  /\ SetPhase(k, "open", "closed")
  /\ SetDereg(k, "none", "offline")
  /\ connEntry' = (connEntry /\ current # k)
  /\ current' = None
  /\ UNCHANGED <<closedBy, split, sub, online, brokerVars, deregRead, send, failures>>

(* The close handler. *)
OnClose(k) ==
  /\ closedBy[k] # "nobody"
  /\ SetPhase(k, "open", "closed")
  /\ SetDereg(k, "none", "offline")
  /\ connEntry' = FALSE
  /\ current' = None
  /\ UNCHANGED <<closedBy, split, sub, online, brokerVars, deregRead, send, failures>>

(* deregisterConnection: the station is marked offline ... *)
DeregisterOffline(k) ==
  /\ SetDereg(k, "offline", "lookup")
  /\ online' = FALSE
  /\ UNCHANGED <<socketVars, sub, current, connEntry, brokerVars, deregRead, send, failures>>

(* ... or the database fails, and its queues are never unsubscribed ...    *)
DeregisterFails(k) ==
  /\ SetDereg(k, "offline", "failed")
  /\ Fails
  /\ UNCHANGED <<socketVars, sub, current, connEntry, online, brokerVars, deregRead, send>>

(* ... then unsubscribe reads the cached queue names ... *)
UnsubscribeRead(k) ==
  /\ SetDereg(k, "lookup", IF cachedQueues = {} THEN "done" ELSE "delete")
  /\ deregRead' = [deregRead EXCEPT ![k] = cachedQueues]
  /\ UNCHANGED <<socketVars, sub, current, connEntry, online, brokerVars, send, failures>>

\* Mutant: the queues are unbound but not deleted.
UnsubscribeUnbindOnly(k) ==
  /\ SetDereg(k, "delete", "forget")
  /\ UNCHANGED <<socketVars, sub, current, connEntry, online, brokerVars, deregRead,
                 send, failures>>

(* ... deletes these queues, whichever connection made them ...            *)
UnsubscribeDelete(k) ==
  /\ SetDereg(k, "delete", "forget")
  /\ queues' = queues \ deregRead[k]
  /\ deregRead' = [deregRead EXCEPT ![k] = {}]
  /\ UNCHANGED <<socketVars, sub, current, connEntry, online, cachedQueues, subRead, lost, send,
                 failures>>

(* ... or throws before one of them (RabbitMQ is down: "cannot             *)
(* unsubscribe", or the channel fails), leaving it and the list ...        *)
UnsubscribeFails(k) ==
  /\ SetDereg(k, "delete", "failed")
  /\ Fails
  /\ \E left \in SUBSET deregRead[k] \ {{}} : queues' = queues \ (deregRead[k] \ left)
  /\ deregRead' = [deregRead EXCEPT ![k] = {}]
  /\ UNCHANGED <<socketVars, sub, current, connEntry, online, cachedQueues, subRead, lost, send>>

(* ... and removes the whole list from the cache. *)
UnsubscribeForget(k) ==
  /\ SetDereg(k, "forget", "done")
  /\ cachedQueues' = {}
  /\ UNCHANGED <<socketVars, sub, current, connEntry, online, queues, subRead, lost, deregRead,
                 send, failures>>

-----------------------------------------------------------------------------
(* sendMessage, for a message that came in through one of the queues: the  *)
(* connection is looked up in the cache.  When it is there the message     *)
(* goes to the identifier's socket, which changes nothing here ...         *)
SendLookup ==
  /\ send = "idle" /\ queues # {} /\ ~connEntry
  /\ send' = "absent"
  /\ UNCHANGED <<socketVars, sub, dereg, current, connEntry, online, brokerVars,
                 deregRead, failures>>

(* ... otherwise that socket is closed. *)
SendOrClose ==
  /\ send = "absent"
  /\ send' = "idle"
  /\ closedBy' = IF /\ current # None
                    /\ closedBy[current] = "nobody" /\ phase[current] # "rejected"
                 THEN [closedBy EXCEPT ![current] = "server"]
                 ELSE closedBy
  /\ UNCHANGED <<phase, split, sub, dereg, current, connEntry, online, brokerVars,
                 deregRead, failures>>

-----------------------------------------------------------------------------
SocketNext(k) ==
  \/ CacheConnection(k) \/ SetOnline(k) \/ Registered(k) \/ RegisterFails(k)
  \/ \E kind \in Kinds : SubscribeConsume(k, kind) \/ SubscribeWrite(k, kind)
  \/ \E call \in Calls : CallFails(k, call)
  \/ PeerCloses(k) \/ OnClose(k) \/ DeregisterOffline(k) \/ DeregisterFails(k)
  \/ UnsubscribeRead(k) \/ UnsubscribeDelete(k) \/ UnsubscribeFails(k) \/ UnsubscribeForget(k)

(* The station has made all its connections and they are over. *)
Finished == (\A k \in Sockets : Gone(k)) /\ send = "idle" /\ UNCHANGED vars

ServerNext == SendLookup \/ SendOrClose \/ Finished \/ \E k \in Sockets : SocketNext(k)

Next == \/ \E k \in Sockets : Connect(k)
        \/ ServerNext /\ UNCHANGED connectVars

(* Every started asynchronous call comes back, unless it fails; nothing    *)
(* makes a station connect, disconnect, or makes a message arrive for it.  *)
Fairness ==
  /\ WF_vars(SendOrClose)
  /\ \A k \in Sockets :
       /\ WF_vars(CacheConnection(k)) /\ WF_vars(SetOnline(k))
       /\ WF_vars(Registered(k)) /\ WF_vars(RegisterFails(k)) /\ WF_vars(OnClose(k))
       /\ WF_vars(DeregisterOffline(k)) /\ WF_vars(UnsubscribeRead(k))
       /\ WF_vars(UnsubscribeDelete(k)) /\ WF_vars(UnsubscribeForget(k))
       /\ \A kind \in Kinds : /\ WF_vars(SubscribeConsume(k, kind))
                              /\ WF_vars(SubscribeWrite(k, kind))

Spec == Init /\ [][Next]_allVars /\ Fairness

-----------------------------------------------------------------------------
(* Properties. *)

Healthy(k) == phase[k] = "open" /\ closedBy[k] = "nobody"

(* A station whose connections did not overlap can be reached on a healthy,*)
(* registered one: the cache, the socket map and the database say so and   *)
(* both its queues are consumed ("... so that a rapid connect-disconnect   *)
(* cannot result in race condition", registerConnection).                  *)
OpenIsReachable ==
  ~overlapped => \A k \in Sockets : Healthy(k) =>
    /\ connEntry /\ current = k /\ online
    /\ \A kind \in Kinds : Queue(k, kind) \in queues

(* A station that is connected is not given a second connection ("should   *)
(* reject when station is already connected", ConnectedStationFilter).     *)
OneConnection == \A j, k \in Sockets : Healthy(j) /\ Healthy(k) => j = k

(* Messages for a station are no longer consumed when it has disconnected  *)
(* (IMessageHandler: unsubscribe "when a connection drops"): a queue left  *)
(* behind takes messages away from the instance the station goes to next.  *)
(* When its last connection is deregistered, that holds of its earlier     *)
(* connections too, also those whose registration or deregistration        *)
(* failed half way, unless its connections overlapped; and except for a    *)
(* queue whose name one subscription overwrote while it stored another     *)
(* (two queues, where the clock ticks between the subscriptions).          *)
Cleaned == ~overlapped /\ Quiet /\ latest # None /\ dereg[latest] = "done"
NoOrphanQueues == Cleaned => queues \subseteq lost

(* However its connections overlapped, a station whose connections are all *)
(* closed and deregistered is offline, in the cache, the socket map and    *)
(* the database; so is one whose connections did not overlap when its last *)
(* one is deregistered, although earlier ones failed to.                   *)
AllDeregistered ==
  /\ \A k \in Sockets : phase[k] = "new" \/ (phase[k] = "closed" /\ dereg[k] = "done")
  /\ \E k \in Sockets : phase[k] = "closed"
OfflineWhenGone == AllDeregistered \/ Cleaned => ~connEntry /\ current = None /\ ~online

(* The server does not close a connection because it could not find it:    *)
(* without overlap sendMessage closes only sockets whose station is gone,  *)
(* unless a queue was left behind, through which a message comes before    *)
(* the new connection is in the cache.                                     *)
HealthyKept == ~overlapped /\ ~residue => \A k \in Sockets : closedBy[k] # "server"

(* Every connection is decided: it opens, or it is turned away, and the    *)
(* deregistration of one that closes goes on until it is done or has       *)
(* failed.                                                                 *)
Undecided(k) == \/ phase[k] \in {"caching", "registering"}
                \/ phase[k] = "closed" /\ dereg[k] \notin {"done", "failed"}
ConnectionsDecided == \A k \in Sockets : Undecided(k) ~> ~Undecided(k)
===============================================================================
