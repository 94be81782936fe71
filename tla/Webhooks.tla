-------------------------------- MODULE Webhooks -------------------------------
(***************************************************************************)
(* The webhook dispatcher of the router: the subscriptions of one station  *)
(* as they are kept in memory while it is connected, and the OCPPMessage   *)
(* rows of its messages.                                                   *)
(*                                                                         *)
(* The router starts register and deregister with each connection and does *)
(* not await deregister, which a connection whose registration failed      *)
(* never comes to; a timer reloads the subscriptions.  A message is stored *)
(* beside its handling: the result of a call may be stored before the call *)
(* is, although it takes its action from the call's row.                   *)
(***************************************************************************)
EXTENDS Naturals

CONSTANTS
  MaxConnections, \* bound on the connections of the station
  MaxVersion,     \* bound on the changes of its subscriptions
  Exchanges,      \* calls with their results
  None

Connections == 1..MaxConnections
Versions == 0..MaxVersion
Sides == {"call", "result"}
OtherSide(side) == IF side = "call" THEN "result" ELSE "call"

VARIABLES
  subscriptions, \* the Subscription rows of the station, as a version
  identified,    \* is the station among _identifiers?
  callbacks,     \* the callbacks in memory: the version they are of, or None
  registration,  \* per connection: how far its register is, or deregister after it
  abandoned,     \* the connections closed because their registration failed
  refresh,       \* the reload the timer has started
  raced,         \* history: the connection met something still running
  changed,       \* history: subscriptions changed since they were last read
  message,       \* per exchange and side: how far it is stored, and with which action
  failedLoad     \* history: the connection could not load its subscriptions

connectionVars == <<subscriptions, identified, callbacks, registration, refresh,
                    abandoned, raced, changed, failedLoad>>
webhookVars == <<connectionVars, message>>

Load == [pc : {"none", "reading", "read", "connected", "open", "closing", "closed"},
         seen : Versions]
Message == [pc : {"none", "sent", "looked", "stored", "lost"},
            found : BOOLEAN, action : BOOLEAN]  \* action: is it known?

TypeOK ==
  /\ subscriptions \in Versions /\ identified \in BOOLEAN
  /\ callbacks \in Versions \union {None}
  /\ registration \in [Connections -> Load] /\ refresh \in Load
  /\ abandoned \subseteq Connections
  /\ raced \in BOOLEAN /\ changed \in BOOLEAN /\ failedLoad \in BOOLEAN
  /\ message \in [Exchanges -> [Sides -> Message]]

NoLoad == [pc |-> "none", seen |-> 0]
NoMessage == [pc |-> "none", found |-> FALSE, action |-> FALSE]

Init ==
  /\ subscriptions = 0 /\ identified = FALSE /\ callbacks = None
  /\ registration = [k \in Connections |-> NoLoad] /\ refresh = NoLoad
  /\ abandoned = {} /\ raced = FALSE /\ changed = FALSE /\ failedLoad = FALSE
  /\ message = [x \in Exchanges |-> [side \in Sides |-> NoMessage]]

Running ==
  \/ refresh # NoLoad
  \/ \E k \in Connections : registration[k].pc \notin {"none", "open", "closed"}

-----------------------------------------------------------------------------
(* Connections. *)

(* registerConnection of the next connection; those before are closed or   *)
(* closing.                                                                *)
StartRegister(k) ==
  /\ registration[k].pc = "none"
  /\ \A j \in Connections :
       j < k => registration[j].pc \in {"closing", "closed"} \/ j \in abandoned
  /\ registration' = [registration EXCEPT ![k].pc = "reading"]
  /\ raced' = Running /\ failedLoad' = FALSE
  /\ UNCHANGED <<subscriptions, identified, callbacks, refresh, changed, abandoned,
                 message>>

(* _loadSubscriptionsForConnection reads the subscriptions ... *)
ReadSubscriptions(k) ==
  /\ registration[k].pc = "reading"
  /\ registration' = [registration EXCEPT ![k] = [pc |-> "read", seen |-> subscriptions]]
  /\ changed' = FALSE
  /\ UNCHANGED <<subscriptions, identified, callbacks, refresh, raced, failedLoad,
                 abandoned, message>>

(* ... which may fail: register is given up, the connection is not ... *)
LoadFails(k) ==
  /\ registration[k].pc = "reading"
  /\ registration' = [registration EXCEPT ![k].pc = "open"]
  /\ failedLoad' = TRUE
  /\ UNCHANGED <<subscriptions, identified, callbacks, refresh, raced, changed,
                 abandoned, message>>

(* ... and sets the callbacks; those for the connection are awaited ... *)
SetCallbacks(k) ==
  /\ registration[k].pc = "read"
  /\ callbacks' = registration[k].seen
  /\ registration' = [registration EXCEPT ![k] = [pc |-> "connected", seen |-> 0]]
  /\ UNCHANGED <<subscriptions, identified, refresh, raced, changed, failedLoad,
                 abandoned, message>>

(* ... and the station is one to refresh. *)
AddIdentifier(k) ==
  /\ registration[k].pc = "connected"
  /\ identified' = TRUE
  /\ registration' = [registration EXCEPT ![k].pc = "open"]
  /\ UNCHANGED <<subscriptions, callbacks, refresh, raced, changed, failedLoad,
                 abandoned, message>>

(* Another call of registerConnection failed: _onConnection closes the     *)
(* socket without a deregisterConnection, and register goes on.            *)
CloseUnregistered(k) ==
  /\ registration[k].pc \in {"reading", "read", "connected", "open"} /\ k \notin abandoned
  /\ abandoned' = abandoned \union {k}
  /\ UNCHANGED <<subscriptions, identified, callbacks, registration, refresh,
                 raced, changed, failedLoad, message>>

(* deregisterConnection calls the callbacks for the close ... *)
StartDeregister(k) ==
  /\ registration[k].pc = "open" /\ k \notin abandoned
  /\ registration' = [registration EXCEPT ![k].pc = "closing"]
  /\ raced' = (raced \/ Running)
  /\ UNCHANGED <<subscriptions, identified, callbacks, refresh, changed, failedLoad,
                 abandoned, message>>

\* Mutant: the callbacks are kept.
KeepCallbacks(k) ==
  /\ registration[k].pc = "closing"
  /\ registration' = [registration EXCEPT ![k].pc = "closed"]
  /\ identified' = FALSE
  /\ UNCHANGED <<subscriptions, callbacks, refresh, raced, changed, failedLoad,
                 abandoned, message>>

(* ... and drops all there is of the station. *)
DropCallbacks(k) ==
  /\ registration[k].pc = "closing"
  /\ registration' = [registration EXCEPT ![k].pc = "closed"]
  /\ identified' = FALSE /\ callbacks' = None
  /\ UNCHANGED <<subscriptions, refresh, raced, changed, failedLoad, abandoned, message>>

-----------------------------------------------------------------------------
(* The timer, and the API. *)

StartRefresh ==
  /\ identified /\ refresh = NoLoad
  /\ refresh' = [pc |-> "reading", seen |-> 0]
  /\ raced' = (raced \/ Running)
  /\ UNCHANGED <<subscriptions, identified, callbacks, registration, changed,
                 failedLoad, abandoned, message>>

RefreshReads ==
  /\ refresh.pc = "reading"
  /\ refresh' = [pc |-> "read", seen |-> subscriptions]
  /\ changed' = FALSE
  /\ UNCHANGED <<subscriptions, identified, callbacks, registration, raced,
                 failedLoad, abandoned, message>>

RefreshSets ==
  /\ refresh.pc = "read"
  /\ callbacks' = refresh.seen
  /\ refresh' = NoLoad
  /\ UNCHANGED <<subscriptions, identified, registration, raced, changed,
                 failedLoad, abandoned, message>>

(* postSubscription and deleteSubscriptionById change the rows only. *)
ChangeSubscriptions ==
  /\ subscriptions < MaxVersion
  /\ subscriptions' = subscriptions + 1
  /\ changed' = TRUE
  /\ UNCHANGED <<identified, callbacks, registration, refresh, raced, failedLoad,
                 abandoned, message>>

-----------------------------------------------------------------------------
(* Messages: dispatchMessageSent and dispatchMessageReceived. *)

(* A result is on its way only after its call, whose handling may still    *)
(* have to store it.                                                       *)
SendMessage(x, side) ==
  /\ message[x][side].pc = "none"
  /\ side = "result" => message[x]["call"].pc # "none"
  /\ message' = [message EXCEPT ![x][side].pc = "sent"]
  /\ UNCHANGED connectionVars

(* In a transaction the other message of the exchange is looked up ... *)
FindRelated(x, side) ==
  /\ message[x][side].pc = "sent"
  /\ message' = [message EXCEPT ![x][side].pc = "looked",
                                ![x][side].found = message[x][OtherSide(side)].pc = "stored"]
  /\ UNCHANGED connectionVars

\* Mutant: a result that came first is left as it is.
StoreMessageOnly(x, side) ==
  /\ message[x][side].pc = "looked"
  /\ message' = [message EXCEPT ![x][side] =
                   [pc |-> "stored", found |-> @.found, action |-> (side = "call" \/ @.found)]]
  /\ UNCHANGED connectionVars

(* ... a result takes its action from the call, a call gives it to a       *)
(* result without one; the message is stored.                              *)
StoreMessage(x, side) ==
  /\ message[x][side].pc = "looked"
  /\ message' = [message EXCEPT
       ![x] = [s \in Sides |->
         IF s = side
         THEN [pc |-> "stored", found |-> @[s].found, action |-> (side = "call" \/ @[s].found)]
         ELSE IF side = "call" /\ @[side].found THEN [@[s] EXCEPT !.action = TRUE] ELSE @[s]]]
  /\ UNCHANGED connectionVars

(* When any of it fails, all is rolled back, and logged. *)
Rollback(x, side) ==
  /\ message[x][side].pc \in {"sent", "looked"}
  /\ message' = [message EXCEPT ![x][side] = [NoMessage EXCEPT !.pc = "lost"]]
  /\ UNCHANGED connectionVars

-----------------------------------------------------------------------------
Next ==
  \/ \E k \in Connections :
       \/ StartRegister(k) \/ ReadSubscriptions(k) \/ LoadFails(k) \/ SetCallbacks(k)
       \/ AddIdentifier(k) \/ CloseUnregistered(k) \/ StartDeregister(k) \/ DropCallbacks(k)
  \/ StartRefresh \/ RefreshReads \/ RefreshSets \/ ChangeSubscriptions
  \/ \E x \in Exchanges, side \in Sides :
       \/ SendMessage(x, side) \/ FindRelated(x, side)
       \/ StoreMessage(x, side) \/ Rollback(x, side)

Spec == Init /\ [][Next]_webhookVars

-----------------------------------------------------------------------------
(* Properties. *)

Open == \E k \in Connections : registration[k].pc = "open" /\ k \notin abandoned

(* A later connection was deregistered, and took along what the abandoned  *)
(* ones had left.                                                          *)
Cleaned == \A k \in abandoned : \E j \in Connections : j > k /\ registration[j].pc = "closed"

(* When nothing runs, a connected station has the callbacks of its         *)
(* subscriptions, as they were last read, and is refreshed, and one that   *)
(* is not has none: if its registration did not meet the end of the last   *)
(* connection or a refresh, and its subscriptions were loaded.  Only what  *)
(* a failed registration leaves behind stays until a later connection has  *)
(* been deregistered.                                                      *)
SubscriptionsInEffect ==
  ~Running /\ ~raced /\ ~failedLoad =>
    /\ Open => identified /\ callbacks # None
    /\ Open /\ ~changed => callbacks = subscriptions
    /\ ~Open /\ Cleaned => ~identified /\ callbacks = None

(* Both messages of an exchange are stored with its action, whichever is   *)
(* stored first: unless each was looked up before the other was stored.    *)
ActionKnown ==
  \A x \in Exchanges :
    /\ \A side \in Sides : message[x][side].pc = "stored"
    /\ \E side \in Sides : message[x][side].found
    => \A side \in Sides : message[x][side].action
===============================================================================
