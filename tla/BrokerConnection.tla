---------------------------- MODULE BrokerConnection ----------------------------
(***************************************************************************)
(* The connection of a RabbitMqSender or RabbitMqReceiver to the broker:   *)
(* _connectWithRetry, the reconnect interval, the listeners and            *)
(* _handleDisconnect, which are the same code in both, driven by the       *)
(* CircuitBreaker each of them owns.                                       *)
(*                                                                         *)
(* Every success that ends a failure starts one more _connectWithRetry,    *)
(* and the interval starts others beside those that are still retrying, so *)
(* several run at once and share _connection and _channel.  A run and the  *)
(* connection it makes have one name; a run that fails retries under it.   *)
(* Connections that were replaced are never closed: those with listeners   *)
(* still have a say, and of them the model keeps the states, not how many. *)
(*                                                                         *)
(* The listeners go to whatever _connection is when the channel is made,   *)
(* so a connection that was overtaken by another run has none.             *)
(*                                                                         *)
(* Nothing closes these breakers (CircuitBreaker.close is only called by   *)
(* the router on a breaker of its own), so state CLOSED is left out.       *)
(***************************************************************************)
EXTENDS Naturals, FiniteSets, BrokerConstants

VARIABLES
  up,          \* is the broker up and reachable?
  run,         \* what each run of _connectWithRetry awaits
  conn,        \* its connection; broken: lost, but the event is still to come
  listened,    \* the connections with 'close' and 'error' listeners
  replaced,    \* states of connections with listeners whose name was used again
  connection,  \* _connection
  channel,     \* _channel, named after the run that made it
  alone,       \* what of it was lost alone: its connection, or the channel itself
  overtaken,   \* history: was _connection another one when it was made?
  breaker,     \* state of the CircuitBreaker
  interval     \* is _reconnectInterval set?

fields == <<connection, channel, alone, overtaken>>
links == <<conn, listened, replaced>>
vars == <<up, run, links, fields, breaker, interval>>

TypeOK ==
  /\ up \in BOOLEAN /\ interval \in BOOLEAN
  /\ run \in [Runs -> {"idle", "connect", "createChannel", "sleep"}]
  /\ conn \in [Runs -> {"none", "live", "broken"}]
  /\ listened \subseteq Runs /\ replaced \subseteq {"live", "broken"}
  /\ connection \in Runs \union {Undefined} /\ channel \in Runs \union {Undefined}
  /\ alone \in {"nothing", "connection", "channel"} /\ overtaken \in BOOLEAN
  /\ breaker \in {"OPEN", "FAILING"}

(* The constructor of the sender, or initConnection of the receiver, has   *)
(* started the first run.                                                  *)
FirstRun == {[x \in Runs |-> IF x = r THEN "connect" ELSE "idle"] : r \in Runs}

Init ==
  /\ up \in BOOLEAN
  /\ run \in FirstRun
  /\ conn = [r \in Runs |-> "none"] /\ listened = {} /\ replaced = {}
  /\ connection = Undefined /\ channel = Undefined
  /\ alone = "nothing" /\ overtaken = FALSE
  /\ breaker = "OPEN" /\ interval = FALSE

Active(r) == run[r] # "idle"

(* _connectWithRetry is called, and gets a name that is not in use. *)
Start(runs, r) ==
  /\ ~Active(r) /\ connection # r
  /\ run' = [runs EXCEPT ![r] = "connect"]
  /\ conn' = [conn EXCEPT ![r] = "none"]
  /\ replaced' = IF r \in listened /\ conn[r] # "none" THEN replaced \union {conn[r]}
                 ELSE replaced

-----------------------------------------------------------------------------
(* CircuitBreaker, with the callback of the sender or receiver. *)

\* Mutant: a failure does not start the interval.
TriggerFailureWaits == breaker' = "FAILING" /\ UNCHANGED interval

(* triggerFailure: OPEN becomes FAILING, which starts the interval. *)
TriggerFailure ==
  /\ breaker' = "FAILING"
  /\ interval' = IF breaker = "OPEN" THEN TRUE ELSE interval

\* Mutant: the OPEN callback does not connect once more.
TriggerSuccessStops(r) ==
  /\ breaker' = "OPEN" /\ interval' = IF breaker = "OPEN" THEN interval ELSE FALSE
  /\ run' = [run EXCEPT ![r] = "idle"]
  /\ UNCHANGED <<conn, replaced>>

(* triggerSuccess of a run that is done: FAILING becomes OPEN, which stops *)
(* the interval and starts a further run.                                  *)
TriggerSuccess(r) ==
  \/ /\ breaker = "OPEN"
     /\ run' = [run EXCEPT ![r] = "idle"]
     /\ UNCHANGED <<conn, replaced, breaker, interval>>
  \/ /\ breaker = "FAILING"
     /\ breaker' = "OPEN" /\ interval' = FALSE
     /\ \E s \in Runs \ {r} : Start([run EXCEPT ![r] = "idle"], s)

-----------------------------------------------------------------------------
(* _connectWithRetry. *)

(* amqplib.connect succeeds: _connection is the new connection ... *)
ConnectOk(r) ==
  /\ up /\ run[r] = "connect" /\ run' = [run EXCEPT ![r] = "createChannel"]
  /\ conn' = [conn EXCEPT ![r] = "live"]
  /\ listened' = listened \ {r}
  /\ connection' = r
  /\ UNCHANGED <<up, replaced, channel, alone, overtaken, breaker, interval>>

(* ... or fails; the run sleeps for a second. *)
ConnectFails(r) ==
  /\ ~up /\ run[r] = "connect" /\ run' = [run EXCEPT ![r] = "sleep"]
  /\ TriggerFailure
  /\ UNCHANGED <<up, links, fields>>

(* _setupConnectionListeners: of whatever _connection is by now. *)
SetupConnectionListeners ==
  listened' = IF connection = Undefined THEN listened ELSE listened \union {connection}

(* createChannel succeeds, the breaker is told, and _channel is set. *)
ChannelOk(r) ==
  /\ run[r] = "createChannel" /\ conn[r] = "live"
  /\ SetupConnectionListeners
  /\ TriggerSuccess(r)
  /\ channel' = r /\ alone' = "nothing" /\ overtaken' = (connection # r)
  /\ UNCHANGED <<up, connection>>

(* createChannel fails, because the connection was lost. *)
ChannelFails(r) ==
  /\ run[r] = "createChannel" /\ conn[r] = "none"
  /\ run' = [run EXCEPT ![r] = "sleep"]
  /\ TriggerFailure
  /\ UNCHANGED <<up, links, fields>>

Retry(r) ==
  /\ run[r] = "sleep" /\ run' = [run EXCEPT ![r] = "connect"]
  /\ UNCHANGED <<up, links, fields, breaker, interval>>

(* The interval of _startReconnectInterval starts one more run.  (Bound:   *)
(* only while enough names are left for it and for the OPEN callback.)     *)
IntervalFires ==
  /\ interval /\ Cardinality({r \in Runs : ~Active(r)}) >= 3
  /\ \E r \in Runs \ {channel} : Start(run, r)
  /\ UNCHANGED <<up, listened, fields, breaker, interval>>

-----------------------------------------------------------------------------
(* Losing the connection. *)

(* The broker, or the network to it, fails: every connection is lost. *)
BrokerDown ==
  /\ up /\ up' = FALSE
  /\ conn' = [r \in Runs |-> IF conn[r] = "live" THEN "broken" ELSE conn[r]]
  /\ replaced' = IF "live" \in replaced THEN {"broken"} ELSE replaced
  /\ UNCHANGED <<run, listened, fields, breaker, interval>>

(* One connection alone is lost: the broker closes it, or its socket fails. *)
ConnectionLost(r) ==
  /\ up /\ conn[r] = "live" /\ conn' = [conn EXCEPT ![r] = "broken"]
  /\ alone' = IF r = channel THEN "connection" ELSE alone
  /\ UNCHANGED <<up, run, listened, replaced, connection, channel, overtaken, breaker, interval>>

ReplacedLost ==
  /\ up /\ "live" \in replaced
  /\ \E rest \in {{}, {"live"}} : replaced' = {"broken"} \union rest
  /\ UNCHANGED <<up, run, conn, listened, fields, breaker, interval>>

(* The broker closes the channel in use.  Its 'error' listener only logs:  *)
(* _channel stays.                                                         *)
ChannelCloses ==
  /\ channel # Undefined /\ conn[channel] = "live" /\ alone = "nothing"
  /\ alone' = "channel"
  /\ UNCHANGED <<up, run, links, connection, channel, overtaken, breaker, interval>>

BrokerUp ==
  /\ ~up /\ up' = TRUE
  /\ UNCHANGED <<run, links, fields, breaker, interval>>

\* Mutant: a disconnect is not reported to the breaker.
HandleDisconnectQuietly ==
  /\ connection' = Undefined /\ channel' = Undefined /\ alone' = "nothing" /\ overtaken' = FALSE
  /\ UNCHANGED <<breaker, interval>>

(* _handleDisconnect forgets connection and channel, whichever was lost. *)
HandleDisconnect ==
  /\ connection' = Undefined /\ channel' = Undefined /\ alone' = "nothing" /\ overtaken' = FALSE
  /\ TriggerFailure

(* Node.js handles the 'close' or 'error' event of a lost connection.      *)
(* Without listeners a 'close' is not heard.                               *)
CloseEvent(r) ==
  /\ conn[r] = "broken" /\ conn' = [conn EXCEPT ![r] = "none"]
  /\ \/ r \in listened /\ HandleDisconnect
     \/ r \notin listened /\ UNCHANGED <<fields, breaker, interval>>
  /\ listened' = listened \ {r}
  /\ UNCHANGED <<up, run, replaced>>

(* An 'error' without listeners ends the process; it is started again.     *)
UnhandledError(r) ==
  /\ conn[r] = "broken" /\ r \notin listened
  /\ run' \in FirstRun
  /\ conn' = [s \in Runs |-> "none"] /\ listened' = {} /\ replaced' = {}
  /\ connection' = Undefined /\ channel' = Undefined /\ alone' = "nothing" /\ overtaken' = FALSE
  /\ breaker' = "OPEN" /\ interval' = FALSE
  /\ UNCHANGED up

(* The event of a replaced connection, which may be the last of them. *)
ReplacedEvent(last) ==
  /\ "broken" \in replaced
  /\ replaced' = IF last THEN replaced \ {"broken"} ELSE replaced
  /\ HandleDisconnect
  /\ UNCHANGED <<up, run, conn, listened>>

-----------------------------------------------------------------------------
RunNext(r) ==
  \/ ConnectOk(r) \/ ConnectFails(r) \/ ChannelOk(r) \/ ChannelFails(r) \/ Retry(r)
  \/ CloseEvent(r) \/ UnhandledError(r) \/ ConnectionLost(r)

Next ==
  \/ IntervalFires \/ BrokerDown \/ BrokerUp \/ ReplacedLost \/ ChannelCloses
  \/ \E last \in BOOLEAN : ReplacedEvent(last)
  \/ \E r \in Runs : RunNext(r)

(* amqplib's promises settle, events arrive and timers fire; the broker,   *)
(* connections and channels go and come as they like.                      *)
Fairness ==
  /\ WF_vars(IntervalFires) /\ WF_vars(ReplacedEvent(TRUE))
  /\ \A r \in Runs :
       /\ WF_vars(ConnectOk(r)) /\ WF_vars(ConnectFails(r)) /\ WF_vars(ChannelOk(r))
       /\ WF_vars(ChannelFails(r)) /\ WF_vars(Retry(r)) /\ WF_vars(CloseEvent(r))

Spec == Init /\ [][Next]_vars /\ Fairness

-----------------------------------------------------------------------------
(* Properties. *)

Reconnecting == interval \/ \E r \in Runs : Active(r)

(* An endpoint without a channel is working on getting one: a callback of  *)
(* an older connection that clears _channel, or an interval that another   *)
(* run stopped, never leaves it without.                                   *)
DownIsRetried == channel = Undefined \/ breaker = "FAILING" => Reconnecting

EventToCome == "broken" \in replaced \/ \E r \in listened : conn[r] = "broken"
OnDeadConnection == channel # Undefined /\ conn[channel] # "live"

(* What the comments of _setupConnectionListeners ("This will handle       *)
(* disconnections and errors") and _handleDisconnect ("attempt to          *)
(* reconnect to RabbitMQ when the connection is lost") promise: an         *)
(* endpoint never sits on the channel of a lost connection unaware.        *)
LossIsHandled == OnDeadConnection => Reconnecting \/ EventToCome

(* It does only when that connection was lost alone, and only if another   *)
(* run had set _connection before the run that made the channel could      *)
(* attach the listeners: connections that are lost together, although some *)
(* have no listeners, are noticed by one that has.                         *)
LossIsNoticed ==
  OnDeadConnection => Reconnecting \/ EventToCome \/ (alone = "connection" /\ overtaken)

(* When the broker stays up, and no more connections or channels are lost  *)
(* alone, the endpoint ends up with a channel on a live connection and     *)
(* keeps it, unless nothing listens to the one it has.                     *)
LossAlone == (\E r \in Runs : ConnectionLost(r)) \/ ReplacedLost \/ ChannelCloses
Working == channel # Undefined /\ conn[channel] = "live" /\ alone # "channel"
Unheard == alone = "channel" \/ (alone = "connection" /\ overtaken)
Recovers == <>[]up /\ <>[][~LossAlone]_vars => <>[](Working \/ Unheard)
===============================================================================
