-------------------------- MODULE ConnectionHeartbeat --------------------------
(***************************************************************************)
(* Ping and pong on the websockets of one station: _ping, the 'pong' and   *)
(* the 'close' handlers of WebsocketNetworkConnection.                     *)
(*                                                                         *)
(* A socket is pinged pingInterval after it opened or last answered, and   *)
(* closed when it does not answer within pingInterval.  The timer of the   *)
(* answer is kept in _pingTimeouts under the station's identifier, which   *)
(* successive sockets of the station share, and the timer of the next ping *)
(* is kept nowhere.  Time is counted in ticks; callbacks take none.        *)
(***************************************************************************)
EXTENDS Integers, FiniteSets, HeartbeatConstants

Off == -1                \* the timer is not set
Timer == Off .. Interval \* ticks left

VARIABLES
  phase,     \* of each socket: closing once close() or the peer ended it
  alive,     \* does the station still answer on the socket?
  pingIn,    \* timer until the next ping
  pongIn,    \* timer until the socket is given up
  pinged,    \* a ping is unanswered
  pinging,   \* the ping callback has read the connection entry
  ponging,   \* the pong handler has read it
  stored,    \* the socket whose timer _pingTimeouts has for the station
  connEntry, \* the station has an entry in CacheNamespace.Connections
  rested     \* history: sockets opened when no timer of an earlier one was left

vars == <<phase, alive, pingIn, pongIn, pinged, pinging, ponging, stored, connEntry, rested>>

Lookup == {"none", "found", "absent"}
LookedUp == IF connEntry THEN "found" ELSE "absent"

TypeOK ==
  /\ phase \in [Sockets -> {"new", "open", "closing", "closed"}]
  /\ alive \in [Sockets -> BOOLEAN] /\ pinged \in [Sockets -> BOOLEAN]
  /\ pingIn \in [Sockets -> Timer] /\ pongIn \in [Sockets -> Timer]
  /\ pinging \in [Sockets -> Lookup] /\ ponging \in [Sockets -> Lookup]
  /\ stored \in Sockets \union {NoSocket}
  /\ connEntry \in BOOLEAN
  /\ rested \subseteq Sockets

Init ==
  /\ phase = [k \in Sockets |-> "new"]
  /\ alive = [k \in Sockets |-> TRUE] /\ pinged = [k \in Sockets |-> FALSE]
  /\ pingIn = [k \in Sockets |-> Off] /\ pongIn = [k \in Sockets |-> Off]
  /\ pinging = [k \in Sockets |-> "none"] /\ ponging = [k \in Sockets |-> "none"]
  /\ stored = NoSocket
  /\ connEntry = FALSE
  /\ rested = {}

Close(k) == IF phase[k] = "open" THEN [phase EXCEPT ![k] = "closing"] ELSE phase

(* clearTimeout of what _pingTimeouts has, and delete. *)
ClearStored ==
  /\ pongIn' = IF stored = NoSocket THEN pongIn ELSE [pongIn EXCEPT ![stored] = Off]
  /\ stored' = NoSocket

TimersLeft == \E j \in Sockets : pingIn[j] # Off \/ pongIn[j] # Off
InCallback == \E k \in Sockets : pinging[k] # "none" \/ ponging[k] # "none"
Due == \E k \in Sockets : pingIn[k] = 0 \/ pongIn[k] = 0

(* A new connection, made after the last one has been closed. *)
Open(k) ==
  /\ \A j \in Sockets : phase[j] \in {"new", "closed"}
  /\ phase[k] = "new" /\ phase' = [phase EXCEPT ![k] = "open"]
  /\ connEntry' = TRUE
  /\ pingIn' = [pingIn EXCEPT ![k] = Interval]
  /\ rested' = IF TimersLeft \/ InCallback THEN rested ELSE rested \union {k}
  /\ UNCHANGED <<alive, pongIn, pinged, pinging, ponging, stored>>

(* _ping's timer: the connection is looked up ... *)
PingDue(k) ==
  /\ pingIn[k] = 0 /\ pingIn' = [pingIn EXCEPT ![k] = Off]
  /\ pinging' = [pinging EXCEPT ![k] = LookedUp]
  /\ UNCHANGED <<phase, alive, pongIn, pinged, ponging, stored, connEntry, rested>>

(* ... then the ping is sent (a closed socket drops it silently) and the   *)
(* pong timer started and stored, or the socket is closed.                 *)
SendPing(k) ==
  /\ pinging[k] # "none" /\ pinging' = [pinging EXCEPT ![k] = "none"]
  /\ \/ /\ pinging[k] = "found"
        /\ pinged' = IF phase[k] = "open" THEN [pinged EXCEPT ![k] = TRUE] ELSE pinged
        /\ pongIn' = [pongIn EXCEPT ![k] = Interval]
        /\ stored' = k
        /\ UNCHANGED phase
     \/ /\ pinging[k] = "absent"
        /\ phase' = Close(k)
        /\ UNCHANGED <<pinged, pongIn, stored>>
  /\ UNCHANGED <<alive, pingIn, ponging, connEntry, rested>>

\* Mutant: the pong handler forgets to clear the timer.
OnPongKeepsTimer(k) ==
  /\ phase[k] = "open" /\ alive[k] /\ pinged[k]
  /\ pinged' = [pinged EXCEPT ![k] = FALSE]
  /\ ponging' = [ponging EXCEPT ![k] = LookedUp]
  /\ UNCHANGED <<phase, alive, pingIn, pongIn, pinging, stored, connEntry, rested>>

(* The pong handler clears the stored timer and looks the connection up ... *)
OnPong(k) ==
  /\ phase[k] = "open" /\ alive[k] /\ pinged[k]
  /\ pinged' = [pinged EXCEPT ![k] = FALSE]
  /\ ClearStored
  /\ ponging' = [ponging EXCEPT ![k] = LookedUp]
  /\ UNCHANGED <<phase, alive, pingIn, pinging, connEntry, rested>>

(* ... then writes the entry again and schedules a ping, or closes.        *)
AfterPong(k) ==
  /\ ponging[k] # "none" /\ ponging' = [ponging EXCEPT ![k] = "none"]
  /\ \/ /\ ponging[k] = "found"
        /\ connEntry' = TRUE
        /\ pingIn' = [pingIn EXCEPT ![k] = Interval]
        /\ UNCHANGED phase
     \/ /\ ponging[k] = "absent"
        /\ phase' = Close(k)
        /\ UNCHANGED <<connEntry, pingIn>>
  /\ UNCHANGED <<alive, pongIn, pinged, pinging, stored, rested>>

\* Mutant: the timer is ignored when _pingTimeouts no longer has it.
PongDueIfStored(k) ==
  /\ pongIn[k] = 0 /\ pongIn' = [pongIn EXCEPT ![k] = Off]
  /\ stored' = NoSocket
  /\ phase' = IF stored = k THEN Close(k) ELSE phase
  /\ UNCHANGED <<alive, pingIn, pinged, pinging, ponging, connEntry, rested>>

(* The pong timer: "No pong received - connection timeout". *)
PongDue(k) ==
  /\ pongIn[k] = 0 /\ pongIn' = [pongIn EXCEPT ![k] = Off]
  /\ stored' = NoSocket
  /\ phase' = Close(k)
  /\ UNCHANGED <<alive, pingIn, pinged, pinging, ponging, connEntry, rested>>

(* The close handler; the timer of the next ping goes on. *)
OnClose(k) ==
  /\ phase[k] = "closing" /\ phase' = [phase EXCEPT ![k] = "closed"]
  /\ ClearStored
  /\ connEntry' = FALSE
  /\ UNCHANGED <<alive, pingIn, pinged, pinging, ponging, rested>>

(* The station closes the connection, or falls silent. *)
PeerCloses(k) ==
  /\ phase[k] = "open" /\ phase' = Close(k)
  /\ UNCHANGED <<alive, pingIn, pongIn, pinged, pinging, ponging, stored, connEntry, rested>>

PeerDies(k) ==
  /\ phase[k] = "open" /\ alive[k] /\ alive' = [alive EXCEPT ![k] = FALSE]
  /\ UNCHANGED <<phase, pingIn, pongIn, pinged, pinging, ponging, stored, connEntry, rested>>

CountDown(timers) == [k \in Sockets |-> IF timers[k] > 0 THEN timers[k] - 1 ELSE timers[k]]

(* Time passes while no timer is due and no callback is between its awaits. *)
Tick ==
  /\ ~Due /\ ~InCallback
  /\ pingIn' = CountDown(pingIn) /\ pongIn' = CountDown(pongIn)
  /\ UNCHANGED <<phase, alive, pinged, pinging, ponging, stored, connEntry, rested>>

SocketNext(k) ==
  \/ Open(k) \/ PingDue(k) \/ SendPing(k) \/ OnPong(k) \/ AfterPong(k) \/ PongDue(k)
  \/ OnClose(k) \/ PeerCloses(k) \/ PeerDies(k)

Next == Tick \/ \E k \in Sockets : SocketNext(k)

(* Timers run and callbacks continue; the peer may do as it likes.         *)
Fairness ==
  /\ WF_vars(Tick)
  /\ \A k \in Sockets : /\ WF_vars(PingDue(k)) /\ WF_vars(SendPing(k)) /\ WF_vars(AfterPong(k))
                        /\ WF_vars(PongDue(k)) /\ WF_vars(OnClose(k))

Spec == Init /\ [][Next]_vars /\ Fairness

-----------------------------------------------------------------------------
(* Properties. *)

(* A socket is only given up while a ping of it is unanswered ("close the  *)
(* connection if no pong is received within pingInterval seconds"): no     *)
(* pong timer is left running for an open socket that has answered.  That  *)
(* needs a station that stays away until the timers of its last connection *)
(* are gone: the timer of the next ping outlives its socket, and then      *)
(* takes the place of the new socket's timer in _pingTimeouts.             *)
AnsweredNotTimed ==
  \A k \in rested : phase[k] = "open" /\ pongIn[k] # Off => pinged[k]

(* A connection whose station has fallen silent is closed and the station  *)
(* becomes free to be marked offline, however its connections went before. *)
SilentIsClosed ==
  \A k \in Sockets : (phase[k] = "open" /\ ~alive[k]) ~> (phase[k] = "closed")

(* While a connection is open the station's entry is there, so that its    *)
(* messages can be sent and its pings go on.                               *)
OpenHasEntry == \A k \in Sockets : phase[k] = "open" => connEntry
===============================================================================
