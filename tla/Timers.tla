--------------------------------- MODULE Timers ---------------------------------
(***************************************************************************)
(* The parts of the CSMS that live by timers of their own, side by side:   *)
(* the cache with its times to live and waits, the heartbeat of a          *)
(* station's connections, and a transaction with its cost interval.  They  *)
(* share no state, so each is explored by itself: subject is the one a     *)
(* behaviour is about.                                                     *)
(***************************************************************************)
EXTENDS CacheConstants, HeartbeatConstants, TransactionConstants

VARIABLES
  subject,
  cache, timer, callback, promise, waitKey, waitTimer, result,
  phase, alive, pingIn, pongIn, pinged, pinging, ponging, pongTimeout, connEntry, rested,
  row, stored, handler, run, scheduled, current, awaiting, ended, answered, query, timeouts,
  queries, crossed

Cache == INSTANCE MemoryCache
Heartbeat == INSTANCE ConnectionHeartbeat WITH stored <- pongTimeout
Transaction == INSTANCE TransactionEvents

cacheVars == <<cache, timer, callback, promise, waitKey, waitTimer, result>>
heartbeatVars ==
  <<phase, alive, pingIn, pongIn, pinged, pinging, ponging, pongTimeout, connEntry, rested>>
transactionVars ==
  <<row, stored, handler, run, scheduled, current, awaiting, ended, answered, query, timeouts,
    queries, crossed>>
vars == <<subject, cacheVars, heartbeatVars, transactionVars>>

Init ==
  /\ subject \in {"cache", "heartbeat", "transaction"}
  /\ Cache!Init /\ Heartbeat!Init /\ Transaction!Init

(* All but the subject's variables stay as they are. *)
Only(x) ==
  /\ subject = x /\ subject' = x
  /\ x # "cache" => UNCHANGED cacheVars
  /\ x # "heartbeat" => UNCHANGED heartbeatVars
  /\ x # "transaction" => UNCHANGED transactionVars

Next ==
  \/ Only("cache") /\ Cache!Next
  \/ Only("heartbeat") /\ Heartbeat!Next
  \/ Only("transaction") /\ Transaction!Next

(* What must happen in a part can only happen once it has begun, so that   *)
(* the fairness of one asks nothing of a behaviour about another.          *)
Spec == Init /\ [][Next]_vars /\ Cache!Fairness /\ Heartbeat!Fairness /\ Transaction!Fairness

-----------------------------------------------------------------------------
(* Properties: those of the parts, which the modules comment in full.      *)

(* The cache keeps the ICache contract, as long as no value is removed     *)
(* that an onChange waits for.                                             *)
ImplementsCache == Cache!ImplementsCache

(* A socket is given up only while a ping of it is unanswered.             *)
AnsweredNotTimed == Heartbeat!AnsweredNotTimed

(* A connection whose station has fallen silent is closed.                 *)
SilentIsClosed == Heartbeat!SilentIsClosed

(* The cost of a transaction is that of two readings that are stored.      *)
CostIsReal == Transaction!CostIsReal

(* An event that has been answered is stored.                              *)
AnsweredIsStored == Transaction!AnsweredIsStored

(* An ended transaction that nothing older crosses stays ended, with its   *)
(* final energy and cost.                                                  *)
EndedIsFinal == Transaction!EndedIsFinal

(* Its cost interval is cleared for good.                                  *)
CostsStop == Transaction!CostsStop
===============================================================================
