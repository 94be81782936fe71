------------------------------ MODULE MemoryCache ------------------------------
(***************************************************************************)
(* MemoryCache (src/02_Util/src/cache/memory.ts): the values in one map,   *)
(* the expiry timers in another that is only cleaned up by the next write  *)
(* of the key, and one promise per key that every onChange of it shares    *)
(* and the next write resolves.  Each method runs without an await, so it  *)
(* is one step; time is counted in ticks.                                  *)
(***************************************************************************)
EXTENDS CacheConstants

VARIABLES
  cache,        \* _cache
  timer,        \* the timers of _timeoutMap that are running: ticks left
  callback,     \* the keys with a resolver in _keySubscriptionMap
  promise,      \* _keySubscriptionPromiseMap: Null, pending, or what it resolved to
  waitKey,      \* the key the onChange call of a waiter waits for, or Null
  waitTimer,    \* its setTimeout
  result        \* what the last onChange of the waiter returned

cacheVars == <<cache, timer>>
subscriptionVars == <<callback, promise>>
waitVars == <<waitKey, waitTimer, result>>
vars == <<cacheVars, subscriptionVars, waitVars>>

TypeOK ==
  /\ cache \in [Keys -> Values \union {Null}]
  /\ timer \in [Keys -> Clock]
  /\ callback \subseteq Keys
  /\ promise \in [Keys -> Values \union {Null, "pending"}]
  /\ waitKey \in [Waiters -> Keys \union {Null}]
  /\ waitTimer \in [Waiters -> Clock]
  /\ result \in [Waiters -> Values \union {Null}]

Init ==
  /\ cache = [k \in Keys |-> Null] /\ timer = [k \in Keys |-> Off]
  /\ callback = {} /\ promise = [k \in Keys |-> Null]
  /\ waitKey = [w \in Waiters |-> Null] /\ waitTimer = [w \in Waiters |-> Off]
  /\ result = [w \in Waiters |-> Null]

-----------------------------------------------------------------------------
(* The resolver of a key's promise: everybody who awaits the promise gets  *)
(* the value, and the subscription is over.                                *)
Resolve(k, v) ==
  /\ waitKey' = [w \in Waiters |-> IF waitKey[w] = k THEN Null ELSE waitKey[w]]
  /\ waitTimer' = [w \in Waiters |-> IF waitKey[w] = k THEN Off ELSE waitTimer[w]]
  /\ result' = [w \in Waiters |-> IF waitKey[w] = k THEN v ELSE result[w]]

ResolveOnChange(k, v) ==
  IF k \in callback
  THEN Resolve(k, v) /\ callback' = callback \ {k} /\ promise' = [promise EXCEPT ![k] = Null]
  ELSE UNCHANGED <<subscriptionVars, waitVars>>

\* Mutant: the timer of the last value is kept when the new one has no time
\* to live.
StartTimerKeepsOld(k, ttl) ==
  timer' = [timer EXCEPT ![k] = IF ttl = 0 THEN timer[k] ELSE ttl]

(* clearTimeout of the last timer, and a new one if there is a time to live. *)
StartTimer(k, ttl) == timer' = [timer EXCEPT ![k] = IF ttl = 0 THEN Off ELSE ttl]

Set(k, v, ttl) ==
  /\ cache' = [cache EXCEPT ![k] = v]
  /\ StartTimer(k, ttl)
  /\ ResolveOnChange(k, v)

SetIfNotExist(k, v, ttl) == cache[k] = Null /\ Set(k, v, ttl)

(* The timer of the value goes on, and so does the wait of those who await *)
(* the key: delete is a method of the map behind the proxy, which the      *)
(* proxy's deleteProperty never sees.  The keys that src/ waits for,       *)
(* correlation ids and request ids, it never removes.                      *)
Remove(k) ==
  /\ RemoveAwaited \/ cache[k] = Null \/ \A w \in Waiters : waitKey[w] # k
  /\ cache' = [cache EXCEPT ![k] = Null]
  /\ UNCHANGED <<timer, subscriptionVars, waitVars>>

(* A timer of _timeoutMap deletes whatever the key has by then. *)
Expire(k) ==
  /\ timer[k] = 0 /\ timer' = [timer EXCEPT ![k] = Off]
  /\ cache' = [cache EXCEPT ![k] = Null]
  /\ UNCHANGED <<subscriptionVars, waitVars>>

(* Join the promise of the key, or make one, and race it against a timer.  *)
OnChange(w, k, seconds) ==
  /\ waitKey[w] = Null
  /\ \/ /\ promise[k] \in {Null, "pending"}
        /\ promise' = [promise EXCEPT ![k] = "pending"]
        /\ callback' = IF promise[k] = Null THEN callback \union {k} ELSE callback
        /\ waitKey' = [waitKey EXCEPT ![w] = k]
        /\ waitTimer' = [waitTimer EXCEPT ![w] = seconds]
        /\ result' = [result EXCEPT ![w] = Null]
     \/ /\ promise[k] \in Values       \* resolved long ago
        /\ result' = [result EXCEPT ![w] = promise[k]]
        /\ UNCHANGED <<subscriptionVars, waitKey, waitTimer>>
  /\ UNCHANGED cacheVars

(* The wait is over: the value of now.  The subscription stays. *)
OnChangeTimeout(w) ==
  /\ waitTimer[w] = 0
  /\ result' = [result EXCEPT ![w] = cache[waitKey[w]]]
  /\ waitKey' = [waitKey EXCEPT ![w] = Null]
  /\ waitTimer' = [waitTimer EXCEPT ![w] = Off]
  /\ UNCHANGED <<cacheVars, subscriptionVars>>

CountDown(n) == IF n > 0 THEN n - 1 ELSE n

Tick ==
  /\ \A k \in Keys : timer[k] # 0
  /\ \A w \in Waiters : waitTimer[w] # 0
  /\ timer' = [k \in Keys |-> CountDown(timer[k])]
  /\ waitTimer' = [w \in Waiters |-> CountDown(waitTimer[w])]
  /\ UNCHANGED <<cache, subscriptionVars, waitKey, result>>

Next ==
  \/ Tick
  \/ \E k \in Keys :
       \/ Remove(k) \/ Expire(k)
       \/ \E v \in Values, ttl \in Times : Set(k, v, ttl) \/ SetIfNotExist(k, v, ttl)
       \/ \E w \in Waiters, seconds \in Times : OnChange(w, k, seconds)
  \/ \E w \in Waiters : OnChangeTimeout(w)

(* Node.js runs the timers that are due, and no stream of calls stops the  *)
(* clock: strong fairness, as each call with a time of zero stops Tick.    *)
Fairness ==
  /\ SF_vars(Tick)
  /\ \A k \in Keys : WF_vars(Expire(k))
  /\ \A w \in Waiters : WF_vars(OnChangeTimeout(w))

Spec == Init /\ [][Next]_vars /\ Fairness

-----------------------------------------------------------------------------
(* Properties. *)

(* A pending onChange is always registered for the next write of its key,  *)
(* although the registration is shared with calls that came and went (the  *)
(* comment "any number of threads can wait for the same key at the same    *)
(* time" in onChange).                                                     *)
WaitersSubscribed ==
  \A w \in Waiters : waitKey[w] # Null =>
    waitKey[w] \in callback /\ promise[waitKey[w]] = "pending"

(* The ICache contract: a timer left over from a removed value never cuts  *)
(* the life of a later one short, no value outlives its own time, and each *)
(* onChange returns the next value written, null when the value is removed *)
(* ("If value is removed, the method will return null", cache.ts:19), or   *)
(* what is there at its end.  MemoryCache implements it as long as nobody  *)
(* removes what is awaited; otherwise (RemoveAwaited) it does not: the     *)
(* onChange goes on waiting.                                               *)
Contract ==
  INSTANCE ExpiringCache WITH
    entry <- cache,
    left <- [k \in Keys |-> IF cache[k] = Null THEN Off ELSE timer[k]],
    waitLeft <- waitTimer

ImplementsCache == Contract!FairSpec
===============================================================================
