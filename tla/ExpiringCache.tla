----------------------------- MODULE ExpiringCache -----------------------------
(***************************************************************************)
(* What ICache promises (src/00_Base/src/interfaces/cache/cache.ts): a map *)
(* whose entries may have a time to live, and onChange, which returns the  *)
(* next value written to a key, null when the value of the key is removed, *)
(* or what the key has when the wait is over.                              *)
(***************************************************************************)
EXTENDS CacheConstants

Left(ttl) == IF ttl = 0 THEN Off ELSE ttl   \* 0 and undefined give no time to live

VARIABLES
  entry,   \* of each key: its value, or Null
  left,    \* of each key: the time its value has left
  waitKey, \* the key an onChange waits for, or Null
  waitLeft,\* the time it has left
  result   \* what the last onChange of the waiter returned

vars == <<entry, left, waitKey, waitLeft, result>>

Init ==
  /\ entry = [k \in Keys |-> Null] /\ left = [k \in Keys |-> Off]
  /\ waitKey = [w \in Waiters |-> Null] /\ waitLeft = [w \in Waiters |-> Off]
  /\ result = [w \in Waiters |-> Null]

(* Every onChange of the key, and no other, returns the value. *)
Wake(k, v) ==
  /\ waitKey' = [w \in Waiters |-> IF waitKey[w] = k THEN Null ELSE waitKey[w]]
  /\ waitLeft' = [w \in Waiters |-> IF waitKey[w] = k THEN Off ELSE waitLeft[w]]
  /\ result' = [w \in Waiters |-> IF waitKey[w] = k THEN v ELSE result[w]]

Write(k, v, ttl) ==
  /\ entry' = [entry EXCEPT ![k] = v]
  /\ left' = [left EXCEPT ![k] = Left(ttl)]
  /\ Wake(k, v)

Forget(k) ==
  /\ entry' = [entry EXCEPT ![k] = Null]
  /\ left' = [left EXCEPT ![k] = Off]

(* "If value is removed, the method will return null": every onChange that *)
(* waits for a key with a value does, when remove takes the value away.    *)
Delete(k) ==
  /\ Forget(k)
  /\ \/ entry[k] # Null /\ Wake(k, Null)
     \/ entry[k] = Null /\ UNCHANGED <<waitKey, waitLeft, result>>

(* Whether a value that expires is removed in this sense, the interface    *)
(* does not say: either is right.                                          *)
Expire(k) ==
  /\ left[k] = 0 /\ Forget(k)
  /\ Wake(k, Null) \/ UNCHANGED <<waitKey, waitLeft, result>>

Wait(w, k, seconds) ==
  /\ waitKey[w] = Null
  /\ waitKey' = [waitKey EXCEPT ![w] = k]
  /\ waitLeft' = [waitLeft EXCEPT ![w] = seconds]
  /\ result' = [result EXCEPT ![w] = Null]
  /\ UNCHANGED <<entry, left>>

TimeOut(w) ==
  /\ waitLeft[w] = 0
  /\ waitKey' = [waitKey EXCEPT ![w] = Null]
  /\ waitLeft' = [waitLeft EXCEPT ![w] = Off]
  /\ result' = [result EXCEPT ![w] = entry[waitKey[w]]]
  /\ UNCHANGED <<entry, left>>

CountDown(n) == IF n > 0 THEN n - 1 ELSE n

(* Time passes, up to the moment something is due. *)
Tick ==
  /\ \A k \in Keys : left[k] # 0
  /\ \A w \in Waiters : waitLeft[w] # 0
  /\ left' = [k \in Keys |-> CountDown(left[k])]
  /\ waitLeft' = [w \in Waiters |-> CountDown(waitLeft[w])]
  /\ UNCHANGED <<entry, waitKey, result>>

Next ==
  \/ Tick
  \/ \E k \in Keys : \/ Delete(k) \/ Expire(k)
                     \/ \E v \in Values, ttl \in Times : Write(k, v, ttl)
                     \/ \E w \in Waiters, seconds \in Times : Wait(w, k, seconds)
  \/ \E w \in Waiters : TimeOut(w)

Spec == Init /\ [][Next]_vars

(* Entries expire and waits end when their time has come.                  *)
FairSpec ==
  /\ Spec
  /\ \A k \in Keys : WF_vars(Expire(k))
  /\ \A w \in Waiters : WF_vars(TimeOut(w))
===============================================================================
