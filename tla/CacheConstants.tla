----------------------------- MODULE CacheConstants -----------------------------
(***************************************************************************)
(* The parameters of a cache and of the calls that use it.                 *)
(***************************************************************************)
EXTENDS Integers

CONSTANTS
  Keys,     \* namespace:key
  Values, Waiters, Null,
  MaxTime,  \* the longest time to live and the longest wait, in ticks
  RemoveAwaited \* may a value be removed while an onChange waits for its key?

ASSUME MemoryCacheAssumption ==
  /\ Null \notin Keys /\ Null \notin Values /\ "pending" \notin Values /\ Null # "pending"
  /\ MaxTime \in Nat /\ RemoveAwaited \in BOOLEAN

Off == -1                 \* no time is running
Clock == Off .. MaxTime
Times == 0 .. MaxTime
===============================================================================
