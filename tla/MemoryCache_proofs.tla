--------------------------- MODULE MemoryCache_proofs ---------------------------
(***************************************************************************)
(* MemoryCache implements ExpiringCache, for any keys, values, waiters and *)
(* times.                                                                  *)
(***************************************************************************)
EXTENDS MemoryCache, TLAPS

LEMMA ClockType ==
  /\ Off = -1 /\ Off \in Clock /\ Times \subseteq Clock \ {Off}
  /\ \A n \in Clock : CountDown(n) \in Clock /\ (CountDown(n) = Off <=> n = Off)
BY MemoryCacheAssumption DEF Off, Clock, Times, CountDown

LEMMA CountDownType ==
  ASSUME NEW S, NEW f \in [S -> Clock]
  PROVE  /\ [x \in S |-> CountDown(f[x])] \in [S -> Clock]
         /\ \A x \in S : [y \in S |-> CountDown(f[y])][x] = Off <=> f[x] = Off
BY ClockType

(* A wait has a running timer and a pending promise, and the resolver of a *)
(* promise is registered until it has been called.                         *)
Inv ==
  /\ TypeOK
  /\ \A w \in Waiters : waitKey[w] = Null <=> waitTimer[w] = Off
  /\ \A k \in Keys : promise[k] = IF k \in callback THEN "pending" ELSE Null
  /\ WaitersSubscribed

LEMMA InitInv == Init => Inv
<1> SUFFICES ASSUME Init PROVE Inv
  OBVIOUS
<1>1. TypeOK
  BY ClockType DEF Init, TypeOK
<1>2. QED
  BY <1>1 DEF Init, Inv, WaitersSubscribed

(* A write, made by set or by setIfNotExist. *)
Writes(k, v, ttl) == Set(k, v, ttl) \/ SetIfNotExist(k, v, ttl)

LEMMA WriteStep ==
  ASSUME Inv, NEW k \in Keys, NEW v \in Values, NEW ttl \in Times, Writes(k, v, ttl)
  PROVE  /\ cache' = [cache EXCEPT ![k] = v]
         /\ timer' = [timer EXCEPT ![k] = IF ttl = 0 THEN Off ELSE ttl]
         /\ Resolve(k, v)
         /\ callback' = callback \ {k}
         /\ promise' = [promise EXCEPT ![k] = Null]
<1>1. Set(k, v, ttl)
  BY DEF Writes, SetIfNotExist
<1>2. CASE k \in callback
  BY <1>1, <1>2 DEF Set, StartTimer, ResolveOnChange
<1>3. CASE k \notin callback
  <2>1. /\ \A w \in Waiters : waitKey[w] # k
        /\ promise[k] = Null
    BY <1>3, MemoryCacheAssumption DEF Inv, WaitersSubscribed
  <2>2. callback' = callback \ {k} /\ promise' = [promise EXCEPT ![k] = Null]
    BY <1>1, <1>3, <2>1 DEF Set, ResolveOnChange, subscriptionVars, Inv, TypeOK
  <2>3. Resolve(k, v)
    BY <1>1, <1>3, <2>1 DEF Set, ResolveOnChange, Resolve, waitVars, Inv, TypeOK
  <2>4. QED
    BY <1>1, <2>2, <2>3 DEF Set, StartTimer
<1>4. QED
  BY <1>2, <1>3

LEMMA NextCases ==
  ASSUME [Next]_vars, NEW P,
         Tick => P,
         \A k \in Keys : Remove(k) \/ Expire(k) => P,
         \A k \in Keys : \A v \in Values : \A ttl \in Times : Writes(k, v, ttl) => P,
         \A k \in Keys : \A w \in Waiters : \A seconds \in Times : OnChange(w, k, seconds) => P,
         \A w \in Waiters : OnChangeTimeout(w) => P,
         UNCHANGED vars => P
  PROVE  P
BY DEF Next, Writes

LEMMA StepInv == Inv /\ [Next]_vars => Inv'
<1> SUFFICES ASSUME Inv, [Next]_vars PROVE Inv'
  OBVIOUS
<1> USE DEF cacheVars, subscriptionVars, waitVars, WaitersSubscribed
<1>1. ASSUME Tick PROVE Inv'
  BY <1>1, CountDownType DEF Tick, Inv, TypeOK
<1>2. ASSUME NEW k \in Keys, Remove(k) \/ Expire(k) PROVE Inv'
  BY <1>2, ClockType DEF Remove, Expire, Inv, TypeOK
<1>3. ASSUME NEW k \in Keys, NEW v \in Values, NEW ttl \in Times, Writes(k, v, ttl) PROVE Inv'
  <2>1. TypeOK'
    BY <1>3, WriteStep, ClockType DEF Inv, TypeOK, Resolve
  <2>2. \A w \in Waiters : waitKey'[w] = Null <=> waitTimer'[w] = Off
    BY <1>3, WriteStep, MemoryCacheAssumption DEF Inv, TypeOK, Resolve
  <2>3. \A x \in Keys : promise'[x] = IF x \in callback' THEN "pending" ELSE Null
    BY <1>3, WriteStep DEF Inv, TypeOK
  <2>4. WaitersSubscribed'
    BY <1>3, WriteStep, MemoryCacheAssumption DEF Inv, TypeOK, Resolve
  <2>5. QED
    BY <2>1, <2>2, <2>3, <2>4 DEF Inv
<1>4. ASSUME NEW k \in Keys, NEW w \in Waiters, NEW seconds \in Times, OnChange(w, k, seconds)
      PROVE Inv'
  <2>1. promise[k] \notin Values
    BY MemoryCacheAssumption DEF Inv
  <2>2. TypeOK'
    BY <1>4, <2>1, ClockType DEF OnChange, Inv, TypeOK
  <2>3. QED
    BY <1>4, <2>1, <2>2, ClockType, MemoryCacheAssumption DEF OnChange, Inv, TypeOK
<1>5. ASSUME NEW w \in Waiters, OnChangeTimeout(w) PROVE Inv'
  <2>1. waitKey[w] \in Keys
    BY <1>5, ClockType DEF OnChangeTimeout, Inv, TypeOK
  <2>2. QED
    BY <1>5, <2>1, ClockType DEF OnChangeTimeout, Inv, TypeOK
<1>6. ASSUME UNCHANGED vars PROVE Inv'
  BY <1>6 DEF vars, Inv, TypeOK
<1>7. QED
  BY <1>1, <1>2, <1>3, <1>4, <1>5, <1>6, NextCases

LEMMA InvHolds == Spec => []Inv
BY InitInv, StepInv, PTL DEF Spec

(* TypeOK: what the maps hold. *)
THEOREM TypeCorrect == Spec => []TypeOK
<1>1. Inv => TypeOK
  BY DEF Inv
<1>2. QED
  BY <1>1, InvHolds, PTL

(* WaitersSubscribed: every pending onChange will see the next write of    *)
(* its key.                                                                *)
THEOREM Subscribed == Spec => []WaitersSubscribed
<1>1. Inv => WaitersSubscribed
  BY DEF Inv
<1>2. QED
  BY <1>1, InvHolds, PTL

-----------------------------------------------------------------------------
LEMMA StepImplements ==
  ASSUME ~RemoveAwaited, Inv, [Next]_vars
  PROVE  [Contract!Next]_(Contract!vars)
<1> DEFINE left == [k \in Keys |-> IF cache[k] = Null THEN Off ELSE timer[k]]
<1> USE DEF cacheVars, waitVars
<1>1. ASSUME Tick PROVE [Contract!Next]_(Contract!vars)
  <2>1. left' = [k \in Keys |-> Contract!CountDown(left[k])]
    BY <1>1, ClockType DEF Tick, Inv, TypeOK, CountDown, Contract!CountDown
  <2>2. waitTimer' = [w \in Waiters |-> Contract!CountDown(waitTimer[w])]
    BY <1>1 DEF Tick, CountDown, Contract!CountDown
  <2>3. \A k \in Keys : left[k] # 0
    BY <1>1, ClockType DEF Tick
  <2>4. Contract!Tick
    BY <1>1, <2>1, <2>2, <2>3 DEF Tick, Contract!Tick
  <2>5. QED
    BY <2>4 DEF Contract!Next
<1>2. ASSUME NEW k \in Keys, Remove(k) \/ Expire(k) PROVE [Contract!Next]_(Contract!vars)
  <2>1. Contract!Forget(k)
    <3>1. left' = [left EXCEPT ![k] = Off] /\ cache' = [cache EXCEPT ![k] = Null]
      BY <1>2 DEF Remove, Expire, Inv, TypeOK
    <3>2. QED
      BY <3>1 DEF Contract!Forget, Contract!Off, Off
  <2>2. UNCHANGED <<waitKey, waitTimer, result>>
    BY <1>2 DEF Remove, Expire
  <2>3. CASE cache[k] = Null
    BY <2>1, <2>2, <2>3 DEF Contract!Delete, Contract!Next
  <2>4. CASE cache[k] # Null /\ \A w \in Waiters : waitKey[w] # k
    <3>1. Contract!Wake(k, Null)
      BY <2>2, <2>4 DEF Contract!Wake, Inv, TypeOK
    <3>2. QED
      BY <2>1, <2>4, <3>1 DEF Contract!Delete, Contract!Next
  <2>5. CASE cache[k] # Null /\ Expire(k)
    <3>1. left[k] = 0
      BY <2>5 DEF Expire
    <3>2. QED
      BY <2>1, <2>2, <3>1 DEF Contract!Expire, Contract!Next
  <2>6. QED
    BY <1>2, <2>3, <2>4, <2>5 DEF Remove
<1>3. ASSUME NEW k \in Keys, NEW v \in Values, NEW ttl \in Times, Writes(k, v, ttl)
      PROVE [Contract!Next]_(Contract!vars)
  <2>1. left' = [left EXCEPT ![k] = Contract!Left(ttl)]
    <3>1. /\ cache' = [cache EXCEPT ![k] = v]
          /\ timer' = [timer EXCEPT ![k] = IF ttl = 0 THEN Off ELSE ttl]
      BY <1>3, WriteStep
    <3>2. cache \in [Keys -> Values \union {Null}] /\ timer \in [Keys -> Clock] /\ v # Null
      BY MemoryCacheAssumption DEF Inv, TypeOK
    <3>3. QED
      BY <3>1, <3>2 DEF Contract!Left, Contract!Off, Off
  <2>2. Contract!Wake(k, v)
    BY <1>3, WriteStep DEF Resolve, Contract!Wake, Contract!Off, Off
  <2>3. Contract!Write(k, v, ttl)
    BY <1>3, <2>1, <2>2, WriteStep DEF Contract!Write
  <2>4. QED
    BY <2>3 DEF Contract!Next, Contract!Times, Times
<1>4. ASSUME NEW k \in Keys, NEW w \in Waiters, NEW seconds \in Times, OnChange(w, k, seconds)
      PROVE [Contract!Next]_(Contract!vars)
  <2>1. promise[k] \notin Values
    BY MemoryCacheAssumption DEF Inv
  <2>2. Contract!Wait(w, k, seconds)
    BY <1>4, <2>1 DEF OnChange, Contract!Wait
  <2>3. QED
    BY <2>2 DEF Contract!Next, Contract!Times, Times
<1>5. ASSUME NEW w \in Waiters, OnChangeTimeout(w) PROVE [Contract!Next]_(Contract!vars)
  <2>1. Contract!TimeOut(w)
    BY <1>5 DEF OnChangeTimeout, Contract!TimeOut, Contract!Off, Off
  <2>2. QED
    BY <2>1 DEF Contract!Next
<1>6. ASSUME UNCHANGED vars PROVE [Contract!Next]_(Contract!vars)
  BY <1>6 DEF vars, Contract!vars
<1>7. QED
  BY <1>1, <1>2, <1>3, <1>4, <1>5, <1>6, NextCases

(* MemoryCache keeps the ICache contract as long as no value is removed    *)
(* that an onChange waits for: the safety part of ImplementsCache.         *)
THEOREM Refinement ==
  ASSUME ~RemoveAwaited
  PROVE  Spec => Contract!Spec
<1>1. Init => Contract!Init
  BY DEF Init, Contract!Init, Contract!Off, Off
<1>2. Inv /\ [Next]_vars => [Contract!Next]_(Contract!vars)
  BY StepImplements
<1>3. QED
  BY <1>1, <1>2, InvHolds, PTL DEF Spec, Contract!Spec
===============================================================================
