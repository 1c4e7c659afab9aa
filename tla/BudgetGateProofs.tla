-------------------------- MODULE BudgetGateProofs --------------------------
(***************************************************************************)
(* Theorems about BudgetGate, for all methods, intervals, thresholds, caps *)
(* and flood lengths.                                                      *)
(***************************************************************************)
EXTENDS BudgetGate, TLAPS

-----------------------------------------------------------------------------
(* The wait applied for a FLOOD_WAIT is never shorter than what Telegram    *)
(* asked for: the integer ceiling of 1.1 s, and 5 s more.                   *)
LEMMA AppliedCovers ==
    ASSUME NEW s \in Nat
    PROVE  FloodAppliedSeconds(s) \in Nat /\ s <= FloodAppliedSeconds(s)
BY DEF FloodAppliedSeconds

(* Taking a second off two deadlines keeps their order.                     *)
LEMMA LessKeepsOrder ==
    ASSUME NEW a \in Nat, NEW b \in Nat, a <= b
    PROVE  Less(a) \in Nat /\ Less(b) \in Nat /\ Less(a) <= Less(b) /\ Less(a) <= a
BY DEF Less

-----------------------------------------------------------------------------
(* The strengthened invariant holds before the first run.                   *)
LEMMA IInvInit == Init => IInv
<1> SUFFICES ASSUME Init PROVE IInv
  OBVIOUS
<1> USE BudgetAssumption DEF Init
<1>1. MaxTransients \in Nat
  BY DEF MaxTransients
<1>2. TypeOK
  BY DEF TypeOK, Locations, Dispositions
<1>3. RetriesBounded /\ Covered /\ FloodsWaitedOut
  BY <1>1 DEF RetriesBounded, Covered, FloodsWaitedOut
<1>4. IntervalWaitedOut /\ Counted
  BY DEF IntervalWaitedOut, Counted
<1> QED BY <1>2, <1>3, <1>4 DEF IInv

(* Every step preserves it.                                                 *)
LEMMA IInvNext == IInv /\ [Next]_vars => IInv'
<1> SUFFICES ASSUME IInv, [Next]_vars PROVE IInv'
  OBVIOUS
<1> USE BudgetAssumption DEF IInv
<1>0. MaxTransients \in Nat /\ \A i \in 1..MaxTransients : Backoffs[i] \in Nat
  BY DEF MaxTransients
<1>1. CASE Tick
  <2> USE <1>1 DEF Tick
  <2>1. \A n \in Nat : Less(n) \in Nat /\ Less(n) <= n
    BY DEF Less
  <2>2. \A a, b \in Nat : a <= b => Less(a) <= Less(b)
    BY DEF Less
  <2>3. TypeOK'
    BY <2>1 DEF TypeOK, Passed
  <2>4. RetriesBounded' /\ Counted'
    BY DEF RetriesBounded, Counted
  <2>5. Covered'
    BY <2>2 DEF Covered, TypeOK, Passed
  <2>6. FloodsWaitedOut'
    BY <2>1, <2>2 DEF FloodsWaitedOut, TypeOK, Passed, Less
  <2>7. IntervalWaitedOut'
    <3>1. ASSUME NEW m \in Methods
          PROVE recent'[m] <= rest'[m] /\ recent'[m] <= Interval[m]
      <4>1. recent[m] \in Nat /\ rest[m] \in Nat /\ Interval[m] \in Nat
            /\ recent[m] <= rest[m] /\ recent[m] <= Interval[m]
        BY DEF IntervalWaitedOut, TypeOK
      <4>2. recent'[m] = Less(recent[m]) /\ rest'[m] = Less(rest[m])
        BY DEF Passed
      <4>3. Less(recent[m]) <= Less(rest[m]) /\ Less(recent[m]) <= recent[m]
            /\ Less(recent[m]) \in Nat
        BY <4>1, LessKeepsOrder
      <4> QED BY <4>1, <4>2, <4>3
    <3>2. pc = "interval" => rest'[method] <= wake'
      BY <2>2 DEF IntervalWaitedOut, TypeOK, Passed
    <3>3. pc \in {"cooldown", "send"} /\ attempt = 1 => rest'[method] = 0
      BY DEF IntervalWaitedOut, TypeOK, Passed, Less
    <3> QED BY <3>1, <3>2, <3>3 DEF IntervalWaitedOut
  <2> QED BY <2>3, <2>4, <2>5, <2>6, <2>7
<1>2. CASE StartRun
  <2> USE <1>2 DEF StartRun, call
  <2>1. TypeOK'
    BY DEF TypeOK, Locations
  <2>2. RetriesBounded' /\ Counted' /\ Covered' /\ FloodsWaitedOut' /\ IntervalWaitedOut'
    BY DEF RetriesBounded, Counted, Covered, FloodsWaitedOut, IntervalWaitedOut
  <2> QED BY <2>1, <2>2
<1>3. CASE EndRun
  <2> USE <1>3 DEF EndRun, call, mem, ghost
  <2>1. TypeOK'
    BY DEF TypeOK, Locations
  <2>2. RetriesBounded' /\ Counted' /\ Covered' /\ FloodsWaitedOut' /\ IntervalWaitedOut'
    BY DEF RetriesBounded, Counted, Covered, FloodsWaitedOut, IntervalWaitedOut
  <2> QED BY <2>1, <2>2
<1>4. ASSUME NEW m \in Methods, StartCall(m) PROVE IInv'
  <2> USE <1>4 DEF StartCall, Give, ghost
  <2>1. TypeOK'
    <3>1. CASE count >= MaxRpc
      <4>1. pc' = "ready" /\ answer' = "hard_stop" /\ UNCHANGED <<count, wake>>
        BY <3>1
      <4> QED BY <4>1 DEF TypeOK, Locations, Dispositions
    <3>2. CASE ~(count >= MaxRpc)
      <4>1. pc' = "interval" /\ UNCHANGED answer /\ count' = count + 1
            /\ wake' = rest[m]
        BY <3>2
      <4>2. count' \in Nat /\ wake' \in Nat
        BY <4>1 DEF TypeOK
      <4> QED BY <4>1, <4>2 DEF TypeOK, Locations
    <3> QED BY <3>1, <3>2
  <2>2. RetriesBounded' /\ Counted'
    <3>1. attempt' = 1 /\ floods' = 0 /\ transients' = 0
          /\ pc' \in {"ready", "interval"}
      OBVIOUS
    <3>2. count' <= MaxRpc
      <4>1. CASE count >= MaxRpc
        BY <4>1 DEF RetriesBounded
      <4>2. CASE ~(count >= MaxRpc)
        <5>1. count' = count + 1
          BY <4>2
        <5> QED BY <4>2, <5>1 DEF TypeOK
      <4> QED BY <4>1, <4>2
    <3> QED BY <3>1, <3>2, <1>0 DEF RetriesBounded, Counted
  <2>3. Covered' /\ FloodsWaitedOut' /\ IntervalWaitedOut'
    BY DEF Covered, FloodsWaitedOut, IntervalWaitedOut, TypeOK
  <2> QED BY <2>1, <2>2, <2>3
<1>5. CASE Paced
  <2> USE <1>5 DEF Paced, mem, ghost
  <2>1. TypeOK'
    BY DEF TypeOK, Locations
  <2>2. RetriesBounded' /\ Counted' /\ Covered' /\ FloodsWaitedOut'
    BY DEF RetriesBounded, Counted, Covered, FloodsWaitedOut, TypeOK
  <2>3. IntervalWaitedOut'
    BY DEF IntervalWaitedOut, TypeOK
  <2> QED BY <2>1, <2>2, <2>3
<1>6. CASE CooledDown
  <2> USE <1>6 DEF CooledDown, mem, call, ghost
  <2>1. TypeOK'
    BY DEF TypeOK, Locations
  <2>2. RetriesBounded' /\ Counted' /\ Covered' /\ FloodsWaitedOut'
    BY DEF RetriesBounded, Counted, Covered, FloodsWaitedOut, TypeOK
  <2>3. IntervalWaitedOut'
    BY DEF IntervalWaitedOut
  <2> QED BY <2>1, <2>2, <2>3
<1>7. CASE Retry
  <2> USE <1>7 DEF Retry, Give, ghost
  <2>1. TypeOK'
    BY DEF TypeOK, Locations, Dispositions
  <2>2. RetriesBounded' /\ Counted'
    BY <1>0 DEF RetriesBounded, Counted, TypeOK
  <2>3. Covered' /\ FloodsWaitedOut'
    BY DEF Covered, FloodsWaitedOut, TypeOK
  <2>4. IntervalWaitedOut'
    BY DEF IntervalWaitedOut, Counted, TypeOK
  <2> QED BY <2>1, <2>2, <2>3, <2>4
<1>8. CASE Send
  <2> USE <1>8 DEF Send, call
  <2>1. TypeOK'
    BY DEF TypeOK, Locations
  <2>2. RetriesBounded' /\ Counted' /\ Covered' /\ FloodsWaitedOut'
    BY DEF RetriesBounded, Counted, Covered, FloodsWaitedOut
  <2>3. IntervalWaitedOut'
    BY DEF IntervalWaitedOut, TypeOK
  <2> QED BY <2>1, <2>2, <2>3
<1>9. CASE Answered
  <2> USE <1>9 DEF Answered, Give, mem, call, ghost
  <2>1. TypeOK'
    BY DEF TypeOK, Locations
  <2>2. RetriesBounded' /\ Counted' /\ Covered' /\ FloodsWaitedOut' /\ IntervalWaitedOut'
    BY DEF RetriesBounded, Counted, Covered, FloodsWaitedOut, IntervalWaitedOut
  <2> QED BY <2>1, <2>2
<1>10. CASE Transient
  <2> USE <1>10 DEF Transient, Give, mem, ghost
  <2>1. TypeOK'
    BY <1>0 DEF TypeOK, Locations, Dispositions
  <2>2. RetriesBounded' /\ Counted'
    BY <1>0 DEF RetriesBounded, Counted, TypeOK
  <2>3. Covered' /\ FloodsWaitedOut' /\ IntervalWaitedOut'
    BY DEF Covered, FloodsWaitedOut, IntervalWaitedOut
  <2> QED BY <2>1, <2>2, <2>3
<1>11. ASSUME NEW s \in FloodSeconds, FloodWait(s) PROVE IInv'
  <2> DEFINE applied == FloodAppliedSeconds(s)
  <2>1. s \in Nat /\ applied \in Nat /\ s <= applied
    BY AppliedCovers
  <2>2. /\ pc = "sent" /\ floods' = floods + 1 /\ wake' = applied
        /\ window' = [window EXCEPT ![method] = Later(window[method], s)]
        /\ until' = [until EXCEPT ![method] = Later(until[method], applied)]
        /\ \/ pc' = "ready" /\ answer' = "phase_stop"
           \/ pc' = "floodwait" /\ answer' = answer /\ ~(floods >= MaxFloods)
        /\ UNCHANGED <<rest, count, method, attempt, transients, recent>>
    BY <1>11 DEF FloodWait, Give, mem
  <2> HIDE DEF applied
  <2>3. TypeOK'
    BY <2>1, <2>2 DEF TypeOK, Locations, Dispositions, Later
  <2>4. RetriesBounded' /\ Counted'
    BY <2>2, <1>0 DEF RetriesBounded, Counted, TypeOK
  <2>5. Covered' /\ FloodsWaitedOut'
    BY <2>1, <2>2 DEF Covered, FloodsWaitedOut, TypeOK, Later
  <2>6. IntervalWaitedOut'
    BY <2>2 DEF IntervalWaitedOut
  <2> QED BY <2>3, <2>4, <2>5, <2>6
<1>12. CASE UNCHANGED vars
  <2> USE <1>12 DEF vars, mem, call, ghost
  <2>1. TypeOK'
    BY DEF TypeOK
  <2>2. RetriesBounded' /\ Counted' /\ Covered' /\ FloodsWaitedOut' /\ IntervalWaitedOut'
    BY DEF RetriesBounded, Counted, Covered, FloodsWaitedOut, IntervalWaitedOut
  <2> QED BY <2>1, <2>2
<1> QED
  BY <1>1, <1>2, <1>3, <1>4, <1>5, <1>6, <1>7, <1>8, <1>9, <1>10, <1>11, <1>12
  DEF Next, Gate, Reply

-----------------------------------------------------------------------------
(* The gate's variables keep their types, for every cap.                    *)
THEOREM GateTypeCorrect == Spec => []TypeOK
<1>1. IInv => TypeOK
  BY DEF IInv
<1> QED BY <1>1, IInvInit, IInvNext, PTL DEF Spec

(* A call makes at most one attempt and MaxFloods + MaxTransients retries,  *)
(* in whatever order floods and transient errors come (Budget.call), and    *)
(* the attempts of a run are at most its cap.                               *)
THEOREM RetriesAreBounded == Spec => []RetriesBounded
<1>1. IInv => RetriesBounded
  BY DEF IInv
<1> QED BY <1>1, IInvInit, IInvNext, PTL DEF Spec

(* No attempt leaves inside a flood window, across retries, kills and       *)
(* restarts: the persisted deadline covers the window and _pace waits for   *)
(* it, a retry for its own.                                                 *)
THEOREM FloodsAreHonoured == Spec => HonoursFloods
<1>1. IInv /\ [Next]_vars => [Send => window[method] = 0]_vars
  <2> SUFFICES ASSUME IInv, Send PROVE window[method] = 0
    OBVIOUS
  <2>1. until[method] = 0
    BY DEF Send, IInv, FloodsWaitedOut
  <2>2. window[method] \in Nat /\ window[method] <= until[method]
    BY DEF IInv, Covered, TypeOK
  <2> QED BY <2>1, <2>2
<1> QED BY <1>1, IInvInit, IInvNext, PTL DEF Spec, HonoursFloods

(* A call's first attempt keeps the effective interval to the last attempt  *)
(* of its method in the run (_pace).                                        *)
THEOREM FirstAttemptsAreSpaced == Spec => CallsAreSpaced
<1>1. IInv /\ [Next]_vars => [Send /\ attempt = 1 => recent[method] = 0]_vars
  <2> SUFFICES ASSUME IInv, Send, attempt = 1 PROVE recent[method] = 0
    OBVIOUS
  <2>1. rest[method] = 0
    BY DEF Send, IInv, IntervalWaitedOut
  <2>2. recent[method] \in Nat /\ recent[method] <= rest[method]
    BY DEF IInv, IntervalWaitedOut, TypeOK
  <2> QED BY <2>1, <2>2
<1> QED BY <1>1, IInvInit, IInvNext, PTL DEF Spec, CallsAreSpaced
=============================================================================
