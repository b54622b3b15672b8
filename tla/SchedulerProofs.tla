---------------------------- MODULE SchedulerProofs ----------------------------
(***************************************************************************)
(* Theorems about Scheduler, for any interval, deadline, staleness and     *)
(* tolerance.                                                              *)
(***************************************************************************)
EXTENDS Scheduler, TLAPS

\* The age a module's state may have when the refresh after n misses begins:
\* the one success at the end of the very first refresh, and n + 1 intervals.
Allowance(n) == Deadline + (n + 1) * Interval

(* Where the ticker is.  There is none during the first refresh, and after  *)
(* that a tick is at most an interval from the last refresh's beginning.    *)
Ticking ==
  /\ pc = "off" => ~seen
  /\ pc = "select" => timer > 0
  /\ pc = "ended" => cancelled
  /\ pc = "refresh" /\ timer = 0 /\ seen => judged = "ok"
  /\ pc = "refresh" /\ timer > 0 /\ ~pending => elapsed + timer <= Interval

(* How old the state may be, refresh by refresh, while the misses since its *)
(* last success are tolerated.                                              *)
AgeBounded ==
  seen /\ ~cancelled /\ misses <= Tolerance =>
    /\ pc = "refresh" /\ judged = "ok" => age <= elapsed /\ misses = 0
    /\ pc = "refresh" /\ judged # "ok" => age <= Allowance(misses) + elapsed
    /\ pc = "select" /\ pending => age <= Allowance(misses)
    /\ pc = "select" /\ ~pending => age + timer <= Allowance(misses)

IInv == TypeOK /\ Ticking /\ AgeBounded

-----------------------------------------------------------------------------
LEMMA AllowanceGrows ==
  /\ Allowance(0) = Deadline + Interval
  /\ \A n \in Nat : Allowance(n) \in Nat /\ Allowance(n + 1) = Allowance(n) + Interval
  BY SchedulerAssumption DEF Allowance

LEMMA AllowanceMonotonic ==
  ASSUME NEW n \in Nat, n <= Tolerance
  PROVE  Allowance(n) <= Allowance(Tolerance)
<1>1. Tolerance \in Nat /\ Interval \in Nat /\ Deadline \in Nat
  BY SchedulerAssumption
<1>2. (n + 1) * Interval + (Tolerance - n) * Interval = (Tolerance + 1) * Interval
  BY <1>1
<1>3. (Tolerance - n) * Interval >= 0
  BY <1>1
<1> QED  BY <1>1, <1>2, <1>3 DEF Allowance

LEMMA CapType ==
  ASSUME NEW n \in Nat, NEW bound \in Nat
  PROVE  Cap(n, bound) \in 0 .. bound + 1 /\ Cap(n, bound) <= n
  BY DEF Cap

LEMMA TypeInvariant ==
  ASSUME TypeOK, [Next]_vars
  PROVE  TypeOK'
<1>0. /\ Interval \in Nat \ {0} /\ Deadline \in Nat \ {0}
      /\ MaxStale \in Nat /\ Tolerance \in Nat
  BY SchedulerAssumption
<1>a. 0 \in 0 .. Deadline /\ 0 \in 0 .. Interval /\ 0 \in 0 .. MaxStale + 1
      /\ 0 \in 0 .. Tolerance + 1
  BY <1>0
<1>1. CASE Start \/ TakeTick
  BY <1>a, <1>1 DEF TypeOK, Start, TakeTick, Begin, module
<1>b. CASE Stop \/ Return
  BY <1>a, <1>b DEF TypeOK, Stop, Return, module
<1>2. ASSUME NEW outcome \in {"ok", "failed"}, Judge(outcome) PROVE TypeOK'
  BY <1>a, <1>2 DEF TypeOK, Judge, module
<1>3. CASE End
  <2>1. misses' \in 0 .. Tolerance + 1
    BY <1>0, <1>3, CapType DEF TypeOK, End
  <2> QED  BY <1>0, <1>3, <2>1 DEF TypeOK, End
<1>4. CASE Elapse
  <2>1. age' \in 0 .. MaxStale + 1
    BY <1>0, <1>4, CapType DEF TypeOK, Elapse, Passing
  <2>2. elapsed' \in 0 .. Deadline
    BY <1>0, <1>4 DEF TypeOK, Elapse, Due
  <2>3. timer' \in 0 .. Interval /\ pending' \in BOOLEAN
    <3>1. CASE timer = 1
      BY <1>0, <1>4, <3>1 DEF TypeOK, Elapse
    <3>2. CASE timer # 1
      BY <1>0, <1>4, <3>2 DEF TypeOK, Elapse
    <3> QED  BY <3>1, <3>2
  <2> QED  BY <1>4, <2>1, <2>2, <2>3 DEF TypeOK, Elapse, Passing
<1>5. CASE UNCHANGED vars
  BY <1>5 DEF TypeOK, vars
<1> QED  BY <1>1, <1>b, <1>2, <1>3, <1>4, <1>5 DEF Next

LEMMA TickingInvariant ==
  ASSUME TypeOK, Ticking, [Next]_vars
  PROVE  Ticking'
<1>0. Interval \in Nat \ {0} /\ Deadline \in Nat \ {0}
  BY SchedulerAssumption
<1>1. CASE Start \/ Stop \/ TakeTick \/ Return
  BY <1>0, <1>1 DEF TypeOK, Ticking, Start, Stop, TakeTick, Return, Begin, module
<1>2. ASSUME NEW outcome \in {"ok", "failed"}, Judge(outcome) PROVE Ticking'
  BY <1>0, <1>2 DEF TypeOK, Ticking, Judge, module
<1>3. CASE End
  BY <1>0, <1>3 DEF TypeOK, Ticking, End
<1>4. CASE Elapse
  BY <1>0, <1>4 DEF TypeOK, Ticking, Elapse, Passing
<1>5. CASE UNCHANGED vars
  BY <1>5 DEF Ticking, vars
<1> QED  BY <1>1, <1>2, <1>3, <1>4, <1>5 DEF Next

(* Each step keeps the bound: time passes for the age and the ticker alike, *)
(* and a refresh that ends without a success adds an interval to both sides.*)
LEMMA AgeBoundInvariant ==
  ASSUME IInv, [Next]_vars
  PROVE  AgeBounded'
<1>0. /\ Interval \in Nat \ {0} /\ Deadline \in Nat \ {0} /\ Deadline <= Interval
      /\ MaxStale \in Nat /\ Tolerance \in Nat
  BY SchedulerAssumption
<1>a. TypeOK /\ Ticking /\ AgeBounded
  BY DEF IInv
<1>b. /\ misses \in Nat /\ age \in Nat /\ elapsed \in Nat /\ timer \in Nat
      /\ elapsed <= Deadline /\ timer <= Interval
      /\ Allowance(misses) \in Nat /\ Allowance(misses + 1) = Allowance(misses) + Interval
      /\ Allowance(0) = Deadline + Interval
  BY <1>0, <1>a, AllowanceGrows DEF TypeOK
<1> HIDE DEF Allowance
<1>1. CASE Start
  BY <1>1, <1>a DEF AgeBounded, Ticking, Start, Begin, module
<1>2. CASE Stop
  BY <1>2 DEF AgeBounded, Stop
<1>3. CASE TakeTick
  BY <1>3, <1>a, <1>b DEF AgeBounded, TakeTick, Begin, module
<1>4. CASE Return
  BY <1>4 DEF AgeBounded, Return
<1>5. ASSUME NEW outcome \in {"ok", "failed"}, Judge(outcome) PROVE AgeBounded'
  <2>1. CASE outcome = "ok"
    BY <1>5, <1>b, <2>1 DEF AgeBounded, Judge
  <2>2. CASE outcome = "failed"
    BY <1>5, <1>a, <2>2 DEF AgeBounded, Judge, module
  <2> QED  BY <2>1, <2>2
<1>6. CASE End
  <2>1. CASE judged = "ok"
    BY <1>6, <1>0, <1>a, <1>b, <2>1 DEF AgeBounded, Ticking, End
  <2>2. CASE judged # "ok"
    <3>1. misses' = IF misses + 1 > Tolerance THEN Tolerance + 1 ELSE misses + 1
      BY <1>6, <2>2 DEF End, Cap
    <3>2. CASE misses + 1 > Tolerance
      BY <1>0, <1>b, <3>1, <3>2 DEF AgeBounded
    <3>3. CASE misses + 1 <= Tolerance
      <4>1. misses' = misses + 1 /\ Allowance(misses') = Allowance(misses) + Interval
        BY <1>0, <1>b, <3>1, <3>3
      <4> QED  BY <1>6, <1>0, <1>a, <1>b, <2>2, <3>3, <4>1 DEF AgeBounded, Ticking, End
    <3> QED  BY <1>0, <1>b, <3>2, <3>3
  <2> QED  BY <2>1, <2>2
<1>7. CASE Elapse
  <2>1. seen => age' \in Nat /\ age' <= age + 1
    BY <1>7, <1>0, <1>b, CapType DEF Elapse, Passing
  <2> QED  BY <1>7, <1>0, <1>a, <1>b, <2>1 DEF AgeBounded, Ticking, Elapse, Passing, Due
<1>8. CASE UNCHANGED vars
  BY <1>8, <1>a DEF AgeBounded, vars
<1> QED  BY <1>1, <1>2, <1>3, <1>4, <1>5, <1>6, <1>7, <1>8 DEF Next

LEMMA Invariance == Spec => []IInv
<1>1. Init => IInv
  <2>a. /\ 0 \in 0 .. Deadline /\ 0 \in 0 .. Interval /\ 0 \in 0 .. MaxStale + 1
        /\ 0 \in 0 .. Tolerance + 1
    BY SchedulerAssumption
  <2>1. Init => TypeOK
    BY <2>a DEF Init, TypeOK
  <2>2. Init => Ticking /\ AgeBounded
    BY DEF Init, Ticking, AgeBounded
  <2> QED  BY <2>1, <2>2 DEF IInv
<1>2. IInv /\ [Next]_vars => IInv'
  BY TypeInvariant, TickingInvariant, AgeBoundInvariant DEF IInv
<1> QED  BY <1>1, <1>2, PTL DEF Spec

-----------------------------------------------------------------------------
(* A refresh lasts no longer than its deadline, a tick is never further     *)
(* away than the interval, and the channel of the ticker holds one.         *)
THEOREM SchedulerTypeCorrect == Spec => []TypeOK
<1>1. IInv => TypeOK
  BY DEF IInv
<1> QED  BY <1>1, Invariance, PTL

(* A policy that leaves the tolerated misses their time is kept: the state  *)
(* of a module that has succeeded goes stale only after more misses than    *)
(* that, whatever the lengths of the refreshes and the ticks they delay.    *)
THEOREM ToleratedMissesStayFresh == Spec => []StaleNeedsMisses
<1>1. ASSUME IInv, 2 * Deadline + (Tolerance + 1) * Interval <= MaxStale,
             seen, ~cancelled, IsStale
      PROVE  misses > Tolerance
  <2> SUFFICES ASSUME misses <= Tolerance PROVE FALSE
    BY <1>1, SchedulerAssumption DEF IInv, TypeOK
  <2>1. /\ Interval \in Nat /\ Deadline \in Nat /\ MaxStale \in Nat /\ Tolerance \in Nat
        /\ misses \in Nat /\ age \in Nat /\ elapsed \in Nat /\ timer \in Nat
        /\ elapsed <= Deadline
    BY <1>1, SchedulerAssumption DEF IInv, TypeOK
  <2>2. Allowance(misses) \in Nat /\ Allowance(misses) <= Allowance(Tolerance)
    BY <2>1, AllowanceGrows, AllowanceMonotonic
  <2>3. Allowance(Tolerance) + Deadline <= MaxStale /\ Allowance(Tolerance) \in Nat
    BY <1>1, <2>1 DEF Allowance
  <2>4. pc \in {"refresh", "select"}
    BY <1>1 DEF IInv, TypeOK, Ticking
  <2>5. age > MaxStale
    BY <1>1 DEF IsStale
  <2> HIDE DEF Allowance
  <2>6. age <= Allowance(misses) + Deadline
    BY <1>1, <2>1, <2>2, <2>4 DEF IInv, AgeBounded
  <2> QED  BY <2>1, <2>2, <2>3, <2>5, <2>6
<1>2. IInv => StaleNeedsMisses
  BY <1>1 DEF StaleNeedsMisses
<1> QED  BY <1>2, Invariance, PTL
=============================================================================
