------------------------------ MODULE PwmProofs ------------------------------
(***************************************************************************)
(* Proofs about PwmGen: its types, that only one counter runs at a time, and *)
(* that no counter passes the period.                                        *)
(***************************************************************************)
EXTENDS PwmGen, TLAPS

IInv == TypeOK /\ OneCounter /\ PartsBounded

(* The registers are 32 bits wide, and only wrap at their modulus.           *)
LEMMA IncRange ==
  ASSUME NEW n \in 0..(Mod - 1)
  PROVE  /\ Inc(n) \in 0..(Mod - 1)
         /\ n < Mod - 1 => Inc(n) = n + 1
<1> USE ModAssumption, PeriodAssumption DEF Inc
<1>1. CASE n < Mod - 1
  <2>1. (n + 1) % Mod = n + 1
    BY <1>1
  <2>2. QED
    BY <1>1, <2>1
<1>2. CASE n = Mod - 1
  <2>1. (n + 1) % Mod = 0
    BY <1>2
  <2>2. QED
    BY <1>2, <2>1
<1>3. QED
  BY <1>1, <1>2

(* A set point within the period leaves a low part within it as well.        *)
LEMMA OffRange ==
  ASSUME on_time_in \in 0..Period
  PROVE  off = Period - on_time_in
<1> USE ModAssumption, PeriodAssumption
<1>1. Period - on_time_in \in 0..(Mod - 1)
  OBVIOUS
<1>2. (Period - on_time_in) % Mod = Period - on_time_in
  BY <1>1
<1>3. QED
  BY <1>2 DEF off

LEMMA InvInit ==
  ASSUME Init
  PROVE  IInv
BY ModAssumption, PeriodAssumption, SetPointsAssumption
DEF Init, IInv, TypeOK, OneCounter, PartsBounded

(* One step for each conjunct that a clock can disturb.                      *)
LEMMA InvClock ==
  ASSUME IInv, Clock
  PROVE  IInv'
<1> USE ModAssumption, PeriodAssumption, SetPointsAssumption
<1>1. TypeOK'
  BY IncRange DEF IInv, TypeOK, Clock, HighPart, LowPart
<1>2. OneCounter'
  BY DEF IInv, TypeOK, OneCounter, Clock, HighPart, LowPart
<1>3. ASSUME SetPoints \subseteq 0..Period
      PROVE  highcount' <= Period + 1 /\ lowcount' <= Period + 1
  <2>1. on_time_in \in 0..Period /\ off = Period - on_time_in
    BY <1>3, OffRange DEF IInv, TypeOK
  <2>2. CASE HighPart
    <3>1. highcount <= on_time_in => Inc(highcount) = highcount + 1
      BY <2>1, IncRange DEF IInv, TypeOK
    <3>2. QED
      BY <2>1, <2>2, <3>1 DEF HighPart, IInv, TypeOK
  <2>3. CASE LowPart
    <3>1. lowcount <= off => Inc(lowcount) = lowcount + 1
      BY <2>1, IncRange DEF IInv, TypeOK
    <3>2. QED
      BY <2>1, <2>3, <3>1 DEF LowPart, IInv, TypeOK
  <2>4. QED
    BY <2>2, <2>3 DEF Clock
<1>4. QED
  BY <1>1, <1>2, <1>3 DEF IInv, PartsBounded

LEMMA InvStep ==
  ASSUME IInv, [Next]_vars
  PROVE  IInv'
<1> USE ModAssumption, PeriodAssumption, SetPointsAssumption
        DEF TypeOK, OneCounter, PartsBounded
<1>1. CASE Clock
  BY <1>1, InvClock
<1>2. ASSUME NEW p \in SetPoints, WriteSetPoint(p)
      PROVE  IInv'
  BY <1>2 DEF IInv, WriteSetPoint
<1>3. CASE Reset
  BY <1>3 DEF IInv, Reset
<1>4. CASE UNCHANGED vars
  BY <1>4 DEF IInv, vars
<1>5. QED
  BY <1>1, <1>2, <1>3, <1>4 DEF Next

-----------------------------------------------------------------------------
(* The inductive invariant holds in every reachable state.                   *)
THEOREM Invariance == Spec => []IInv
<1>1. Init => IInv
  BY InvInit
<1>2. IInv /\ [Next]_vars => IInv'
  BY InvStep
<1>3. QED
  BY <1>1, <1>2, PTL DEF Spec

(* The registers of pwm_gen.v keep their widths, even for set points beyond   *)
(* the period.                                                                *)
THEOREM TypeCorrect == Spec => []TypeOK
<1>1. IInv => TypeOK
  BY DEF IInv
<1>2. QED
  BY <1>1, Invariance, PTL

(* Set points within the period never let a counter pass it, whenever the     *)
(* register is written.                                                       *)
THEOREM BoundedCorrect == Spec => []PartsBounded
<1>1. IInv => PartsBounded
  BY DEF IInv
<1>2. QED
  BY <1>1, Invariance, PTL

(* The counter of the other part is ready at 0 when a part ends.              *)
THEOREM OneCounterCorrect == Spec => []OneCounter
<1>1. IInv => OneCounter
  BY DEF IInv
<1>2. QED
  BY <1>1, Invariance, PTL
=============================================================================
