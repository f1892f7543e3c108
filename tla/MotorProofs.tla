----------------------------- MODULE MotorProofs -----------------------------
(***************************************************************************)
(* Proofs about the motor driver: about EncoderDetection on its own, about   *)
(* MotorDriver, whose hardware contains it (its types, the two records of     *)
(* the direction, when the direction pins may flip), and                     *)
(* that its software keeps the promise of DirectionInterlock, which holds    *)
(* for any set of wheels.                                                    *)
(***************************************************************************)
EXTENDS MotorDriver, TLAPS

(* A controller of its own, for what the interlock promises of any wheels.   *)
CONSTANT Wheels
VARIABLES powered, dir

Promise == INSTANCE DirectionInterlock

(* While a pulse is being counted the encoder detection announces no count.   *)
CountingInv == state = "high" => count_ready = 0

EncoderInv == E!TypeOK /\ E!RunningLag /\ CountingInv

(* A call that has stopped the motor keeps it stopped until it has written    *)
(* the direction.                                                             *)
StoppedInv == pc \in {"poll", "setdir"} => setPoint = 0

IInv ==
  /\ TypeOK /\ EncoderInv
  /\ BelievedDirection /\ StoppedInv

(* The encoder detection's part of the motor driver's steps.                 *)
EncoderVars == UNCHANGED encoder

LEMMA CounterRange ==
  ASSUME NEW n \in 0..(CountMod - 1)
  PROVE  /\ E!Inc(n) \in 0..(CountMod - 1)
         /\ n < CountMod - 1 => E!Inc(n) = n + 1
<1> USE CountModAssumption, MaxCountAssumption DEF E!Inc
<1>1. CASE n < CountMod - 1
  <2>1. (n + 1) % CountMod = n + 1
    BY <1>1
  <2>2. QED
    BY <1>1, <2>1
<1>2. CASE n = CountMod - 1
  <2>1. (n + 1) % CountMod = 0
    BY <1>2
  <2>2. QED
    BY <1>2, <2>1
<1>3. QED
  BY <1>1, <1>2

(* What a clock does to the encoder detection's own types and lag.           *)
LEMMA EncoderClock ==
  ASSUME EncoderInv, E!Clock
  PROVE  EncoderInv'
<1> USE CountModAssumption, MaxCountAssumption
        DEF EncoderInv, CountingInv, E!TypeOK, E!RunningLag, E!Clock
<1>1. CASE E!Idle
  BY <1>1 DEF E!Idle
<1>2. CASE E!High
  BY <1>2, CounterRange DEF E!High
<1>3. CASE E!LowTimeout
  BY <1>3 DEF E!LowTimeout
<1>4. CASE E!Low
  <2>1. count_low \in 0..(CountMod - 1) /\ count_low < CountMod - 1
    BY <1>4 DEF E!Low
  <2>2. E!Inc(count_low) = count_low + 1
    BY <2>1, CounterRange
  <2>3. QED
    BY <1>4, <2>2 DEF E!Low
<1>5. QED
  BY <1>1, <1>2, <1>3, <1>4

LEMMA EncoderReset ==
  ASSUME EncoderInv, E!ResetClock
  PROVE  EncoderInv'
BY CountModAssumption, MaxCountAssumption
DEF EncoderInv, E!ResetClock, CountingInv, E!TypeOK, E!RunningLag

LEMMA EncoderPin ==
  ASSUME EncoderInv, E!Pin
  PROVE  EncoderInv'
BY DEF EncoderInv, E!Pin, E!registers, CountingInv, E!TypeOK, E!RunningLag

LEMMA EncoderInit ==
  ASSUME E!Init
  PROVE  EncoderInv
BY CountModAssumption, MaxCountAssumption
DEF E!Init, EncoderInv, CountingInv, E!TypeOK, E!RunningLag

(* A step that leaves the hardware's registers alone.                        *)
LEMMA EncoderKept ==
  ASSUME EncoderInv, EncoderVars
  PROVE  EncoderInv'
BY DEF EncoderInv, CountingInv, EncoderVars, encoder, E!TypeOK, E!RunningLag

-----------------------------------------------------------------------------
(* encoder_detection.v on its own keeps the invariant of its state machine.   *)
THEOREM EncoderInvariance == E!Spec => []EncoderInv
<1>1. E!Init => EncoderInv
  BY EncoderInit
<1>2. ASSUME EncoderInv, [E!Next]_(E!vars)
      PROVE  EncoderInv'
  <2>1. CASE E!Next
    BY <1>2, <2>1, EncoderClock, EncoderReset, EncoderPin DEF E!Next
  <2>2. CASE UNCHANGED E!vars
    BY <1>2, <2>2, EncoderKept DEF EncoderVars, encoder, E!vars, E!registers
  <2>3. QED
    BY <1>2, <2>1, <2>2
<1>3. QED
  BY <1>1, <1>2, PTL DEF E!Spec

(* The registers of encoder_detection.v keep their widths, and count_low      *)
(* stops one past MAX_COUNT: the state machine leaves the state there.       *)
THEOREM EncoderTypeCorrect == E!Spec => []E!TypeOK
<1>1. EncoderInv => E!TypeOK
  BY DEF EncoderInv
<1>2. QED
  BY <1>1, EncoderInvariance, PTL

(* motor_is_running is 0 only in idle or one clock after the first edge, for *)
(* every timeout and every width of the counters.                            *)
THEOREM EncoderLagCorrect == E!Spec => []E!RunningLag
<1>1. EncoderInv => E!RunningLag
  BY DEF EncoderInv
<1>2. QED
  BY <1>1, EncoderInvariance, PTL

(* While count_ready stays 1, no clock changes count_high.                   *)
THEOREM EncoderReadyCorrect == E!Spec => E!ReadyMeansStable
<1> DEFINE Stable == (E!Clock /\ count_ready = 1 /\ count_ready' = 1)
                       => count_high' = count_high
<1>1. ASSUME EncoderInv
      PROVE  [Stable]_(E!vars)
  BY <1>1 DEF EncoderInv, CountingInv, E!TypeOK, E!Clock, E!Idle, E!High,
              E!LowTimeout, E!Low
<1>2. QED
  BY <1>1, EncoderInvariance, PTL DEF E!ReadyMeansStable

-----------------------------------------------------------------------------
(* A clock leaves software alone and keeps the two direction pins apart.     *)
LEMMA TickStep ==
  ASSUME IInv, Tick
  PROVE  IInv'
<1>1. EncoderInv'
  BY EncoderClock DEF IInv, Tick
<1>2. /\ outa' \in {0, 1} /\ outb' = 1 - outa'
      /\ busy' \in 0..BusClocks
  BY DEF IInv, TypeOK, Tick, DirCtrl, pins, BusClocks
<1>3. UNCHANGED <<setPoint, dirReg, spinning, pc, high_set_point, direction,
                  old_dir>>
  BY DEF Tick, regs, args
<1>4. QED
  BY <1>1, <1>2, <1>3
  DEF IInv, TypeOK, EncoderInv, BelievedDirection, StoppedInv

LEMMA InvStep ==
  ASSUME IInv, [Next]_vars
  PROVE  IInv'
<1> USE SetPointsAssumption
    DEF TypeOK, EncoderInv, BelievedDirection, StoppedInv, BusClocks,
        Access, pins, regs, args
<1>1. CASE Tick
  BY <1>1, TickStep
<1>2. CASE BoardReset
  <2>1. EncoderInv'
    BY <1>2, EncoderReset DEF BoardReset, IInv
  <2>2. QED
    BY <1>2, <2>1 DEF BoardReset, IInv
<1>3. CASE Edge
  <2>1. EncoderInv'
    BY <1>3, EncoderPin DEF Edge, IInv
  <2>2. QED
    BY <1>3, <2>1 DEF Edge, IInv
<1>4. CASE SpinUp \/ ComeToRest
  <2>1. spinning' \in BOOLEAN
    BY <1>4, Zenon DEF SpinUp, ComeToRest
  <2>2. EncoderInv'
    BY <1>4, EncoderKept DEF SpinUp, ComeToRest, EncoderVars, IInv
  <2>3. UNCHANGED <<pins, regs, pc, args, busy>>
    BY <1>4 DEF SpinUp, ComeToRest
  <2>4. QED
    BY <2>1, <2>2, <2>3 DEF IInv
<1>5. ASSUME NEW p \in SetPoints, SetPWM(p)
      PROVE  IInv'
  BY <1>5, EncoderKept DEF SetPWM, EncoderVars, IInv
<1>6. ASSUME NEW p \in SetPoints, NEW d \in {0, 1}, SetPWMSetDir(p, d)
      PROVE  IInv'
  BY <1>6, EncoderKept DEF SetPWMSetDir, EncoderVars, IInv
<1>7. CASE StopMotor
  BY <1>7, EncoderKept DEF StopMotor, EncoderVars, IInv
<1>8. CASE Poll
  BY <1>8, EncoderKept DEF Poll, EncoderVars, IInv
<1>9. CASE WriteDir
  BY <1>9, EncoderKept DEF WriteDir, EncoderVars, IInv
<1>10. CASE WriteSpeed
  BY <1>10, EncoderKept DEF WriteSpeed, EncoderVars, IInv
<1>11. CASE UNCHANGED vars
  BY <1>11, EncoderKept DEF vars, EncoderVars, IInv
<1>12. QED
  BY <1>1, <1>2, <1>3, <1>4, <1>5, <1>6, <1>7, <1>8, <1>9, <1>10, <1>11
  DEF Next, Driver

LEMMA InvInit ==
  ASSUME Init
  PROVE  IInv
<1>1. EncoderInv
  BY EncoderInit DEF Init
<1>2. spinning \in BOOLEAN
  BY Zenon DEF Init
<1>3. QED
  BY <1>1, <1>2
  DEF Init, IInv, TypeOK, EncoderInv, BelievedDirection, StoppedInv,
      BusClocks

-----------------------------------------------------------------------------
(* The inductive invariant holds in every reachable state.                   *)
THEOREM Invariance == Spec => []IInv
<1>1. Init => IInv
  BY InvInit
<1>2. IInv /\ [Next]_vars => IInv'
  BY InvStep
<1>3. QED
  BY <1>1, <1>2, PTL DEF Spec

(* Every register and variable of the motor driver keeps its type, and the     *)
(* two outputs of motor_dir_ctrl.v stay complementary.                        *)
THEOREM TypeCorrect == Spec => []TypeOK
<1>1. IInv => TypeOK
  BY DEF IInv
<1>2. QED
  BY <1>1, Invariance, PTL

(* The direction that motor_driver.c's caller remembers agrees with the       *)
(* direction register except before the first change after a reset.          *)
THEOREM BelievedCorrect == Spec => []BelievedDirection
<1>1. IInv => BelievedDirection
  BY DEF IInv
<1>2. QED
  BY <1>1, Invariance, PTL

(* The direction pins only flip while no pulse is being measured, whenever     *)
(* software writes the direction register.                                    *)
THEOREM NoFlipCorrect == Spec => NoFlipWhileMeasuring
<1> DEFINE NoFlip ==
      (Tick /\ outa' # outa) =>
        state = "idle" \/ (state = "high" /\ count_high = 0)
                       \/ (state = "low" /\ count_low = 0)
<1>1. ASSUME IInv
      PROVE  [NoFlip]_vars
  BY <1>1 DEF IInv, EncoderInv, E!TypeOK, E!RunningLag, Tick, DirCtrl, pins
<1>2. QED
  BY <1>1, Invariance, PTL DEF NoFlipWhileMeasuring

(* motor_driver.c only writes the direction register while the set point is   *)
(* 0, so it implements the direction interlock for its wheel.                 *)
THEOREM InterlockCorrect == Spec => ImplementsInterlock
<1>1. Init => Interlock!Init
  BY DEF Init, Interlock!Init
<1>2. ASSUME IInv, [Next]_vars
      PROVE  [Interlock!Next]_(Interlock!vars)
  <2>1. CASE UNCHANGED regs
    BY <2>1 DEF regs, Interlock!vars
  <2>2. ASSUME UNCHANGED dirReg
        PROVE  [Interlock!Next]_(Interlock!vars)
    <3>1. CASE setPoint' = 0
      <4>1. Interlock!PowerOff("M")
        BY <2>2, <3>1 DEF Interlock!PowerOff
      <4>2. QED
        BY <4>1 DEF Interlock!Next
    <3>2. CASE setPoint' # 0
      <4>1. Interlock!PowerOn("M")
        BY <2>2, <3>2 DEF Interlock!PowerOn
      <4>2. QED
        BY <4>1 DEF Interlock!Next
    <3>3. QED
      BY <3>1, <3>2
  <2>3. CASE WriteDir
    <3>1. setPoint = 0 /\ setPoint' = 0 /\ dirReg' = direction
          /\ direction \in {0, 1}
      BY <1>2, <2>3 DEF WriteDir, Access, IInv, StoppedInv, TypeOK
    <3>2. Interlock!SetDir("M", direction)
      BY <3>1 DEF Interlock!SetDir
    <3>3. QED
      BY <3>1, <3>2 DEF Interlock!Next
  <2>4. CASE BoardReset
    <3>1. Interlock!Reset
      BY <2>4 DEF BoardReset, Interlock!Reset
    <3>2. QED
      BY <3>1 DEF Interlock!Next
  <2>5. QED
    BY <1>2, <2>1, <2>2, <2>3, <2>4
    DEF Next, vars, regs, args, Tick, SpinUp, Edge, ComeToRest, SetPWM,
        SetPWMSetDir, Driver, StopMotor, Poll, WriteSpeed
<1>3. QED
  BY <1>1, <1>2, Invariance, PTL
  DEF Spec, ImplementsInterlock, Interlock!Spec

-----------------------------------------------------------------------------
(* Every state of the interlock is well typed, and its powered wheels, of     *)
(* which there may be any number, are all set to one direction.              *)
THEOREM AlignedCorrect == Promise!Spec => [](Promise!TypeOK /\ Promise!Aligned)
<1> USE DEF Promise!TypeOK, Promise!Aligned
<1>1. Promise!Init => Promise!TypeOK /\ Promise!Aligned
  BY DEF Promise!Init
<1>2. ASSUME Promise!TypeOK, Promise!Aligned, [Promise!Next]_(Promise!vars)
      PROVE  Promise!TypeOK' /\ Promise!Aligned'
  <2>1. ASSUME NEW w \in Wheels, Promise!PowerOn(w)
        PROVE  Promise!TypeOK' /\ Promise!Aligned'
    BY <1>2, <2>1 DEF Promise!PowerOn
  <2>2. ASSUME NEW w \in Wheels, Promise!PowerOff(w)
        PROVE  Promise!TypeOK' /\ Promise!Aligned'
    BY <1>2, <2>2 DEF Promise!PowerOff
  <2>3. ASSUME NEW w \in Wheels, NEW d \in {0, 1}, Promise!SetDir(w, d)
        PROVE  Promise!TypeOK' /\ Promise!Aligned'
    BY <1>2, <2>3 DEF Promise!SetDir
  <2>4. CASE Promise!Reset
    BY <2>4 DEF Promise!Reset
  <2>5. CASE UNCHANGED Promise!vars
    BY <1>2, <2>5 DEF Promise!vars
  <2>6. QED
    BY <1>2, <2>1, <2>2, <2>3, <2>4, <2>5 DEF Promise!Next
<1>3. QED
  BY <1>1, <1>2, PTL DEF Promise!Spec
=============================================================================
