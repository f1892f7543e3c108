----------------------------- MODULE MotorDriver -----------------------------
(***************************************************************************)
(* The motor driver peripheral with its software: motor_driver_top.v joins   *)
(* the encoder detection to the direction control (motor_dir_ctrl.v), and    *)
(* motor_driver.c drives them through the set point and direction registers. *)
(* The PWM generator has a module of its own (PwmGen); here the motor is     *)
(* powered whenever the set point is not 0.                                  *)
(***************************************************************************)
EXTENDS SensorTiming

CONSTANT SetPoints    \* on times that the application asks for

ASSUME SetPointsAssumption == SetPoints \subseteq Nat

VARIABLES
  enc, encReg, state, count_high, count_low, motor_is_running, count_ready,
  outa, outb,       \* motor_dir_outa and _outb, the H-bridge's direction pins
  setPoint, dirReg, \* slave registers 2 and 3
  spinning,         \* the motor turns
  pc,               \* the next bus access of motor_driver.c
  high_set_point, direction, old_dir, \* arguments of the call
  busy              \* clocks before the processor's next bus access

BusClocks == 2  \* the slave answers a write every other clock at the fastest

E == INSTANCE EncoderDetection

encoder == <<enc, encReg, state, count_high, count_low, motor_is_running,
             count_ready>>
pins == <<outa, outb>>
regs == <<setPoint, dirReg>>
args == <<high_set_point, direction, old_dir>>
vars == <<encoder, pins, regs, spinning, pc, args, busy>>

Init ==
  /\ E!Init
  /\ outa = 1 /\ outb = 0
  /\ setPoint = 0 /\ dirReg = 0
  /\ spinning = FALSE
  /\ pc = "idle" /\ busy = BusClocks
  /\ high_set_point = 0 /\ direction \in {0, 1} /\ old_dir = direction

-----------------------------------------------------------------------------
(* Hardware. One clock edge updates the encoder detection and the direction   *)
(* control together, both from the values before it.                         *)
(* Faults for the mutation runs: the outputs follow the register all the time; *)
(* they wait for a finished measurement.                                     *)
DirCtrlAlways == outa' = dirReg /\ outb' = 1 - dirReg

DirCtrlWhenReady ==
  IF motor_is_running = 0 /\ count_ready = 1
  THEN outa' = dirReg /\ outb' = 1 - dirReg
  ELSE UNCHANGED pins

DirCtrl ==
  IF motor_is_running = 0
  THEN outa' = dirReg /\ outb' = 1 - dirReg
  ELSE UNCHANGED pins

Tick ==
  /\ E!Clock
  /\ DirCtrl
  /\ busy' = IF busy = 0 THEN 0 ELSE busy - 1
  /\ UNCHANGED <<regs, spinning, pc, args>>

(* The CPU reset restarts software and peripheral; the motor coasts on. The   *)
(* restarted application starts from a direction of its own choice.          *)
BoardReset ==
  /\ E!ResetClock
  /\ outa' = 1 /\ outb' = 0
  /\ setPoint' = 0 /\ dirReg' = 0
  /\ pc' = "idle" /\ busy' = BusClocks
  /\ high_set_point' = 0
  /\ direction' \in {0, 1} /\ old_dir' = direction'
  /\ UNCHANGED spinning

-----------------------------------------------------------------------------
(* The motor: it may turn while it is powered, moves its sensor at any pace    *)
(* while it turns, and comes to rest some time after it has lost its power.   *)
SpinUp ==
  /\ setPoint # 0 /\ ~spinning
  /\ spinning' = TRUE
  /\ UNCHANGED <<encoder, pins, regs, pc, args, busy>>

Edge ==
  /\ spinning
  /\ E!Pin
  /\ UNCHANGED <<pins, regs, spinning, pc, args, busy>>

ComeToRest ==
  /\ setPoint = 0 /\ spinning
  /\ spinning' = FALSE
  /\ UNCHANGED <<encoder, pins, regs, pc, args, busy>>

-----------------------------------------------------------------------------
(* Software. The registers that two bus accesses touch are reached at least   *)
(* BusClocks clocks apart, and so is the first access after a reset.          *)
Access(from, to) ==
  /\ pc = from /\ pc' = to
  /\ busy = 0 /\ busy' = BusClocks
  /\ UNCHANGED <<encoder, pins, spinning>>

(* motor_driver_setPWM(): a single write.                                     *)
SetPWM(p) ==
  /\ Access("idle", "idle")
  /\ setPoint' = p
  /\ UNCHANGED <<dirReg, args>>

(* Fault: the motor is not stopped before its direction is changed.          *)
SetDirAtOnce(p, d) ==
  /\ pc = "idle"
  /\ pc' = IF d # old_dir THEN "setdir" ELSE "speed"
  /\ high_set_point' = p /\ direction' = d
  /\ UNCHANGED <<encoder, pins, regs, spinning, old_dir, busy>>

(* motor_driver_setPWM_setDir() is called with the direction it returned last. *)
SetPWMSetDir(p, d) ==
  /\ pc = "idle"
  /\ pc' = IF d # old_dir THEN "stop" ELSE "speed"
  /\ high_set_point' = p /\ direction' = d
  /\ UNCHANGED <<encoder, pins, regs, spinning, old_dir, busy>>

StopMotor ==
  /\ Access("stop", "poll")
  /\ setPoint' = 0
  /\ UNCHANGED <<dirReg, args>>

(* Fault: the comparison with 0 is the wrong way round.                      *)
PollInverted ==
  /\ Access("poll", IF count_high = 0 THEN "poll" ELSE "setdir")
  /\ UNCHANGED <<regs, args>>

(* Wait for the motor to stop: until the count reads 0.                       *)
Poll ==
  /\ Access("poll", IF count_high # 0 THEN "poll" ELSE "setdir")
  /\ UNCHANGED <<regs, args>>

WriteDir ==
  /\ Access("setdir", "speed")
  /\ dirReg' = direction
  /\ old_dir' = direction
  /\ UNCHANGED <<setPoint, high_set_point, direction>>

WriteSpeed ==
  /\ Access("speed", "idle")
  /\ setPoint' = high_set_point
  /\ UNCHANGED <<dirReg, args>>

Driver == StopMotor \/ Poll \/ WriteDir \/ WriteSpeed

Next ==
  \/ Tick \/ BoardReset
  \/ SpinUp \/ Edge \/ ComeToRest
  \/ \E p \in SetPoints : SetPWM(p)
  \/ \E p \in SetPoints, d \in {0, 1} : SetPWMSetDir(p, d)
  \/ Driver

Spec == Init /\ [][Next]_vars

(* The clock never stops, the driver's code runs on, and a motor without      *)
(* power comes to rest.                                                       *)
FairSpec == Spec /\ WF_vars(Tick) /\ WF_vars(Driver) /\ WF_vars(ComeToRest)

-----------------------------------------------------------------------------
TypeOK ==
  /\ E!TypeOK
  /\ outa \in {0, 1} /\ outb = 1 - outa   \* never both directions or none
  /\ setPoint \in SetPoints \union {0} /\ dirReg \in {0, 1}
  /\ spinning \in BOOLEAN /\ busy \in 0..BusClocks
  /\ pc \in {"idle", "stop", "poll", "setdir", "speed"}
  /\ high_set_point \in SetPoints \union {0}
  /\ direction \in {0, 1} /\ old_dir \in {0, 1}

(* The caller's record of the direction is only ever wrong one way: before     *)
(* the first change of direction it may say clockwise while the register      *)
(* still holds its reset value. From then on the two agree.                   *)
BelievedDirection == dirReg # old_dir => dirReg = 0

(* The direction pins never change later than one clock after the first edge  *)
(* of a pulse: not while a pulse is being measured, whatever software writes   *)
(* to the direction register and when.                                        *)
NoFlipWhileMeasuring ==
  [][(Tick /\ outa' # outa) =>
       state = "idle" \/ (state = "high" /\ count_high = 0)
                      \/ (state = "low" /\ count_low = 0)]_vars

(* The software's side of the interlock: the direction register only changes  *)
(* while the set point is 0.                                                  *)
Interlock ==
  INSTANCE DirectionInterlock WITH
    Wheels <- {"M"},
    powered <- IF setPoint = 0 THEN {} ELSE {"M"},
    dir <- [w \in {"M"} |-> dirReg]

ImplementsInterlock == Interlock!Spec

(* A sensor that stays low for good is recognised, whatever was being          *)
(* measured: the motor is declared stopped and the count that the driver's    *)
(* wait polls is cleared.                                                    *)
LowMeansStopped ==
  <>[](enc = 0) => <>[](motor_is_running = 0 /\ count_high = 0)

(* A motor that stops with its sensor low lets the call finish.               *)
StopWaitEnds ==
  <>[](enc = 0) => (pc = "poll" ~> pc # "poll")

(* ... and then the direction pins catch up with the direction register.      *)
DirectionSettles ==
  <>[](enc = 0 /\ pc = "idle") => []<>(outa = dirReg)

(* "stops the motor first [...] then changes direction and resumes speed":     *)
(* the H-bridge is turned to clockwise, which only this call asks for, while   *)
(* the motor is not powered.                                                  *)
ClockwiseAtRest ==
  [][(Tick /\ outa' = 1 /\ outa # 1) => setPoint = 0]_vars
=============================================================================
