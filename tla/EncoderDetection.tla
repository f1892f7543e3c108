-------------------------- MODULE EncoderDetection --------------------------
(***************************************************************************)
(* hdl/encoder_detection.v of the motor driver: a state machine that         *)
(* measures the high and low times of one Hall sensor of the motor. A step   *)
(* is either a rising edge of the clock, which updates every register at     *)
(* once from the values before it, or a change of the sensor's pin.          *)
(***************************************************************************)
EXTENDS SensorTiming

VARIABLES
  enc,               \* the pin, motor_encoder_in
  encReg,            \* motor_encoder_in_reg, the pin one clock ago
  state,             \* idle, high or low
  count_high, count_low,
  motor_is_running,
  count_ready

registers == <<state, count_high, count_low, motor_is_running, count_ready>>
vars == <<enc, encReg, registers>>

Inc(n) == (n + 1) % CountMod

RisingEdge == encReg = 0 /\ enc = 1
FallingEdge == encReg = 1 /\ enc = 0

(* After the reset that follows power-up. The synchroniser and the two flags *)
(* have no reset value.                                                      *)
Init ==
  /\ enc \in {0, 1} /\ encReg \in {0, 1}
  /\ state = "idle" /\ count_high = 0 /\ count_low = 0
  /\ motor_is_running \in {0, 1} /\ count_ready \in {0, 1}

-----------------------------------------------------------------------------
Idle ==
  /\ state = "idle"
  /\ count_high' = 0 /\ count_low' = 0
  /\ motor_is_running' = 0 /\ count_ready' = 0
  /\ state' = CASE RisingEdge -> "high"
                [] FallingEdge -> "low"
                [] OTHER -> "idle"

(* There is no timeout here: only a falling edge ends the state.             *)
High ==
  /\ state = "high"
  /\ motor_is_running' = 1
  /\ IF FallingEdge
     THEN /\ state' = "low"
          /\ count_low' = 0 /\ count_ready' = 1
          /\ UNCHANGED count_high
     ELSE /\ count_high' = Inc(count_high)
          /\ UNCHANGED <<state, count_low, count_ready>>

(* Fault for the mutation runs: the timeout expires without leaving the state. *)
LowTimeoutStays ==
  /\ state = "low"
  /\ count_low > MaxCount
  /\ UNCHANGED registers

LowTimeout ==
  /\ state = "low"
  /\ count_low > MaxCount
  /\ state' = "idle"
  /\ UNCHANGED <<count_high, count_low, motor_is_running, count_ready>>

Low ==
  /\ state = "low"
  /\ count_low <= MaxCount
  /\ motor_is_running' = 1
  /\ IF RisingEdge
     THEN /\ state' = "high"
          /\ count_high' = 0 /\ count_ready' = 0
          /\ UNCHANGED count_low
     ELSE /\ count_low' = Inc(count_low)
          /\ UNCHANGED <<state, count_high, count_ready>>

(* One clock edge; the synchroniser shifts whatever the state machine does.  *)
Clock ==
  /\ Idle \/ High \/ LowTimeout \/ Low
  /\ encReg' = enc
  /\ UNCHANGED enc

ResetClock ==
  /\ state' = "idle" /\ count_high' = 0 /\ count_low' = 0
  /\ encReg' = enc
  /\ UNCHANGED <<enc, motor_is_running, count_ready>>

(* The sensor changes; between two clock edges it may do so more than once.  *)
Pin ==
  /\ enc' = 1 - enc
  /\ UNCHANGED <<encReg, registers>>

Next == Clock \/ ResetClock \/ Pin

Spec == Init /\ [][Next]_vars
FairSpec == Spec /\ WF_vars(Clock)

-----------------------------------------------------------------------------
TypeOK ==
  /\ enc \in {0, 1} /\ encReg \in {0, 1}
  /\ state \in {"idle", "high", "low"}
  /\ count_high \in 0..(CountMod - 1) /\ count_low \in 0..(MaxCount + 1)
  /\ motor_is_running \in {0, 1} /\ count_ready \in {0, 1}

(* motor_is_running lags the state machine by one clock and is not reset:    *)
(* when it is 0, the machine is idle or saw the first edge one clock ago.    *)
RunningLag ==
  motor_is_running = 0 =>
    \/ state = "idle"
    \/ state = "high" /\ count_high = 0
    \/ state = "low" /\ count_low = 0

(* A measurement does not change while it is announced: the clock that       *)
(* begins to count the next pulse withdraws it. Nothing follows for software  *)
(* that reads the flag and the count in two bus accesses: between them the    *)
(* measurement may be withdrawn and a new one begun.                         *)
ReadyMeansStable ==
  [][(Clock /\ count_ready = 1 /\ count_ready' = 1)
       => count_high' = count_high]_vars

(* A sensor that stays low for good is recognised: the motor is declared     *)
(* stopped and its count cleared, whatever the machine was measuring.        *)
LowMeansStopped ==
  <>[](enc = 0) => <>[](motor_is_running = 0 /\ count_high = 0)
=============================================================================
