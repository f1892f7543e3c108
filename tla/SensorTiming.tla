---------------------------- MODULE SensorTiming ----------------------------
(***************************************************************************)
(* The parameters of encoder_detection.v, shared by the state machine        *)
(* (EncoderDetection) and the peripheral that contains it (MotorDriver).     *)
(***************************************************************************)
EXTENDS Naturals

CONSTANTS
  MaxCount,   \* CLOCK_FREQ_HZ / PWM_PERIOD_FREQ_HZ
  CountMod    \* the counters wrap at 2^32

ASSUME MaxCountAssumption == MaxCount \in Nat
ASSUME CountModAssumption == CountMod \in Nat /\ CountMod > MaxCount + 1
=============================================================================
