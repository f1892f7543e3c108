------------------------------- MODULE PwmGen -------------------------------
(***************************************************************************)
(* hdl/pwm_gen.v of the motor driver: one counter for the high part of the    *)
(* period and one for the low part. The set point may change at any clock.    *)
(***************************************************************************)
EXTENDS Integers

CONSTANTS
  Period,     \* CLOCK_FREQ_HZ / PWM_PERIOD_FREQ_HZ
  Mod,        \* registers wrap at 2^32
  SetPoints   \* on times that software writes

ASSUME PeriodAssumption == Period \in Nat
ASSUME ModAssumption == Mod \in Nat /\ Mod > Period + 2
ASSUME SetPointsAssumption == SetPoints \subseteq 0..(Mod - 1)

VARIABLES
  on_time_in, pwm_out, highcount, lowcount

vars == <<on_time_in, pwm_out, highcount, lowcount>>

Inc(n) == (n + 1) % Mod

(* The low part of the period; it wraps when the on time exceeds the period.  *)
off == (Period - on_time_in) % Mod

Init ==
  /\ on_time_in = 0
  /\ pwm_out = 0 /\ highcount = 0 /\ lowcount = 0

(* Fault for the mutation runs: the part is one clock too long.              *)
HighPartLong ==
  /\ pwm_out = 1
  /\ lowcount' = 0
  /\ IF highcount <= on_time_in + 1
     THEN pwm_out' = 1 /\ highcount' = Inc(highcount)
     ELSE pwm_out' = 0 /\ highcount' = 0

HighPart ==
  /\ pwm_out = 1
  /\ lowcount' = 0
  /\ IF highcount <= on_time_in
     THEN pwm_out' = 1 /\ highcount' = Inc(highcount)
     ELSE pwm_out' = 0 /\ highcount' = 0

(* Fault: the end of the part clears its counter but not the output.         *)
LowPartStays ==
  /\ pwm_out = 0
  /\ highcount' = 0
  /\ IF lowcount <= off
     THEN pwm_out' = 0 /\ lowcount' = Inc(lowcount)
     ELSE pwm_out' = 0 /\ lowcount' = 0

LowPart ==
  /\ pwm_out = 0
  /\ highcount' = 0
  /\ IF lowcount <= off
     THEN pwm_out' = 0 /\ lowcount' = Inc(lowcount)
     ELSE pwm_out' = 1 /\ lowcount' = 0

Clock ==
  /\ HighPart \/ LowPart
  /\ UNCHANGED on_time_in

(* The slave register changes between two clocks.                             *)
WriteSetPoint(p) ==
  /\ on_time_in' = p
  /\ UNCHANGED <<pwm_out, highcount, lowcount>>

Reset ==
  /\ on_time_in' = 0
  /\ pwm_out' = 0 /\ highcount' = 0 /\ lowcount' = 0

Next ==
  \/ Clock
  \/ \E p \in SetPoints : WriteSetPoint(p)
  \/ Reset

Spec == Init /\ [][Next]_vars
FairSpec == Spec /\ WF_vars(Clock)

-----------------------------------------------------------------------------
TypeOK ==
  /\ on_time_in \in SetPoints \union {0} /\ pwm_out \in {0, 1}
  /\ highcount \in 0..(Mod - 1) /\ lowcount \in 0..(Mod - 1)

(* Set points within the period keep both parts within it too: no counter     *)
(* passes the period by more than one, however the set point changes while     *)
(* it counts, so neither counter ever wraps.                                  *)
PartsBounded ==
  SetPoints \subseteq 0..Period =>
    highcount <= Period + 1 /\ lowcount <= Period + 1

(* Only the counter of the current part runs; the other one is ready at 0 for *)
(* the next part, so no part is cut short by what the last one left behind.   *)
OneCounter ==
  /\ pwm_out = 1 => lowcount = 0
  /\ pwm_out = 0 => highcount = 0

(* With set points within the period the output keeps pulsing: a set point     *)
(* that changes in the middle of a part never leaves it high or low for good, *)
(* unless resets keep it from running.                                        *)
KeepsPulsing ==
  (SetPoints \subseteq 0..Period /\ <>[][~Reset]_vars) =>
    []<>(pwm_out = 1) /\ []<>(pwm_out = 0)
=============================================================================
