------------------------- MODULE DirectionInterlock -------------------------
(***************************************************************************)
(* What both motor interfaces of this repository promise, whatever they do  *)
(* inside: the direction of a wheel is only changed while no wheel is       *)
(* powered, and wheels are only powered while they agree on a direction.    *)
(* The rover application (RoverControl) and the motor driver with its       *)
(* software (MotorDriver) are shown to implement it.                        *)
(***************************************************************************)
EXTENDS Naturals

CONSTANT Wheels  \* the wheels that one controller drives

VARIABLES
  powered,       \* the set of wheels whose motor is being driven
  dir            \* the direction each wheel is set to, 0 or 1

vars == <<powered, dir>>

Init ==
  /\ powered = {}
  /\ dir = [w \in Wheels |-> 0]

(* Drive a wheel, at any speed. *)
PowerOn(w) ==
  /\ \A v \in Wheels : dir[v] = dir[w]
  /\ powered' = powered \union {w}
  /\ UNCHANGED dir

PowerOff(w) ==
  /\ powered' = powered \ {w}
  /\ UNCHANGED dir

(* Turn one wheel round: every motor is at rest. *)
SetDir(w, d) ==
  /\ powered = {}
  /\ dir' = [dir EXCEPT ![w] = d]
  /\ UNCHANGED powered

(* The board's reset takes power and direction away together. *)
Reset ==
  /\ powered' = {}
  /\ dir' = [w \in Wheels |-> 0]

Next ==
  \/ \E w \in Wheels : PowerOn(w) \/ PowerOff(w)
  \/ \E w \in Wheels, d \in {0, 1} : SetDir(w, d)
  \/ Reset

Spec == Init /\ [][Next]_vars

-----------------------------------------------------------------------------
TypeOK ==
  /\ powered \in SUBSET Wheels
  /\ dir \in [Wheels -> {0, 1}]

(* Powered wheels never pull against each other: as long as any wheel is    *)
(* driven, all of them are set to the same direction.                       *)
Aligned == powered # {} => \A v, w \in Wheels : dir[v] = dir[w]
=============================================================================
