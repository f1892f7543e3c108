----------------------------- MODULE RoverProofs -----------------------------
(***************************************************************************)
(* Proofs about RoverControl: its type invariant, its safety invariants by   *)
(* one inductive invariant, and that it implements DirectionInterlock.       *)
(***************************************************************************)
EXTENDS RoverControl, TLAPS

(***************************************************************************)
(* The inductive invariant. Its parts say how far the bridge registers may   *)
(* lag behind the command variables at each point of the loop, which is what *)
(* makes DirSafe, a flag about the variables, true of the bridges.           *)
(***************************************************************************)

(* DirSafe is only set together with two stopped commands.                  *)
FlagInv == DirSafe = 1 => MOT_CONR = "off" /\ MOT_CONL = "off"

(* IPHB3_0 carries the right command except just before it is written.      *)
RightInv == pc # "write0" => duty["HB0"] = MOT_CONR

(* IPHB3_1 carries the left command, or is off since a start or an exit.    *)
LeftInv == pc \notin {"write0", "write1"} => duty["HB1"] \in {"off", MOT_CONL}

ParkedInv ==
  pc \in {"init", "enter", "splash", "ended"} => duty["HB1"] = "off"

(* The directions agree but between the two writes, which only a stopped    *)
(* rover reaches.                                                           *)
DirInv ==
  /\ pc # "reverse1" => dir["HB0"] = dir["HB1"]
  /\ pc = "reverse1" => dir["HB0"] = 1
  /\ pc \in {"reverse0", "reverse1"} => DirSafe = 1

(* After an automatic turn of the loop with an obstacle, the commands that  *)
(* are about to be written are stops.                                       *)
SensorInv ==
  (pc \in {"write0", "write1"} /\ output = Automatic /\ sensor = 1)
    => MOT_CONR = "off" /\ MOT_CONL = "off"

(* Nothing has been commanded by a program whose ADC is not initialised.     *)
ReadyInv ==
  /\ adc = "none" =>
       /\ pc \in {"init", "enter", "splash", "top", "sample", "exit", "ended",
                  "hung"}
       /\ MOT_CONR = "off" /\ MOT_CONL = "off"
  /\ pc \in {"init", "ended"} => adc = "none"

IInv ==
  /\ TypeOK
  /\ FlagInv /\ RightInv /\ LeftInv /\ ParkedInv /\ DirInv /\ SensorInv
  /\ ReadyInv

-----------------------------------------------------------------------------
(* The lags above are about the program: a step that leaves its variables    *)
(* and the bridges alone preserves them.                                     *)
Untouched == UNCHANGED <<pc, globals, bridges>>

LEMMA UntouchedKeeps ==
  ASSUME IInv, Untouched, TypeOK'
  PROVE  IInv'
BY DEF IInv, Untouched, globals, bridges, FlagInv, RightInv, LeftInv,
       ParkedInv, DirInv, SensorInv, ReadyInv

(* The commands that the command table can request are in range.             *)
LEMMA RequestedType ==
  ASSUME TypeOK
  PROVE  Requested \in 0..OtherByte
BY DEF TypeOK, Requested, Automatic, Stop, OtherByte

(* Every entry of the command table is a duty, and a stop is two offs.       *)
LEMMA TableType ==
  /\ \A c \in 1..5 : RightDuty[c] \in Duties /\ LeftDuty[c] \in Duties
  /\ RightDuty[Stop] = "off" /\ LeftDuty[Stop] = "off"
BY DEF RightDuty, LeftDuty, Duties, Stop

(* TypeOK holds in every reachable state: the variables of the rover          *)
(* application and the bridges' registers keep their types.                   *)
LEMMA TypeStep ==
  ASSUME TypeOK, [Next]_vars
  PROVE  TypeOK'
<1> USE BytesAssumption, PinsAssumption, LitByteAssumption, FifoAssumption,
        ControlsAssumption
<1> USE DEF TypeOK, globals, bridges, world, Goto, Parked, Bridges, Automatic, AdcStates
<1>1. CASE DoInit
  BY <1>1 DEF DoInit
<1>2. CASE Enter
  BY <1>2 DEF Enter, OtherByte, Duties
<1>3. CASE LeaveSplash
  BY <1>3 DEF LeaveSplash
<1>4. CASE PollButton
  BY <1>4 DEF PollButton
<1>5. CASE Sample
  BY <1>5 DEF Sample, Convert, NeverConverts
<1>6. CASE Receive
  BY <1>6 DEF Receive, OtherByte
<1>7. CASE Drive
  BY <1>7, TableType, RequestedType DEF Drive, Duties
<1>8. CASE BeginReverse
  BY <1>8 DEF BeginReverse
<1>9. CASE KeepGoing
  BY <1>9 DEF KeepGoing
<1>10. CASE Reverse0
  BY <1>10 DEF Reverse0
<1>11. CASE Reverse1
  BY <1>11 DEF Reverse1, Duties
<1>12. CASE Write0
  BY <1>12 DEF Write0
<1>13. CASE Write1
  BY <1>13 DEF Write1
<1>14. CASE ReadPins
  BY <1>14 DEF ReadPins
<1>15. CASE Exit
  BY <1>15 DEF Exit, Duties
<1>16. ASSUME NEW b \in Bytes, Arrive(b)
       PROVE  TypeOK'
  BY <1>16 DEF Arrive, OtherByte
<1>17. ASSUME NEW c \in Controls, Operate(c)
       PROVE  TypeOK'
  BY <1>17 DEF Operate
<1>18. CASE Obstacle
  BY <1>18 DEF Obstacle
<1>19. CASE BoardReset
  <2> USE <1>19 DEF BoardReset, Duties, OtherByte
  <2>1. pc' \in Parked /\ output' \in 0..OtherByte /\ gpio_in' \in 0..15
    OBVIOUS
  <2>2. duty' \in [Bridges -> Duties] /\ dir' \in [Bridges -> {0, 1}]
    OBVIOUS
  <2>3. fifo' \in Seq(0..OtherByte)
    OBVIOUS
  <2>4. adc' \in AdcStates /\ panel' \in SUBSET Controls
        /\ obstacle' \in BOOLEAN
    OBVIOUS
  <2>5. QED
    BY <2>1, <2>2, <2>3, <2>4
<1>20. CASE UNCHANGED vars
  BY <1>20 DEF vars
<1>21. QED
  BY <1>1, <1>2, <1>3, <1>4, <1>5, <1>6, <1>7, <1>8, <1>9, <1>10, <1>11, <1>12, <1>13, <1>14, <1>15, <1>16, <1>17, <1>18, <1>19, <1>20 DEF Next, Program

LEMMA InvStep ==
  ASSUME IInv, [Next]_vars
  PROVE  IInv'
<1> USE DEF globals, bridges, world, Goto, Bridges, Automatic, FlagInv,
        RightInv, LeftInv, ParkedInv, DirInv, SensorInv, ReadyInv
<1>0. TypeOK /\ TypeOK'
  BY TypeStep DEF IInv
<1>1. CASE DoInit
  BY <1>0, <1>1 DEF IInv, TypeOK, DoInit
<1>2. CASE Enter
  BY <1>0, <1>2 DEF IInv, TypeOK, Enter
<1>3. CASE LeaveSplash
  BY <1>0, <1>3 DEF IInv, TypeOK, LeaveSplash
<1>4. CASE PollButton
  BY <1>0, <1>4 DEF IInv, TypeOK, PollButton
<1>5. CASE Sample
  BY <1>0, <1>5 DEF IInv, TypeOK, Sample, Convert, NeverConverts
<1>6. CASE Receive
  BY <1>0, <1>6 DEF IInv, TypeOK, Receive
<1>7. CASE Drive
  BY <1>0, <1>7, TableType, RequestedType DEF IInv, TypeOK, Drive, Requested, Stop, OtherByte
<1>8. CASE BeginReverse
  BY <1>0, <1>8 DEF IInv, TypeOK, BeginReverse, Requested, Reverse
<1>9. CASE KeepGoing
  BY <1>0, <1>9 DEF IInv, TypeOK, KeepGoing, Requested, OtherByte, Reverse, Stop
<1>10. CASE Reverse0
  BY <1>0, <1>10 DEF IInv, TypeOK, Reverse0
<1>11. CASE Reverse1
  BY <1>0, <1>11 DEF IInv, TypeOK, Reverse1
<1>12. CASE Write0
  BY <1>0, <1>12 DEF IInv, TypeOK, Write0
<1>13. CASE Write1
  BY <1>0, <1>13 DEF IInv, TypeOK, Write1
<1>14. CASE ReadPins
  BY <1>0, <1>14 DEF IInv, TypeOK, ReadPins
<1>15. CASE Exit
  BY <1>0, <1>15 DEF IInv, TypeOK, Exit
<1>16. ASSUME NEW b \in Bytes, Arrive(b)
       PROVE  IInv'
  BY <1>0, <1>16, UntouchedKeeps DEF Untouched, Arrive
<1>17. ASSUME NEW c \in Controls, Operate(c)
       PROVE  IInv'
  BY <1>0, <1>17, UntouchedKeeps DEF Untouched, Operate
<1>18. CASE Obstacle
  BY <1>0, <1>18, UntouchedKeeps DEF Untouched, Obstacle
<1>19. CASE BoardReset
  BY <1>0, <1>19 DEF IInv, BoardReset
<1>20. CASE UNCHANGED vars
  BY <1>0, <1>20, UntouchedKeeps DEF Untouched, vars
<1>21. QED
  BY <1>1, <1>2, <1>3, <1>4, <1>5, <1>6, <1>7, <1>8, <1>9, <1>10, <1>11, <1>12, <1>13, <1>14, <1>15, <1>16, <1>17, <1>18, <1>19, <1>20 DEF Next, Program

LEMMA InvInit ==
  ASSUME Init
  PROVE  IInv
<1>1. TypeOK
  <2> USE LitByteAssumption DEF Init, Duties, OtherByte, Bridges, AdcStates
  <2>1. pc \in Parked /\ output \in 0..OtherByte /\ gpio_in \in 0..15
    BY DEF Parked
  <2>2. duty \in [Bridges -> Duties] /\ dir \in [Bridges -> {0, 1}]
    OBVIOUS
  <2>3. fifo \in Seq(0..OtherByte)
    OBVIOUS
  <2>4. QED
    BY <2>1, <2>2, <2>3 DEF TypeOK
<1>2. QED
  BY <1>1 DEF Init, IInv, Bridges, FlagInv, RightInv, LeftInv, ParkedInv,
              DirInv, SensorInv, ReadyInv

-----------------------------------------------------------------------------
(* The inductive invariant holds in every reachable state.                   *)
THEOREM Invariance == Spec => []IInv
<1>1. Init => IInv
  BY InvInit
<1>2. IInv /\ [Next]_vars => IInv'
  BY InvStep
<1>3. QED
  BY <1>1, <1>2, PTL DEF Spec

(* Every variable of the rover application keeps its type.                   *)
THEOREM TypeCorrect == Spec => []TypeOK
<1>1. IInv => TypeOK
  BY DEF IInv
<1>2. QED
  BY <1>1, Invariance, PTL

(* When the reverse command finds DirSafe set (ece544_IP_Test.c, lines 563    *)
(* and 612), neither motor is powered.                                       *)
THEOREM DirSafeCorrect == Spec => []DirSafeIsTrue
<1>1. IInv => DirSafeIsTrue
  BY DEF IInv, FlagInv, RightInv, LeftInv, DirSafeIsTrue, Powered, EnableOf,
         Wheels
<1>2. QED
  BY <1>1, Invariance, PTL

(* While the splash screen waits, IPHB3_1 is off and IPHB3_0 carries the      *)
(* last right-hand command (lines 246 and 470 write IPHB3_1 only).           *)
THEOREM ParkedCorrect == Spec => []ParkedBridges
<1>1. IInv => ParkedBridges
  BY DEF IInv, RightInv, ParkedInv, ParkedBridges
<1>2. QED
  BY <1>1, Invariance, PTL

(* When do_init() fails before the ADC is initialised, which main() ignores,  *)
(* no motor is ever powered. (After a failed self test, lines 360 to 362, the *)
(* ADC is initialised and the loop drives: nothing is said of that case.)     *)
THEOREM NoAdcCorrect == Spec => []NoAdcNeverDrives
<1>1. IInv => NoAdcNeverDrives
  BY DEF IInv, RightInv, LeftInv, ReadyInv, NoAdcNeverDrives, Powered,
         EnableOf, Wheels
<1>2. QED
  BY <1>1, Invariance, PTL

(* In automatic mode, a turn of the loop that sampled an obstacle neither     *)
(* powers a motor nor changes a speed, whatever the pins ask for.            *)
THEOREM SensorCorrect == Spec => AutoObeysSensor
<1> DEFINE Obeys == (output = Automatic /\ sensor = 1) =>
                      \A b \in Bridges : duty'[b] \in {"off", duty[b]}
<1>1. ASSUME IInv, [Next]_vars
      PROVE  [Obeys]_vars
  <2> USE <1>1 DEF IInv, TypeOK, Bridges, Goto
  <2>1. CASE UNCHANGED duty
    BY <2>1
  <2>2. CASE Enter \/ Exit
    BY <2>2 DEF Enter, Exit
  <2>3. CASE Write0 \/ Write1
    BY <2>3 DEF Write0, Write1, SensorInv
  <2>4. CASE BoardReset
    BY <2>4 DEF BoardReset
  <2>5. QED
    BY <2>1, <2>2, <2>3, <2>4
    DEF Next, Program, vars, bridges, DoInit, LeaveSplash, PollButton, Sample,
        Convert, NeverConverts, Receive, Drive, BeginReverse, KeepGoing, Reverse0, Reverse1, ReadPins,
        Arrive, Operate, Obstacle
<1>2. QED
  BY <1>1, Invariance, PTL DEF Spec, AutoObeysSensor

(* Powered wheels turn the same way, although the two direction registers are *)
(* written one after the other (lines 564 and 565, 613 and 614).             *)
THEOREM AlignedCorrect == Spec => []WheelsAligned
<1>1. IInv => WheelsAligned
  BY DEF IInv, FlagInv, RightInv, LeftInv, DirInv, WheelsAligned, Powered,
         WheelDir, Wheels, EnableOf, DirectionOf, Bridges, Interlock!Aligned
<1>2. QED
  BY <1>1, Invariance, PTL

-----------------------------------------------------------------------------
(* A write of one power register switches one wheel on or off.               *)
LEMMA WriteRefines ==
  ASSUME IInv, NEW w \in Wheels, NEW d \in Duties,
         UNCHANGED dir,
         dir["HB0"] = dir["HB1"],
         duty' = [duty EXCEPT ![EnableOf[w]] = d]
  PROVE  Interlock!PowerOn(w) \/ Interlock!PowerOff(w)
<1> USE DEF IInv, TypeOK, Wheels, EnableOf, DirectionOf, Bridges
<1>1. UNCHANGED WheelDir /\ \A v \in Wheels : WheelDir[v] = WheelDir[w]
  BY DEF WheelDir
<1>2. CASE d = "off"
  <2>1. Powered' = Powered \ {w}
    BY <1>2 DEF Powered
  <2>2. QED
    BY <1>1, <2>1 DEF Interlock!PowerOff
<1>3. CASE d # "off"
  <2>1. Powered' = Powered \union {w}
    BY <1>3 DEF Powered
  <2>2. QED
    BY <1>1, <2>1 DEF Interlock!PowerOn
<1>4. QED
  BY <1>2, <1>3

(* A write of one direction register turns one wheel round.                  *)
LEMMA TurnRefines ==
  ASSUME IInv, NEW w \in Wheels,
         Powered = {}, UNCHANGED duty,
         dir' = [dir EXCEPT ![DirectionOf[w]] = 1]
  PROVE  Interlock!SetDir(w, 1)
<1> USE DEF IInv, TypeOK, Wheels, EnableOf, DirectionOf, Bridges
<1>1. UNCHANGED Powered
  BY DEF Powered
<1>2. WheelDir' = [WheelDir EXCEPT ![w] = 1]
  BY DEF WheelDir
<1>3. QED
  BY <1>1, <1>2 DEF Interlock!SetDir

(* The rover application implements the direction interlock for the wheels    *)
(* as n4fpga.v wires them: every write to a bridge is a step that the         *)
(* interlock allows, and everything else the program does is invisible to it. *)
THEOREM InterlockCorrect == Spec => ImplementsInterlock
<1>1. Init => Interlock!Init
  BY DEF Init, Interlock!Init, Powered, WheelDir, Wheels, EnableOf,
         DirectionOf, Bridges
<1>2. ASSUME IInv, [Next]_vars
      PROVE  [Interlock!Next]_(Interlock!vars)
  <2> USE <1>2 DEF Wheels, EnableOf, DirectionOf
  <2>1. CASE UNCHANGED bridges
    BY <2>1 DEF bridges, Interlock!vars, Powered, WheelDir
  <2>2. CASE Enter \/ Exit
    <3>1. Interlock!PowerOn("R") \/ Interlock!PowerOff("R")
      BY <2>2, WriteRefines DEF Enter, Exit, Goto, IInv, DirInv, Duties
    <3>2. QED
      BY <3>1 DEF Interlock!Next
  <2>3. CASE Write0
    <3>1. Interlock!PowerOn("L") \/ Interlock!PowerOff("L")
      BY <2>3, WriteRefines DEF Write0, Goto, IInv, TypeOK, DirInv
    <3>2. QED
      BY <3>1 DEF Interlock!Next
  <2>4. CASE Write1
    <3>1. Interlock!PowerOn("R") \/ Interlock!PowerOff("R")
      BY <2>4, WriteRefines DEF Write1, Goto, IInv, TypeOK, DirInv
    <3>2. QED
      BY <3>1 DEF Interlock!Next
  <2>5. CASE Reverse0 \/ Reverse1
    <3>1. Powered = {}
      BY <2>5 DEF Reverse0, Reverse1, Goto, Powered, IInv, FlagInv, RightInv,
                  LeftInv, DirInv
    <3>2. Interlock!SetDir("R", 1) \/ Interlock!SetDir("L", 1)
      BY <2>5, <3>1, TurnRefines DEF Reverse0, Reverse1
    <3>3. QED
      BY <3>2 DEF Interlock!Next
  <2>6. CASE BoardReset
    <3>1. Powered' = {} /\ WheelDir' = [w \in Wheels |-> 0]
      BY <2>6 DEF BoardReset, Powered, WheelDir, Bridges
    <3>2. QED
      BY <3>1 DEF Interlock!Next, Interlock!Reset
  <2>7. QED
    BY <2>1, <2>2, <2>3, <2>4, <2>5, <2>6
    DEF Next, Program, vars, DoInit, LeaveSplash, PollButton, Sample, Convert,
        NeverConverts, Receive, Drive, BeginReverse, KeepGoing, ReadPins, Arrive, Operate, Obstacle
<1>3. QED
  BY <1>1, <1>2, Invariance, PTL DEF Spec, ImplementsInterlock, Interlock!Spec
=============================================================================
