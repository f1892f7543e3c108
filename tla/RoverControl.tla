---------------------------- MODULE RoverControl ----------------------------
(***************************************************************************)
(* The rover application: main() and PWMdetection() of ece544_IP_Test.c,    *)
(* one action per access to a device, with the two H-bridge peripherals it  *)
(* writes (IPHB3_0 and IPHB3_1, external to the repository), the wires of   *)
(* n4fpga.v between them and the motors, and the devices it polls.          *)
(*                                                                          *)
(* A command is a number: byte '0' (automatic) is 0, bytes '1'..'6' are     *)
(* 1..6 and every other byte is OtherByte. The four pins of the helper      *)
(* board use the same numbers: 1..6 are commands, the rest mean stop.       *)
(***************************************************************************)
EXTENDS Naturals, Sequences

CONSTANTS
  Bytes,     \* commands the phone sends over Bluetooth, a subset of 0..7
  PinCodes,  \* values the four input pins take, a subset of 0..15
  LitByte,   \* the command that  char output = "\n"  happens to stand for
  FifoDepth, \* bytes the UART keeps until they are read
  Controls   \* the board's switches and buttons that somebody may operate

OtherByte == 7
Automatic == 0

ASSUME BytesAssumption == Bytes \subseteq 0..OtherByte
ASSUME PinsAssumption == PinCodes \subseteq 0..15
ASSUME LitByteAssumption == LitByte \in 0..OtherByte
ASSUME FifoAssumption == FifoDepth \in Nat \ {0}
ASSUME ControlsAssumption == Controls \subseteq {"SW0", "BTNC"}

Bridges == {"HB0", "HB1"}             \* IPHB3_0 and IPHB3_1
Duties == {"off", "slow", "fast"}     \* 0, 0x164 and 0x1F0

(* The ADC was never initialised, failed its self test, or works.            *)
AdcStates == {"none", "failed", "working"}

VARIABLES
  pc,           \* the next device access of the program
  MOT_CONR, MOT_CONL, DirSafe, gpio_in, sensor, \* globals
  output,       \* the command byte being obeyed
  adc,          \* what do_init() made of the ADC
  duty, dir,    \* registers 0 and 3 of the two bridges
  fifo,         \* bytes received by the UART and not read yet
  panel,        \* the controls that are on or held down
  obstacle      \* the distance sensor's voltage is below .15

globals == <<MOT_CONR, MOT_CONL, DirSafe, gpio_in, sensor, output, adc>>
bridges == <<duty, dir>>
world == <<panel, obstacle>>
vars == <<pc, globals, bridges, fifo, world>>

-----------------------------------------------------------------------------
(* The wires of n4fpga.v: the bridge that powers the wheel on each side and  *)
(* the bridge that sets its direction are not the same one.                  *)
Wheels == {"L", "R"}
EnableOf == [w \in Wheels |-> IF w = "L" THEN "HB0" ELSE "HB1"]
DirectionOf == [w \in Wheels |-> IF w = "L" THEN "HB1" ELSE "HB0"]

Powered == {w \in Wheels : duty[EnableOf[w]] # "off"}
WheelDir == [w \in Wheels |-> dir[DirectionOf[w]]]

-----------------------------------------------------------------------------
Init ==
  /\ pc = "init"
  /\ MOT_CONR = "off" /\ MOT_CONL = "off" /\ DirSafe = 0
  /\ gpio_in = 0 /\ sensor = 0 /\ output = LitByte
  /\ adc = "none"
  /\ duty = [b \in Bridges |-> "off"] /\ dir = [b \in Bridges |-> 0]
  /\ fifo = <<>>
  /\ panel \in SUBSET Controls
  /\ obstacle \in BOOLEAN

Goto(from, to) == pc = from /\ pc' = to

(* do_init(): the Nexys4IO self test failing ends the program. Any later      *)
(* failure returns, and main() ignores it: before XSysMon_CfgInitialize()     *)
(* the ADC is left as it was, and when XSysMon_SelfTest() fails its driver is *)
(* ready and the device is not to be trusted.                                *)
DoInit ==
  /\ \/ Goto("init", "enter") /\ adc' \in AdcStates
     \/ Goto("init", "ended") /\ UNCHANGED adc
  /\ UNCHANGED <<MOT_CONR, MOT_CONL, DirSafe, gpio_in, sensor, output,
                 bridges, fifo, world>>

(* PWMdetection() starts: its IPHB3_BASEADDR is the second bridge only.      *)
Enter ==
  /\ Goto("enter", "splash")
  /\ output' = LitByte
  /\ duty' = [duty EXCEPT !["HB1"] = "off"]
  /\ UNCHANGED <<MOT_CONR, MOT_CONL, DirSafe, gpio_in, sensor, adc,
                 dir, fifo, world>>

LeaveSplash ==
  /\ Goto("splash", "top")
  /\ "SW0" \in panel
  /\ UNCHANGED <<globals, bridges, fifo, world>>

(* The loop ends on BTNC. *)
PollButton ==
  /\ IF "BTNC" \in panel THEN Goto("top", "exit") ELSE Goto("top", "sample")
  /\ UNCHANGED <<globals, bridges, fifo, world>>

(* A conversion ends and is compared with the threshold. An ADC that failed  *)
(* its self test converts to anything.                                       *)
Convert ==
  /\ Goto("sample", "receive")
  /\ adc = "working" => sensor' = IF obstacle THEN 1 ELSE 0
  /\ sensor' \in {0, 1}

(* The ADC driver's assertion spins for ever on an instance that do_init()    *)
(* never initialised; so does the busy wait if no sequence ever ends.        *)
NeverConverts ==
  /\ Goto("sample", "hung")
  /\ adc # "working"
  /\ UNCHANGED sensor

(* Faults for the mutation runs: the ADC driver has no assertion; the         *)
(* comparison with the threshold is the wrong way round.                     *)
SampleAnyway ==
  /\ Convert
  /\ UNCHANGED <<MOT_CONR, MOT_CONL, DirSafe, gpio_in, output, adc,
                 bridges, fifo, world>>

SampleInverted ==
  /\ \/ /\ Goto("sample", "receive") /\ adc # "none"
        /\ sensor' = IF obstacle THEN 0 ELSE 1
     \/ NeverConverts
  /\ UNCHANGED <<MOT_CONR, MOT_CONL, DirSafe, gpio_in, output, adc,
                 bridges, fifo, world>>

(* Wait for a conversion and compare it.                                     *)
Sample ==
  /\ \/ adc # "none" /\ Convert
     \/ NeverConverts
  /\ UNCHANGED <<MOT_CONR, MOT_CONL, DirSafe, gpio_in, output, adc,
                 bridges, fifo, world>>

(* Fault: the newest byte of the batch is obeyed.                            *)
ReceiveLast ==
  /\ Goto("receive", "dispatch")
  /\ output' = IF fifo # <<>> THEN fifo[Len(fifo)] ELSE output
  /\ fifo' = <<>>
  /\ UNCHANGED <<MOT_CONR, MOT_CONL, DirSafe, gpio_in, sensor, adc,
                 bridges, world>>

(* BT2_getData() drains the UART; only the first byte of the batch is used.  *)
Receive ==
  /\ Goto("receive", "dispatch")
  /\ output' = IF fifo # <<>> THEN Head(fifo) ELSE output
  /\ fifo' = <<>>
  /\ UNCHANGED <<MOT_CONR, MOT_CONL, DirSafe, gpio_in, sensor, adc,
                 bridges, world>>

-----------------------------------------------------------------------------
(* The switch on the command byte, with the switch on the pins inside it:    *)
(* the pins and the distance sensor only count in automatic mode.            *)
Stop == 5
Reverse == 6

(* Fault: the pins alone decide in automatic mode.                           *)
RequestedBlind ==
  IF output # Automatic THEN output
  ELSE IF gpio_in \notin 1..6 THEN Stop
  ELSE gpio_in

Requested ==
  IF output # Automatic THEN output
  ELSE IF sensor = 1 \/ gpio_in \notin 1..6 THEN Stop
  ELSE gpio_in

RightDuty == [c \in 1..5 |-> CASE c \in {1, 5} -> "off"
                                [] c \in {2, 3} -> "slow"
                                [] c = 4 -> "fast"]
LeftDuty == [c \in 1..5 |-> CASE c \in {2, 5} -> "off"
                               [] c \in {1, 3} -> "slow"
                               [] c = 4 -> "fast"]

(* A turn, a speed or a stop: only after a stop is reversing safe.           *)
Drive ==
  /\ Goto("dispatch", "write0")
  /\ Requested \in 1..5
  /\ MOT_CONR' = RightDuty[Requested]
  /\ MOT_CONL' = LeftDuty[Requested]
  /\ DirSafe' = IF Requested = Stop THEN 1 ELSE 0
  /\ UNCHANGED <<gpio_in, sensor, output, adc, bridges, fifo, world>>

(* Fault: the test of DirSafe is missing.                                    *)
BeginReverseUnsafe ==
  /\ Goto("dispatch", "reverse0")
  /\ Requested = Reverse
  /\ UNCHANGED <<globals, bridges, fifo, world>>

BeginReverse ==
  /\ Goto("dispatch", "reverse0")
  /\ Requested = Reverse
  /\ DirSafe = 1
  /\ UNCHANGED <<globals, bridges, fifo, world>>

(* Reversing while it is not safe, and every unknown byte.                   *)
KeepGoing ==
  /\ Goto("dispatch", "write0")
  /\ Requested = OtherByte \/ (Requested = Reverse /\ DirSafe = 0)
  /\ UNCHANGED <<globals, bridges, fifo, world>>

(* The two direction registers are written one after the other, with 1.      *)
Reverse0 ==
  /\ Goto("reverse0", "reverse1")
  /\ dir' = [dir EXCEPT !["HB0"] = 1]
  /\ UNCHANGED <<globals, duty, fifo, world>>

Reverse1 ==
  /\ Goto("reverse1", "write0")
  /\ dir' = [dir EXCEPT !["HB1"] = 1]
  /\ MOT_CONR' = "off" /\ MOT_CONL' = "off" /\ DirSafe' = 1
  /\ UNCHANGED <<gpio_in, sensor, output, adc, duty, fifo, world>>

-----------------------------------------------------------------------------
Write0 ==
  /\ Goto("write0", "write1")
  /\ duty' = [duty EXCEPT !["HB0"] = MOT_CONR]
  /\ UNCHANGED <<globals, dir, fifo, world>>

Write1 ==
  /\ Goto("write1", "pins")
  /\ duty' = [duty EXCEPT !["HB1"] = MOT_CONL]
  /\ UNCHANGED <<globals, dir, fifo, world>>

(* The pins are read at the end of a turn of the loop, for the next one.     *)
ReadPins ==
  /\ Goto("pins", "top")
  /\ gpio_in' \in PinCodes
  /\ UNCHANGED <<MOT_CONR, MOT_CONL, DirSafe, sensor, output, adc,
                 bridges, fifo, world>>

(* Fault: the exit also turns the bridges back to forward.                   *)
ExitForward ==
  /\ Goto("exit", "enter")
  /\ duty' = [duty EXCEPT !["HB1"] = "off"]
  /\ dir' = [b \in Bridges |-> 0]
  /\ UNCHANGED <<globals, fifo, world>>

(* main() blanks the displays, stops IPHB3_BASEADDR and starts over.         *)
Exit ==
  /\ Goto("exit", "enter")
  /\ duty' = [duty EXCEPT !["HB1"] = "off"]
  /\ UNCHANGED <<globals, dir, fifo, world>>

Program ==
  \/ DoInit \/ Enter \/ LeaveSplash \/ PollButton \/ Sample \/ Receive
  \/ Drive \/ BeginReverse \/ KeepGoing \/ Reverse0 \/ Reverse1
  \/ Write0 \/ Write1 \/ ReadPins \/ Exit

-----------------------------------------------------------------------------
(* The board around the program. A byte that finds the UART full is lost.    *)
Arrive(b) ==
  /\ Len(fifo) < FifoDepth
  /\ fifo' = Append(fifo, b)
  /\ UNCHANGED <<pc, globals, bridges, world>>

Operate(c) ==
  /\ panel' = IF c \in panel THEN panel \ {c} ELSE panel \union {c}
  /\ UNCHANGED <<pc, globals, bridges, fifo, obstacle>>

Obstacle ==
  /\ obstacle' = ~obstacle
  /\ UNCHANGED <<pc, globals, bridges, fifo, panel>>

(* The CPU reset button restarts the processor and clears every peripheral.  *)
BoardReset ==
  /\ pc' = "init"
  /\ MOT_CONR' = "off" /\ MOT_CONL' = "off" /\ DirSafe' = 0
  /\ gpio_in' = 0 /\ sensor' = 0 /\ output' = LitByte
  /\ adc' = "none"
  /\ duty' = [b \in Bridges |-> "off"] /\ dir' = [b \in Bridges |-> 0]
  /\ fifo' = <<>>
  /\ UNCHANGED world

Next ==
  \/ Program
  \/ \E b \in Bytes : Arrive(b)
  \/ \E c \in Controls : Operate(c)
  \/ Obstacle
  \/ BoardReset

Spec == Init /\ [][Next]_vars

(* The program is one endless loop that nothing preempts (interrupts stay     *)
(* disabled), and the ADC converts continuously, so it always goes on.        *)
FairSpec == Spec /\ WF_vars(Program)

-----------------------------------------------------------------------------
Parked == {"init", "enter", "splash", "exit", "ended", "hung"}
Running == pc \notin Parked

TypeOK ==
  /\ pc \in Parked \union {"top", "sample", "receive", "dispatch", "reverse0",
                           "reverse1", "write0", "write1", "pins"}
  /\ MOT_CONR \in Duties /\ MOT_CONL \in Duties
  /\ DirSafe \in {0, 1} /\ sensor \in {0, 1}
  /\ gpio_in \in 0..15 /\ output \in 0..OtherByte
  /\ adc \in AdcStates
  /\ duty \in [Bridges -> Duties] /\ dir \in [Bridges -> {0, 1}]
  /\ fifo \in Seq(0..OtherByte)
  /\ panel \in SUBSET Controls /\ obstacle \in BOOLEAN

(* DirSafe is a software flag set a loop turn, an exit or a restart of      *)
(* PWMdetection() before it is believed: when the reverse command tests it  *)
(* and finds it set, neither motor is powered.                              *)
DirSafeIsTrue == (pc = "dispatch" /\ DirSafe = 1) => Powered = {}

(* main() and PWMdetection() stop the motors through IPHB3_BASEADDR, which  *)
(* names IPHB3_1 only. While the splash screen waits, that bridge is off,   *)
(* and the other one still carries the last right-hand command.             *)
ParkedBridges ==
  pc \in {"enter", "splash"} => duty["HB1"] = "off" /\ duty["HB0"] = MOT_CONR

(* main() ignores that do_init() failed. When it failed before the ADC was    *)
(* initialised, the first turn of the loop hangs in the ADC driver before it  *)
(* has obeyed a command, and no motor is ever powered. A failed self test of  *)
(* the ADC is not denied here: the loop goes on and drives.                  *)
NoAdcNeverDrives == adc = "none" => Powered = {}

(* In automatic mode, no motor is powered and no speed is changed from a    *)
(* turn of the loop that sampled an obstacle, whatever the pins ask for.    *)
AutoObeysSensor ==
  [][(output = Automatic /\ sensor = 1) =>
       \A b \in Bridges : duty'[b] \in {"off", duty[b]}]_vars

(* The application keeps the promise of the abstract interlock for the      *)
(* physical wheels: through the crossed wires of n4fpga.v, the bridge that  *)
(* powers a wheel is not the bridge that sets its direction.                *)
Interlock ==
  INSTANCE DirectionInterlock WITH
    Wheels <- Wheels, powered <- Powered, dir <- WheelDir

ImplementsInterlock == Interlock!Spec

(* Between the two direction writes the wheels disagree. No command, exit,   *)
(* restart of PWMdetection() or leftover speed in a bridge lets a motor be    *)
(* powered there: powered wheels turn the same way.                          *)
WheelsAligned == Interlock!Aligned

(* A stop command that is the oldest unread byte is obeyed: both motors are *)
(* switched off unless the program is left or restarted first. An ADC that    *)
(* failed its self test may hang the loop with the motors on.                *)
StopIsObeyed ==
  (Running /\ adc # "failed" /\ fifo # <<>> /\ Head(fifo) = Stop)
    ~> (Powered = {} \/ (~Running /\ pc # "hung"))

(* An obstacle that stays in front of the rover in automatic mode stops it  *)
(* for good, although the sensor is sampled before the command is read and  *)
(* the pins are a loop turn old.                                            *)
ObstacleStops ==
  <>[](obstacle /\ output = Automatic /\ Running /\ adc = "working")
    => <>[](Powered = {})
=============================================================================
