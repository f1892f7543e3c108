--------------------------- MODULE PmodENCProofs ---------------------------
(***************************************************************************)
(* Proofs about PmodENC: that encoder.v makes exactly one event of every   *)
(* click, the types of its registers and of the driver, and that the       *)
(* counter keeps the configuration that the program gave it.               *)
(***************************************************************************)
EXTENDS PmodENC, TLAPS

(* The contacts of the n-th position of a turn to the right or left.       *)
ContactA(n) == IF n \in {0, 4} THEN 1 ELSE IF n = 2 THEN 0
               ELSE IF (n = 1) <=> (knob.turning = "right") THEN 0 ELSE 1
ContactB(n) == IF n \in {0, 4} THEN 1 ELSE IF n = 2 THEN 0
               ELSE IF (n = 1) <=> (knob.turning = "right") THEN 1 ELSE 0

(* The knob is where its last step took it, or a bounce back from there.   *)
Position == IF knob.bounced = 1 THEN knob.step - 1 ELSE knob.step

KnobInv ==
    /\ knob \in [turning : {"no", "right", "left"}, at : 0..3, step : 0..4, bounced : {0, 1}]
    /\ knob.turning = "no" => knob.step = 0
    /\ knob.step = 0 => knob.bounced = 0
    /\ knob.at = IF knob.turning = "left" THEN (4 - Position) % 4 ELSE Position % 4

(* The synchroniser has the contacts of the last step or of the one before. *)
Synchronised(n) == A_int = ContactA(n) /\ B_int = ContactB(n)
Direction == IF knob.turning = "right" THEN 0 ELSE 1
Click == IF knob.turning = "right" THEN 1 ELSE -1

SyncInv ==
    /\ {A_int, B_int, q1, q2, dly_q1, eventReg, dirReg} \subseteq {0, 1}
    /\ Synchronised(knob.step) \/ (knob.step > 0 /\ Synchronised(knob.step - 1))

(* No event is under way, and the filter's rotation bit is set as the last  *)
(* position with equal contacts says or is about to say.                   *)
QuietInv ==
    /\ eventReg = 0
    /\ q1 = 1 => dly_q1 = 1
    /\ knob.step \in {0, 1, 4} => q1 = 1
    /\ knob.step = 2 /\ knob.bounced = 1 => q1 = 0
    /\ knob.step = 3 => q1 = 0

(* A click without its event: the event is on its way through the filter.  *)
UnderWayInv ==
    /\ knob.step = 4 /\ knob.bounced = 0 /\ owed = Click
    /\ \/ Synchronised(3) /\ q1 = 0 /\ dly_q1 = 0 /\ eventReg = 0 /\ q2 = Direction
       \/ Synchronised(4) /\ q1 = 0 /\ dly_q1 = 0 /\ eventReg = 0 /\ q2 = Direction
       \/ Synchronised(4) /\ q1 = 1 /\ dly_q1 = 0 /\ eventReg = 0 /\ q2 = Direction
       \/ Synchronised(4) /\ q1 = 1 /\ dly_q1 = 1 /\ eventReg = 1 /\ dirReg = Direction

ClickInv == KnobInv /\ SyncInv /\ ((owed = 0 /\ QuietInv) \/ UnderWayInv)

-----------------------------------------------------------------------------
LEMMA PinIsPosition ==
    ASSUME KnobInv
    PROVE  Pin.A = ContactA(Position) /\ Pin.B = ContactB(Position)
<1> DEFINE n == Position
<1>1. n \in 0..4 /\ knob.at \in 0..3
    BY DEF KnobInv, Position
<1> HIDE DEF n
<1>2. CASE knob.turning = "left"
    <2>1. knob.at = (4 - n) % 4
        BY <1>2 DEF KnobInv, n
    <2>2. \/ n = 0 /\ knob.at = 0
          \/ n = 1 /\ knob.at = 3
          \/ n = 2 /\ knob.at = 2
          \/ n = 3 /\ knob.at = 1
          \/ n = 4 /\ knob.at = 0
        BY <1>1, <2>1
    <2>3. QED
        BY <1>2, <2>2 DEF Pin, Positions, ContactA, ContactB, n
<1>3. CASE knob.turning # "left"
    <2>1. knob.at = n % 4
        BY <1>3 DEF KnobInv, n
    <2>2. \/ n = 0 /\ knob.at = 0
          \/ n = 1 /\ knob.at = 1
          \/ n = 2 /\ knob.at = 2
          \/ n = 3 /\ knob.at = 3
          \/ n = 4 /\ knob.at = 0
        BY <1>1, <2>1
    <2>3. n # 0 => knob.turning = "right"
        BY <1>3 DEF KnobInv, Position, n
    <2>4. CASE knob.turning = "right"
        BY <2>2, <2>4 DEF Pin, Positions, ContactA, ContactB, n
    <2>5. CASE n = 0
        BY <2>2, <2>5 DEF Pin, Positions, ContactA, ContactB, n
    <2>6. QED
        BY <2>3, <2>4, <2>5
<1>4. QED
    BY <1>2, <1>3

(* One clock takes an event that is under way one stage further.           *)
LEMMA ClickClock ==
    ASSUME ClickInv, Clock
    PROVE  ClickInv'
<1> USE DEF ClickInv
<1>1. KnobInv'
    BY DEF Clock, KnobInv, Position
<1>2. /\ A_int' = ContactA(Position) /\ B_int' = ContactB(Position)
      /\ knob' = knob
    BY PinIsPosition DEF Clock, Filter
<1>3. SyncInv'
    BY <1>2 DEF Clock, Filter, SyncInv, KnobInv, Synchronised, Position,
               ContactA, ContactB
<1>4. CASE owed = 0 /\ QuietInv
    <2>1. owed' = 0
        BY <1>4 DEF Clock, QuietInv
    <2>2. QuietInv'
        BY <1>2, <1>4 DEF Clock, Filter, QuietInv, SyncInv, KnobInv,
                          Synchronised, Position, ContactA, ContactB
    <2>3. QED
        BY <1>1, <1>3, <2>1, <2>2
<1>5. CASE UnderWayInv
    <2>1. CASE eventReg = 1
        BY <1>1, <1>2, <1>3, <1>5, <2>1
        DEF Clock, Filter, UnderWayInv, QuietInv, SyncInv, Synchronised,
            Position, Click, Direction, ContactA, ContactB
    <2>2. CASE eventReg = 0
        <3>1. UnderWayInv'
            BY <1>2, <1>5, <2>2
            DEF Clock, Filter, UnderWayInv, KnobInv, Synchronised, Position,
                Click, Direction, ContactA, ContactB
        <3>2. QED
            BY <1>1, <1>3, <3>1
    <2>3. QED
        BY <1>5, <2>1, <2>2 DEF UnderWayInv
<1>6. QED
    BY <1>4, <1>5

(* Once the filter has settled no event is under way.                      *)
LEMMA SettledIsQuiet ==
    ASSUME ClickInv, Settled
    PROVE  /\ owed = 0 /\ QuietInv
           /\ Synchronised(Position)
           /\ dly_q1 = q1
           /\ knob.step = 3 /\ knob.bounced = 0 => q2 = Direction
           /\ knob.step = 2 => q1 = 0
<1>1. Synchronised(Position)
    BY PinIsPosition DEF ClickInv, Settled, Synchronised
<1>2. owed = 0 /\ QuietInv
    BY <1>1 DEF ClickInv, UnderWayInv, Settled, SyncInv, Synchronised,
               Position, ContactA, ContactB
<1>3. QED
    BY <1>1, <1>2 DEF ClickInv, KnobInv, Settled, QuietInv, SyncInv,
                      Synchronised, Position, Direction, ContactA, ContactB

(* The knob only moves when the filter has settled.                        *)
LEMMA ClickKnob ==
    ASSUME ClickInv, Turn \/ Step \/ Bounce \/ ComeToRest
    PROVE  ClickInv'
<1>1. /\ Settled /\ owed = 0 /\ QuietInv /\ KnobInv /\ SyncInv
      /\ Synchronised(Position)
      /\ dly_q1 = q1
      /\ knob.step = 3 /\ knob.bounced = 0 => q2 = Direction
      /\ knob.step = 2 => q1 = 0
    BY SettledIsQuiet DEF ClickInv, Turn, Step, Bounce, ComeToRest
<1>2. UNCHANGED filter
    BY DEF Turn, Step, Bounce, ComeToRest
<1>3. CASE Turn
    BY <1>1, <1>2, <1>3
    DEF Turn, ClickInv, KnobInv, QuietInv, SyncInv, Synchronised, Position,
        ContactA, ContactB, filter
<1>4. CASE Step
    <2>1. KnobInv'
        <3>1. /\ knob'.turning = knob.turning /\ knob'.bounced = 0
              /\ knob'.step = knob.step + 1
              /\ knob'.at = (knob.at + Forward) % 4
              /\ knob.bounced = 0
            BY <1>1, <1>4 DEF Step, KnobInv
        <3>2. knob.step = 0 \/ knob.step = 1 \/ knob.step = 2 \/ knob.step = 3
            BY <1>1, <1>4 DEF Step, KnobInv
        <3>3. knob.turning = "left" \/ knob.turning = "right"
            BY <1>1, <1>4 DEF Step, KnobInv
        <3>4. knob.at = IF knob.turning = "left" THEN (4 - knob.step) % 4
                        ELSE knob.step % 4
            BY <1>1, <3>1 DEF KnobInv, Position
        <3>5. knob'.at = IF knob.turning = "left" THEN (4 - knob'.step) % 4
                         ELSE knob'.step % 4
            BY <3>1, <3>2, <3>3, <3>4 DEF Forward
        <3>6. knob' \in [turning : {"no", "right", "left"}, at : 0..3,
                        step : 0..4, bounced : {0, 1}]
            <4>1. knob'.at \in 0..3
                BY <3>1, <3>2, <3>5
            <4>2. knob' = [turning |-> knob.turning, at |-> knob'.at,
                           step |-> knob.step + 1, bounced |-> 0]
                BY <1>1, <1>4, <3>1 DEF Step, KnobInv
            <4>3. QED
                BY <3>2, <3>3, <4>1, <4>2
        <3>7. QED
            BY <3>1, <3>2, <3>3, <3>5, <3>6 DEF KnobInv, Position
    <2>2. SyncInv'
        BY <1>1, <1>2, <1>4
        DEF Step, KnobInv, SyncInv, Synchronised, Position, ContactA,
            ContactB, filter
    <2>3. CASE knob.step = 3
        <3>1. UnderWayInv'
            BY <1>1, <1>2, <1>4, <2>3
            DEF Step, KnobInv, QuietInv, UnderWayInv, Synchronised, Position,
                Click, Direction, ContactA, ContactB, filter
        <3>2. QED
            BY <2>1, <2>2, <3>1 DEF ClickInv
    <2>4. CASE knob.step # 3
        <3>1. owed' = 0 /\ QuietInv'
            BY <1>1, <1>2, <1>4, <2>4 DEF Step, KnobInv, QuietInv, filter
        <3>2. QED
            BY <2>1, <2>2, <3>1 DEF ClickInv
    <2>5. QED
        BY <2>3, <2>4
<1>5. CASE Bounce
    <2>1. KnobInv'
        <3>1. /\ knob'.turning = knob.turning /\ knob'.step = knob.step
              /\ knob'.at = (knob.at + (IF knob.bounced = 1 THEN Forward ELSE 4 - Forward)) % 4
              /\ knob'.at \in 0..3
            BY <1>1, <1>5 DEF Bounce, KnobInv, Forward
        <3>2. knob' = [turning |-> knob.turning, at |-> knob'.at,
                          step |-> knob.step, bounced |-> 1 - knob.bounced]
            BY <1>1, <1>5 DEF Bounce, KnobInv
        <3>3. knob.step = 1 \/ knob.step = 2 \/ knob.step = 3 \/ knob.step = 4
            BY <1>1, <1>5 DEF Bounce, KnobInv
        <3>4. knob.turning = "left" \/ knob.turning = "right"
            BY <1>1, <3>3 DEF KnobInv
        <3>5. knob'.at = IF knob.turning = "left" THEN (4 - Position') % 4
                         ELSE Position' % 4
            <4>1. CASE knob.bounced = 1
                <5>1. knob.at = IF knob.turning = "left" THEN (5 - knob.step) % 4
                                ELSE (knob.step - 1) % 4
                    BY <1>1, <3>3, <4>1 DEF KnobInv, Position
                <5>2. Position' = knob.step
                    BY <3>2, <4>1 DEF Position
                <5>3. QED
                    BY <3>1, <3>3, <3>4, <4>1, <5>1, <5>2 DEF Forward
            <4>2. CASE knob.bounced = 0
                <5>1. knob.at = IF knob.turning = "left" THEN (4 - knob.step) % 4
                                ELSE knob.step % 4
                    BY <1>1, <3>3, <4>2 DEF KnobInv, Position
                <5>2. Position' = knob.step - 1
                    BY <3>2, <4>2 DEF Position
                <5>3. QED
                    <6>1. CASE knob.turning = "left"
                        BY <3>1, <3>3, <4>2, <5>1, <5>2, <6>1 DEF Forward
                    <6>2. CASE knob.turning = "right"
                        BY <3>1, <3>3, <4>2, <5>1, <5>2, <6>2 DEF Forward
                    <6>3. QED
                        BY <3>4, <6>1, <6>2
            <4>3. QED
                BY <1>1, <4>1, <4>2 DEF KnobInv
        <3>6. QED
            BY <1>1, <3>1, <3>2, <3>3, <3>4, <3>5 DEF KnobInv
    <2>2. SyncInv'
        BY <1>1, <1>2, <1>5
        DEF Bounce, KnobInv, SyncInv, Synchronised, ContactA, ContactB, filter
    <2>3. owed' = 0 /\ QuietInv'
        BY <1>1, <1>2, <1>5 DEF Bounce, KnobInv, QuietInv, filter
    <2>4. QED
        BY <2>1, <2>2, <2>3 DEF ClickInv
<1>6. CASE ComeToRest
    <2>1. /\ knob' = [turning |-> "no", at |-> knob.at, step |-> 0,
                      bounced |-> 0]
          /\ knob.at = 0
        <3>1. Position = 4
            BY <1>1, <1>6 DEF ComeToRest, KnobInv, Position
        <3>2. knob.at = 0
            BY <1>1, <3>1 DEF KnobInv
        <3>3. QED
            BY <1>1, <1>6, <3>2 DEF ComeToRest, KnobInv
    <2>2. KnobInv'
        BY <2>1 DEF KnobInv, Position
    <2>3. A_int = 1 /\ B_int = 1 /\ q1 = 1 /\ owed' = 0
        BY <1>1, <1>6
        DEF ComeToRest, QuietInv, Synchronised, Position, ContactA, ContactB
    <2>4. SyncInv' /\ QuietInv'
        BY <1>1, <1>2, <2>1, <2>3
        DEF SyncInv, QuietInv, Synchronised, ContactA, ContactB, filter
    <2>5. QED
        BY <2>2, <2>3, <2>4 DEF ClickInv
<1>7. QED
    BY <1>3, <1>4, <1>5, <1>6

LEMMA ClickInit ==
    ASSUME Init
    PROVE  ClickInv
<1>1. KnobInv
    BY DEF Init, AtRest, KnobInv, Position
<1>2. SyncInv /\ QuietInv /\ owed = 0
    BY DEF Init, AtRest, SyncInv, QuietInv, Synchronised, ContactA, ContactB
<1>3. QED
    BY <1>1, <1>2 DEF ClickInv

(* The program and the reset leave the knob and the filter alone.          *)
LEMMA ClickStep ==
    ASSUME ClickInv, [Next]_vars
    PROVE  ClickInv'
<1>1. CASE Turn \/ Step \/ Bounce \/ ComeToRest
    BY <1>1, ClickKnob
<1>2. CASE Clock
    BY <1>2, ClickClock
<1>3. CASE UNCHANGED <<knob, filter, owed>>
    BY <1>3 DEF ClickInv, KnobInv, SyncInv, QuietInv, UnderWayInv, Position,
                Synchronised, Click, Direction, ContactA, ContactB, filter
<1>4. CASE \/ CallInitialize \/ CallInit \/ CallClearCount \/ CallReadCount
           \/ Access \/ BoardReset \/ UNCHANGED vars
    <2>1. UNCHANGED <<knob, filter, owed>>
        BY <1>4 DEF CallInitialize, CallInit, CallClearCount, CallReadCount,
                    Call, Access, BoardReset, vars
    <2>2. QED
        BY <2>1, <1>3
<1>5. QED
    BY <1>1, <1>2, <1>4 DEF Next

(* The filter's invariant holds in every reachable state.                  *)
THEOREM ClickInvariance == Spec => []ClickInv
<1>1. Init => ClickInv
    BY ClickInit
<1>2. ClickInv /\ [Next]_vars => ClickInv'
    BY ClickStep
<1>3. QED
    BY <1>1, <1>2, PTL DEF Spec

(* However its contacts bounce, encoder.v makes one event of each click of *)
(* the knob, to the side it was turned to, and none of anything else.      *)
THEOREM ClicksCorrect == Spec => []EveryClickIsAnEvent
<1>1. ClickInv => EveryClickIsAnEvent
    BY SettledIsQuiet DEF EveryClickIsAnEvent
<1>2. QED
    BY <1>1, ClickInvariance, PTL

-----------------------------------------------------------------------------
(* The accesses of the calls, for the types of what they write.            *)
Control == [clr : {0, 1}, ld : {0, 1}, spare : {0, 1}, noNeg : {0, 1}, incr : 0..15]
Accesses ==
    [op : {"write", "check"}, reg : {1}, val : Control]
        \cup [op : {"write", "check"}, reg : {3}, val : {0, Pattern3}]
        \cup [op : {"count"}, clearing : BOOLEAN]
        \cup [op : {"ready"}]

TypeInv == ClickInv /\ TypeOK /\ todo \in Seq(Accesses)

LEMMA Joined ==
    \A s, t \in Seq(Accesses) : s \o t \in Seq(Accesses)
OBVIOUS

LEMMA CallTypes ==
    /\ initialize \in Seq(Accesses)
    /\ \A incr \in Nat, noNeg \in {0, 1} : init(incr, noNeg) \in Seq(Accesses)
    /\ clear_count \in Seq(Accesses)
    /\ \A clearing \in BOOLEAN : ReadCount(clearing) \in Seq(Accesses)
<1>1. Zero \in Control /\ Pattern \in Control
    BY DEF Zero, Pattern, Control
<1>2. \A v \in Control : Write(1, v) \in Seq(Accesses) /\ Check(1, v) \in Seq(Accesses)
    BY DEF Write, Check, Accesses
<1>3. Write(3, Pattern3) \in Seq(Accesses) /\ Check(3, Pattern3) \in Seq(Accesses)
    BY DEF Write, Check, Accesses
<1>4. \A clearing \in BOOLEAN : ReadCount(clearing) \in Seq(Accesses)
    BY DEF ReadCount, Accesses
<1>5. selftest \in Seq(Accesses)
    BY <1>1, <1>2, <1>3, Joined DEF selftest
<1>6. ASSUME NEW incr \in Nat, NEW noNeg \in {0, 1}
      PROVE  init(incr, noNeg) \in Seq(Accesses)
    <2> DEFINE enc_state == [Zero EXCEPT !.incr = incr % 16, !.noNeg = noNeg]
    <2>1. incr % 16 \in 0..15
        OBVIOUS
    <2>2. enc_state \in Control /\ [enc_state EXCEPT !.ld = 1] \in Control
        BY <2>1 DEF Zero, Control
    <2>3. Write(1, [enc_state EXCEPT !.ld = 1]) \in Seq(Accesses)
        BY <1>2, <2>2
    <2>4. Write(1, enc_state) \in Seq(Accesses)
        BY <1>2, <2>2
    <2>5. QED
        BY <2>3, <2>4, Joined DEF init
<1>7. clear_count \in Seq(Accesses)
    <2>1. [Zero EXCEPT !.clr = 1] \in Control
        BY DEF Zero, Control
    <2>2. Write(1, [Zero EXCEPT !.clr = 1]) \in Seq(Accesses)
        BY <1>2, <2>1
    <2>3. Write(1, Zero) \in Seq(Accesses) /\ ReadCount(TRUE) \in Seq(Accesses)
        BY <1>1, <1>2, <1>4
    <2>4. QED
        BY <2>2, <2>3, Joined DEF clear_count
<1>8. <<[op |-> "ready"]>> \in Seq(Accesses)
    BY DEF Accesses
<1>9. QED
    BY <1>4, <1>5, <1>6, <1>7, <1>8, Joined DEF initialize

LEMMA WrapRange ==
    ASSUME NEW n \in Int
    PROVE  Wrap(n) \in (-CountHalf)..(CountHalf - 1)
<1>1. (n + CountHalf) % (2 * CountHalf) \in 0..(2 * CountHalf - 1)
    BY PmodENCAssumption
<1>2. QED
    BY <1>1, PmodENCAssumption DEF Wrap

LEMMA ClickTypes ==
    ASSUME ClickInv
    PROVE  /\ knob \in [turning : {"no", "right", "left"}, at : 0..3, step : 0..4,
                         bounced : {0, 1}]
           /\ {A_int, B_int, q1, q2, dly_q1, eventReg, dirReg} \subseteq {0, 1}
           /\ owed \in -1..1
BY DEF ClickInv, KnobInv, SyncInv, UnderWayInv, Click

(* What a reset leaves in the registers and the driver.                    *)
ResetTypes ==
    /\ noNegReg \in {0, 1} /\ incrDecrValReg \in 0..15
    /\ countReg \in (-CountHalf)..(CountHalf - 1)
    /\ slv_reg1 \in Control /\ slv_reg3 \in {0, Pattern3}
    /\ busy \in 0..BusClocks
    /\ is_ready \in BOOLEAN /\ count \in 0..(2 * CountHalf - 1)
    /\ status \in {"none", "running", "success", "failure"}
    /\ asked \in [incr : 0..15, noNeg : {0, 1}]

LEMMA ZeroTypes ==
    /\ Zero \in Control
    /\ 0 \in (-CountHalf)..(CountHalf - 1) /\ 0 \in 0..(2 * CountHalf - 1)
    /\ [incr |-> 1, noNeg |-> 0] \in [incr : 0..15, noNeg : {0, 1}]
<1>1. Zero \in Control
    BY DEF Zero, Control
<1>2. 0 \in (-CountHalf)..(CountHalf - 1) /\ 0 \in 0..(2 * CountHalf - 1)
    BY PmodENCAssumption
<1>3. QED
    BY <1>1, <1>2

LEMMA TypeInit ==
    ASSUME Init
    PROVE  TypeInv
<1>1. ClickInv
    BY ClickInit
<1>2. todo \in Seq(Accesses)
    BY DEF Init
<1>3. ResetTypes
    <2>1. countReg \in (-CountHalf)..(CountHalf - 1) /\ count \in 0..(2 * CountHalf - 1)
        BY ZeroTypes DEF Init
    <2>2. slv_reg1 \in Control /\ asked \in [incr : 0..15, noNeg : {0, 1}]
        BY ZeroTypes DEF Init
    <2>3. noNegReg \in {0, 1} /\ incrDecrValReg \in 0..15 /\ slv_reg3 \in {0, Pattern3}
        BY DEF Init
    <2>4. busy \in 0..BusClocks
        BY DEF Init, BusClocks
    <2>5. is_ready \in BOOLEAN
        BY DEF Init
    <2>6. status \in {"none", "running", "success", "failure"}
        BY DEF Init
    <2>7. QED
        BY <2>1, <2>2, <2>3, <2>4, <2>5, <2>6 DEF ResetTypes
<1>4. TypeOK
    BY <1>1, <1>3, ClickTypes DEF ResetTypes, TypeOK, Control
<1>5. QED
    BY <1>1, <1>2, <1>4 DEF TypeInv

(* The counter's registers keep their widths at a clock.                   *)
LEMMA CounterTypes ==
    ASSUME TypeInv, Counter
    PROVE  /\ countReg' \in (-CountHalf)..(CountHalf - 1)
           /\ incrDecrValReg' \in 0..15 /\ noNegReg' \in {0, 1}
<1>1. /\ countReg \in (-CountHalf)..(CountHalf - 1)
      /\ incrDecrValReg \in 0..15 /\ noNegReg \in {0, 1}
      /\ slv_reg1.noNeg \in {0, 1} /\ slv_reg1.incr \in 0..15
    BY DEF TypeInv, TypeOK
<1>2. Turned \in (-CountHalf)..(CountHalf - 1)
    <2>1. Wrap(countReg + incrDecrValReg) \in (-CountHalf)..(CountHalf - 1)
        BY <1>1, WrapRange, PmodENCAssumption
    <2>2. Wrap(countReg - incrDecrValReg) \in (-CountHalf)..(CountHalf - 1)
        BY <1>1, WrapRange, PmodENCAssumption
    <2>3. QED
        BY <1>1, <2>1, <2>2, PmodENCAssumption DEF Turned
<1>3. countReg' \in (-CountHalf)..(CountHalf - 1)
    BY <1>1, <1>2, PmodENCAssumption DEF Counter
<1>4. incrDecrValReg' \in 0..15 /\ noNegReg' \in {0, 1}
    BY <1>1 DEF Counter, counter
<1>5. QED
    BY <1>3, <1>4

LEMMA WriteTypes ==
    ASSUME NEW a \in Accesses, a.op = "write"
    PROVE  \/ a.reg = 1 /\ a.val \in Control
           \/ a.reg = 3 /\ a.val \in {0, Pattern3}
<1>1. CASE a \in [op : {"write", "check"}, reg : {1}, val : Control]
    BY <1>1
<1>2. CASE a \in [op : {"write", "check"}, reg : {3}, val : {0, Pattern3}]
    BY <1>2
<1>3. CASE a \in [op : {"count"}, clearing : BOOLEAN]
    BY <1>3
<1>4. CASE a \in [op : {"ready"}]
    BY <1>4
<1>5. QED
    BY <1>1, <1>2, <1>3, <1>4 DEF Accesses

(* A bus access keeps what it writes and reads within its register.        *)
LEMMA AccessTypes ==
    ASSUME TypeInv, Access
    PROVE  /\ slv_reg1' \in Control /\ slv_reg3' \in {0, Pattern3}
           /\ busy' \in 0..BusClocks /\ is_ready' \in BOOLEAN
           /\ count' \in 0..(2 * CountHalf - 1)
           /\ status' \in {"none", "running", "success", "failure"}
           /\ todo' \in Seq(Accesses)
<1> DEFINE access == Head(todo)
<1>1. access \in Accesses /\ Tail(todo) \in Seq(Accesses) /\ busy' \in 0..BusClocks
    BY DEF TypeInv, Access, BusClocks
<1>2. /\ slv_reg1 \in Control /\ slv_reg3 \in {0, Pattern3} /\ is_ready \in BOOLEAN
      /\ count \in 0..(2 * CountHalf - 1) /\ countReg \in (-CountHalf)..(CountHalf - 1)
      /\ status \in {"none", "running", "success", "failure"}
    BY DEF TypeInv, TypeOK, Control
<1>3. CASE access.op = "write"
    <2>1. \/ access.reg = 1 /\ access.val \in Control
          \/ access.reg = 3 /\ access.val \in {0, Pattern3}
        <3> HIDE DEF access
        <3>1. QED
            BY <1>1, <1>3, WriteTypes
    <2>2. WriteReg(access.reg, access.val)
        BY <1>3 DEF Access
    <2>3. slv_reg1' \in Control /\ slv_reg3' \in {0, Pattern3}
        BY <1>2, <2>1, <2>2 DEF WriteReg
    <2>4. todo' = Tail(todo) /\ UNCHANGED <<is_ready, count, status>>
        BY <1>3 DEF Access
    <2>5. QED
        BY <1>1, <1>2, <2>3, <2>4
<1>4. CASE access.op = "check"
    <2>1. UNCHANGED <<axi, is_ready, count>>
        BY <1>4 DEF Access
    <2>2. \/ todo' = Tail(todo) /\ status' = status
          \/ todo' = <<>> /\ status' = "failure"
        BY <1>4 DEF Access
    <2>3. <<>> \in Seq(Accesses)
        OBVIOUS
    <2>4. QED
        BY <1>1, <1>2, <2>1, <2>2, <2>3 DEF axi
<1>5. CASE access.op = "ready"
    BY <1>1, <1>2, <1>5 DEF Access, axi
<1>6. CASE access.op = "count"
    <2>1. countReg % (2 * CountHalf) \in 0..(2 * CountHalf - 1)
        BY <1>2, PmodENCAssumption
    <2>2. count' = countReg % (2 * CountHalf) /\ status' \in {"failure", "success"}
        BY <1>6 DEF Access
    <2>3. todo' = Tail(todo) /\ UNCHANGED <<axi, is_ready>>
        BY <1>6 DEF Access
    <2>4. QED
        BY <1>1, <1>2, <2>1, <2>2, <2>3 DEF axi
<1>7. QED
    BY <1>1, <1>3, <1>4, <1>5, <1>6 DEF Accesses

LEMMA TypeStep ==
    ASSUME TypeInv, [Next]_vars
    PROVE  TypeInv'
<1>1. ClickInv' /\ TypeOK /\ todo \in Seq(Accesses)
    BY ClickStep DEF TypeInv
<1>2. /\ knob' \in [turning : {"no", "right", "left"}, at : 0..3, step : 0..4,
                     bounced : {0, 1}]
      /\ {A_int, B_int, q1, q2, dly_q1, eventReg, dirReg}' \subseteq {0, 1}
      /\ owed' \in -1..1
    BY <1>1 DEF ClickInv, KnobInv, SyncInv, UnderWayInv, Click
<1>3. CASE Turn \/ Step \/ Bounce \/ ComeToRest
    <2>1. UNCHANGED <<counter, axi, driver>>
        BY <1>3 DEF Turn, Step, Bounce, ComeToRest
    <2>2. QED
        BY <1>1, <1>2, <2>1 DEF TypeInv, TypeOK, counter, axi, driver
<1>4. CASE Clock
    <2>1. Counter /\ UNCHANGED <<axi, todo, is_ready, count, status, asked>>
        BY <1>4 DEF Clock
    <2>2. /\ countReg' \in (-CountHalf)..(CountHalf - 1)
          /\ incrDecrValReg' \in 0..15 /\ noNegReg' \in {0, 1}
        BY <2>1, CounterTypes
    <2>3. busy' \in 0..BusClocks
        BY <1>1, <1>4 DEF Clock, TypeOK, BusClocks
    <2>4. QED
        BY <1>1, <1>2, <2>1, <2>2, <2>3 DEF TypeInv, TypeOK, axi
<1>5. CASE CallInitialize \/ CallInit \/ CallClearCount \/ CallReadCount
    <2>1. UNCHANGED <<counter, axi, busy>>
        BY <1>5 DEF CallInitialize, CallInit, CallClearCount, CallReadCount, Call
    <2>2. /\ is_ready' \in BOOLEAN /\ count' = count
          /\ status' \in {"none", "running", "success", "failure"}
        BY <1>1, <1>5
        DEF TypeOK, CallInitialize, CallInit, CallClearCount, CallReadCount
    <2>3. todo' \in Seq(Accesses) /\ asked' \in [incr : 0..15, noNeg : {0, 1}]
        <3>1. CASE CallInitialize
            BY <3>1, CallTypes DEF CallInitialize, Call
        <3>2. CASE CallInit
            <4>1. PICK incr \in Increments, noNeg \in {0, 1} :
                      /\ todo' = init(incr, noNeg)
                      /\ asked' = [incr |-> incr % 16, noNeg |-> noNeg]
                BY <3>2 DEF CallInit, Call
            <4>2. incr \in Nat /\ incr % 16 \in 0..15
                BY PmodENCAssumption
            <4>3. QED
                BY <4>1, <4>2, CallTypes
        <3>3. CASE CallClearCount \/ CallReadCount
            BY <1>1, <3>3, CallTypes DEF CallClearCount, CallReadCount, Call, TypeOK
        <3>4. QED
            BY <1>5, <3>1, <3>2, <3>3
    <2>4. QED
        BY <1>1, <1>2, <2>1, <2>2, <2>3 DEF TypeInv, TypeOK, counter, axi
<1>6. CASE Access
    <2>1. UNCHANGED <<counter, asked>>
        BY <1>6 DEF Access
    <2>2. QED
        BY <1>1, <1>2, <1>6, <2>1, AccessTypes
        DEF TypeInv, TypeOK, counter, Control
<1>7. CASE BoardReset
    <2>1. ResetTypes'
        <3>1. countReg' \in (-CountHalf)..(CountHalf - 1) /\ count' \in 0..(2 * CountHalf - 1)
            BY <1>7, ZeroTypes DEF BoardReset
        <3>2. slv_reg1' \in Control /\ asked' \in [incr : 0..15, noNeg : {0, 1}]
            BY <1>7, ZeroTypes DEF BoardReset
        <3>3. noNegReg' \in {0, 1} /\ incrDecrValReg' \in 0..15 /\ slv_reg3' \in {0, Pattern3}
            BY <1>7 DEF BoardReset
        <3>4. busy' \in 0..BusClocks
            BY <1>7 DEF BoardReset, BusClocks
        <3>5. is_ready' \in BOOLEAN
            BY <1>7 DEF BoardReset
        <3>6. status' \in {"none", "running", "success", "failure"}
            BY <1>7 DEF BoardReset
        <3>7. QED
            BY <3>1, <3>2, <3>3, <3>4, <3>5, <3>6 DEF ResetTypes
    <2>2. todo' \in Seq(Accesses)
        BY <1>7 DEF BoardReset
    <2>3. QED
        BY <1>1, <1>2, <2>1, <2>2 DEF ResetTypes, TypeInv, TypeOK, Control
<1>8. CASE UNCHANGED vars
    <2>1. UNCHANGED <<counter, axi, driver>>
        BY <1>8 DEF vars
    <2>2. QED
        BY <1>1, <1>2, <2>1 DEF TypeInv, TypeOK, counter, axi, driver
<1>9. QED
    BY <1>3, <1>4, <1>5, <1>6, <1>7, <1>8 DEF Next

(* Everything keeps its type while the calls write what they may write.    *)
THEOREM TypeInvariance == Spec => []TypeInv
<1>1. Init => TypeInv
    BY TypeInit
<1>2. TypeInv /\ [Next]_vars => TypeInv'
    BY TypeStep
<1>3. QED
    BY <1>1, <1>2, PTL DEF Spec

(* The registers of the encoder keep their widths, the count wraps within  *)
(* its 16 bits whatever it is changed by, and the driver only holds what a *)
(* read of the count can give.                                             *)
THEOREM TypeCorrect == Spec => []TypeOK
<1>1. TypeInv => TypeOK
    BY DEF TypeInv
<1>2. QED
    BY <1>1, TypeInvariance, PTL

-----------------------------------------------------------------------------
(* What the running call has left.  A call that has loaded a configuration *)
(* goes on with After, which only initialize() has something in.           *)
Asked == [incr : 0..15, noNeg : {0, 1}]
First == [incr |-> 1, noNeg |-> 0]

Config(a) == [Zero EXCEPT !.incr = a.incr, !.noNeg = a.noNeg]
Loading(a) == [Config(a) EXCEPT !.ld = 1]

Configured == incrDecrValReg = asked.incr /\ noNegReg = asked.noNeg
Afters == {<<>>, clear_count}

ClearLeft == Write(1, Zero) \o ReadCount(TRUE)
StoreLeft(a, after) == Write(1, Config(a)) \o after
LoadLeft(a, after) == Write(1, Loading(a)) \o StoreLeft(a, after)
ReadyLeft == <<[op |-> "ready"]>> \o LoadLeft(First, clear_count)
Check3Left == Check(3, Pattern3) \o ReadyLeft
Check1Left == Check(1, Pattern) \o Check3Left
Write3Left == Write(3, Pattern3) \o Check1Left
Write1Left == Write(1, Pattern) \o Write3Left

(* The self test finds what it wrote, as nothing else writes between; the  *)
(* configuration is loaded before the write that ends the pulse, as the    *)
(* accesses leave the counter a clock; and nothing else is loaded.         *)
Resting ==
    /\ todo = <<>> \/ (\E clearing \in BOOLEAN : todo = ReadCount(clearing))
                  \/ todo = ClearLeft \/ todo = clear_count
    /\ slv_reg1.ld = 0 /\ Configured
    /\ is_ready \/ (todo = <<>> /\ status = "none")

Storing ==
    /\ \E after \in Afters : todo = StoreLeft(asked, after)
    /\ slv_reg1 = Loading(asked) /\ is_ready
    /\ busy < BusClocks => Configured

AboutToLoad ==
    /\ \E after \in Afters : todo = LoadLeft(asked, after)
    /\ slv_reg1.ld = 0 /\ is_ready

Testing ==
    /\ slv_reg1.ld = 0 /\ asked = First
    /\ \/ todo = Write1Left
       \/ todo = Write3Left /\ slv_reg1 = Pattern
       \/ todo = Check1Left /\ slv_reg1 = Pattern /\ slv_reg3 = Pattern3
       \/ todo = Check3Left /\ slv_reg3 = Pattern3
       \/ todo = ReadyLeft

ConfigInv == Resting \/ Storing \/ AboutToLoad \/ Testing

LEMMA Prepended ==
    ASSUME NEW x \in Accesses, NEW s \in Seq(Accesses)
    PROVE  /\ <<x>> \o s \in Seq(Accesses) /\ <<x>> \o s # <<>>
           /\ Head(<<x>> \o s) = x /\ Tail(<<x>> \o s) = s
<1> DEFINE t == <<x>> \o s
<1>1. t \in Seq(Accesses) /\ Len(t) = Len(s) + 1 /\ t[1] = x
    OBVIOUS
<1>2. Tail(t) \in Seq(Accesses) /\ Len(Tail(t)) = Len(s)
    BY <1>1
<1>3. \A i \in 1..Len(s) : Tail(t)[i] = s[i]
    BY <1>1
<1>4. Tail(t) = s
    BY <1>2, <1>3
<1>5. QED
    BY <1>1, <1>4

LEMMA Associative ==
    ASSUME NEW s \in Seq(Accesses), NEW t \in Seq(Accesses), NEW u \in Seq(Accesses)
    PROVE  (s \o t) \o u = s \o (t \o u)
<1>1. (s \o t) \o u \in Seq(Accesses) /\ s \o (t \o u) \in Seq(Accesses)
    OBVIOUS
<1>2. Len((s \o t) \o u) = Len(s \o (t \o u))
    OBVIOUS
<1>3. \A i \in 1..Len((s \o t) \o u) : ((s \o t) \o u)[i] = (s \o (t \o u))[i]
    OBVIOUS
<1>4. QED
    BY <1>1, <1>2, <1>3

(* Concatenation under a name, so that a chain of them stays a term.       *)
Join(s, t) == s \o t
Plans == Seq(Accesses)

LEMMA JoinAssociative ==
    /\ \A s, t \in Plans : Join(s, t) \in Plans
    /\ \A s, t, u \in Plans : Join(Join(s, t), u) = Join(s, Join(t, u))
BY Joined, Associative DEF Join, Plans

LEMMA Regrouped ==
    ASSUME NEW a \in Plans, NEW b \in Plans, NEW c \in Plans, NEW d \in Plans, NEW y \in Plans
    PROVE  /\ Join(Join(Join(a, b), c), d) \in Plans
           /\ Join(Join(Join(Join(a, b), c), d), y) = Join(a, Join(b, Join(c, Join(d, y))))
<1>1. Join(a, b) \in Plans /\ Join(d, y) \in Plans
    BY JoinAssociative
<1>2. Join(Join(a, b), c) \in Plans /\ Join(c, Join(d, y)) \in Plans
    BY <1>1, JoinAssociative
<1>3. Join(Join(Join(a, b), c), d) \in Plans
    BY <1>2, JoinAssociative
<1>4. Join(Join(Join(Join(a, b), c), d), y) = Join(Join(Join(a, b), c), Join(d, y))
    BY <1>2, JoinAssociative
<1>5. @ = Join(Join(a, b), Join(c, Join(d, y)))
    BY <1>1, JoinAssociative
<1>6. @ = Join(a, Join(b, Join(c, Join(d, y))))
    BY <1>2, JoinAssociative
<1>7. QED
    BY <1>3, <1>4, <1>5, <1>6

LEMMA RegroupedInit ==
    ASSUME NEW t \in Plans, NEW r \in Plans, NEW l \in Plans, NEW s \in Plans, NEW e \in Plans
    PROVE  /\ Join(r, Join(l, Join(s, e))) \in Plans
           /\ Join(Join(Join(t, r), Join(l, s)), e) = Join(t, Join(r, Join(l, Join(s, e))))
<1>1. Join(t, r) \in Plans /\ Join(l, s) \in Plans /\ Join(s, e) \in Plans
    BY JoinAssociative
<1>2. Join(l, Join(s, e)) \in Plans
    BY <1>1, JoinAssociative
<1>3. Join(r, Join(l, Join(s, e))) \in Plans
    BY <1>2, JoinAssociative
<1>4. Join(Join(Join(t, r), Join(l, s)), e) = Join(Join(t, r), Join(Join(l, s), e))
    BY <1>1, JoinAssociative
<1>5. Join(Join(l, s), e) = Join(l, Join(s, e))
    BY JoinAssociative
<1>6. Join(Join(t, r), Join(l, Join(s, e))) = Join(t, Join(r, Join(l, Join(s, e))))
    BY <1>2, JoinAssociative
<1>7. QED
    BY <1>3, <1>4, <1>5, <1>6

(* The accesses and what is left of the calls after them.                  *)
LEMMA LeftTypes ==
    /\ \A a \in Asked : /\ Config(a) \in Control /\ Config(a).ld = 0
                      /\ Loading(a) \in Control /\ Loading(a).ld = 1
                      /\ Loading(a).incr = a.incr /\ Loading(a).noNeg = a.noNeg
    /\ Pattern \in Control /\ Pattern.ld = 0 /\ Zero \in Control /\ Zero.ld = 0
    /\ clear_count \in Seq(Accesses) /\ Afters \subseteq Seq(Accesses) /\ First \in Asked
<1>1. ASSUME NEW a \in Asked
      PROVE  /\ Config(a) \in Control /\ Config(a).ld = 0
             /\ Loading(a) \in Control /\ Loading(a).ld = 1
             /\ Loading(a).incr = a.incr /\ Loading(a).noNeg = a.noNeg
    BY DEF Asked, Config, Loading, Zero, Control
<1>2. Pattern \in Control /\ Pattern.ld = 0 /\ Zero \in Control /\ Zero.ld = 0
    BY DEF Pattern, Zero, Control
<1>3. First \in Asked
    BY DEF First, Asked
<1>4. clear_count \in Seq(Accesses) /\ Afters \subseteq Seq(Accesses)
    BY CallTypes DEF Afters
<1>5. QED
    BY <1>1, <1>2, <1>3, <1>4

StoreOf(r, v) == [op |-> "write", reg |-> r, val |-> v]
CheckOf(r, v) == [op |-> "check", reg |-> r, val |-> v]

LEMMA LeftSequences ==
    /\ ClearLeft \in Seq(Accesses)
    /\ \A a \in Asked, after \in Afters :
           StoreLeft(a, after) \in Seq(Accesses) /\ LoadLeft(a, after) \in Seq(Accesses)
    /\ ReadyLeft \in Seq(Accesses) /\ Check3Left \in Seq(Accesses)
    /\ Check1Left \in Seq(Accesses) /\ Write3Left \in Seq(Accesses)
    /\ Write1Left \in Seq(Accesses)
<1>1. \A v \in Control : StoreOf(1, v) \in Accesses /\ CheckOf(1, v) \in Accesses
    BY DEF StoreOf, CheckOf, Accesses
<1>2. StoreOf(3, Pattern3) \in Accesses /\ CheckOf(3, Pattern3) \in Accesses
      /\ [op |-> "ready"] \in Accesses
    BY DEF StoreOf, CheckOf, Accesses
<1>3. ClearLeft \in Seq(Accesses)
    BY <1>1, LeftTypes, Prepended, CallTypes DEF ClearLeft, Write, StoreOf
<1>4. \A a \in Asked, after \in Afters : StoreLeft(a, after) \in Seq(Accesses)
    BY <1>1, LeftTypes, Prepended DEF StoreLeft, Write, StoreOf
<1>5. \A a \in Asked, after \in Afters : LoadLeft(a, after) \in Seq(Accesses)
    BY <1>1, <1>4, LeftTypes, Prepended DEF LoadLeft, Write, StoreOf
<1>6. ReadyLeft \in Seq(Accesses)
    BY <1>2, <1>5, LeftTypes, Prepended DEF ReadyLeft, Afters
<1>7. Check3Left \in Seq(Accesses)
    BY <1>2, <1>6, Prepended DEF Check3Left, Check, CheckOf
<1>8. Check1Left \in Seq(Accesses)
    BY <1>1, <1>7, LeftTypes, Prepended DEF Check1Left, Check, CheckOf
<1>9. Write3Left \in Seq(Accesses)
    BY <1>2, <1>8, Prepended DEF Write3Left, Write, StoreOf
<1>10. Write1Left \in Seq(Accesses)
    BY <1>1, <1>9, LeftTypes, Prepended DEF Write1Left, Write, StoreOf
<1>11. QED
    BY <1>3, <1>4, <1>5, <1>6, <1>7, <1>8, <1>9, <1>10

(* The calls begin with all of their accesses.                             *)
LEMMA CallsLeft ==
    /\ initialize = Write1Left
    /\ \A incr \in Nat, noNeg \in {0, 1} :
           init(incr, noNeg) = LoadLeft([incr |-> incr % 16, noNeg |-> noNeg], <<>>)
    /\ clear_count = Write(1, [Zero EXCEPT !.clr = 1]) \o ClearLeft
<1>1. \A incr \in Nat, noNeg \in {0, 1} :
          init(incr, noNeg) = Write(1, Loading([incr |-> incr % 16, noNeg |-> noNeg]))
                                  \o Write(1, Config([incr |-> incr % 16, noNeg |-> noNeg]))
    BY DEF init, Loading, Config
<1>2. \A v \in Control : Write(1, v) \in Seq(Accesses) /\ Check(1, v) \in Seq(Accesses)
    BY DEF Write, Check, Accesses
<1>3. Write(3, Pattern3) \in Seq(Accesses) /\ Check(3, Pattern3) \in Seq(Accesses)
      /\ <<[op |-> "ready"]>> \in Seq(Accesses)
    BY DEF Write, Check, Accesses
<1>4. \A s \in Seq(Accesses) : s \o <<>> = s
    OBVIOUS
<1>5. ASSUME NEW incr \in Nat, NEW noNeg \in {0, 1}
      PROVE  init(incr, noNeg) = LoadLeft([incr |-> incr % 16, noNeg |-> noNeg], <<>>)
    <2>1. [incr |-> incr % 16, noNeg |-> noNeg] \in Asked
        BY DEF Asked
    <2>2. Write(1, Config([incr |-> incr % 16, noNeg |-> noNeg])) \in Seq(Accesses)
        BY <1>2, <2>1, LeftTypes
    <2>3. QED
        BY <1>1, <1>4, <2>2 DEF LoadLeft, StoreLeft
<1>6. initialize = Write1Left
    <2> DEFINE W1 == Write(1, Pattern)  W3 == Write(3, Pattern3)
               C1 == Check(1, Pattern)  C3 == Check(3, Pattern3)
               R == <<[op |-> "ready"]>>
               L == Write(1, Loading(First))  S == Write(1, Config(First))  C == clear_count
    <2>1. init(1, 0) = L \o S
        <3>1. 1 % 16 = 1
            OBVIOUS
        <3>2. QED
            BY <1>1, <3>1 DEF First
    <2>2. /\ W1 \in Plans /\ W3 \in Plans /\ C1 \in Plans /\ C3 \in Plans
          /\ R \in Plans /\ L \in Plans /\ S \in Plans /\ C \in Plans
        BY <1>2, <1>3, LeftTypes DEF Plans
    <2>3. initialize = Join(Join(Join(Join(Join(Join(W1, W3), C1), C3), R), Join(L, S)), C)
        BY <2>1 DEF initialize, selftest, Join
    <2>4. Write1Left = Join(W1, Join(W3, Join(C1, Join(C3, Join(R, Join(L, Join(S, C)))))))
        BY DEF Write1Left, Write3Left, Check1Left, Check3Left, ReadyLeft, LoadLeft, StoreLeft, Join
    <2> HIDE DEF W1, W3, C1, C3, R, L, S, C
    <2>5. Join(Join(Join(W1, W3), C1), C3) \in Plans
        BY <2>2, Regrouped
    <2>6. Join(R, Join(L, Join(S, C))) \in Plans
        BY <2>2, RegroupedInit
    <2>7. \A t \in Plans : Join(Join(Join(t, R), Join(L, S)), C) = Join(t, Join(R, Join(L, Join(S, C))))
        BY <2>2, RegroupedInit
    <2>8. \A y \in Plans : Join(Join(Join(Join(W1, W3), C1), C3), y)
                               = Join(W1, Join(W3, Join(C1, Join(C3, y))))
        BY <2>2, Regrouped
    <2>9. QED
        BY <2>3, <2>4, <2>5, <2>6, <2>7, <2>8
<1>7. clear_count = Write(1, [Zero EXCEPT !.clr = 1]) \o ClearLeft
    <2>1. [Zero EXCEPT !.clr = 1] \in Control /\ Zero \in Control
        BY DEF Zero, Control
    <2>2. ReadCount(TRUE) \in Seq(Accesses)
        BY CallTypes
    <2>3. QED
        BY <1>2, <2>1, <2>2, Associative DEF clear_count, ClearLeft
<1>8. QED
    BY <1>5, <1>6, <1>7

(* What an access does, by the kind of it.                                 *)
LEMMA AccessEffects ==
    ASSUME Access, NEW x, NEW rest, Head(todo) = x, Tail(todo) = rest
    PROVE  /\ todo # <<>> /\ busy = 0 /\ busy' = BusClocks
           /\ UNCHANGED <<incrDecrValReg, noNegReg, asked>>
           /\ x.op = "write" => /\ WriteReg(x.reg, x.val) /\ todo' = rest
                               /\ is_ready' = is_ready
           /\ x.op = "check" /\ x.val = (IF x.reg = 1 THEN slv_reg1 ELSE slv_reg3)
                  => todo' = rest /\ UNCHANGED <<slv_reg1, slv_reg3, is_ready>>
           /\ x.op = "ready" => /\ todo' = rest /\ UNCHANGED <<slv_reg1, slv_reg3>>
                               /\ is_ready' = TRUE
           /\ x.op = "count" => todo' = rest /\ UNCHANGED <<slv_reg1, slv_reg3, is_ready>>
<1>1. todo # <<>> /\ busy = 0 /\ busy' = BusClocks
    BY DEF Access
<1>2. UNCHANGED <<incrDecrValReg, noNegReg, asked>>
    BY DEF Access, counter
<1>3. x.op = "write" => WriteReg(x.reg, x.val) /\ todo' = rest /\ is_ready' = is_ready
    BY DEF Access
<1>4. x.op = "check" /\ x.val = (IF x.reg = 1 THEN slv_reg1 ELSE slv_reg3)
          => todo' = rest /\ UNCHANGED <<slv_reg1, slv_reg3, is_ready>>
    BY DEF Access, axi
<1>5. x.op = "ready" => todo' = rest /\ UNCHANGED <<slv_reg1, slv_reg3>> /\ is_ready' = TRUE
    BY DEF Access, axi
<1>6. x.op = "count" => todo' = rest /\ UNCHANGED <<slv_reg1, slv_reg3, is_ready>>
    BY DEF Access, axi
<1>7. QED
    BY <1>1, <1>2, <1>3, <1>4, <1>5, <1>6

(* The first access of what is left, and what is left after it.            *)
Begins(left, x, rest) == left # <<>> /\ Head(left) = x /\ Tail(left) = rest

LEMMA Heads ==
    /\ \A clearing \in BOOLEAN :
           Begins(ReadCount(clearing), [op |-> "count", clearing |-> clearing], <<>>)
    /\ Begins(ClearLeft, StoreOf(1, Zero), ReadCount(TRUE))
    /\ Begins(clear_count, StoreOf(1, [Zero EXCEPT !.clr = 1]), ClearLeft)
    /\ \A a \in Asked, after \in Afters :
           /\ Begins(StoreLeft(a, after), StoreOf(1, Config(a)), after)
           /\ Begins(LoadLeft(a, after), StoreOf(1, Loading(a)), StoreLeft(a, after))
    /\ Begins(ReadyLeft, [op |-> "ready"], LoadLeft(First, clear_count))
    /\ Begins(Check3Left, CheckOf(3, Pattern3), ReadyLeft)
    /\ Begins(Check1Left, CheckOf(1, Pattern), Check3Left)
    /\ Begins(Write3Left, StoreOf(3, Pattern3), Check1Left)
    /\ Begins(Write1Left, StoreOf(1, Pattern), Write3Left)
<1>1. \A x \in Accesses, s \in Seq(Accesses) : Begins(<<x>> \o s, x, s)
    BY Prepended DEF Begins
<1>2. \A v \in Control : StoreOf(1, v) \in Accesses /\ CheckOf(1, v) \in Accesses
    BY DEF StoreOf, CheckOf, Accesses
<1>3. StoreOf(3, Pattern3) \in Accesses /\ CheckOf(3, Pattern3) \in Accesses
      /\ [op |-> "ready"] \in Accesses
    BY DEF StoreOf, CheckOf, Accesses
<1>4. \A clearing \in BOOLEAN :
          Begins(ReadCount(clearing), [op |-> "count", clearing |-> clearing], <<>>)
    BY DEF Begins, ReadCount
<1>5. Begins(ClearLeft, StoreOf(1, Zero), ReadCount(TRUE))
    BY <1>1, <1>2, LeftTypes, CallTypes DEF ClearLeft, Write, StoreOf
<1>6. Begins(clear_count, StoreOf(1, [Zero EXCEPT !.clr = 1]), ClearLeft)
    <2>1. [Zero EXCEPT !.clr = 1] \in Control
        BY DEF Zero, Control
    <2>2. clear_count = <<StoreOf(1, [Zero EXCEPT !.clr = 1])>> \o ClearLeft
        BY CallsLeft DEF Write, StoreOf
    <2>3. QED
        BY <1>1, <1>2, <2>1, <2>2, LeftSequences
<1>7. ASSUME NEW a \in Asked, NEW after \in Afters
      PROVE  Begins(StoreLeft(a, after), StoreOf(1, Config(a)), after)
    <2>1. StoreLeft(a, after) = <<StoreOf(1, Config(a))>> \o after
        BY DEF StoreLeft, Write, StoreOf
    <2>2. QED
        BY <1>1, <1>2, <2>1, LeftTypes
<1>8. ASSUME NEW a \in Asked, NEW after \in Afters
      PROVE  Begins(LoadLeft(a, after), StoreOf(1, Loading(a)), StoreLeft(a, after))
    <2>1. LoadLeft(a, after) = <<StoreOf(1, Loading(a))>> \o StoreLeft(a, after)
        BY DEF LoadLeft, Write, StoreOf
    <2>2. QED
        BY <1>1, <1>2, <2>1, LeftTypes, LeftSequences
<1>9. Begins(ReadyLeft, [op |-> "ready"], LoadLeft(First, clear_count))
    <2>1. LoadLeft(First, clear_count) \in Seq(Accesses)
        BY LeftTypes, LeftSequences DEF Afters
    <2>2. QED
        BY <1>1, <1>3, <2>1 DEF ReadyLeft
<1>10. Begins(Check3Left, CheckOf(3, Pattern3), ReadyLeft)
    <2>1. Check3Left = <<CheckOf(3, Pattern3)>> \o ReadyLeft
        BY DEF Check3Left, Check, CheckOf
    <2>2. QED
        BY <1>1, <1>3, <2>1, LeftSequences
<1>11. Begins(Check1Left, CheckOf(1, Pattern), Check3Left)
    <2>1. Check1Left = <<CheckOf(1, Pattern)>> \o Check3Left
        BY DEF Check1Left, Check, CheckOf
    <2>2. QED
        BY <1>1, <1>2, <2>1, LeftTypes, LeftSequences
<1>12. Begins(Write3Left, StoreOf(3, Pattern3), Check1Left)
    <2>1. Write3Left = <<StoreOf(3, Pattern3)>> \o Check1Left
        BY DEF Write3Left, Write, StoreOf
    <2>2. QED
        BY <1>1, <1>3, <2>1, LeftSequences
<1>13. Begins(Write1Left, StoreOf(1, Pattern), Write3Left)
    <2>1. Write1Left = <<StoreOf(1, Pattern)>> \o Write3Left
        BY DEF Write1Left, Write, StoreOf
    <2>2. QED
        BY <1>1, <1>2, <2>1, LeftTypes, LeftSequences
<1>14. QED
    BY <1>4, <1>5, <1>6, <1>7, <1>8, <1>9, <1>10, <1>11, <1>12, <1>13

(* An access that writes leaves what it wrote.                             *)
LEMMA StoreEffects ==
    ASSUME Access, NEW r \in {1, 3}, NEW v, NEW rest, Begins(todo, StoreOf(r, v), rest)
    PROVE  /\ busy = 0 /\ busy' = BusClocks
           /\ UNCHANGED <<incrDecrValReg, noNegReg, asked, is_ready>>
           /\ todo' = rest
           /\ slv_reg1' = (IF r = 1 THEN v ELSE slv_reg1)
           /\ slv_reg3' = (IF r = 3 THEN v ELSE slv_reg3)
<1> DEFINE x == StoreOf(r, v)
<1>1. Head(todo) = x /\ Tail(todo) = rest
    BY DEF Begins
<1>2. x.op = "write" /\ x.reg = r /\ x.val = v
    BY DEF StoreOf
<1> HIDE DEF x
<1>3. /\ busy = 0 /\ busy' = BusClocks
      /\ UNCHANGED <<incrDecrValReg, noNegReg, asked>>
      /\ WriteReg(x.reg, x.val) /\ todo' = rest /\ is_ready' = is_ready
    BY <1>1, <1>2, AccessEffects
<1>4. QED
    BY <1>2, <1>3 DEF WriteReg

(* A check that finds its value changes nothing.                           *)
LEMMA CheckEffects ==
    ASSUME Access, NEW r \in {1, 3}, NEW v, NEW rest, Begins(todo, CheckOf(r, v), rest),
           v = (IF r = 1 THEN slv_reg1 ELSE slv_reg3)
    PROVE  /\ busy = 0 /\ busy' = BusClocks
           /\ UNCHANGED <<incrDecrValReg, noNegReg, asked, is_ready, slv_reg1, slv_reg3>>
           /\ todo' = rest
<1> DEFINE x == CheckOf(r, v)
<1>1. Head(todo) = x /\ Tail(todo) = rest
    BY DEF Begins
<1>2. x.op = "check" /\ x.reg = r /\ x.val = v
    BY DEF CheckOf
<1> HIDE DEF x
<1>3. QED
    BY <1>1, <1>2, AccessEffects

LEMMA AskedType == ASSUME TypeOK PROVE asked \in Asked
BY DEF TypeOK, Asked

LEMMA RestingAccess ==
    ASSUME Resting, Access
    PROVE  Resting'
<1>1. /\ todo # <<>> /\ slv_reg1.ld = 0 /\ Configured' /\ is_ready
      /\ todo = ClearLeft \/ todo = clear_count \/ \E c \in BOOLEAN : todo = ReadCount(c)
    BY AccessEffects DEF Resting, Configured
<1>2. CASE \E clearing \in BOOLEAN : todo = ReadCount(clearing)
    <2>1. PICK clearing \in BOOLEAN : todo = ReadCount(clearing)
        BY <1>2
    <2> DEFINE x == [op |-> "count", clearing |-> clearing]
    <2>2. Head(todo) = x /\ Tail(todo) = <<>> /\ x.op = "count"
        BY <2>1, Heads DEF Begins
    <2>3. todo' = <<>> /\ UNCHANGED <<slv_reg1, is_ready>>
        BY <2>2, AccessEffects
    <2>4. QED
        BY <1>1, <2>3 DEF Resting
<1>3. CASE todo = ClearLeft
    <2>1. Begins(todo, StoreOf(1, Zero), ReadCount(TRUE))
        BY <1>3, Heads
    <2>2. todo' = ReadCount(TRUE) /\ slv_reg1' = Zero /\ is_ready' = is_ready
        BY <2>1, StoreEffects
    <2>3. QED
        BY <1>1, <2>2, LeftTypes DEF Resting
<1>4. CASE todo = clear_count
    <2>1. Begins(todo, StoreOf(1, [Zero EXCEPT !.clr = 1]), ClearLeft)
        BY <1>4, Heads
    <2>2. todo' = ClearLeft /\ slv_reg1' = [Zero EXCEPT !.clr = 1] /\ is_ready' = is_ready
        BY <2>1, StoreEffects
    <2>3. slv_reg1'.ld = 0
        BY <2>2 DEF Zero
    <2>4. QED
        BY <1>1, <2>2, <2>3 DEF Resting
<1>5. QED
    BY <1>1, <1>2, <1>3, <1>4

\* The pulse ends after a clock has seen it.
LEMMA StoringAccess ==
    ASSUME TypeOK, Storing, Access
    PROVE  Resting'
<1>1. PICK after \in Afters : todo = StoreLeft(asked, after)
    BY DEF Storing
<1>2. Begins(todo, StoreOf(1, Config(asked)), after)
    BY <1>1, Heads, AskedType
<1>3. /\ todo' = after /\ slv_reg1' = Config(asked) /\ is_ready' = is_ready /\ busy = 0
      /\ UNCHANGED <<incrDecrValReg, noNegReg, asked>>
    BY <1>2, StoreEffects
<1>4. is_ready /\ Configured
    BY <1>3 DEF Storing, BusClocks
<1>5. slv_reg1'.ld = 0 /\ Configured'
    BY <1>3, <1>4, LeftTypes, AskedType DEF Configured
<1>6. QED
    BY <1>3, <1>4, <1>5 DEF Resting, Afters

LEMMA AboutToLoadAccess ==
    ASSUME TypeOK, AboutToLoad, Access
    PROVE  Storing'
<1>1. PICK after \in Afters : todo = LoadLeft(asked, after)
    BY DEF AboutToLoad
<1>2. Begins(todo, StoreOf(1, Loading(asked)), StoreLeft(asked, after))
    BY <1>1, Heads, AskedType
<1>3. /\ todo' = StoreLeft(asked, after) /\ slv_reg1' = Loading(asked) /\ is_ready' = is_ready
      /\ busy' = BusClocks /\ asked' = asked
    BY <1>2, StoreEffects
<1>4. ~(busy' < BusClocks) /\ is_ready'
    BY <1>3 DEF AboutToLoad, BusClocks
<1>5. QED
    BY <1>3, <1>4 DEF Storing

\* Each check finds what the self test wrote.
LEMMA TestingAccess ==
    ASSUME Testing, Access
    PROVE  Testing' \/ AboutToLoad'
<1>1. slv_reg1.ld = 0 /\ asked = First /\ asked' = First
    BY AccessEffects DEF Testing
<1>2. CASE todo = Write1Left
    <2>1. Begins(todo, StoreOf(1, Pattern), Write3Left)
        BY <1>2, Heads
    <2>2. todo' = Write3Left /\ slv_reg1' = Pattern
        BY <2>1, StoreEffects
    <2>3. QED
        BY <1>1, <2>2, LeftTypes DEF Testing
<1>3. CASE todo = Write3Left /\ slv_reg1 = Pattern
    <2>1. Begins(todo, StoreOf(3, Pattern3), Check1Left)
        BY <1>3, Heads
    <2>2. todo' = Check1Left /\ slv_reg1' = slv_reg1 /\ slv_reg3' = Pattern3
        BY <2>1, StoreEffects
    <2>3. QED
        BY <1>1, <1>3, <2>2 DEF Testing
<1>4. CASE todo = Check1Left /\ slv_reg1 = Pattern /\ slv_reg3 = Pattern3
    <2>1. Begins(todo, CheckOf(1, Pattern), Check3Left)
        BY <1>4, Heads
    <2>2. todo' = Check3Left /\ UNCHANGED <<slv_reg1, slv_reg3>>
        BY <1>4, <2>1, CheckEffects
    <2>3. QED
        BY <1>1, <1>4, <2>2 DEF Testing
<1>5. CASE todo = Check3Left /\ slv_reg3 = Pattern3
    <2>1. Begins(todo, CheckOf(3, Pattern3), ReadyLeft)
        BY <1>5, Heads
    <2>2. todo' = ReadyLeft /\ slv_reg1' = slv_reg1
        BY <1>5, <2>1, CheckEffects
    <2>3. QED
        BY <1>1, <2>2 DEF Testing
<1>6. CASE todo = ReadyLeft
    <2> DEFINE x == [op |-> "ready"]
    <2>1. Head(todo) = x /\ Tail(todo) = LoadLeft(First, clear_count) /\ x.op = "ready"
        BY <1>6, Heads DEF Begins
    <2>2. todo' = LoadLeft(First, clear_count) /\ slv_reg1' = slv_reg1 /\ is_ready'
        BY <2>1, AccessEffects
    <2>3. QED
        BY <1>1, <2>2 DEF AboutToLoad, Afters
<1>7. QED
    BY <1>2, <1>3, <1>4, <1>5, <1>6 DEF Testing

(* A clock while the load bit is set takes the configuration over, and no  *)
(* other clock changes it.                                                 *)
LEMMA ConfigClock ==
    ASSUME TypeOK, ConfigInv, Clock
    PROVE  ConfigInv'
<1>1. UNCHANGED <<slv_reg1, slv_reg3, todo, is_ready, status, asked>>
    BY DEF Clock, axi
<1>2. slv_reg1.ld = 0 => UNCHANGED <<incrDecrValReg, noNegReg>>
    BY DEF Clock, Counter
<1>3. slv_reg1.ld = 1 => incrDecrValReg' = slv_reg1.incr /\ noNegReg' = slv_reg1.noNeg
    BY DEF Clock, Counter
<1>4. CASE Resting
    BY <1>1, <1>2, <1>4 DEF Resting, Configured, ConfigInv
<1>5. CASE Storing
    <2>1. Configured'
        BY <1>1, <1>3, <1>5, LeftTypes, AskedType DEF Storing, Configured
    <2>2. QED
        BY <1>1, <1>5, <2>1 DEF Storing, ConfigInv
<1>6. CASE AboutToLoad
    BY <1>1, <1>6 DEF AboutToLoad, ConfigInv
<1>7. CASE Testing
    BY <1>1, <1>7 DEF Testing, ConfigInv
<1>8. QED
    BY <1>4, <1>5, <1>6, <1>7 DEF ConfigInv

(* A call can only begin when the last one is over.                        *)
LEMMA OnlyRestingIsIdle ==
    ASSUME TypeOK, ConfigInv, todo = <<>>
    PROVE  Resting
<1>1. \A after \in Afters : StoreLeft(asked, after) # <<>> /\ LoadLeft(asked, after) # <<>>
    BY Heads, AskedType DEF Begins
<1>2. /\ ReadyLeft # <<>> /\ Check3Left # <<>> /\ Check1Left # <<>>
      /\ Write3Left # <<>> /\ Write1Left # <<>>
    BY Heads DEF Begins
<1>3. QED
    BY <1>1, <1>2 DEF ConfigInv, Storing, AboutToLoad, Testing

LEMMA ConfigCall ==
    ASSUME TypeOK, ConfigInv,
           CallInitialize \/ CallInit \/ CallClearCount \/ CallReadCount
    PROVE  ConfigInv'
<1>1. todo = <<>> /\ UNCHANGED <<slv_reg1, slv_reg3, incrDecrValReg, noNegReg>>
    BY DEF CallInitialize, CallInit, CallClearCount, CallReadCount, Call, axi, counter
<1>2. slv_reg1.ld = 0 /\ Configured
    BY <1>1, OnlyRestingIsIdle DEF Resting
<1>3. CASE CallInitialize
    <2>1. todo' = Write1Left /\ asked' = First
        BY <1>3, CallsLeft DEF CallInitialize, Call, First
    <2>2. QED
        BY <1>1, <1>2, <2>1 DEF Testing, ConfigInv
<1>4. CASE CallInit
    <2>1. PICK incr \in Increments, noNeg \in {0, 1} :
              /\ todo' = init(incr, noNeg)
              /\ asked' = [incr |-> incr % 16, noNeg |-> noNeg]
        BY <1>4 DEF CallInit, Call
    <2>2. todo' = LoadLeft(asked', <<>>)
        BY <2>1, CallsLeft, PmodENCAssumption
    <2>3. is_ready'
        BY <1>4 DEF CallInit
    <2>4. QED
        BY <1>1, <1>2, <2>2, <2>3 DEF AboutToLoad, Afters, ConfigInv
<1>5. CASE CallClearCount \/ CallReadCount
    <2>1. is_ready /\ is_ready' = is_ready /\ asked' = asked
        BY <1>5 DEF CallClearCount, CallReadCount
    <2>2. todo' = clear_count \/ todo' = ReadCount(FALSE)
        BY <1>5 DEF CallClearCount, CallReadCount, Call
    <2>3. QED
        BY <1>1, <1>2, <2>1, <2>2 DEF Resting, Configured, ConfigInv
<1>6. QED
    BY <1>3, <1>4, <1>5

LEMMA ConfigStep ==
    ASSUME TypeOK, ConfigInv, [Next]_vars
    PROVE  ConfigInv'
<1>1. CASE UNCHANGED <<counter, axi, driver>>
    BY <1>1 DEF ConfigInv, Resting, Storing, AboutToLoad, Testing, Configured,
                counter, axi, driver
<1>2. CASE Turn \/ Step \/ Bounce \/ ComeToRest \/ UNCHANGED vars
    BY <1>1, <1>2 DEF Turn, Step, Bounce, ComeToRest, vars
<1>3. CASE Clock
    BY <1>3, ConfigClock
<1>4. CASE CallInitialize \/ CallInit \/ CallClearCount \/ CallReadCount
    BY <1>4, ConfigCall
<1>5. CASE Access
    BY <1>5, RestingAccess, StoringAccess, AboutToLoadAccess, TestingAccess DEF ConfigInv
<1>6. CASE BoardReset
    <2>1. /\ todo' = <<>> /\ slv_reg1' = Zero /\ status' = "none" /\ asked' = First
          /\ incrDecrValReg' = 1 /\ noNegReg' = 0
        BY <1>6 DEF BoardReset, First
    <2>2. QED
        BY <2>1, LeftTypes DEF Resting, Configured, ConfigInv, First
<1>7. QED
    BY <1>2, <1>3, <1>4, <1>5, <1>6 DEF Next

(* Whatever call is running, it is at one of the places ConfigInv lists.   *)
THEOREM ConfigInvariance == Spec => []ConfigInv
<1>1. Init => ConfigInv
    <2>1. ASSUME Init
          PROVE  ConfigInv
        <3>1. /\ todo = <<>> /\ slv_reg1 = Zero /\ status = "none" /\ asked = First
              /\ incrDecrValReg = 1 /\ noNegReg = 0
            BY <2>1 DEF Init, First
        <3>2. QED
            BY <3>1, LeftTypes DEF Resting, Configured, ConfigInv, First
    <2>2. QED
        BY <2>1
<1>2. TypeOK /\ ConfigInv /\ [Next]_vars => ConfigInv'
    BY ConfigStep
<1>3. QED
    BY <1>1, <1>2, TypeCorrect, PTL DEF Spec

(* Between calls the initialised driver is ready and the peripheral counts *)
(* in the steps and with the limit that the program asked for last: the    *)
(* self test never fails and clears nothing it should not, and the load    *)
(* bit is high for long enough.                                            *)
THEOREM ConfiguredCorrect == Spec => []ReadyAndConfigured
<1>1. TypeOK /\ ConfigInv => ReadyAndConfigured
    BY OnlyRestingIsIdle DEF Resting, Configured, ReadyAndConfigured
<1>2. QED
    BY <1>1, ConfigInvariance, TypeCorrect, PTL
=============================================================================
