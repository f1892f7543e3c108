------------------------------ MODULE PmodENC ------------------------------
(***************************************************************************)
(* The rotary encoder: the knob's two contacts, the logic that filters and *)
(* counts them (encoder.v), its registers (PmodENC_v1_0_S00_AXI.v) and the *)
(* driver (PmodENC.c).                                                     *)
(*                                                                         *)
(* The knob rests with both contacts open, which read as 1.  A click takes *)
(* it through the four positions, one contact changing at a time, and a    *)
(* contact bounces before it settles.  The clock is much faster than the   *)
(* contacts, so the logic has settled before the next change, a bounce     *)
(* included.  The driver's bus accesses are at least BusClocks apart.      *)
(***************************************************************************)
EXTENDS Integers, Sequences

CONSTANTS
    CountHalf,      \* the count goes from -CountHalf to CountHalf - 1 (2^15)
    Increments      \* values that the program asks the count to change by

ASSUME PmodENCAssumption ==
    /\ CountHalf \in Nat \ {0}
    /\ Increments \subseteq Nat

BusClocks == 2      \* as in MotorDriver

VARIABLES
    knob,           \* position, direction and how far the click has got
    A_int, B_int, q1, q2, dly_q1,   \* flip-flops of the filter
    eventReg, dirReg, countReg,     \* event, direction (1: left) and count
    incrDecrValReg, noNegReg,       \* configuration of the counter
    slv_reg1, slv_reg3,             \* control and reserved register
    todo,           \* bus accesses that the running call has left
    busy,           \* clocks before the next of them
    is_ready, count,                \* of the driver's instance
    status,         \* what the last call returned
    asked,          \* the configuration asked for last
    owed            \* clicks to the right less those to the left, so far
                    \* without their event

filter == <<A_int, B_int, q1, q2, dly_q1, eventReg, dirReg>>
counter == <<countReg, incrDecrValReg, noNegReg>>
axi == <<slv_reg1, slv_reg3>>
driver == <<todo, busy, is_ready, count, status, asked>>
vars == <<knob, filter, counter, axi, driver, owed>>

\* The control register by its fields; spare is bit 5, which has no meaning.
Zero == [clr |-> 0, ld |-> 0, spare |-> 0, noNeg |-> 0, incr |-> 0]

-----------------------------------------------------------------------------
(* The knob.  Turning right it closes A first: the contacts go from 11     *)
(* through BA = 10, 00 and 01 to 11.                                       *)

Positions == <<[B |-> 1, A |-> 1], [B |-> 1, A |-> 0], [B |-> 0, A |-> 0], [B |-> 0, A |-> 1]>>
Pin == Positions[(knob.at % 4) + 1]

AtRest == knob = [turning |-> "no", at |-> 0, step |-> 0, bounced |-> 0]

\* The inputs have come through the filter.
Settled ==
    /\ A_int = Pin.A /\ B_int = Pin.B
    /\ q1 = (IF A_int = B_int THEN A_int ELSE q1)
    /\ q2 = (IF A_int # B_int THEN B_int ELSE q2)
    /\ dly_q1 = q1 /\ eventReg = 0

Forward == IF knob.turning = "right" THEN 1 ELSE 3

Turn ==
    /\ Settled /\ knob.turning = "no"
    /\ \E d \in {"right", "left"} : knob' = [knob EXCEPT !.turning = d]
    /\ UNCHANGED <<filter, counter, axi, driver, owed>>

\* The click is complete when the knob comes to the fourth position.
Step ==
    /\ Settled /\ knob.turning # "no" /\ knob.step < 4 /\ knob.bounced = 0
    /\ knob' = [knob EXCEPT !.at = (@ + Forward) % 4, !.step = @ + 1]
    /\ owed' = IF knob.step = 3 THEN owed + (IF knob.turning = "right" THEN 1 ELSE -1) ELSE owed
    /\ UNCHANGED <<filter, counter, axi, driver>>

\* The contact that has just changed changes back, and again.
Bounce ==
    /\ Settled /\ knob.step > 0
    /\ knob' = [knob EXCEPT !.at = (@ + (IF knob.bounced = 1 THEN Forward ELSE 4 - Forward)) % 4,
                            !.bounced = 1 - @]
    /\ UNCHANGED <<filter, counter, axi, driver, owed>>

ComeToRest ==
    /\ Settled /\ knob.step = 4 /\ knob.bounced = 0
    /\ knob' = [knob EXCEPT !.turning = "no", !.step = 0]
    /\ UNCHANGED <<filter, counter, axi, driver, owed>>

-----------------------------------------------------------------------------
(* The peripheral.                                                         *)

\* Two's complement.
Wrap(n) == ((n + CountHalf) % (2 * CountHalf)) - CountHalf

Turned ==
    IF dirReg = 0 THEN Wrap(countReg + incrDecrValReg)
    ELSE IF noNegReg = 0 THEN Wrap(countReg - incrDecrValReg)
    ELSE IF countReg - incrDecrValReg <= 0 THEN 0
    ELSE countReg - incrDecrValReg

(* Fault: one contact is taken as it is.                                     *)
FilterRaw ==
    /\ A_int' = Pin.A /\ B_int' = Pin.B
    /\ q1' = A_int
    /\ q2' = IF A_int # B_int THEN B_int ELSE q2
    /\ dly_q1' = q1
    /\ eventReg' = IF q1 = 1 /\ dly_q1 = 0 THEN 1 ELSE 0
    /\ dirReg' = IF q1 = 1 /\ dly_q1 = 0 THEN q2 ELSE dirReg

Filter ==
    /\ A_int' = Pin.A /\ B_int' = Pin.B
    /\ q1' = IF A_int = B_int THEN A_int ELSE q1
    /\ q2' = IF A_int # B_int THEN B_int ELSE q2
    /\ dly_q1' = q1
    /\ eventReg' = IF q1 = 1 /\ dly_q1 = 0 THEN 1 ELSE 0
    /\ dirReg' = IF q1 = 1 /\ dly_q1 = 0 THEN q2 ELSE dirReg

Counter ==
    /\ countReg' = IF slv_reg1.clr = 1 THEN 0
                   ELSE IF eventReg = 1 THEN Turned
                   ELSE countReg
    /\ IF slv_reg1.ld = 1
       THEN incrDecrValReg' = slv_reg1.incr /\ noNegReg' = slv_reg1.noNeg
       ELSE UNCHANGED <<incrDecrValReg, noNegReg>>

Clock ==
    /\ Filter
    /\ Counter
    /\ busy' = IF busy = 0 THEN 0 ELSE busy - 1
    /\ owed' = IF eventReg = 0 THEN owed ELSE owed - (IF dirReg = 0 THEN 1 ELSE -1)
    /\ UNCHANGED <<knob, axi, todo, is_ready, count, status, asked>>

(* A write to a register that its comment calls read-only clears the two   *)
(* others.                                                                 *)
WriteReg(r, v) ==
    /\ slv_reg1' = IF r = 1 THEN v ELSE IF r = 3 THEN slv_reg1 ELSE Zero
    /\ slv_reg3' = IF r = 3 THEN v ELSE IF r = 1 THEN slv_reg3 ELSE 0

-----------------------------------------------------------------------------
(* The driver: a call is the sequence of its bus accesses.                 *)

Write(r, v) == <<[op |-> "write", reg |-> r, val |-> v]>>
Check(r, v) == <<[op |-> "check", reg |-> r, val |-> v]>>
ReadCount(clearing) == <<[op |-> "count", clearing |-> clearing]>>

(* The registers are written and read back.  The pattern of the control    *)
(* register sets none of its fields.                                       *)
Pattern == [Zero EXCEPT !.spare = 1]
Pattern3 == 64

(* Fault: the read-only registers are written too.                           *)
selftestAll ==
    Write(0, Zero) \o Write(1, Pattern) \o Write(2, Zero) \o Write(3, Pattern3)
        \o Check(1, Pattern) \o Check(3, Pattern3)

selftest ==
    Write(1, Pattern) \o Write(3, Pattern3) \o Check(1, Pattern) \o Check(3, Pattern3)

(* Fault: the step is not cut to its field.                                  *)
initUncut(incr, noNeg) ==
    LET enc_state == [Zero EXCEPT !.incr = incr, !.noNeg = noNeg]
    IN  Write(1, [enc_state EXCEPT !.ld = 1]) \o Write(1, enc_state)

\* "Load Configuration" is a pulse of one write and the next.
init(incr, noNeg) ==
    LET enc_state == [Zero EXCEPT !.incr = incr % 16, !.noNeg = noNeg]
    IN  Write(1, [enc_state EXCEPT !.ld = 1]) \o Write(1, enc_state)

clear_count == Write(1, [Zero EXCEPT !.clr = 1]) \o Write(1, Zero) \o ReadCount(TRUE)

initialize == selftest \o <<[op |-> "ready"]>> \o init(1, 0) \o clear_count

Call(accesses) ==
    /\ todo = <<>> /\ todo' = accesses
    /\ UNCHANGED <<knob, filter, counter, axi, busy, owed>>

CallInitialize ==
    /\ status = "none"
    /\ Call(initialize)
    /\ is_ready' = FALSE /\ status' = "running"
    /\ asked' = [incr |-> 1, noNeg |-> 0]
    /\ UNCHANGED count

CallInit ==
    /\ is_ready
    /\ \E incr \in Increments, noNeg \in {0, 1} :
           /\ Call(init(incr, noNeg))
           /\ asked' = [incr |-> incr % 16, noNeg |-> noNeg]
    /\ status' = "success"
    /\ UNCHANGED <<is_ready, count>>

CallClearCount ==
    /\ is_ready
    /\ Call(clear_count)
    /\ status' = "running"
    /\ UNCHANGED <<is_ready, count, asked>>

CallReadCount ==
    /\ is_ready
    /\ Call(ReadCount(FALSE))
    /\ status' = "success"
    /\ UNCHANGED <<is_ready, count, asked>>

(* The count is read as an unsigned number.                                *)
Access ==
    /\ todo # <<>> /\ busy = 0 /\ busy' = BusClocks
    /\ LET access == Head(todo)
       IN \/ /\ access.op = "write"
             /\ WriteReg(access.reg, access.val)
             /\ todo' = Tail(todo)
             /\ UNCHANGED <<is_ready, count, status>>
          \/ /\ access.op = "check"
             /\ IF access.val = (IF access.reg = 1 THEN slv_reg1 ELSE slv_reg3)
                THEN todo' = Tail(todo) /\ UNCHANGED status
                ELSE todo' = <<>> /\ status' = "failure"
             /\ UNCHANGED <<axi, is_ready, count>>
          \/ /\ access.op = "ready"
             /\ is_ready' = TRUE
             /\ todo' = Tail(todo)
             /\ UNCHANGED <<axi, count, status>>
          \/ /\ access.op = "count"
             /\ count' = countReg % (2 * CountHalf)
             /\ status' = IF access.clearing /\ count' # 0 THEN "failure" ELSE "success"
             /\ todo' = Tail(todo)
             /\ UNCHANGED <<axi, is_ready>>
    /\ UNCHANGED <<knob, filter, counter, asked, owed>>

\* The power-up reset lasts until the filter has settled.
Init ==
    /\ AtRest
    /\ A_int = 1 /\ B_int = 1 /\ q1 = 1 /\ q2 \in {0, 1} /\ dly_q1 = 1
    /\ eventReg = 0 /\ dirReg \in {0, 1}
    /\ countReg = 0 /\ incrDecrValReg = 1 /\ noNegReg = 0
    /\ slv_reg1 = Zero /\ slv_reg3 = 0
    /\ todo = <<>> /\ busy = BusClocks
    /\ is_ready = FALSE /\ count = 0 /\ status = "none"
    /\ asked = [incr |-> 1, noNeg |-> 0]
    /\ owed = 0

(* The CPU reset restarts the program and resets the registers and the     *)
(* counter; the filter has no reset.                                       *)
BoardReset ==
    /\ countReg' = 0 /\ incrDecrValReg' = 1 /\ noNegReg' = 0
    /\ slv_reg1' = Zero /\ slv_reg3' = 0
    /\ todo' = <<>> /\ busy' = BusClocks
    /\ is_ready' = FALSE /\ count' = 0 /\ status' = "none"
    /\ asked' = [incr |-> 1, noNeg |-> 0]
    /\ UNCHANGED <<knob, filter, owed>>

Next ==
    \/ Turn \/ Step \/ Bounce \/ ComeToRest
    \/ Clock
    \/ CallInitialize \/ CallInit \/ CallClearCount \/ CallReadCount
    \/ Access
    \/ BoardReset

Spec == Init /\ [][Next]_vars

-----------------------------------------------------------------------------
(* The registers keep their widths, the count its 16 bits, and the driver  *)
(* holds what a read of the count can give.                                *)
TypeOK ==
    /\ knob \in [turning : {"no", "right", "left"}, at : 0..3, step : 0..4, bounced : {0, 1}]
    /\ {A_int, B_int, q1, q2, dly_q1, eventReg, dirReg, noNegReg} \subseteq {0, 1}
    /\ countReg \in (-CountHalf)..(CountHalf - 1)
    /\ incrDecrValReg \in 0..15
    /\ slv_reg1 \in [clr : {0, 1}, ld : {0, 1}, spare : {0, 1}, noNeg : {0, 1}, incr : 0..15]
    /\ slv_reg3 \in {0, Pattern3}
    /\ busy \in 0..BusClocks
    /\ is_ready \in BOOLEAN /\ count \in 0..(2 * CountHalf - 1)
    /\ status \in {"none", "running", "success", "failure"}
    /\ asked \in [incr : 0..15, noNeg : {0, 1}]
    /\ owed \in -1..1

(* Each click of the knob makes one event, to the side it was turned to,   *)
(* however its contacts bounce, and nothing else does: once the filter has *)
(* settled the events are the clicks.                                      *)
EveryClickIsAnEvent == Settled => owed = 0

(* Between calls a working peripheral that was initialised is ready, and   *)
(* counts in the steps and with the limit that the program asked for last: *)
(* the self test does not upset it, and clearing the count, which writes   *)
(* the same register, does not change them.                                *)
ReadyAndConfigured ==
    todo = <<>> /\ status # "none" =>
        /\ is_ready
        /\ incrDecrValReg = asked.incr /\ noNegReg = asked.noNeg
=============================================================================
