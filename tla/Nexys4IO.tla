------------------------------ MODULE Nexys4IO ------------------------------
(***************************************************************************)
(* The driver of the buttons, switches, LEDs and digits of the Nexys4      *)
(* board (nexys4IO.c).  A call reads the registers it changes in part,     *)
(* computes the new values and writes them one by one; the board shows     *)
(* every value in between.  No interrupt handler touches the peripheral,   *)
(* so what a call read is still there when it writes.  The buttons and     *)
(* switches change at any time.                                            *)
(*                                                                         *)
(* A register is the tuple of its fields.  Where a register has bits that  *)
(* no field uses, and the driver masks them, the model keeps one of them.  *)
(***************************************************************************)
EXTENDS Naturals, Sequences

CONSTANTS
    Numbers,      \* numbers to be displayed
    Switches,     \* settings of the switches, as numbers
    Codes,        \* character codes
    Duties,       \* duty cycles of a colour
    MaxCalls      \* bound: calls after the initialisation

\* Numbers of 16 and of 32 bits.
u16(n) == n \in Nat /\ n <= 65535
u32(n) == n \in Nat /\ u16(n \div 65536)

ASSUME Nexys4IOAssumption ==
    /\ \A n \in Numbers : u32(n)
    /\ \A n \in Switches : u16(n)
    /\ Codes \subseteq Nat
    /\ Duties \subseteq 0..255 /\ MaxCalls \in Nat

VARIABLES
    regs,         \* the registers that can be written
    btnsw,        \* the buttons that are pressed and the switches, as a number
    todo,         \* the writes that the running call has left
    call,         \* the call that runs or ran last
    status,       \* what it returned
    calls,        \* how many there were
    asked,        \* the number that the digits are to show
    enabled       \* the channels that are to be enabled

vars == <<regs, btnsw, todo, call, status, calls, asked, enabled>>

\* C passes a value outside the enumeration as readily as one inside it.
Leds == {"RGB1", "RGB2"}
Banks == {"SSEGLO", "SSEGHI"}
NoSuch == "neither"
Digits == 0..7
Buttons == 0..4                     \* BTNR, BTNL, BTND, BTNU, BTNC
BTNC == 4

CC_BLANK == 30
CC_BLANK1 == 31

Data == [RGB1 |-> "RGB1_DATA", RGB2 |-> "RGB2_DATA"]
Cntrl == [RGB1 |-> "RGB1_CNTRL", RGB2 |-> "RGB2_CNTRL"]

\* A duty cycle has 8 bits; rest are the bits above those of the three.
Off == [red |-> 0, green |-> 0, blue |-> 0, rest |-> 0]
Bank(digit, decpt) == [digit |-> digit, decpt |-> decpt]
Zeros == Bank([i \in 0..3 |-> 0], {})

Registers == {"LEDS"} \cup {Data[led] : led \in Leds} \cup {Cntrl[led] : led \in Leds} \cup Banks

\* The bits of the fields in a control register and among the points.
CHEN_MASK == 0..2
DECPTS_MASK == 0..3
LEDS_MASK == 65535

MAX_DECIMAL == 99999999

-----------------------------------------------------------------------------
(* Reading.                                                                *)

getSwitches == btnsw.sw
getBtns == btnsw.btns
isPressed(btn) == btn \in getBtns

getRGB_CNTRL(led) == IF led \in Leds THEN regs[Cntrl[led]] ELSE {}
getSSEG_DATA(bank) == regs[bank]

-----------------------------------------------------------------------------
(* Writing: the sequence of writes that each function makes.               *)

Write(reg, val) == <<[reg |-> reg, val |-> val]>>

setLEDs(value) == Write("LEDS", value % (LEDS_MASK + 1))

setRGB_DATA(led, data) ==
    IF led \in Leds THEN Write(Data[led], [data EXCEPT !.rest = 0]) ELSE <<>>

setRGB_CNTRL(led, cntrl) ==
    IF led \in Leds THEN Write(Cntrl[led], cntrl \cap CHEN_MASK) ELSE <<>>

(* Fault: the channels are not restarted.                                    *)
setDutyCycleStops(led, data) == setRGB_CNTRL(led, {}) \o setRGB_DATA(led, data)

setDutyCycle(led, data) ==
    setRGB_CNTRL(led, {}) \o setRGB_DATA(led, data) \o setRGB_CNTRL(led, getRGB_CNTRL(led))

setChnlEn(led, channels) == setRGB_CNTRL(led, channels)

(* Fault: the bits outside the fields are kept.                              *)
setSSEG_DATARaw(bank, data) == IF bank \in Banks THEN Write(bank, data) ELSE <<>>

setSSEG_DATA(bank, data) ==
    IF bank \in Banks
    THEN Write(bank, Bank(data.digit, data.decpt \cap DECPTS_MASK))
    ELSE <<>>

\* DIGIT4 to DIGIT7 are other names of the four digits of a bank.
Place(digit) == digit % 4

setDigit(bank, digit, cc) ==
    LET data == getSSEG_DATA(bank)
    IN  setSSEG_DATA(bank, Bank([data.digit EXCEPT ![Place(digit)] = cc], data.decpt))

setDecPt(bank, digit, on) ==
    LET data == getSSEG_DATA(bank)
    IN  setSSEG_DATA(bank, Bank(data.digit, IF on THEN data.decpt \cup {Place(digit)}
                                                  ELSE data.decpt \ {Place(digit)}))

\* The digits are given from the left, as in the code.
setAllDigits(bank, dig3, dig2, dig1, dig0, dp) ==
    LET d == <<dig0, dig1, dig2, dig3>>
    IN  setSSEG_DATA(bank, Bank([i \in 0..3 |-> d[i + 1] % 32], dp))

-----------------------------------------------------------------------------
(* Numbers.  bin2hex() leaves the least significant nibble at index 0,     *)
(* bin2bcd() the most significant of its ten digits.                       *)

\* Shifted right by i nibbles.
pow_sixteen == <<1, 16, 256, 4096, 65536, 1048576, 16777216, 268435456>>

bin2hex(bin) == [i \in 0..7 |-> (bin \div pow_sixteen[i + 1]) % 16]

pow_ten_tbl == <<1000000000, 100000000, 10000000, 1000000, 100000, 10000, 1000, 100, 10, 1>>

\* What is left after the powers of ten above the i-th have been taken away.
left(bin, i) == IF i = 0 THEN bin ELSE bin % pow_ten_tbl[i]

bin2bcd(bin) == [i \in 0..9 |-> left(bin, i) \div pow_ten_tbl[i + 1]]

(* Fault: the last zero goes as well.                                        *)
TrimmedAll(cc) == [i \in 0..9 |-> IF \A j \in 0..i : cc[j] = 0 THEN CC_BLANK ELSE cc[i]]

Trimmed(cc) ==
    [i \in 0..9 |-> IF i < 9 /\ \A j \in 0..i : cc[j] = 0 THEN CC_BLANK ELSE cc[i]]

putU16Hex(bank, data) ==
    LET cc == bin2hex(data)
        dp == getSSEG_DATA(bank).decpt
    IN  IF bank = "SSEGLO" THEN setAllDigits(bank, cc[3], cc[2], cc[1], cc[0], dp)
                           ELSE setAllDigits(bank, cc[7], cc[6], cc[5], cc[4], dp)

(* Fault: the points change sides.                                           *)
putU32HexPoints(data) ==
    LET cc == bin2hex(data)
    IN  setAllDigits("SSEGHI", cc[7], cc[6], cc[5], cc[4], getSSEG_DATA("SSEGLO").decpt)
     \o setAllDigits("SSEGLO", cc[3], cc[2], cc[1], cc[0], getSSEG_DATA("SSEGHI").decpt)

putU32Hex(data) ==
    LET cc == bin2hex(data)
    IN  setAllDigits("SSEGHI", cc[7], cc[6], cc[5], cc[4], getSSEG_DATA("SSEGHI").decpt)
     \o setAllDigits("SSEGLO", cc[3], cc[2], cc[1], cc[0], getSSEG_DATA("SSEGLO").decpt)

putU32Dec(data, trim) ==
    LET cc == IF trim THEN Trimmed(bin2bcd(data)) ELSE bin2bcd(data)
    IN  setAllDigits("SSEGHI", cc[2], cc[3], cc[4], cc[5], getSSEG_DATA("SSEGHI").decpt)
     \o setAllDigits("SSEGLO", cc[6], cc[7], cc[8], cc[9], getSSEG_DATA("SSEGLO").decpt)

-----------------------------------------------------------------------------
(* Calls.                                                                  *)

Nothing == [style |-> "none", n |-> 0, trim |-> FALSE]
Idle == todo = <<>>

Init ==
    /\ regs = [reg \in Registers |-> CASE reg = "LEDS" -> 0
                                       [] reg \in {"RGB1_DATA", "RGB2_DATA"} -> Off
                                       [] reg \in {"RGB1_CNTRL", "RGB2_CNTRL"} -> {}
                                       [] reg \in Banks -> Zeros]
    /\ btnsw \in [btns : {{}}, sw : Switches]
    /\ todo = <<>>
    /\ call = [op |-> "none", on |-> NoSuch, digit |-> 0]
    /\ status = "none"
    /\ calls = 0
    /\ asked = Nothing
    /\ enabled = [led \in Leds |-> {}]

(* NX4IO_initialize() runs the self test, which writes a pattern to the    *)
(* first four registers, reads the last three of them back and leaves the  *)
(* pattern there: an LED lit, a duty cycle for blue and an unused bit of   *)
(* the control register.  A peripheral that was not built correctly reads  *)
(* something else.                                                         *)
initialize ==
    /\ call.op = "none"
    /\ regs' = [regs EXCEPT !["LEDS"] = 32, !["RGB1_CNTRL"] = {6},
                         !["RGB1_DATA"] = [red |-> 0, green |-> 0, blue |-> 48, rest |-> 0]]
    /\ status' \in {"success", "failure"}
    /\ call' = [op |-> "initialize", on |-> NoSuch, digit |-> 0]
    /\ UNCHANGED <<btnsw, todo, calls, asked, enabled>>

\* The program exits if the initialisation failed.
Begin(op, on, digit, writes, sts) ==
    /\ Idle /\ call.op # "none"
    /\ call.op = "initialize" => status = "success"
    /\ calls < MaxCalls /\ calls' = calls + 1
    /\ call' = [op |-> op, on |-> on, digit |-> digit]
    /\ todo' = writes
    /\ status' = sts
    /\ UNCHANGED <<regs, btnsw>>

CallLEDs ==
    /\ \E value \in Numbers \cup {getSwitches} :
           Begin("setLEDs", NoSuch, 0, setLEDs(value), "success")
    /\ UNCHANGED <<asked, enabled>>

CallRGB_DATA ==
    /\ \E led \in Leds \cup {NoSuch},
          data \in [red : {0}, green : Duties, blue : Duties, rest : {0, 255}] :
           Begin("setRGB_DATA", led, 0, setRGB_DATA(led, data), "success")
    /\ UNCHANGED <<asked, enabled>>

CallDutyCycle ==
    /\ \E led \in Leds \cup {NoSuch},
          data \in [red : {0}, green : Duties, blue : Duties, rest : {0}] :
           Begin("setDutyCycle", led, 0, setDutyCycle(led, data), "success")
    /\ UNCHANGED <<asked, enabled>>

\* The fourth bit is one of those that the mask takes away.
CallCntrl ==
    /\ \E led \in Leds \cup {NoSuch}, cntrl \in {{}, {0, 2}, {1, 2, 3}} :
           /\ \/ Begin("setRGB_CNTRL", led, 0, setRGB_CNTRL(led, cntrl), "success")
              \/ cntrl \subseteq CHEN_MASK
                 /\ Begin("setChnlEn", led, 0, setChnlEn(led, cntrl), "success")
           /\ enabled' = [l \in Leds |-> IF l = led THEN cntrl \ {3} ELSE enabled[l]]
    /\ UNCHANGED asked

CallSSEG_DATA ==
    /\ \E bank \in Banks \cup {NoSuch}, cc \in Codes, decpt \in {{}, {1, 4}} :
           /\ cc <= CC_BLANK1
           /\ Begin("setSSEG_DATA", bank, 0,
                    setSSEG_DATA(bank, Bank([i \in 0..3 |-> cc], decpt)), "success")
           /\ asked' = IF bank \in Banks THEN Nothing ELSE asked
    /\ UNCHANGED enabled

\* The earlier test program shows the buttons on the points of SSEGHI.
ShowButtons ==
    /\ Begin("showButtons", "SSEGHI", 0,
             setSSEG_DATA("SSEGHI", Bank(getSSEG_DATA("SSEGHI").digit, getBtns)), "success")
    /\ UNCHANGED <<asked, enabled>>

CallDigit ==
    /\ \E bank \in Banks \cup {NoSuch}, digit \in {0, 5, 8}, cc \in Codes \cup {getSwitches % 32} :
           IF cc <= CC_BLANK1 /\ bank \in Banks /\ digit \in Digits
           THEN /\ Begin("setDigit", bank, digit, setDigit(bank, digit, cc), "success")
                /\ asked' = Nothing
           ELSE /\ Begin("setDigit", bank, digit, <<>>, "failure")
                /\ UNCHANGED asked
    /\ UNCHANGED enabled

CallDecPt ==
    /\ \E bank \in Banks \cup {NoSuch}, digit \in {0, 5, 8}, on \in BOOLEAN :
           IF bank \in Banks /\ digit \in Digits
           THEN Begin("setDecPt", bank, digit, setDecPt(bank, digit, on), "success")
           ELSE Begin("setDecPt", bank, digit, <<>>, "failure")
    /\ UNCHANGED <<asked, enabled>>

CallAllDigits ==
    /\ \E bank \in Banks \cup {NoSuch}, cc \in Codes, dp \in {{}, {3, 4}} :
           IF bank \in Banks
           THEN /\ Begin("setAllDigits", bank, 0, setAllDigits(bank, cc, CC_BLANK, 0, cc, dp), "success")
                /\ asked' = Nothing
           ELSE /\ Begin("setAllDigits", bank, 0, <<>>, "failure")
                /\ UNCHANGED asked
    /\ UNCHANGED enabled

(* The number is a 16-bit argument.  Converted to 32 bits, its digits 4 to *)
(* 7 are those that SSEGHI gets, so that this bank never shows the number. *)
CallU16Hex ==
    /\ \E bank \in Banks \cup {NoSuch}, n \in Numbers \cup {getSwitches} :
           IF bank \in Banks
           THEN /\ Begin("putU16Hex", bank, 0, putU16Hex(bank, n % 65536), "success")
                /\ asked' = [style |-> IF bank = "SSEGLO" THEN "u16" ELSE "u16hi",
                             n |-> n % 65536, trim |-> FALSE]
           ELSE /\ Begin("putU16Hex", bank, 0, <<>>, "failure")
                /\ UNCHANGED asked
    /\ UNCHANGED enabled

CallU32Hex ==
    /\ \E n \in Numbers :
           /\ Begin("putU32Hex", NoSuch, 0, putU32Hex(n), "success")
           /\ asked' = [style |-> "hex", n |-> n, trim |-> FALSE]
    /\ UNCHANGED enabled

CallU32Dec ==
    /\ \E n \in Numbers, trim \in BOOLEAN :
           IF n > MAX_DECIMAL
           THEN /\ Begin("putU32Dec", NoSuch, 0, <<>>, "failure")
                /\ UNCHANGED asked
           ELSE /\ Begin("putU32Dec", NoSuch, 0, putU32Dec(n, trim), "success")
                /\ asked' = [style |-> "dec", n |-> n, trim |-> trim]
    /\ UNCHANGED enabled

\* The test program shows the time when the center button is pressed.
ShowTime ==
    /\ isPressed(BTNC)
    /\ \E n \in Numbers :
           /\ n <= MAX_DECIMAL
           /\ Begin("putU32Dec", NoSuch, 0, putU32Dec(n, TRUE), "success")
           /\ asked' = [style |-> "dec", n |-> n, trim |-> TRUE]
    /\ UNCHANGED enabled

WriteReg ==
    /\ ~Idle
    /\ regs' = [regs EXCEPT ![Head(todo).reg] = Head(todo).val]
    /\ todo' = Tail(todo)
    /\ UNCHANGED <<btnsw, call, status, calls, asked, enabled>>

Operate ==
    /\ btnsw' \in [btns : {{}, {0, 4}}, sw : Switches]
    /\ btnsw' # btnsw
    /\ UNCHANGED <<regs, todo, call, status, calls, asked, enabled>>

Next ==
    \/ initialize
    \/ CallLEDs \/ CallRGB_DATA \/ CallDutyCycle \/ CallCntrl
    \/ CallSSEG_DATA \/ ShowButtons \/ CallDigit \/ CallDecPt \/ CallAllDigits
    \/ CallU16Hex \/ CallU32Hex \/ CallU32Dec \/ ShowTime
    \/ WriteReg
    \/ Operate

Spec == Init /\ [][Next]_vars

-----------------------------------------------------------------------------
(* Every field stays within its bits.  Only the self test leaves a bit     *)
(* outside the channels' enables.                                          *)
TypeOK ==
    /\ regs["LEDS"] \in 0..LEDS_MASK
    /\ \A led \in Leds :
           /\ regs[Data[led]] \in [red : 0..255, green : 0..255, blue : 0..255, rest : {0}]
           /\ regs[Cntrl[led]] \subseteq CHEN_MASK \cup {6}
    /\ \A bank \in Banks :
           /\ DOMAIN regs[bank].digit = 0..3
           /\ \A i \in 0..3 : regs[bank].digit[i] \in 0..CC_BLANK1
           /\ regs[bank].decpt \subseteq DECPTS_MASK
    /\ btnsw.btns \subseteq Buttons /\ btnsw.sw \in Nat
    /\ \A i \in DOMAIN todo : todo[i].reg \in DOMAIN regs
    /\ status \in {"none", "success", "failure"}
    /\ calls \in 0..MaxCalls
    /\ asked.style \in {"none", "u16", "u16hi", "hex", "dec"}
    /\ \A led \in Leds : enabled[led] \subseteq CHEN_MASK

\* What the eight digits show, lo and hi being those of SSEGLO and SSEGHI.
Shown(lo, hi, p) == IF p < 4 THEN lo[p] ELSE hi[p - 4]
Value(lo, hi, p) == IF Shown(lo, hi, p) = CC_BLANK THEN 0 ELSE Shown(lo, hi, p)

\* The numbers that the digits of SSEGLO and those of both banks spell.
Spelt4(lo, hi, base) ==
    LET v(p) == Value(lo, hi, p)
    IN  v(0) + base * (v(1) + base * (v(2) + base * v(3)))

Spelt8(lo, hi, base) ==
    LET v(p) == Value(lo, hi, p)
    IN  v(0) + base * (v(1) + base * (v(2) + base * (v(3) + base *
            (v(4) + base * (v(5) + base * (v(6) + base * v(7)))))))

LeadingZero(lo, hi, p) == p > 0 /\ \A q \in p..7 : Shown(lo, hi, q) \in {0, CC_BLANK}

Shows(lo, hi, number) ==
    /\ number.style = "u16" => Spelt4(lo, hi, 16) = number.n
    /\ number.style = "u16hi" => \A p \in 4..7 : Shown(lo, hi, p) = 0
    /\ number.style = "hex" => Spelt8(lo, hi, 16) = number.n
    /\ number.style = "dec" =>
           /\ Spelt8(lo, hi, 10) = number.n
           /\ \A p \in 0..7 :
                  (Shown(lo, hi, p) = CC_BLANK) <=> (number.trim /\ LeadingZero(lo, hi, p))

(* Between calls the digits of both banks spell the number that the last   *)
(* putU32Hex() or putU32Dec() was given, or those of SSEGLO the one that   *)
(* putU16Hex() was given for it, whatever was done to the decimal points,  *)
(* LEDs and channels since, and exactly the leading zeros are blank if     *)
(* these were to be trimmed.  After putU16Hex() on SSEGHI that bank shows  *)
(* 0000 for every number, where the function's documentation promises the  *)
(* number itself.                                                          *)
NumberShown == Idle => Shows(regs["SSEGLO"].digit, regs["SSEGHI"].digit, asked)

\* Call c may change this register, this digit or this decimal point.
MayChange(c, reg) ==
    \/ reg = "LEDS" /\ c.op = "setLEDs"
    \/ \E led \in Leds :
           /\ c.on = led
           /\ \/ reg = Data[led] /\ c.op \in {"setRGB_DATA", "setDutyCycle"}
              \/ reg = Cntrl[led] /\ c.op \in {"setRGB_CNTRL", "setChnlEn", "setDutyCycle"}

MayChangeDigit(c, bank, i) ==
    \/ c.op \in {"putU32Hex", "putU32Dec"}
    \/ c.on = bank /\ c.op \in {"setSSEG_DATA", "setAllDigits", "putU16Hex"}
    \/ c.on = bank /\ c.op = "setDigit" /\ Place(c.digit) = i

MayChangeDecPt(c, bank, i) ==
    \/ c.on = bank /\ c.op \in {"setSSEG_DATA", "setAllDigits", "showButtons"}
    \/ c.on = bank /\ c.op = "setDecPt" /\ Place(c.digit) = i

\* Register reg changes from one value to the other where call c may change it.
Changes(c, reg, from, to) ==
    IF reg \in Banks
    THEN \A i \in 0..3 :
             /\ to.digit[i] # from.digit[i] => MayChangeDigit(c, reg, i)
             /\ (i \in to.decpt) # (i \in from.decpt) => MayChangeDecPt(c, reg, i)
    ELSE to # from => MayChange(c, reg)

(* A call changes what it names and nothing else: none of the intermediate *)
(* values that the board shows touches another register, another digit or  *)
(* another point, numbers leave the decimal points alone, and a call that  *)
(* fails has written nothing.                                              *)
OnlyWhatWasAsked ==
    [][call.op # "none" =>
           /\ status = "success"
           /\ \A reg \in DOMAIN regs : Changes(call, reg, regs[reg], regs'[reg])
      ]_regs

(* NX4IO_RGBLED_setDutyCycle() stops the channels and restarts those that  *)
(* were enabled: between calls the enabled channels are the ones that the  *)
(* program asked for last.                                                 *)
EnablesKept ==
    Idle => \A led \in Leds : regs[Cntrl[led]] \cap CHEN_MASK = enabled[led]
=============================================================================
