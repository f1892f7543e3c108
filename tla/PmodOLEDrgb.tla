---------------------------- MODULE PmodOLEDrgb ----------------------------
(***************************************************************************)
(* The driver of the OLED display (PmodOLEDrgb.c) on top of XSpi: four     *)
(* control pins on a GPIO port, and bytes sent over SPI that the display   *)
(* takes for commands or for pixels, depending on one of those pins.       *)
(*                                                                         *)
(* A function of the driver is the sequence of its device accesses and of  *)
(* its calls to XSpi.  Each of them is a step or, when it is a transfer,   *)
(* the steps of XSpi, between which the SPI device shifts bytes out.  No   *)
(* interrupt handler is connected.  A transfer is cut off at MaxBytes.     *)
(* Delays, colours and the contents of fonts and bitmaps are left out.     *)
(***************************************************************************)
EXTENDS XSpi, Integers

CONSTANTS
    OLEDRGB_WIDTH, OLEDRGB_HEIGHT,  \* pixels of the display
    Windows,                        \* where the application draws bitmaps
    Positions,                      \* where it sets the cursor, horizontally and vertically
    Strings                         \* strings that it puts: whether the upper bit
                                    \* of each character is set

OLEDRGB_CHARBYTES == 8              \* pixels along each side of a character

\* A bitmap has no pixels or some: a window ends where it begins or later.  A
\* position is such that its product with OLEDRGB_CHARBYTES is an int of C.
ASSUME OledAssumption ==
    /\ OLEDRGB_WIDTH \in Nat /\ OLEDRGB_WIDTH >= OLEDRGB_CHARBYTES
    /\ OLEDRGB_HEIGHT \in Nat /\ OLEDRGB_HEIGHT >= OLEDRGB_CHARBYTES
    /\ Windows \subseteq [c1 : 0..255, r1 : 0..255, c2 : 0..255, r2 : 0..255]
    /\ \A w \in Windows : w.c1 <= w.c2 + 1 /\ w.r1 <= w.r2 + 1
    /\ \A p \in Positions : p \in Int /\ -268435456 <= p /\ p < 268435456
    /\ Strings \subseteq Seq(BOOLEAN)
    /\ {"MASTER_MODE"} \in OptionSets /\ {0} \in Selections

VARIABLES
    gpio,       \* the pins' data and direction registers, as sets of one bits
    todo,       \* what the running function has left to do
    function,   \* the function that runs or ran last
    sent,       \* the transfer that XSpi accepted last
    cursor,     \* xchOledCur and ychOledCur
    displayOn,  \* whether the display shows its memory
    wanted      \* whether the last call that can switch it asked for that

oled == <<gpio, todo, function, sent, cursor, displayOn, wanted>>
oledVars == <<vars, oled>>

Pins == {"DC", "RES", "VCCEN", "PMODEN"}
High(g) == g.data \ g.tri           \* pins that are driven high
Low(g) == Pins \ (g.data \cup g.tri)

xchOledrgbMax == OLEDRGB_WIDTH \div OLEDRGB_CHARBYTES
ychOledrgbMax == OLEDRGB_HEIGHT \div OLEDRGB_CHARBYTES

-----------------------------------------------------------------------------
(* What the functions are made of.                                         *)

Write(reg, bits) == <<[op |-> "write", reg |-> reg, and |-> {}, or |-> bits]>>
WriteAnd(reg, bits) == <<[op |-> "write", reg |-> reg, and |-> bits, or |-> {}]>>
WriteOr(reg, bits) == <<[op |-> "write", reg |-> reg, and |-> Pins, or |-> bits]>>
Do(op) == <<[op |-> op]>>

(* A transfer of n bytes, those commands among them that switch the        *)
(* display.                                                                *)
Send(kind, n, switch) ==
    <<[op |-> "send", kind |-> kind, n |-> IF n < MaxBytes THEN n ELSE MaxBytes,
       switch |-> switch]>>

Nothing == [i \in {} |-> FALSE]
CMD_DISPLAYON == [i \in {1} |-> TRUE]
CMD_DISPLAYOFF == [i \in {1} |-> FALSE]

WriteSPICommand(switch) == Send("commands", 1, switch)

(* Fault: the pin stays high after the pixels.                               *)
WriteSPIStaysHigh(nCmd, switch, nData) ==
    Send("commands", nCmd, switch) \o
    IF nData = 0 THEN <<>> ELSE Write("data", Pins) \o Send("pixels", nData, Nothing)

WriteSPI(nCmd, switch, nData) ==
    Send("commands", nCmd, switch) \o
    IF nData = 0 THEN <<>>
    ELSE Write("data", Pins) \o Send("pixels", nData, Nothing)
             \o Write("data", {"RES", "VCCEN", "PMODEN"})

Cmds(n) == WriteSPI(n, Nothing, 0)

HostInit ==
    Write("tri", {}) \o Write("data", {"RES", "PMODEN"}) \o Do("start") \o Do("mask")

(* Fault: the SPI device goes on.                                            *)
HostTermStillStarted == Write("data", {"DC", "RES"}) \o Write("tri", Pins)

HostTerm == Do("stop") \o Write("data", {"DC", "RES"}) \o Write("tri", Pins)

Clear == Cmds(5)

(* The third of the 39 commands switches the display off.                  *)
DevInit ==
    Write("data", {"RES", "PMODEN"}) \o Write("data", {"PMODEN"}) \o Write("data", {"RES", "PMODEN"})
    \o WriteSPI(39, [i \in {3} |-> FALSE], 0)
    \o Clear
    \o Write("data", {"RES", "VCCEN", "PMODEN"})
    \o WriteSPICommand(CMD_DISPLAYON)

DevTerm == WriteSPICommand(CMD_DISPLAYOFF) \o WriteAnd("data", Pins \ {"VCCEN"})

(* The rest of it is left out when XSpi_CfgInitialize() fails.             *)
SPIInit == Do("initialize")
Configuration == Do("options") \o Do("select")

begin == SPIInit \o HostInit \o DevInit
end == HostTerm \o DevTerm

EnablePmod(fEnable) == IF fEnable THEN HostInit \o DevInit ELSE DevTerm \o HostTerm

(* Fault: the pin is not made an output.                                     *)
EnableBackLightInput(fEnable) ==
    IF fEnable
      THEN WriteOr("data", {"VCCEN"}) \o WriteSPICommand(CMD_DISPLAYON)
      ELSE WriteSPICommand(CMD_DISPLAYOFF)
               \o WriteAnd("data", Pins \ {"VCCEN"}) \o WriteOr("tri", {"VCCEN"})

EnableBackLight(fEnable) ==
    IF fEnable
      THEN WriteAnd("tri", Pins \ {"VCCEN"}) \o WriteOr("data", {"VCCEN"})
               \o WriteSPICommand(CMD_DISPLAYON)
      ELSE WriteSPICommand(CMD_DISPLAYOFF)
               \o WriteAnd("data", Pins \ {"VCCEN"}) \o WriteOr("tri", {"VCCEN"})

DrawPixel == WriteSPI(6, Nothing, 2)
DrawLine == Cmds(8)
DrawRectangle == Cmds(13)
SetScrolling == Cmds(7)
EnableScrolling == WriteSPICommand(Nothing)
Copy == Cmds(7)
Dim == Cmds(5)

(* Its columns and rows are converted to uint8_t.                          *)
u8(i) == i % 256
DrawBitmap(c1, r1, c2, r2) ==
    WriteSPI(6, Nothing, 2 * (u8(c2) - u8(c1) + 1) * (u8(r2) - u8(r1) + 1))

(* A character whose upper bit is set is not drawn.                        *)
DrawGlyph(upperBit, cur) ==
    LET x == cur.x * OLEDRGB_CHARBYTES
        y == cur.y * OLEDRGB_CHARBYTES
    IN  IF upperBit THEN <<>>
        ELSE DrawBitmap(x, y, x + OLEDRGB_CHARBYTES - 1, y + 7)

PutChar(upperBit) == <<[op |-> "glyph", upperBit |-> upperBit]>> \o Do("advance")
PutString(sz) == <<[op |-> "string", sz |-> sz]>>

(* Fault: no limit.                                                          *)
SetCursorAnywhere(xch, ych) == [x |-> xch, y |-> ych]

(* Only what is beyond the last column or row is clamped: a negative       *)
(* position stays as it is, off the display.                               *)
SetCursor(xch, ych) ==
    [x |-> IF xch >= xchOledrgbMax THEN xchOledrgbMax - 1 ELSE xch,
     y |-> IF ych >= ychOledrgbMax THEN ychOledrgbMax - 1 ELSE ych]

AdvanceCursor(cur) ==
    LET nextLine == cur.x + 1 >= xchOledrgbMax
        x == IF nextLine THEN 0 ELSE cur.x + 1
        y == IF nextLine THEN cur.y + 1 ELSE cur.y
    IN  SetCursor(x, IF y >= ychOledrgbMax THEN 0 ELSE y)

-----------------------------------------------------------------------------
(* The program: it calls the functions in any order, on a display that runs*)
(* or is stopped.  Only OLEDrgb_begin() may come before the first of these,*)
(* as the functions of XSpi assert that the driver is ready.               *)

Functions ==
    [begin |-> begin, end |-> end,
     enablePmod |-> EnablePmod(TRUE), disablePmod |-> EnablePmod(FALSE),
     enableBackLight |-> EnableBackLight(TRUE), disableBackLight |-> EnableBackLight(FALSE),
     drawPixel |-> DrawPixel, drawLine |-> DrawLine, drawRectangle |-> DrawRectangle,
     setScrolling |-> SetScrolling, enableScrolling |-> EnableScrolling,
     copy |-> Copy, dim |-> Dim, clear |-> Clear]

(* The display is to be switched on.  While it is stopped, the command of  *)
(* OLEDrgb_EnableBackLight() is refused, which nobody is told.             *)
SwitchesOn(f) ==
    \/ f \in {"begin", "enablePmod"}
    \/ f = "enableBackLight" /\ spi.isStarted
SwitchesOff == {"end", "disablePmod", "disableBackLight"}

OledInit ==
    /\ Init /\ spi.hasFifos
    /\ gpio = [data |-> {}, tri |-> Pins]
    /\ todo = <<>> /\ function = "end"
    /\ sent = [op |-> "none"]
    /\ cursor = [x |-> 0, y |-> 0]
    /\ displayOn = FALSE /\ wanted = FALSE

Returned == todo = <<>> /\ Main("app")

Call(f, left) ==
    /\ Returned
    /\ f = "begin" \/ spi.isReady
    /\ todo' = left /\ function' = f
    /\ wanted' = IF SwitchesOn(f) THEN TRUE ELSE IF f \in SwitchesOff THEN FALSE ELSE wanted
    /\ UNCHANGED <<vars, gpio, sent, cursor, displayOn>>

CallSetCursor(xch, ych) ==
    /\ Returned /\ spi.isReady
    /\ cursor' = SetCursor(xch, ych)
    /\ UNCHANGED <<vars, gpio, todo, function, sent, displayOn, wanted>>

Step(op) ==
    /\ Main("app")
    /\ todo # <<>> /\ Head(todo).op = op
    /\ UNCHANGED <<function, wanted>>
Then == todo' = Tail(todo)

(* The controller is reset by its pin and by a loss of power.              *)
WritePins ==
    /\ Step("write") /\ Then
    /\ LET w == Head(todo)
       IN  gpio' = [gpio EXCEPT ![w.reg] = (@ \cap w.and) \cup w.or]
    /\ displayOn' = (displayOn /\ {"RES", "PMODEN"} \subseteq High(gpio'))
    /\ UNCHANGED <<vars, sent, cursor>>

(* XSpi_CfgInitialize() is refused while the device is started.            *)
CallInitialize ==
    /\ Step("initialize")
    /\ IF spi.isStarted THEN UNCHANGED vars ELSE CfgInitialize
    /\ todo' = (IF spi.isStarted THEN <<>> ELSE Configuration) \o Tail(todo)
    /\ UNCHANGED <<gpio, sent, cursor, displayOn>>

(* A call of XSpi that is refused does nothing, and nobody looks at what   *)
(* the others return.                                                      *)
CallXSpi ==
    /\ \/ Step("options") /\ SetOptions
       \/ Step("select") /\ SetSlaveSelect({0})
       \/ Step("start") /\ IF spi.isStarted THEN UNCHANGED vars ELSE Start
       \/ Step("stop") /\ IF spi.isBusy THEN UNCHANGED vars ELSE Stop
       \/ /\ Step("mask")
          /\ dev' = IntrGlobalDisable(dev)
          /\ UNCHANGED <<spi, pc, intrStatus, byteCount, result>>
    /\ Then
    /\ UNCHANGED <<gpio, sent, cursor, displayOn>>

CallTransfer ==
    /\ Step("send") /\ Then
    /\ IF Accepts THEN Begin("main", Head(todo).n) /\ sent' = Head(todo)
                  ELSE UNCHANGED <<vars, sent>>
    /\ UNCHANGED <<gpio, cursor, displayOn>>

Glyph ==
    /\ Step("glyph")
    /\ todo' = DrawGlyph(Head(todo).upperBit, cursor) \o Tail(todo)
    /\ UNCHANGED <<vars, gpio, sent, cursor, displayOn>>

Advance ==
    /\ Step("advance") /\ Then
    /\ cursor' = AdvanceCursor(cursor)
    /\ UNCHANGED <<vars, gpio, sent, displayOn>>

(* Fault: the string's pointer stays where it is.                            *)
CharacterStays ==
    /\ Step("string")
    /\ LET sz == Head(todo).sz
       IN  todo' = IF sz = <<>> THEN Tail(todo)
                   ELSE PutChar(Head(sz)) \o PutString(sz) \o Tail(todo)
    /\ UNCHANGED <<vars, gpio, sent, cursor, displayOn>>

(* One round of the loop of OLEDrgb_PutString().                           *)
Character ==
    /\ Step("string")
    /\ LET sz == Head(todo).sz
       IN  todo' = IF sz = <<>> THEN Tail(todo)
                   ELSE PutChar(Head(sz)) \o PutString(Tail(sz)) \o Tail(todo)
    /\ UNCHANGED <<vars, gpio, sent, cursor, displayOn>>

InXSpi ==
    /\ StopDevice \/ WriteOptions({"MASTER_MODE"}) \/ Polling
    /\ UNCHANGED oled

(* The display reads a byte, when it is selected and runs.                 *)
ShiftOut ==
    /\ Shift
    /\ displayOn' =
          IF /\ 0 \in dev.ssr /\ {"RES", "PMODEN"} \subseteq High(gpio)
             /\ "DC" \in Low(gpio) /\ Head(dev.tx) \in DOMAIN sent.switch
          THEN sent.switch[Head(dev.tx)] ELSE displayOn
    /\ UNCHANGED <<gpio, todo, function, sent, cursor, wanted>>

Program ==
    \/ WritePins \/ CallInitialize \/ CallXSpi \/ CallTransfer
    \/ Glyph \/ Advance \/ Character \/ InXSpi

OledNext ==
    \/ \E f \in DOMAIN Functions : Call(f, Functions[f])
    \/ \E w \in Windows : Call("drawBitmap", DrawBitmap(w.c1, w.r1, w.c2, w.r2))
    \/ \E upperBit \in BOOLEAN : Call("putChar", PutChar(upperBit))
    \/ \E sz \in Strings : Call("putString", PutString(sz))
    \/ \E xch, ych \in Positions : CallSetCursor(xch, ych)
    \/ Program \/ ShiftOut

OledSpec == OledInit /\ [][OledNext]_oledVars

(* The processor runs, and the device shifts.                              *)
OledFairSpec == OledSpec /\ WF_oledVars(Program) /\ WF_oledVars(ShiftOut)

-----------------------------------------------------------------------------
(* Properties.                                                             *)

(* The types, and a cursor that is never beyond the last column or row.    *)
(* OLEDrgb_SetCursor() promises to keep it on the display, but does not    *)
(* clamp negative positions: a character is then drawn beside the display. *)
OledTypeOK ==
    /\ TypeOK
    /\ gpio \in [data : SUBSET Pins, tri : SUBSET Pins]
    /\ function \in DOMAIN Functions \cup {"drawBitmap", "putChar", "putString"}
    /\ cursor \in [x : Int, y : Int] /\ cursor.x < xchOledrgbMax /\ cursor.y < ychOledrgbMax
    /\ displayOn \in BOOLEAN /\ wanted \in BOOLEAN

(* The data/command pin is written before and after a transfer and read by *)
(* the display at every byte in between: no byte of pixels is ever taken   *)
(* for a command, nor the other way round.                                 *)
CommandsAreCommands ==
    [][ ShiftOut => "DC" \in (IF sent.kind = "pixels" THEN High(gpio) ELSE Low(gpio)) ]_oledVars

(* Every byte goes to the display, and finds it selected, powered and not  *)
(* in reset, whatever is called: the pins of a stopped display float, where*)
(* only XSpi's refusals keep the functions that go on sending from it.     *)
BytesReachDisplay ==
    [][ ShiftOut => 0 \in dev.ssr /\ {"RES", "PMODEN"} \subseteq High(gpio) ]_oledVars

(* When a function has returned, the display is on if and only if the last *)
(* function that can switch it asked for that, and then it is powered, also*)
(* when it was begun or enabled again while it was on, which cuts VCCEN, or*)
(* ended without the command to switch it off, which is refused.           *)
DisplayAsAsked ==
    Returned => /\ displayOn = wanted
                /\ displayOn => {"RES", "VCCEN", "PMODEN"} \subseteq High(gpio)

(* Every function returns.                                                 *)
CallsReturn == todo # <<>> ~> todo = <<>>
=============================================================================
