----------------------------- MODULE XUartNs550 -----------------------------
(***************************************************************************)
(* The UART driver of the Bluetooth link (PmodBT2.c, xuartns550*.c) with   *)
(* its device, its interrupt handler and an application that sends and     *)
(* receives, polled or driven by interrupts, and reconfigures the device.  *)
(*                                                                         *)
(* The program is interrupted between any two of its register accesses     *)
(* that the handler can tell apart.  The handler is not interrupted: it is *)
(* one step up to the callback but for the loop that empties the receive   *)
(* FIFO, and the callback is the next.                                     *)
(*                                                                         *)
(* A byte is a number: that of its place among the bytes that are to be    *)
(* sent, from the one after that which left the line last, or among those  *)
(* that came in, from the first one of the current receive buffer.  The    *)
(* statistics are left out.                                                *)
(***************************************************************************)
EXTENDS Integers, Sequences, FiniteSets

CONSTANTS
    FifoDepth,          \* bytes that each FIFO holds
    MaxBytes, MaxRecv,  \* longest buffers to send and to receive
    MaxBreaks,          \* breaks that wait in the receive FIFO
    Thresholds,         \* trigger levels of the receive FIFO
    OptionSets,         \* options that the application sets
    Formats,            \* stop bits and parity that it sets
    BaudRates,          \* baud rates that it asks for
    InputClockHz, Word, \* clock of the device, number of values of a u32
    SendFromReceive     \* whether a receive callback sends, too

ASSUME UartAssumption ==
    /\ FifoDepth \in Nat \ {0} /\ MaxBytes \in Nat \ {0} /\ MaxRecv \in Nat \ {0}
    /\ MaxBreaks \in Nat
    /\ Thresholds \subseteq 1..FifoDepth /\ Thresholds # {}
    /\ Formats \subseteq SUBSET {"2_STOP_BITS", "PARITY"}
    /\ BaudRates \subseteq Nat \ {0}
    /\ InputClockHz \in Nat \ {0} /\ Word \in Nat \ {0}
    /\ SendFromReceive \in BOOLEAN

VARIABLES
    uart,   \* the driver's instance, an XUartNs550
    dev,    \* the device
    main,   \* where the program is, and the local variables of its call
    event,  \* the event of a callback in progress, why the handler copies, or "none"
    app     \* the application's mode and the message that it sends

vars == <<uart, dev, main, event, app>>

-----------------------------------------------------------------------------
(* Registers: xuartns550_l.h, and the table of options.                    *)

(* The rows are read and written in this order, each register with all of  *)
(* its bits.                                                               *)
OptionsTable ==
    << <<"SET_BREAK", "lcr">>, <<"LOOPBACK", "mcr">>, <<"RX_DATA", "ier">>,
       <<"MODEM", "ier">>, <<"FIFOS_ENABLE", "fcr">>, <<"RESET_TX", "fcr">>,
       <<"RESET_RX", "fcr">>, <<"OUT2", "mcr">>, <<"OUT1", "mcr">>,
       <<"RTS", "mcr">>, <<"DTR", "mcr">>, <<"RX_LINE", "ier">> >>

Ier == {"RX_DATA", "TX_EMPTY", "RX_LINE", "MODEM"}
Lcr == {"SET_BREAK", "2_STOP_BITS", "PARITY", "DLAB"}
Mcr == {"LOOPBACK", "OUT1", "OUT2", "RTS", "DTR"}

Fifos(d) == "FIFOS_ENABLE" \in d.fcr
Depth(d) == IF Fifos(d) THEN FifoDepth ELSE 1
Trigger(d) == IF Fifos(d) THEN d.trigger ELSE 1

(* In the receive FIFO there are also breaks, which are stored as a null   *)
(* byte when they are not told from one.                                   *)
Break == -1
Nul == 0
Entries == Nat \cup {Break}
IsData(b) == b > Nul

(* Enabling the transmitter's interrupt while its FIFO is empty raises it. *)
SetIer(d, bits) ==
    [d EXCEPT !.ier = bits,
              !.thre = @ \/ ("TX_EMPTY" \in bits \ d.ier /\ d.tx = <<>>)]

(* Writing THR withdraws the interrupt; a byte too many is lost.           *)
WriteThr(d, bytes) ==
    [d EXCEPT !.tx = SubSeq(@ \o bytes, 1, IF Len(@ \o bytes) < Depth(d) THEN Len(@ \o bytes)
                                           ELSE Depth(d)),
              !.thre = @ /\ bytes = <<>>]

(* Reading the line status ends an overrun error and the break indication  *)
(* of the byte that is next, which is then a byte like any other.          *)
ReadLsr(d) ==
    [d EXCEPT !.overrun = FALSE,
              !.rx = [k \in 1..Len(@) |-> IF k = 1 /\ @[k] = Break THEN Nul ELSE @[k]]]
LsrErrors(d) == d.overrun \/ (d.rx # <<>> /\ d.rx[1] = Break)

(* The number of the byte that the program has not yet read from the FIFO. *)
Numbers(s) == {n \in {s[k] : k \in 1..Len(s)} : IsData(n)}
NextNumber(d) ==
    CHOOSE n \in Numbers(d.rx) \cup {d.peer} : \A m \in Numbers(d.rx) \cup {d.peer} : n <= m

(* Switching the FIFOs on or off empties them; the reset bits read as 0.   *)
WriteFcr(d, bits) ==
    LET switched == ("FIFOS_ENABLE" \in bits) # Fifos(d)
        flushed == switched \/ "RESET_RX" \in bits
    IN  [d EXCEPT !.fcr = bits \cap {"FIFOS_ENABLE"},
                  !.tx = IF switched \/ "RESET_TX" \in bits THEN <<>> ELSE @,
                  !.rx = IF flushed THEN <<>> ELSE @,
                  !.peer = IF flushed THEN NextNumber(d) ELSE @]

ReadReg(d, reg) == d[reg]
WriteReg(d, reg, bits) ==
    IF reg = "ier" THEN SetIer(d, bits)
    ELSE IF reg = "fcr" THEN WriteFcr(d, bits)
    ELSE [d EXCEPT ![reg] = bits]

-----------------------------------------------------------------------------
(* Baud rates.                                                             *)

XUN_MAX_BAUD_ERROR_RATE == 3

Divisor(baud) == (InputClockHz + (baud * 16) \div 2) \div (baud * 16)
PercentError(baud) ==
    LET target == Divisor(baud) * baud * 16
        error == IF target < InputClockHz THEN InputClockHz - target ELSE target - InputClockHz
    IN  ((error * 100) % Word) \div InputClockHz

(* XUartNs550_SetBaudRate(); the divisor's registers overlay others, which *)
(* the line control register is restored to reach again.                   *)
GoodRate(baud) == PercentError(baud) <= XUN_MAX_BAUD_ERROR_RATE
SetBaudRate(d, baud) == [d EXCEPT !.divisor = Divisor(baud)]

-----------------------------------------------------------------------------
(* XUartNs550_SendBuffer(): the bytes that go to the transmitter.  One     *)
(* place less is used while the transmitter is not yet empty altogether.   *)

(* Fault: the state of the FIFO is not looked at.                            *)
BytesToSendBlind(u, d) ==
    IF u.send.remaining < FifoDepth THEN u.send.remaining ELSE FifoDepth

(* Fault: the FIFO is filled, whatever is left of the message.             *)
BytesToSendAll(u, d) ==
    IF d.tx # <<>> THEN 0 ELSE IF d.shifter = <<>> THEN FifoDepth ELSE FifoDepth - 1

BytesToSend(u, d) ==
    LET size == IF d.shifter = <<>> THEN FifoDepth ELSE FifoDepth - 1
    IN  IF d.tx # <<>> THEN 0
        ELSE IF Fifos(d) THEN IF u.send.remaining < size THEN u.send.remaining ELSE size
        ELSE IF u.send.remaining > 0 THEN 1 ELSE 0

FillDevice(u, d) ==
    WriteThr(ReadLsr(d), [k \in 1..BytesToSend(u, d) |-> u.send.next + k - 1])

FillDriver(u, d) ==
    [u EXCEPT !.send.next = @ + BytesToSend(u, d),
              !.send.remaining = @ - BytesToSend(u, d)]

(* In interrupt mode the transmitter's interrupt is enabled.               *)
EnableTx(d, ier) == IF "RX_DATA" \in ier THEN SetIer(d, ier \cup {"TX_EMPTY"}) ELSE d

(* XUartNs550_Send() in a handler, which nothing interrupts.               *)
SendInHandler(u, d, start, n) ==
    LET asked == [u EXCEPT !.send = [next |-> start, remaining |-> n]]
        filled == FillDevice(asked, SetIer(d, d.ier \ {"TX_EMPTY"}))
    IN  [u |-> FillDriver(asked, d), d |-> EnableTx(filled, filled.ier)]

-----------------------------------------------------------------------------
(* XUartNs550_ReceiveBuffer(): one round of its loop takes the next entry  *)
(* of the FIFO and stores it unless it is a break.                         *)

Stored(u) == Len(u.recv.data) - u.recv.remaining

TakeDevice(d) == [d EXCEPT !.rx = Tail(@), !.overrun = FALSE]
TakeDriver(u, d, count) ==
    [u EXCEPT !.recv.data = [k \in 1..Len(@) |->
                  IF k = count + 1 /\ Head(d.rx) # Break THEN Head(d.rx) ELSE @[k]],
              !.lastErrors = @ \/ LsrErrors(d)]

(* The last round finds the FIFO empty.                                    *)
EmptyDevice(d) == [d EXCEPT !.overrun = FALSE]

(* The buffer of XUartNs550_Recv() of n bytes: numbering starts anew.      *)
Ask(u, n) ==
    [u EXCEPT !.recv = [data |-> [k \in 1..n |-> Nul], remaining |-> n]]
Renumbered(d) ==
    LET before == NextNumber(d) - 1
    IN  [d EXCEPT !.rx = [k \in 1..Len(@) |-> IF IsData(@[k]) THEN @[k] - before ELSE @[k]],
                  !.peer = @ - before]

-----------------------------------------------------------------------------
MainLabels == {"app", "send", "sent", "enable", "again", "recv", "copy", "restore",
               "row", "fcr", "modify"}
Events == {"SENT_DATA", "RECV_DATA", "RECV_TIMEOUT", "RECV_ERROR", "MODEM"}
Copying == {"data", "status", "callback"}

NoCall == [pc |-> "app", ier |-> {}, count |-> 0, row |-> 1, value |-> {}, options |-> {},
           setting |-> FALSE]

Init ==
    /\ uart = [isReady |-> FALSE, handler |-> "stub", lastErrors |-> FALSE, baudRate |-> 0,
               send |-> [next |-> 1, remaining |-> 0],
               recv |-> [data |-> <<>>, remaining |-> 0]]
    /\ dev = [ier |-> {}, lcr |-> {}, mcr |-> {}, fcr |-> {}, trigger |-> FifoDepth, divisor |-> 0,
              tx |-> <<>>, shifter |-> <<>>, thre |-> FALSE,
              rx |-> <<>>, overrun |-> FALSE, peer |-> 1, modem |-> FALSE]
    /\ main = NoCall
    /\ event = "none"
    /\ app = [mode |-> "polled", sending |-> FALSE, start |-> 1, size |-> 0]

(* The interrupts, by falling priority.  That of a receive FIFO below its  *)
(* trigger level comes after a time.                                       *)
LineError == "RX_LINE" \in dev.ier /\ LsrErrors(dev)
Received == "RX_DATA" \in dev.ier /\ Len(dev.rx) >= Trigger(dev)
TimedOut == "RX_DATA" \in dev.ier /\ Fifos(dev) /\ dev.rx # <<>> /\ ~Received
Emptied == "TX_EMPTY" \in dev.ier /\ dev.thre
ModemChange == "MODEM" \in dev.ier /\ dev.modem
Pending == LineError \/ Received \/ Emptied \/ ModemChange

Quiet == event = "none" /\ ~Pending

(* A pending interrupt is taken before the program's next step.            *)
At(label) == Quiet /\ main.pc = label
Idle == At("app") /\ uart.isReady

(* A new message starts where the last one ended.                          *)
NextStart == app.start + app.size
Sent == [app EXCEPT !.sending = FALSE, !.start = NextStart, !.size = 0]

-----------------------------------------------------------------------------
(* The device.                                                             *)

Load ==
    /\ dev.tx # <<>> /\ dev.shifter = <<>>
    /\ dev' = [dev EXCEPT !.shifter = <<Head(dev.tx)>>, !.tx = Tail(@),
                          !.thre = @ \/ Len(dev.tx) = 1]
    /\ UNCHANGED <<uart, main, event, app>>

(* A byte leaves on the line, and the others are counted from it.          *)
ShiftOut ==
    /\ dev.shifter # <<>>
    /\ dev' = [dev EXCEPT !.shifter = <<>>, !.tx = [k \in 1..Len(@) |-> @[k] - 1]]
    /\ uart' = [uart EXCEPT !.send.next = @ - 1]
    /\ app' = [app EXCEPT !.start = @ - 1]
    /\ UNCHANGED <<main, event>>

(* The peer sends a byte or a break, which is lost when the FIFO is full.  *)
(* Its bytes and its modem signals are slow: the handler and the callback  *)
(* are done with one before the next comes.                                *)
Arrive(kind) ==
    /\ Quiet
    /\ kind = "break" => Cardinality({k \in 1..Len(dev.rx) : ~IsData(dev.rx[k])}) < MaxBreaks
    /\ LET full == Len(dev.rx) >= Depth(dev)
       IN  dev' = [dev EXCEPT
              !.rx = IF full THEN @ ELSE Append(@, IF kind = "data" THEN dev.peer ELSE Break),
              !.peer = IF kind = "data" /\ ~full THEN @ + 1 ELSE @,
              !.overrun = @ \/ full]
    /\ UNCHANGED <<uart, main, event, app>>

(* A modem signal commutes with all of the driver but ModemStatus and      *)
(* GetModemStatus: it is enough that it changes between the calls.         *)
ModemInput ==
    /\ At("app")
    /\ dev' = [dev EXCEPT !.modem = TRUE]
    /\ UNCHANGED <<uart, main, event, app>>

-----------------------------------------------------------------------------
(* Initialisation and format, before interrupts are enabled.               *)

(* BT2_UARTInit() switches the FIFOs on after XUartNs550_CfgInitialize().   *)
CfgInitialize(baud) ==
    /\ GoodRate(baud)
    /\ uart' = [uart EXCEPT !.isReady = TRUE, !.handler = "stub", !.baudRate = baud]

UARTInit ==
    /\ At("app") /\ ~uart.isReady
    /\ \E baud \in BaudRates :
          /\ CfgInitialize(baud)
          /\ dev' = [SetBaudRate(WriteFcr(dev, {"FIFOS_ENABLE"}), baud) EXCEPT !.lcr = {}]
    /\ UNCHANGED <<main, event, app>>

SetHandler ==
    /\ Idle /\ app.mode = "polled"
    /\ uart' = [uart EXCEPT !.handler = "application"]
    /\ UNCHANGED <<dev, main, event, app>>

(* XUartNs550_SetDataFormat(), and SetBaudRate(), which it calls first.    *)
SetDataFormat(baud, bits) ==
    /\ Idle /\ dev.ier = {}
    /\ GoodRate(baud)
    /\ uart' = [uart EXCEPT !.baudRate = baud]
    /\ dev' = [SetBaudRate(dev, baud) EXCEPT !.lcr = (@ \cap {"SET_BREAK"}) \cup bits]
    /\ UNCHANGED <<main, event, app>>

(* BT2_changeBaud() takes any rate, and the instance keeps the old one.    *)
ChangeBaud(baud) ==
    /\ Idle /\ dev.ier = {}
    /\ dev' = SetBaudRate(dev, baud)
    /\ UNCHANGED <<uart, main, event, app>>

-----------------------------------------------------------------------------
(* XUartNs550_Send() from the program.                                     *)

(* In interrupt mode the application then waits for the callback; in       *)
(* polled mode BT2_sendData() calls it again for what is left.             *)
SendBegin(n) ==
    /\ Idle /\ ~app.sending
    /\ app' = [app EXCEPT !.sending = TRUE, !.start = NextStart, !.size = n]
    /\ main' = [main EXCEPT !.pc = "send", !.ier = dev.ier, !.count = 0]
    /\ UNCHANGED <<uart, dev, event>>

SendFill ==
    /\ At("send")
    /\ LET left == app.size - main.count
           asked == [uart EXCEPT !.send = [next |-> app.start + main.count,
                                           remaining |-> left]]
           d == SetIer(dev, main.ier \ {"TX_EMPTY"})
       IN  /\ uart' = FillDriver(asked, d)
           /\ dev' = FillDevice(asked, d)
           /\ main' = [main EXCEPT !.pc = "sent", !.count = @ + BytesToSend(asked, d)]
    /\ UNCHANGED <<event, app>>

SendReadIer ==
    /\ At("sent")
    /\ main' = [main EXCEPT !.pc = "enable", !.ier = dev.ier]
    /\ UNCHANGED <<uart, dev, event, app>>

SendEnable ==
    /\ At("enable")
    /\ dev' = EnableTx(dev, main.ier)
    /\ LET done == app.mode = "polled" /\ main.count = app.size
       IN  /\ app' = IF done THEN Sent ELSE app
           /\ main' = IF done \/ app.mode = "interrupt" THEN NoCall ELSE [main EXCEPT !.pc = "again"]
    /\ UNCHANGED <<uart, event>>

SendAgain ==
    /\ At("again")
    /\ main' = [main EXCEPT !.pc = "send", !.ier = dev.ier]
    /\ UNCHANGED <<uart, dev, event, app>>

-----------------------------------------------------------------------------
(* XUartNs550_Recv() from the program, as BT2_getData() calls it.          *)

RecvBegin(n) ==
    /\ Idle
    /\ main' = [main EXCEPT !.pc = "recv", !.ier = dev.ier, !.count = n]
    /\ UNCHANGED <<uart, dev, event, app>>

(* Fault: the interrupts stay enabled.                                       *)
RecvMaskNot ==
    /\ At("recv")
    /\ dev' = Renumbered(dev)
    /\ uart' = Ask(uart, main.count)
    /\ main' = [main EXCEPT !.pc = "copy", !.count = 0]
    /\ UNCHANGED <<event, app>>

RecvMask ==
    /\ At("recv")
    /\ dev' = SetIer(Renumbered(dev), {})
    /\ uart' = Ask(uart, main.count)
    /\ main' = [main EXCEPT !.pc = "copy", !.count = 0]
    /\ UNCHANGED <<event, app>>

(* Here the bytes are counted in a local variable until the loop ends.     *)
RecvStore ==
    /\ At("copy") /\ main.count < uart.recv.remaining
    /\ dev.rx # <<>>
    /\ dev' = TakeDevice(dev)
    /\ uart' = TakeDriver(uart, dev, Stored(uart) + main.count)
    /\ main' = [main EXCEPT !.count = IF Head(dev.rx) = Break THEN @ ELSE @ + 1]
    /\ UNCHANGED <<event, app>>

RecvStop ==
    /\ At("copy")
    /\ LET full == main.count >= uart.recv.remaining
       IN  /\ full \/ dev.rx = <<>>
           /\ dev' = IF full THEN dev ELSE EmptyDevice(dev)
    /\ uart' = [uart EXCEPT !.recv.remaining = @ - main.count]
    /\ main' = [main EXCEPT !.pc = "restore", !.count = 0]
    /\ UNCHANGED <<event, app>>

(* Fault: only the receiver's interrupt comes back.                          *)
RecvRestoreLess ==
    /\ At("restore")
    /\ dev' = SetIer(dev, main.ier \ {"TX_EMPTY"})
    /\ main' = NoCall
    /\ UNCHANGED <<uart, event, app>>

RecvRestore ==
    /\ At("restore")
    /\ dev' = SetIer(dev, main.ier)
    /\ main' = NoCall
    /\ UNCHANGED <<uart, event, app>>

-----------------------------------------------------------------------------
(* Options, trigger level and status.                                      *)

(* XUartNs550_SetOptions() and GetOptions() go through the table.  The     *)
(* FIFO control register is only readable while the line control register  *)
(* says so, for which the interrupts are saved, disabled and restored; of  *)
(* the other registers, only the interrupt enables are the handler's, too. *)
(* The application sets options when XUartNs550_IsSending() has told it    *)
(* that nothing is sent, and those for interrupts, as                      *)
(* BT2_SetupInterruptSystem() does, when its handler is set.               *)
Rows(setting) == {k \in 1..Len(OptionsTable) : setting \/ OptionsTable[k][2] = "fcr"}
FirstRow(rows) == CHOOSE k \in rows : \A j \in rows : k <= j

OptionsBegin(options, setting) ==
    /\ Idle /\ ~app.sending /\ dev.tx = <<>> /\ dev.shifter = <<>>
    /\ options \cap Ier # {} => uart.handler = "application"
    /\ main' = [main EXCEPT !.pc = "row", !.row = FirstRow(Rows(setting)),
                            !.options = options, !.setting = setting]
    /\ UNCHANGED <<uart, dev, event, app>>

Row == OptionsTable[main.row]
WithOption(bits) == IF Row[1] \in main.options THEN bits \cup {Row[1]} ELSE bits \ {Row[1]}

RowDone ==
    LET rows == {k \in Rows(main.setting) : k > main.row}
        interrupts == main.setting /\ "RX_DATA" \in main.options
    IN  IF rows # {}
          THEN /\ main' = [main EXCEPT !.pc = "row", !.row = FirstRow(rows), !.value = {}]
               /\ UNCHANGED app
          ELSE /\ main' = NoCall
               /\ app' = IF main.setting
                           THEN [app EXCEPT !.mode = IF interrupts THEN "interrupt" ELSE "polled"]
                           ELSE app

SetRow ==
    /\ At("row") /\ Row[2] \in {"lcr", "mcr"}
    /\ dev' = WriteReg(dev, Row[2], WithOption(ReadReg(dev, Row[2])))
    /\ RowDone
    /\ UNCHANGED <<uart, event>>

ReadRow ==
    /\ At("row") /\ Row[2] \in {"ier", "fcr"}
    /\ main' = IF Row[2] = "fcr" THEN [main EXCEPT !.pc = "fcr", !.ier = dev.ier]
               ELSE [main EXCEPT !.pc = "modify", !.value = dev.ier]
    /\ UNCHANGED <<uart, dev, event, app>>

ReadFcrRegister ==
    /\ At("fcr")
    /\ dev' = SetIer(SetIer(dev, {}), main.ier)
    /\ main' = [main EXCEPT !.pc = "modify", !.ier = {}, !.value = ReadReg(dev, "fcr")]
    /\ UNCHANGED <<uart, event, app>>

WriteRow ==
    /\ At("modify") /\ main.row > 0
    /\ dev' = IF main.setting THEN WriteReg(dev, Row[2], WithOption(main.value)) ELSE dev
    /\ RowDone
    /\ UNCHANGED <<uart, event>>

(* XUartNs550_SetFifoThreshold() and GetFifoThreshold(): row 0 stands for  *)
(* no row of the table.                                                    *)
ThresholdBegin(setting) ==
    /\ Idle
    /\ main' = [main EXCEPT !.pc = "fcr", !.row = 0, !.ier = dev.ier, !.setting = setting]
    /\ UNCHANGED <<uart, dev, event, app>>

GetFifoThreshold ==
    /\ At("modify") /\ main.row = 0 /\ ~main.setting
    /\ main' = NoCall
    /\ UNCHANGED <<uart, dev, event, app>>

SetFifoThreshold(level) ==
    /\ At("modify") /\ main.row = 0 /\ main.setting
    /\ dev' = IF "FIFOS_ENABLE" \in main.value THEN [WriteFcr(dev, main.value) EXCEPT !.trigger = level]
                                              ELSE dev
    /\ main' = NoCall
    /\ UNCHANGED <<uart, event, app>>

(* XUartNs550_GetLastErrors() copies and then clears the errors.           *)
GetLastErrors ==
    /\ Idle /\ uart.lastErrors
    /\ uart' = [uart EXCEPT !.lastErrors = FALSE]
    /\ UNCHANGED <<dev, main, event, app>>

(* Both read a register that forgets what it has told.                     *)
IsSending ==
    /\ Idle /\ dev' = ReadLsr(dev)
    /\ UNCHANGED <<uart, main, event, app>>

GetModemStatus ==
    /\ Idle /\ dev' = [dev EXCEPT !.modem = FALSE]
    /\ UNCHANGED <<uart, main, event, app>>

-----------------------------------------------------------------------------
(* XUartNs550_InterruptHandler(): the cause of highest priority, up to the *)
(* callback.                                                               *)

Handler == event = "none"

ReceiveStatus ==
    /\ Handler /\ LineError
    /\ IF uart.recv.remaining # 0
         THEN event' = "status" /\ UNCHANGED <<uart, dev>>
         ELSE /\ uart' = [uart EXCEPT !.lastErrors = @ \/ LsrErrors(dev)]
              /\ dev' = ReadLsr(dev)
              /\ event' = "RECV_ERROR"
    /\ UNCHANGED <<main, app>>

Receive == event' = "data" /\ UNCHANGED <<uart, dev, main, app>>

ReceiveData == Handler /\ ~LineError /\ Received /\ Receive
ReceiveTimeout == Handler /\ ~LineError /\ TimedOut /\ Receive

(* The loop of XUartNs550_ReceiveBuffer() in the handler, for which the    *)
(* bytes are counted off at once.                                          *)
HandlerStore ==
    /\ event \in Copying /\ uart.recv.remaining > 0 /\ dev.rx # <<>>
    /\ dev' = TakeDevice(dev)
    /\ uart' = [TakeDriver(uart, dev, Stored(uart)) EXCEPT
                   !.recv.remaining = IF Head(dev.rx) = Break THEN @ ELSE @ - 1]
    /\ UNCHANGED <<main, event, app>>

HandlerStop ==
    /\ event \in Copying
    /\ LET left == uart.recv.remaining
       IN  /\ left = 0 \/ dev.rx = <<>>
           /\ dev' = IF left = 0 THEN dev ELSE EmptyDevice(dev)
           /\ event' = IF event = "status" THEN "RECV_ERROR"
                       ELSE IF event = "callback" THEN "none"
                       ELSE IF left = 0 THEN "RECV_DATA" ELSE "RECV_TIMEOUT"
    /\ UNCHANGED <<uart, main, app>>

(* Fault: the report follows the last filling.                               *)
SendDataEarly ==
    /\ Handler /\ ~LineError /\ ~Received /\ Emptied
    /\ LET d == [dev EXCEPT !.thre = FALSE]
           u == FillDriver(uart, d)
       IN  /\ uart' = u
           /\ dev' = IF u.send.remaining = 0 THEN SetIer(FillDevice(uart, d), d.ier \ {"TX_EMPTY"})
                                            ELSE FillDevice(uart, d)
           /\ event' = IF u.send.remaining = 0 THEN "SENT_DATA" ELSE "none"
    /\ UNCHANGED <<main, app>>

(* The cause is withdrawn when it is read.                                 *)
SendData ==
    /\ Handler /\ ~LineError /\ ~Received /\ Emptied
    /\ LET d == [dev EXCEPT !.thre = FALSE]
       IN  IF uart.send.remaining = 0
             THEN /\ dev' = SetIer(d, d.ier \ {"TX_EMPTY"})
                  /\ event' = "SENT_DATA"
                  /\ UNCHANGED uart
             ELSE /\ uart' = FillDriver(uart, d)
                  /\ dev' = EnableTx(FillDevice(uart, d), d.ier)
                  /\ UNCHANGED event
    /\ UNCHANGED <<main, app>>

ModemStatus ==
    /\ Handler /\ ~LineError /\ ~Received /\ ~Emptied /\ ModemChange
    /\ dev' = [dev EXCEPT !.modem = FALSE]
    /\ event' = "MODEM"
    /\ UNCHANGED <<uart, main, app>>

(* The interrupt controller has noticed a cause that the program has just  *)
(* disabled.                                                               *)
NoInterrupt ==
    /\ Handler /\ ~Pending /\ app.mode = "interrupt"
    /\ dev' = ReadLsr(dev)
    /\ uart' = [uart EXCEPT !.lastErrors = @ \/ LsrErrors(dev)]
    /\ UNCHANGED <<main, event, app>>

-----------------------------------------------------------------------------
(* The callbacks of the application.  That for received data asks for      *)
(* more, as the interrupt would otherwise never cease; that for a time-out *)
(* may, and that for sent data may send the next message.                  *)

CallbackReturns ==
    /\ event \in Events \ {"RECV_DATA"}
    /\ event' = "none"
    /\ app' = IF event = "SENT_DATA" THEN Sent ELSE app
    /\ UNCHANGED <<uart, dev, main>>

(* XUartNs550_Recv() in the callback.                                      *)
CallbackRecv(n) ==
    /\ event \in {"RECV_DATA", "RECV_TIMEOUT"}
    /\ dev' = Renumbered(dev)
    /\ uart' = Ask(uart, n)
    /\ event' = "callback"
    /\ UNCHANGED <<main, app>>

CallbackSend(n) ==
    /\ \/ event = "SENT_DATA" /\ event' = "none"
       \/ /\ SendFromReceive /\ app.mode = "interrupt" /\ ~app.sending
          /\ event \in {"RECV_DATA", "RECV_TIMEOUT"}
          /\ UNCHANGED event
    /\ LET s == SendInHandler(uart, dev, NextStart, n)
       IN  uart' = s.u /\ dev' = s.d
    /\ app' = [app EXCEPT !.sending = TRUE, !.start = NextStart, !.size = n]
    /\ UNCHANGED main

-----------------------------------------------------------------------------
Calls ==
    \/ UARTInit \/ SetHandler
    \/ \E baud \in BaudRates, bits \in Formats : SetDataFormat(baud, bits)
    \/ \E baud \in BaudRates : ChangeBaud(baud)
    \/ \E n \in 1..MaxBytes : SendBegin(n)
    \/ \E n \in 1..MaxRecv : RecvBegin(n)
    \/ \E o \in OptionSets, setting \in BOOLEAN : OptionsBegin(o, setting)
    \/ \E setting \in BOOLEAN : ThresholdBegin(setting)
    \/ GetLastErrors \/ IsSending \/ GetModemStatus

Program ==
    \/ SendFill \/ SendReadIer \/ SendEnable \/ SendAgain
    \/ RecvMask \/ RecvStore \/ RecvStop \/ RecvRestore
    \/ SetRow \/ ReadRow \/ ReadFcrRegister \/ WriteRow
    \/ GetFifoThreshold \/ \E level \in Thresholds : SetFifoThreshold(level)

InterruptHandler ==
    \/ ReceiveStatus \/ ReceiveData \/ ReceiveTimeout \/ SendData \/ ModemStatus \/ NoInterrupt
    \/ HandlerStore \/ HandlerStop

Callback ==
    \/ CallbackReturns
    \/ \E n \in 1..MaxRecv : CallbackRecv(n)
    \/ \E n \in 1..MaxBytes : CallbackSend(n)

Next ==
    \/ Load \/ ShiftOut \/ \E kind \in {"data", "break"} : Arrive(kind)
    \/ ModemInput
    \/ Calls \/ Program \/ InterruptHandler \/ Callback

Spec == Init /\ [][Next]_vars

(* The device sends, callbacks return and calls that were begun go on.     *)
(* Bytes come in so slowly that the processor can handle every interrupt   *)
(* and still get back to the program, which finds the receive FIFO empty.  *)
FairSpec ==
    /\ Spec
    /\ WF_vars(Load) /\ WF_vars(ShiftOut) /\ WF_vars(Callback)
    /\ WF_vars(ReceiveStatus \/ ReceiveData \/ ReceiveTimeout \/ ModemStatus
                 \/ HandlerStore \/ HandlerStop)
    /\ SF_vars(SendData) /\ SF_vars(Program) /\ SF_vars(RecvStop)

-----------------------------------------------------------------------------
(* Properties.                                                             *)

TypeOK ==
    /\ uart \in [isReady : BOOLEAN, handler : {"stub", "application"}, lastErrors : BOOLEAN,
                 baudRate : Nat, send : [next : Nat, remaining : 0..MaxBytes],
                 recv : [data : Seq(Entries), remaining : 0..MaxRecv]]
    /\ dev \in [ier : SUBSET Ier, lcr : SUBSET (Lcr \ {"DLAB"}), mcr : SUBSET Mcr,
                fcr : SUBSET {"FIFOS_ENABLE"}, trigger : 1..FifoDepth, divisor : Nat,
                tx : Seq(Nat), shifter : Seq(Nat), thre : BOOLEAN,
                rx : Seq(Entries), overrun : BOOLEAN, peer : Nat, modem : BOOLEAN]
    /\ Len(dev.tx) <= FifoDepth /\ Len(dev.rx) <= FifoDepth /\ Len(dev.shifter) <= 1
    /\ Len(uart.recv.data) <= MaxRecv
    /\ main \in [pc : MainLabels, ier : SUBSET Ier, count : Nat, row : 0..Len(OptionsTable),
                 value : SUBSET (Ier \cup {"FIFOS_ENABLE"}), options : OptionSets \cup {{}},
                 setting : BOOLEAN]
    /\ event \in Events \cup Copying \cup {"none"}
    /\ app \in [mode : {"polled", "interrupt"}, sending : BOOLEAN, start : Int, size : 0..MaxBytes]

Numbered(s, from) == \A k \in 1..Len(s) : s[k] = from + k

(* Every byte of every message goes onto the line once and in order,       *)
(* whether the program or the handler hands it to the device.              *)
TransmitsInOrder == Numbered(dev.shifter \o dev.tx, 0)

(* Every byte that has arrived is in one place: the bytes of the receive   *)
(* buffer, stored by the program or by the handler, are those that came    *)
(* next, and the FIFO has those that follow.                               *)
InBuffer == Stored(uart) + (IF main.pc = "copy" THEN main.count ELSE 0)
TakenIn == SubSeq(uart.recv.data, 1, InBuffer) \o dev.rx

ReceivesInOrder ==
    /\ \A k \in 1..Len(TakenIn) : \A j \in 1..k - 1 :
          IsData(TakenIn[j]) /\ IsData(TakenIn[k]) => TakenIn[j] < TakenIn[k]
    /\ Numbers(TakenIn) = 1..dev.peer - 1

(* The completion of a message is reported only when all of it has been    *)
(* handed to the device and the device's FIFO has run empty.               *)
SentIsSent ==
    [][ event' = "SENT_DATA" /\ event # "SENT_DATA" =>
            dev.tx = <<>> /\ uart.send.next = NextStart ]_vars

(* A message that XUartNs550_Send() has begun to send is sent, and in      *)
(* interrupt mode a callback says so.                                      *)
SendEnds == app.sending ~> (event = "SENT_DATA" \/ ~app.sending)
=============================================================================
