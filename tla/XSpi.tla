-------------------------------- MODULE XSpi --------------------------------
(***************************************************************************)
(* The SPI driver of the display (xspi.c, xspi_options.c, xspi.h) as a bus *)
(* master, with its device, its interrupt handler and an application that  *)
(* calls its functions in any order, polled or driven by interrupts.       *)
(*                                                                         *)
(* A step is what no other actor can come between.  The device shifts      *)
(* bytes while it is enabled and not inhibited, so the driver's functions  *)
(* are split where it is neither and where an interrupt may be taken.  The *)
(* handler runs to its end before the interrupted program goes on.         *)
(*                                                                         *)
(* A byte is its index in the transfer; a register is the set of its one   *)
(* bits, a slave select register the set of its zero bits, which are the   *)
(* asserted lines.  The statistics counters are left out.                  *)
(***************************************************************************)
EXTENDS Naturals, Sequences, FiniteSets

CONSTANTS
    FifoDepth,      \* bytes that each FIFO of a device with FIFOs holds
    MaxBytes,       \* longest transfer that the application asks for
    NumSlaveBits,   \* slave select lines of the device
    RegisterBits,   \* bits of a register
    Selections,     \* masks that the application gives to XSpi_SetSlaveSelect()
    OptionSets,     \* options that it gives to XSpi_SetOptions()
    Faults,         \* error interrupts that the device may raise
    AllFaults       \* whether it raises them when the driver does not cope, too

ASSUME XSpiAssumption ==
    /\ FifoDepth \in Nat \ {0} /\ MaxBytes \in Nat \ {0}
    /\ NumSlaveBits \in Nat \ {0} /\ RegisterBits \in Nat /\ NumSlaveBits < RegisterBits
    /\ Selections \subseteq SUBSET (0..RegisterBits - 1)

-----------------------------------------------------------------------------
(* Registers: xspi_l.h, and the table of options.                          *)

OptionsTable == {"LOOPBACK", "CLK_POLARITY", "CLK_PHASE", "MASTER_MODE", "MANUAL_SS"}
ControlBits == OptionsTable \cup {"ENABLE", "TRANS_INHIBIT"}
Errors == {"TX_UNDERRUN", "RX_OVERRUN", "SLAVE_MODE_FAULT", "CMD_ERR"}
Interrupts == Errors \cup {"MODE_FAULT", "TX_EMPTY", "TX_HALF_EMPTY"}
DftMask == Errors \cup {"MODE_FAULT"}

ASSUME OptionsAssumption ==
    /\ OptionSets \subseteq SUBSET OptionsTable
    /\ Faults \subseteq {"MODE_FAULT", "SLAVE_MODE_FAULT", "CMD_ERR"}
    /\ AllFaults \in BOOLEAN

VARIABLES
    spi,        \* the driver's instance, an XSpi, and ControlReg of XSpi_SetOptions()
    dev,        \* the device's registers and FIFOs
    pc,         \* where the program and the interrupt handler are
    intrStatus, \* IntrStatus of the handler
    byteCount,  \* ByteCount of a polled transfer
    result      \* the last outcome that the application was told

vars == <<spi, dev, pc, intrStatus, byteCount, result>>

Lines == 0..RegisterBits - 1
Slaves == 0..NumSlaveBits - 1
SlaveSelectMask == Lines \ Slaves       \* zero bits of (1 << NumSlaveBits) - 1
Bytes == 1..MaxBytes

MainLabels == {"app", "interrupts", "wait", "clear", "round", "end", "options", "stop"}
IsrLabels == {"none", "clear", "body", "abort", "release", "app", "interrupts", "errors"}

TypeOK ==
    /\ spi \in [isReady : BOOLEAN, isStarted : BOOLEAN, isBusy : BOOLEAN, hasFifos : BOOLEAN,
                handler : {"stub", "application"}, slaveSelectReg : SUBSET Lines,
                requested : 0..MaxBytes, remaining : 0..MaxBytes, recv : Seq(Bytes),
                controlReg : SUBSET ControlBits]
    /\ dev \in [dgier : BOOLEAN, iier : SUBSET Interrupts, iisr : SUBSET Interrupts,
                cr : SUBSET ControlBits, ssr : SUBSET Lines, modf : BOOLEAN,
                tx : Seq(Bytes), rx : Seq(Bytes)]
    /\ pc \in [main : MainLabels, isr : IsrLabels]
    /\ intrStatus \in SUBSET Interrupts
    /\ byteCount \in 0..MaxBytes
    /\ result \in {"none", "done", "aborted", "error"}

(* The state of the device after a reset by its software reset register.   *)
ResetDevice ==
    [dgier |-> FALSE, iier |-> {}, iisr |-> {}, cr |-> {"TRANS_INHIBIT", "MANUAL_SS"},
     ssr |-> {}, modf |-> FALSE, tx |-> <<>>, rx |-> <<>>]

Init ==
    /\ \E fifos \in BOOLEAN :
          spi = [isReady |-> FALSE, isStarted |-> FALSE, isBusy |-> FALSE, hasFifos |-> fifos,
                 handler |-> "stub", slaveSelectReg |-> {}, requested |-> 0, remaining |-> 0,
                 recv |-> <<>>, controlReg |-> {}]
    /\ dev = ResetDevice
    /\ pc = [main |-> "app", isr |-> "none"]
    /\ intrStatus = {} /\ byteCount = 0 /\ result = "none"

-----------------------------------------------------------------------------
(* The macros of xspi.h.                                                   *)

IntrGlobalEnable(d) == [d EXCEPT !.dgier = TRUE]
IntrGlobalDisable(d) == [d EXCEPT !.dgier = FALSE]
IsIntrGlobalEnabled(d) == d.dgier
IntrGetStatus(d) == d.iisr
IntrEnable(d, mask) == [d EXCEPT !.iier = @ \cup mask]
IntrDisable(d, mask) == [d EXCEPT !.iier = @ \ mask]
GetControlReg(d) == d.cr
SetControlReg(d, bits) == [d EXCEPT !.cr = bits]
SetSlaveSelectReg(d, lines) == [d EXCEPT !.ssr = lines]

(* Writing a one to the status register turns that bit round.              *)
IntrClear(d, mask) ==
    LET written == IntrGetStatus(d) \cup mask
    IN  [d EXCEPT !.iisr = (@ \ written) \cup (written \ @)]

(* The reset bits of the control register empty the FIFOs and read as 0.   *)
ResetFifos(d) == [d EXCEPT !.tx = <<>>, !.rx = <<>>]

(* Reading the status register ends the condition of a mode fault.         *)
GetStatusReg(d) == [d EXCEPT !.modf = FALSE]

-----------------------------------------------------------------------------
(* The device.                                                             *)

Depth == IF spi.hasFifos THEN FifoDepth ELSE 1

Shifting ==
    /\ "ENABLE" \in dev.cr /\ "TRANS_INHIBIT" \notin dev.cr
    /\ dev.tx # <<>> /\ ~dev.modf

(* One byte is exchanged with the slave.  A byte that finds the receive    *)
(* FIFO full is lost.                                                      *)
Shift ==
    /\ Shifting
    /\ dev' = [dev EXCEPT
          !.tx = Tail(@),
          !.rx = IF Len(@) < Depth THEN Append(@, Head(dev.tx)) ELSE @,
          !.iisr = @ \cup (IF Len(dev.rx) < Depth THEN {} ELSE {"RX_OVERRUN"})
                     \cup (IF Len(dev.tx) = 1 THEN {"TX_EMPTY"} ELSE {})
                     \cup (IF Len(dev.tx) = FifoDepth \div 2 + 1 THEN {"TX_HALF_EMPTY"} ELSE {})]
    /\ UNCHANGED <<spi, pc, intrStatus, byteCount, result>>

PolledTransfer == pc["main"] \in {"wait", "clear", "round", "end"}

(* The faults that the driver copes with.  It does not cope with a mode    *)
(* fault of a device without FIFOs, whose transmit register nothing        *)
(* empties; with one in a polled transfer, which never reads the status    *)
(* register that would release the bus; with one that comes while the      *)
(* handler or XSpi_Transfer() runs, whose reads of the status register end *)
(* the condition before the handler is told of it; nor with an error that  *)
(* interrupts a transfer, as the handler may then clear an interrupt it    *)
(* has not seen.                                                           *)
CopedWith(f) ==
    CASE f = "MODE_FAULT" -> spi.hasFifos /\ ~PolledTransfer /\ pc["isr"] = "none"
      [] f = "CMD_ERR" -> PolledTransfer
      [] OTHER -> TRUE

(* Another master selects this one, which suspends its transfer or, before *)
(* the driver is started, finds a slave that is not enabled; or the device *)
(* rejects a command.                                                      *)
Fault(f) ==
    /\ f \in Faults \ dev.iisr
    /\ AllFaults \/ CopedWith(f)
    /\ CASE f = "MODE_FAULT" -> "ENABLE" \in dev.cr
         [] f = "CMD_ERR" -> Shifting
         [] OTHER -> {"ENABLE", "MASTER_MODE"} \cap dev.cr = {}
    /\ dev' = [dev EXCEPT !.iisr = @ \cup {f}, !.modf = @ \/ f = "MODE_FAULT"]
    /\ UNCHANGED <<spi, pc, intrStatus, byteCount, result>>

-----------------------------------------------------------------------------
(* Contexts: the handler, once entered, runs to its end; application code  *)
(* is the main program or the status handler that the driver calls.        *)

Running == IF pc["isr"] # "none" THEN "isr" ELSE "main"
Pending == dev.dgier /\ dev.iisr \cap dev.iier # {}

(* A pending interrupt is taken before the program's next step.            *)
At(c, label) == Running = c /\ pc[c] = label /\ (c = "main" => ~Pending)
Goto(c, label) == pc' = [pc EXCEPT ![c] = label]
Main(label) == At("main", label)
Isr(label) == At("isr", label)
InDriver == UNCHANGED <<intrStatus, byteCount, result>>

(* Fault: the FIFOs are not reset.                                           *)
AbortDeviceKeeps(d) == SetControlReg(d, GetControlReg(d) \cup {"TRANS_INHIBIT"})

(* XSpi_Abort() up to its write of the control register, and the rest.     *)
AbortDevice(d) ==
    LET stopped == SetControlReg(d, GetControlReg(d) \cup {"TRANS_INHIBIT"})
    IN  IF spi.hasFifos THEN ResetFifos(stopped) ELSE stopped

AbortDriver(s) == [s EXCEPT !.remaining = 0, !.requested = 0, !.isBusy = FALSE]

(* As many bytes as the FIFO takes, or as are left, from the send buffer.  *)
FillCount(s, d) ==
    LET room == Depth - Len(d.tx)
    IN  IF room < s.remaining THEN room ELSE s.remaining
Filled(s, d) ==
    [d EXCEPT !.tx = @ \o [i \in 1..FillCount(s, d) |-> s.requested - s.remaining + i]]

(* Fault: off by one.                                                        *)
TakenOneMore(s, d) == [s EXCEPT !.remaining = @ - FillCount(s, d) - 1]

Taken(s, d) == [s EXCEPT !.remaining = @ - FillCount(s, d)]

(* Everything in the receive FIFO goes to the receive buffer.              *)
Drained(d) == [d EXCEPT !.rx = <<>>]
Received(s, d) == [s EXCEPT !.recv = @ \o d.rx]

-----------------------------------------------------------------------------
(* Initialisation, configuration and reset.                                *)

(* The transfer that a device with a startup block makes here is wiped out *)
(* by the reset at the end.                                                *)
CfgInitialize ==
    /\ Main("app") /\ ~spi.isStarted
    /\ spi' = [spi EXCEPT !.isReady = TRUE, !.isBusy = FALSE, !.handler = "stub",
                          !.requested = 0, !.remaining = 0, !.recv = <<>>,
                          !.slaveSelectReg = SlaveSelectMask]
    /\ dev' = ResetDevice
    /\ UNCHANGED <<pc, intrStatus, byteCount, result>>

SetStatusHandler ==
    /\ Main("app") /\ spi.isReady
    /\ spi' = [spi EXCEPT !.handler = "application"]
    /\ UNCHANGED <<dev, pc, intrStatus, byteCount, result>>

Start ==
    /\ Main("app") /\ spi.isReady /\ ~spi.isStarted
    /\ spi' = [spi EXCEPT !.isStarted = TRUE]
    /\ dev' = LET on == SetControlReg(IntrEnable(dev, DftMask), GetControlReg(dev) \cup {"ENABLE"})
              IN  IntrGlobalEnable(ResetFifos(on))
    /\ UNCHANGED <<pc, intrStatus, byteCount, result>>

(* XSpi_Stop() looks at the busy flag, and stops the device after it.      *)
Stop ==
    /\ Main("app") /\ spi.isReady /\ ~spi.isBusy
    /\ Goto("main", "stop")
    /\ UNCHANGED <<spi, dev>> /\ InDriver

StopDevice ==
    /\ Main("stop")
    /\ dev' = SetControlReg(IntrGlobalDisable(dev), GetControlReg(dev) \ {"ENABLE"})
    /\ spi' = [spi EXCEPT !.isStarted = FALSE]
    /\ Goto("main", "app") /\ InDriver

(* XSpi_Reset() does not protect itself from the handler, which the note   *)
(* on XSpi_Abort() leaves to the caller: a caller that may have a transfer *)
(* in progress has disabled the interrupts.                                *)
Reset ==
    /\ Main("app") /\ spi.isReady
    /\ spi.isBusy => ~IsIntrGlobalEnabled(dev)
    /\ spi' = [AbortDriver(spi) EXCEPT !.isStarted = FALSE, !.slaveSelectReg = SlaveSelectMask]
    /\ dev' = ResetDevice
    /\ result' = IF spi.isBusy THEN "aborted" ELSE result
    /\ UNCHANGED <<pc, intrStatus, byteCount>>

(* XSpi_SetOptions() looks at the busy flag and reads the control register *)
(* long before it writes it back: the handler may run in between.          *)
SetOptions ==
    /\ Main("app") /\ spi.isReady /\ ~spi.isBusy
    /\ spi' = [spi EXCEPT !.controlReg = GetControlReg(dev)]
    /\ Goto("main", "options")
    /\ UNCHANGED dev /\ InDriver

WriteOptions(options) ==
    /\ Main("options")
    /\ dev' = SetControlReg(dev, (spi.controlReg \ OptionsTable) \cup options)
    /\ spi' = [spi EXCEPT !.controlReg = {}]
    /\ Goto("main", "app") /\ InDriver

GetOptions(d) == GetControlReg(d) \cap OptionsTable

(* Fault: no look at the busy flag.                                          *)
SetSlaveSelectAnyTime(slaveMask) ==
    /\ Main("app") /\ spi.isReady
    /\ Cardinality(slaveMask \cap Slaves) <= 1
    /\ spi' = [spi EXCEPT !.slaveSelectReg = slaveMask]
    /\ UNCHANGED <<dev, pc, intrStatus, byteCount, result>>

SetSlaveSelect(slaveMask) ==
    /\ Main("app") /\ spi.isReady /\ ~spi.isBusy
    /\ Cardinality(slaveMask \cap Slaves) <= 1
    /\ spi' = [spi EXCEPT !.slaveSelectReg = slaveMask]
    /\ UNCHANGED <<dev, pc, intrStatus, byteCount, result>>

GetSlaveSelect(s) == s.slaveSelectReg

(* The application masks and unmasks the interrupts of the device: for a   *)
(* critical section of its own, or to transfer in polled mode.             *)
Mask ==
    /\ Main("app") /\ spi.isStarted
    /\ dev' = IntrGlobalDisable(dev)
    /\ UNCHANGED <<spi, pc, intrStatus, byteCount, result>>

Unmask ==
    /\ Main("app") /\ spi.isStarted
    /\ dev' = IntrGlobalEnable(dev)
    /\ UNCHANGED <<spi, pc, intrStatus, byteCount, result>>

-----------------------------------------------------------------------------
(* XSpi_Transfer() of n bytes.                                             *)

(* From the checks to the end of the transmitter's inhibition.  Interrupts *)
(* are disabled and nothing is shifted until then.                         *)
NoSlave(d) ==
    /\ "MASTER_MODE" \in GetControlReg(d) /\ "LOOPBACK" \notin GetControlReg(d)
    /\ spi.slaveSelectReg = SlaveSelectMask

Accepts == spi.isReady /\ spi.isStarted /\ ~spi.isBusy /\ ~NoSlave(dev)

Begin(c, n) ==
    /\ Accepts
    /\ LET s == [spi EXCEPT !.isBusy = TRUE, !.requested = n, !.remaining = n, !.recv = <<>>]
           d == Filled(s, GetStatusReg(IntrGlobalDisable(dev)))
           selected == SetSlaveSelectReg(d, s.slaveSelectReg)
       IN  /\ spi' = Taken(s, dev)
           /\ dev' = SetControlReg(selected, GetControlReg(selected) \ {"TRANS_INHIBIT"})
    /\ Goto(c, IF IsIntrGlobalEnabled(dev) THEN "interrupts" ELSE "wait")
    /\ byteCount' = IF IsIntrGlobalEnabled(dev) THEN byteCount ELSE n
    /\ UNCHANGED <<intrStatus, result>>

(* The program transfers as a master, and so may the status handler,       *)
(* whatever it was told.  The functions that look at the busy flag, here   *)
(* and in xspi_options.c, do not protect themselves from the handler until *)
(* they act on it.  An application whose handler begins transfers keeps    *)
(* these apart itself: it begins none while it has interrupted such a call.*)
InterruptsNoCall(c) == c = "isr" => pc["main"] = "app"

Transfer(c, n) ==
    /\ At(c, "app") /\ "MASTER_MODE" \in dev.cr
    /\ InterruptsNoCall(c)
    /\ Begin(c, n)

(* In interrupt mode the handler does the rest.                            *)
EnableInterrupts(c) ==
    /\ At(c, "interrupts")
    /\ dev' = IntrGlobalEnable(IntrEnable(dev, {"TX_EMPTY"}))
    /\ Goto(c, "app")
    /\ UNCHANGED spi /\ InDriver

(* In polled mode: wait until the transmitter is empty and clear that,     *)
(* store what has been received, send more.                                *)
PollEmpty ==
    /\ Main("wait") /\ "TX_EMPTY" \in IntrGetStatus(dev)
    /\ Goto("main", "clear")
    /\ UNCHANGED <<spi, dev>> /\ InDriver

PollClear ==
    /\ Main("clear")
    /\ dev' = IntrClear(dev, {"TX_EMPTY"})
    /\ Goto("main", "round")
    /\ UNCHANGED spi /\ InDriver

(* Fault: what is sent more stays inhibited.                                 *)
PollRoundInhibited ==
    /\ Main("round")
    /\ LET s == Received(spi, dev)
           d == GetStatusReg(Drained(SetControlReg(dev, GetControlReg(dev) \cup {"TRANS_INHIBIT"})))
       IN  /\ spi' = Taken(s, d)
           /\ dev' = IF s.remaining > 0 THEN Filled(s, d) ELSE d
    /\ byteCount' = byteCount - Len(dev.rx)
    /\ Goto("main", IF byteCount - Len(dev.rx) > 0 THEN "wait" ELSE "end")
    /\ UNCHANGED <<intrStatus, result>>

PollRound ==
    /\ Main("round")
    /\ LET s == Received(spi, dev)
           d == GetStatusReg(Drained(SetControlReg(dev, GetControlReg(dev) \cup {"TRANS_INHIBIT"})))
       IN  /\ spi' = Taken(s, d)
           /\ dev' = IF s.remaining > 0
                       THEN SetControlReg(Filled(s, d), GetControlReg(d) \ {"TRANS_INHIBIT"})
                       ELSE d
    /\ byteCount' = byteCount - Len(dev.rx)
    /\ Goto("main", IF byteCount - Len(dev.rx) > 0 THEN "wait" ELSE "end")
    /\ UNCHANGED <<intrStatus, result>>

PollEnd ==
    /\ Main("end")
    /\ dev' = SetSlaveSelectReg(SetControlReg(dev, GetControlReg(dev) \cup {"TRANS_INHIBIT"}),
                                SlaveSelectMask)
    /\ spi' = [spi EXCEPT !.isBusy = FALSE]
    /\ result' = "done"
    /\ Goto("main", "app")
    /\ UNCHANGED <<intrStatus, byteCount>>

-----------------------------------------------------------------------------
(* XSpi_InterruptHandler().                                                *)

TakeInterrupt ==
    /\ pc["isr"] = "none" /\ Pending
    /\ intrStatus' = IntrGetStatus(dev)
    /\ Goto("isr", "clear")
    /\ UNCHANGED <<spi, dev, byteCount, result>>

ClearStatus ==
    /\ Isr("clear")
    /\ dev' = IntrClear(dev, intrStatus)
    /\ Goto("isr", "body")
    /\ UNCHANGED spi /\ InDriver

(* Fault: the status register is read first.                                 *)
ModeFaultReadFirst ==
    /\ Isr("body") /\ "MODE_FAULT" \in intrStatus
    /\ dev' = SetSlaveSelectReg(GetStatusReg(dev), SlaveSelectMask)
    /\ Goto("isr", "abort")
    /\ UNCHANGED spi /\ InDriver

(* A mode fault aborts the transfer; the status register is read last.     *)
ModeFault ==
    /\ Isr("body") /\ "MODE_FAULT" \in intrStatus
    /\ dev' = SetSlaveSelectReg(dev, SlaveSelectMask)
    /\ Goto("isr", "abort")
    /\ UNCHANGED spi /\ InDriver

Abort ==
    /\ Isr("abort")
    /\ dev' = AbortDevice(dev)
    /\ spi' = AbortDriver(spi)
    /\ Goto("isr", "release") /\ InDriver

Release ==
    /\ Isr("release")
    /\ dev' = GetStatusReg(dev)
    /\ result' = "aborted"
    /\ intrStatus' = {}             \* the handler returns after the report
    /\ Goto("isr", "app")
    /\ UNCHANGED <<spi, byteCount>>

(* The transmitter is empty: store what has been received, and send more   *)
(* or report that the transfer is done.                                    *)
Empty ==
    /\ Isr("body") /\ "MODE_FAULT" \notin intrStatus
    /\ intrStatus \cap {"TX_EMPTY", "TX_HALF_EMPTY"} # {}

Inhibited ==
    Drained(GetStatusReg(SetControlReg(dev, GetControlReg(dev) \cup {"TRANS_INHIBIT"})))

SendMore ==
    /\ Empty /\ spi.remaining > 0
    /\ LET s == Received(spi, dev)
       IN  /\ spi' = Taken(s, Inhibited)
           /\ dev' = SetControlReg(Filled(s, Inhibited), GetControlReg(dev))
    /\ Goto("isr", "errors") /\ InDriver

TransferDone ==
    /\ Empty /\ spi.remaining = 0
    /\ dev' = IntrDisable(SetSlaveSelectReg(Inhibited, SlaveSelectMask), {"TX_EMPTY"})
    /\ spi' = [Received(spi, dev) EXCEPT !.isBusy = FALSE]
    /\ result' = "done"
    /\ Goto("isr", "app")
    /\ UNCHANGED <<intrStatus, byteCount>>

OtherInterrupt ==
    /\ Isr("body") /\ intrStatus \cap {"MODE_FAULT", "TX_EMPTY", "TX_HALF_EMPTY"} = {}
    /\ Goto("isr", "errors")
    /\ UNCHANGED <<spi, dev>> /\ InDriver

(* The status handler returns.                                             *)
HandlerReturns ==
    /\ Isr("app")
    /\ Goto("isr", "errors")
    /\ UNCHANGED <<spi, dev>> /\ InDriver

(* The remaining interrupts are only reported; the reports that follow one *)
(* another are one call of the status handler here.                        *)
ReportErrors ==
    /\ Isr("errors") /\ intrStatus \cap Errors # {}
    /\ result' = "error"
    /\ intrStatus' = {}             \* all of them are reported
    /\ Goto("isr", "app")
    /\ UNCHANGED <<spi, dev, byteCount>>

HandlerEnds ==
    /\ Isr("errors") /\ intrStatus \cap Errors = {}
    /\ Goto("isr", "none")
    /\ UNCHANGED <<spi, dev>> /\ InDriver

-----------------------------------------------------------------------------
(* The stub that stands for the status handler until one is set is an      *)
(* assertion: an application that uses interrupts sets one before it starts*)
(* the device.                                                             *)
Configure ==
    \/ CfgInitialize \/ SetStatusHandler
    \/ spi.handler = "application" /\ Start
    \/ Stop \/ StopDevice \/ Reset
    \/ SetOptions \/ \E o \in OptionSets : WriteOptions(o)
    \/ \E m \in Selections : SetSlaveSelect(m)
    \/ Mask \/ Unmask

Handler ==
    \/ ClearStatus \/ ModeFault \/ Abort \/ Release
    \/ SendMore \/ TransferDone \/ OtherInterrupt \/ HandlerReturns
    \/ ReportErrors \/ HandlerEnds

Polling == PollEmpty \/ PollClear \/ PollRound \/ PollEnd

Next ==
    \/ Shift \/ \E f \in Faults : Fault(f)
    \/ Configure
    \/ \E c \in {"main", "isr"} : EnableInterrupts(c) \/ \E n \in Bytes : Transfer(c, n)
    \/ Polling
    \/ TakeInterrupt \/ Handler

Spec == Init /\ [][Next]_vars

(* The device shifts, the processor runs and takes pending interrupts, and *)
(* an application that has masked interrupts during a transfer unmasks     *)
(* them or resets the device.                                              *)
FairSpec ==
    /\ Spec
    /\ WF_vars(Shift) /\ WF_vars(Handler) /\ WF_vars(Polling)
    /\ WF_vars(\E c \in {"main", "isr"} : EnableInterrupts(c))
    /\ WF_vars(StopDevice) /\ WF_vars(\E o \in OptionSets : WriteOptions(o))
    /\ WF_vars(spi.isBusy /\ (Unmask \/ Reset))
    /\ WF_vars(TakeInterrupt)

-----------------------------------------------------------------------------
(* Properties.                                                             *)

(* Between the request of a transfer and its end, every byte handed to the *)
(* device is in exactly one place and in order: in the receive buffer, in  *)
(* the receive FIFO or in the transmit FIFO.  A byte left over from an     *)
(* aborted transfer, sent twice or overtaken would break this.             *)
Numbered(s, from) == \A i \in 1..Len(s) : s[i] = from + i

InOrder ==
    spi.isBusy =>
        /\ Len(spi.recv) + Len(dev.rx) + Len(dev.tx) = spi.requested - spi.remaining
        /\ Numbered(spi.recv, 0)
        /\ Numbered(dev.rx, Len(spi.recv))
        /\ Numbered(dev.tx, Len(spi.recv) + Len(dev.rx))

(* Whichever way a transfer ended, none of its bytes is left behind and    *)
(* nothing moves until the next one.                                       *)
IdleIsQuiet ==
    ~spi.isBusy => dev.tx = <<>> /\ dev.rx = <<>> /\ "TRANS_INHIBIT" \in dev.cr

BytesInPlace == InOrder /\ IdleIsQuiet

(* A byte of a transfer that is not aborted is exchanged with the slave    *)
(* that the application selected last, from the first byte to the last, and*)
(* never with two.  It is exchanged with none only if the application asked*)
(* for that: XSpi_Transfer() only refuses the value that XSpi_Initialize() *)
(* and XSpi_Reset() leave, not the one that XSpi_SetSlaveSelect(0) stores. *)
ReachesItsSlave ==
    [][ Shift /\ "LOOPBACK" \notin dev.cr /\ pc["isr"] # "abort" =>
            /\ dev.ssr = spi.slaveSelectReg
            /\ Cardinality(dev.ssr \cap Slaves) <= 1
            /\ dev.ssr # SlaveSelectMask ]_vars

(* Bytes are exchanged one by one, and a transfer is reported as done once *)
(* and only when all of its bytes have been exchanged, with the faults that*)
(* the driver copes with.                                                  *)
Bus == INSTANCE SpiBus WITH
    asked <- IF spi.isBusy THEN spi.requested ELSE 0,
    got <- IF spi.isBusy THEN Len(spi.recv) + Len(dev.rx) ELSE 0,
    outcome <- IF pc["isr"] = "release" THEN "aborted" ELSE result

ImplementsSpiBus == Bus!Spec

(* What is reported as done is a transfer that was in progress, with all   *)
(* of its bytes received.  XSpi_SetStatusHandler() promises this.          *)
DoneIsTrue ==
    [][ TransferDone => spi.isBusy /\ Len(spi'.recv) = spi.requested ]_vars

(* A transfer ends, done or aborted.                                       *)
TransferEnds == spi.isBusy ~> ~spi.isBusy
=============================================================================
