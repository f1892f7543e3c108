----------------------------- MODULE XSpiProofs -----------------------------
(***************************************************************************)
(* Proofs about the SPI driver and about the display that is driven        *)
(* through it.                                                             *)
(*                                                                         *)
(* First XSpi with any application: types, that every byte of a transfer   *)
(* is in exactly one place and in order, that the driver implements SpiBus,*)
(* and that a transfer reaches the slave selected.  All of it as long as   *)
(* the device raises only the faults that the driver copes with.           *)
(*                                                                         *)
(* Then PmodOLEDrgb: types, that every byte reaches the display, that the  *)
(* display takes no pixels for commands nor commands for pixels, and that  *)
(* it shows what was asked for.  What is left of a function is a           *)
(* path through the points where the driver's functions can be; what holds *)
(* at each point is the invariant, besides that of XSpi, whose lemmas do   *)
(* the steps in XSpi.                                                      *)
(***************************************************************************)
EXTENDS PmodOLEDrgb, TLAPS, FiniteSetTheorems

(* What comes in fits the receive FIFO, as no more is sent out than that.  *)
InTransmitter == Len(dev.tx)
InReceiver == Len(dev.rx)
InBuffer == Len(spi.recv)
Asked == spi.requested
Left == spi.remaining

Room == InTransmitter + InReceiver <= Depth

(* The two parts of InOrder.                                               *)
CountInv == spi.isBusy => InBuffer + InReceiver + InTransmitter = Asked - Left

NumberInv ==
    spi.isBusy =>
        /\ Numbered(spi.recv, 0)
        /\ Numbered(dev.rx, InBuffer)
        /\ Numbered(dev.tx, InBuffer + InReceiver)

(* The busy flag, the started flag and the device's enable bits agree.     *)
DriverInv ==
    /\ spi.isBusy => spi.isStarted /\ Asked > 0
    /\ dev.dgier => spi.isStarted
    /\ spi.isStarted <=> "ENABLE" \in dev.cr
    /\ spi.isStarted => DftMask \subseteq dev.iier
    /\ "TX_HALF_EMPTY" \notin dev.iier

(* What holds at each point of the program; interrupts are disabled while  *)
(* it transfers.  What XSpi_SetOptions() has read is what is still there.  *)
ProgramInv ==
    /\ pc.main \in {"stop", "options"} => ~spi.isBusy
    /\ pc.main = "options" => spi.controlReg = dev.cr
    /\ pc.main = "interrupts" \/ PolledTransfer => spi.isBusy /\ ~dev.dgier /\ pc.isr = "none"
    /\ PolledTransfer => byteCount = Asked - InBuffer
    /\ pc.main = "clear" => "TX_EMPTY" \in dev.iisr
    /\ pc.main \in {"round", "end"} => dev.iisr = {} /\ dev.tx = <<>>
    /\ pc.main = "end" => byteCount = 0

(* What the handler has read is still so when it acts on it: a transmitter *)
(* it saw empty is empty, a bus it saw in mode fault is still suspended.   *)
HandlerInv ==
    /\ pc.isr # "none" => (dev.dgier <=> pc.isr # "interrupts")
    /\ pc.isr = "interrupts" => spi.isBusy
    /\ pc.isr = "clear" => intrStatus \subseteq dev.iisr /\ intrStatus \cap dev.iier # {}
    /\ pc.isr \in {"body", "abort", "release"} => dev.iisr = {}
    /\ pc.isr \in {"clear", "body"} =>
          /\ spi.isBusy => "TX_EMPTY" \in intrStatus \/ "MODE_FAULT" \in intrStatus
          /\ ~spi.isBusy => intrStatus \cap {"TX_EMPTY", "TX_HALF_EMPTY"} = {}
          /\ "TX_EMPTY" \in intrStatus => dev.tx = <<>>
          /\ "MODE_FAULT" \in intrStatus => dev.modf
    /\ pc.isr = "abort" => dev.modf
    /\ pc.isr = "release" => ~spi.isBusy

(* The latched interrupts: none is left over from an earlier transfer.     *)
LatchInv ==
    /\ {"RX_OVERRUN", "TX_UNDERRUN"} \cap dev.iisr = {}
    /\ "CMD_ERR" \in dev.iisr => pc.main \in {"wait", "clear"}
    /\ ~spi.isBusy => dev.iisr \cap {"TX_EMPTY", "TX_HALF_EMPTY"} = {}
    /\ "TX_EMPTY" \in dev.iisr => dev.tx = <<>>
    /\ spi.isStarted /\ "SLAVE_MODE_FAULT" \in dev.iisr
          => dev.dgier /\ ~spi.isBusy /\ pc.isr \in {"none", "clear"}
    /\ "MODE_FAULT" \in dev.iisr => (dev.modf /\ pc.isr \in {"none", "clear"}) \/ PolledTransfer
    /\ dev.modf => spi.hasFifos

IInv ==
    /\ TypeOK /\ Room /\ CountInv /\ NumberInv /\ IdleIsQuiet
    /\ DriverInv /\ ProgramInv /\ HandlerInv /\ LatchInv

-----------------------------------------------------------------------------
(* Sequences of bytes that are numbered in order.                          *)

LEMMA TailNumbered ==
    ASSUME NEW S, NEW s \in Seq(S), NEW k \in Nat, Numbered(s, k), s # <<>>
    PROVE  /\ Tail(s) \in Seq(S) /\ Len(Tail(s)) = Len(s) - 1
           /\ Head(s) \in S /\ Head(s) = k + 1
           /\ Numbered(Tail(s), k + 1)
<1>1. Len(s) \in Nat /\ Len(s) # 0
    OBVIOUS
<1>2. /\ Tail(s) \in Seq(S) /\ Len(Tail(s)) = Len(s) - 1
      /\ \A i \in 1..Len(Tail(s)) : Tail(s)[i] = s[i + 1]
    OBVIOUS
<1>3. Head(s) = s[1] /\ 1 \in 1..Len(s) /\ s[1] \in S
    BY <1>1
<1>4. \A i \in 1..Len(Tail(s)) : i + 1 \in 1..Len(s) /\ k + (i + 1) = k + 1 + i
    BY <1>1, <1>2
<1>5. QED
    BY <1>2, <1>3, <1>4 DEF Numbered

LEMMA AppendNumbered ==
    ASSUME NEW S, NEW s \in Seq(S), NEW e \in S, NEW k \in Nat,
           Numbered(s, k), e = k + Len(s) + 1
    PROVE  /\ Append(s, e) \in Seq(S) /\ Len(Append(s, e)) = Len(s) + 1
           /\ Numbered(Append(s, e), k)
<1>1. /\ Append(s, e) \in Seq(S) /\ Len(Append(s, e)) = Len(s) + 1 /\ Len(s) \in Nat
      /\ \A i \in 1..Len(s) : Append(s, e)[i] = s[i]
      /\ Append(s, e)[Len(s) + 1] = e
    OBVIOUS
<1>2. \A i \in 1..Len(s) + 1 : i \in 1..Len(s) \/ (i = Len(s) + 1 /\ k + i = k + Len(s) + 1)
    BY <1>1
<1>3. QED
    BY <1>1, <1>2 DEF Numbered

LEMMA ConcatNumbered ==
    ASSUME NEW S, NEW s \in Seq(S), NEW t \in Seq(S), NEW k \in Nat,
           Numbered(s, k), Numbered(t, k + Len(s))
    PROVE  /\ s \o t \in Seq(S) /\ Len(s \o t) = Len(s) + Len(t)
           /\ Numbered(s \o t, k)
<1>1. /\ s \o t \in Seq(S) /\ Len(s \o t) = Len(s) + Len(t) /\ Len(s) \in Nat /\ Len(t) \in Nat
      /\ \A i \in 1..Len(s) : (s \o t)[i] = s[i]
      /\ \A i \in 1..Len(t) : (s \o t)[Len(s) + i] = t[i]
    OBVIOUS
<1>2. ASSUME NEW i \in 1..Len(s) + Len(t), i \notin 1..Len(s)
      PROVE  i - Len(s) \in 1..Len(t) /\ Len(s) + (i - Len(s)) = i /\ k + Len(s) + (i - Len(s)) = k + i
    BY <1>1, <1>2
<1>3. \A i \in 1..Len(s) + Len(t) : (s \o t)[i] = k + i
    BY <1>1, <1>2 DEF Numbered
<1>4. QED
    BY <1>1, <1>3 DEF Numbered

LEMMA NothingNumbered ==
    ASSUME NEW S, NEW k
    PROVE  <<>> \in Seq(S) /\ Len(<<>>) = 0 /\ Numbered(<<>>, k)
BY DEF Numbered

LEMMA EmptyIsZero ==
    ASSUME NEW S, NEW s \in Seq(S)
    PROVE  /\ Len(s) \in Nat
           /\ s = <<>> <=> Len(s) = 0
OBVIOUS

-----------------------------------------------------------------------------
(* Filling the empty transmit FIFO.                                        *)

Spis == [isReady : BOOLEAN, isStarted : BOOLEAN, isBusy : BOOLEAN, hasFifos : BOOLEAN,
         handler : {"stub", "application"}, slaveSelectReg : SUBSET Lines,
         requested : 0..MaxBytes, remaining : 0..MaxBytes, recv : Seq(Bytes),
         controlReg : SUBSET ControlBits]
Devs == [dgier : BOOLEAN, iier : SUBSET Interrupts, iisr : SUBSET Interrupts,
         cr : SUBSET ControlBits, ssr : SUBSET Lines, modf : BOOLEAN,
         tx : Seq(Bytes), rx : Seq(Bytes)]

LEMMA DepthType == TypeOK => Depth \in Nat /\ Depth > 0
BY XSpiAssumption DEF Depth, TypeOK

LEMMA FillType ==
    ASSUME TypeOK, NEW s \in Spis, NEW d \in Devs, d.tx = <<>>
    PROVE  FillCount(s, d) \in Nat /\ FillCount(s, d) <= s.remaining /\ FillCount(s, d) <= Depth
<1>1. s.remaining \in Nat /\ Len(d.tx) = 0
    BY XSpiAssumption DEF Spis
<1>2. QED
    BY <1>1, DepthType DEF FillCount

LEMMA FilledBytes ==
    ASSUME TypeOK, NEW s \in Spis, NEW d \in Devs, d.tx = <<>>, s.remaining <= s.requested
    PROVE  /\ Filled(s, d) = [d EXCEPT !.tx = Filled(s, d).tx]
           /\ Filled(s, d).tx \in Seq(Bytes) /\ Len(Filled(s, d).tx) = FillCount(s, d)
           /\ Numbered(Filled(s, d).tx, s.requested - s.remaining)
<1> DEFINE n == FillCount(s, d)
           k == s.requested - s.remaining
           bytes == [i \in 1..n |-> k + i]
<1>1. n \in Nat /\ n <= s.remaining
    BY FillType
<1>2. /\ s.requested \in 0..MaxBytes /\ s.remaining \in 0..MaxBytes /\ MaxBytes \in Nat
      /\ s.requested \in Nat /\ s.remaining \in Nat
    BY XSpiAssumption DEF Spis
<1>3. Filled(s, d) = [d EXCEPT !.tx = <<>> \o bytes]
    BY DEF Filled
<1> HIDE DEF n, k
<1>4. k \in Nat /\ k + n \in 0..MaxBytes
    BY <1>1, <1>2 DEF k
<1>5. \A i \in 1..n : k + i \in Bytes
    BY <1>1, <1>2, <1>4 DEF Bytes
<1>6. bytes \in Seq(Bytes) /\ Len(bytes) = n
    BY <1>1, <1>5
<1>7. Numbered(bytes, k)
    BY <1>6 DEF Numbered
<1> HIDE DEF bytes
<1>8. <<>> \o bytes = bytes
    BY <1>6
<1>9. Filled(s, d).tx = bytes
    BY <1>3, <1>8 DEF Devs
<1>10. QED
    BY <1>3, <1>6, <1>7, <1>8, <1>9 DEF n, k

LEMMA CountType ==
    ASSUME TypeOK
    PROVE  InTransmitter \in Nat /\ InReceiver \in Nat /\ InBuffer \in Nat
           /\ Asked \in Nat /\ Left \in Nat /\ spi \in Spis /\ dev \in Devs
<1>1. spi \in Spis /\ dev \in Devs
    BY DEF TypeOK, Spis, Devs
<1>2. dev.tx \in Seq(Bytes) /\ dev.rx \in Seq(Bytes) /\ spi.recv \in Seq(Bytes)
    BY <1>1 DEF Spis, Devs
<1>3. Asked \in Nat /\ Left \in Nat
    BY <1>1, XSpiAssumption DEF Spis, Asked, Left
<1>4. QED
    BY <1>1, <1>2, <1>3 DEF InTransmitter, InReceiver, InBuffer

-----------------------------------------------------------------------------
(* What every step does: it keeps the invariant, it is a step of the bus   *)
(* or none, and it leaves the modes of a transfer alone.                   *)

BusAsked == IF spi.isBusy THEN Asked ELSE 0
BusGot == IF spi.isBusy THEN InBuffer + InReceiver ELSE 0
BusOutcome == IF pc.isr = "release" THEN "aborted" ELSE result

BusStep ==
    \/ /\ BusAsked = 0 /\ BusAsked' \in 1..MaxBytes /\ BusGot' = 0
       /\ BusOutcome' = BusOutcome
    \/ BusGot < BusAsked /\ BusGot' = BusGot + 1 /\ UNCHANGED <<BusAsked, BusOutcome>>
    \/ /\ BusAsked > 0 /\ BusGot = BusAsked
       /\ BusAsked' = 0 /\ BusGot' = 0 /\ BusOutcome' = "done"
    \/ BusAsked' = 0 /\ BusGot' = 0 /\ BusOutcome' = "aborted"
    \/ BusOutcome' = "error" /\ UNCHANGED <<BusAsked, BusGot>>
    \/ UNCHANGED <<BusAsked, BusGot, BusOutcome>>

ModeKept == spi.isBusy /\ spi'.isBusy => GetOptions(dev') = GetOptions(dev)

StepCorrect == IInv' /\ BusStep /\ ModeKept

LEMMA BusStutter ==
    ASSUME spi'.isBusy = spi.isBusy, Asked' = Asked, InBuffer' = InBuffer,
           InReceiver' = InReceiver, BusOutcome' = BusOutcome
    PROVE  BusStep
BY DEF BusStep, BusAsked, BusGot

-----------------------------------------------------------------------------
(* The device.                                                             *)

LEMMA ShiftStep ==
    ASSUME IInv, Shift
    PROVE  StepCorrect
<1>1. /\ spi \in Spis /\ dev \in Devs
      /\ InTransmitter \in Nat /\ InReceiver \in Nat /\ InBuffer \in Nat
      /\ Asked \in Nat /\ Left \in Nat /\ Depth \in Nat
    BY CountType, DepthType DEF IInv
<1>2. spi.isBusy /\ dev.tx # <<>> /\ ~dev.modf
    BY DEF IInv, IdleIsQuiet, Shift, Shifting
<1>3. InReceiver < Depth
    <2>1. InTransmitter # 0
        BY <1>1, <1>2, EmptyIsZero DEF Devs, InTransmitter
    <2>2. QED
        BY <1>1, <2>1 DEF IInv, Room
<1>4. /\ dev' = [dev EXCEPT !.tx = Tail(@), !.rx = Append(@, Head(dev.tx)), !.iisr = dev'.iisr]
      /\ dev'.iisr \subseteq dev.iisr \cup {"TX_EMPTY", "TX_HALF_EMPTY"}
      /\ dev.iisr \subseteq dev'.iisr
      /\ "TX_EMPTY" \in dev'.iisr => "TX_EMPTY" \in dev.iisr \/ InTransmitter = 1
      /\ UNCHANGED <<spi, pc, intrStatus, byteCount, result>>
    BY <1>1, <1>3 DEF Shift, Devs, InReceiver, InTransmitter
<1>5. InBuffer + InReceiver \in Nat
    BY <1>1
<1>6. /\ Tail(dev.tx) \in Seq(Bytes) /\ Len(Tail(dev.tx)) = InTransmitter - 1
      /\ Head(dev.tx) \in Bytes /\ Head(dev.tx) = InBuffer + InReceiver + 1
      /\ Numbered(Tail(dev.tx), InBuffer + InReceiver + 1)
    BY <1>1, <1>2, <1>5, TailNumbered DEF Devs, IInv, NumberInv, InTransmitter
<1>7. /\ Append(dev.rx, Head(dev.tx)) \in Seq(Bytes)
      /\ Len(Append(dev.rx, Head(dev.tx))) = InReceiver + 1
      /\ Numbered(Append(dev.rx, Head(dev.tx)), InBuffer)
    BY <1>1, <1>2, <1>6, AppendNumbered DEF Devs, IInv, NumberInv, InReceiver
<1>8. /\ dev'.tx = Tail(dev.tx) /\ dev'.rx = Append(dev.rx, Head(dev.tx))
      /\ dev'.cr = dev.cr /\ dev'.iier = dev.iier /\ dev'.dgier = dev.dgier /\ dev'.modf = dev.modf
    BY <1>1, <1>4 DEF Devs
<1>9. /\ InTransmitter' = InTransmitter - 1 /\ InReceiver' = InReceiver + 1 /\ InBuffer' = InBuffer
      /\ Asked' = Asked /\ Left' = Left /\ Depth' = Depth
    BY <1>4, <1>6, <1>7, <1>8 DEF InTransmitter, InReceiver, InBuffer, Asked, Left, Depth
<1>10. TypeOK'
    <2>1. dev' \in Devs
        BY <1>1, <1>4, <1>6, <1>7 DEF Devs, Interrupts
    <2>2. QED
        BY <1>4, <2>1 DEF IInv, TypeOK, Devs
<1>11. Room' /\ CountInv'
    <2>1. /\ (InTransmitter - 1) + (InReceiver + 1) = InTransmitter + InReceiver
          /\ InBuffer + (InReceiver + 1) + (InTransmitter - 1) = InBuffer + InReceiver + InTransmitter
        BY <1>1
    <2>2. QED
        BY <1>2, <1>9, <2>1 DEF IInv, Room, CountInv
<1>12. NumberInv'
    <2>1. InBuffer' + InReceiver' = InBuffer + InReceiver + 1
        BY <1>1, <1>9
    <2>2. QED
        BY <1>2, <1>4, <1>6, <1>7, <1>8, <1>9, <2>1 DEF IInv, NumberInv, Numbered
<1>13. IdleIsQuiet' /\ DriverInv'
    BY <1>2, <1>4, <1>8, <1>9 DEF IInv, IdleIsQuiet, DriverInv
<1>14. InTransmitter = 1 => dev'.tx = <<>>
    <2>1. InTransmitter = 1 => Len(Tail(dev.tx)) = 0
        BY <1>6
    <2>2. QED
        BY <1>6, <1>8, <2>1, EmptyIsZero
<1>15. ProgramInv'
    BY <1>2, <1>4, <1>8, <1>9, <1>14 DEF IInv, ProgramInv, PolledTransfer
<1>16. HandlerInv'
    BY <1>2, <1>4, <1>8, <1>14 DEF IInv, HandlerInv
<1>17. LatchInv'
    BY <1>2, <1>4, <1>8, <1>14 DEF IInv, LatchInv, PolledTransfer
<1>18. BusStep
    <2>1. /\ Asked = InBuffer + InReceiver + InTransmitter + Left /\ InTransmitter # 0
        <3>1. InTransmitter # 0
            BY <1>1, <1>2, EmptyIsZero DEF Devs, InTransmitter
        <3>2. QED
            BY <1>1, <1>2, <3>1 DEF IInv, CountInv
    <2>2. InBuffer + InReceiver < Asked /\ InBuffer + (InReceiver + 1) = InBuffer + InReceiver + 1
        BY <1>1, <2>1
    <2>3. QED
        BY <1>2, <1>4, <1>9, <2>2 DEF BusStep, BusAsked, BusGot, BusOutcome
<1>19. ModeKept
    BY <1>8 DEF ModeKept, GetOptions, GetControlReg
<1>20. QED
    BY <1>10, <1>11, <1>12, <1>13, <1>15, <1>16, <1>17, <1>18, <1>19 DEF IInv, StepCorrect

LEMMA MainRuns ==
    ASSUME NEW label, Main(label)
    PROVE  pc.isr = "none" /\ pc.main = label /\ ~Pending
BY DEF Main, At, Running

LEMMA IsrRuns ==
    ASSUME NEW label, Isr(label)
    PROVE  pc.isr # "none" /\ pc.isr = label
BY DEF Isr, At, Running

(* A step that moves no byte.                                              *)
LEMMA SameBytes ==
    ASSUME IInv, dev'.tx = dev.tx, dev'.rx = dev.rx, spi'.recv = spi.recv,
           spi'.requested = spi.requested, spi'.remaining = spi.remaining,
           spi'.hasFifos = spi.hasFifos, spi'.isBusy => spi.isBusy
    PROVE  /\ Room' /\ CountInv' /\ NumberInv'
           /\ InBuffer' = InBuffer /\ InReceiver' = InReceiver /\ Asked' = Asked /\ Left' = Left
<1>1. /\ InTransmitter' = InTransmitter /\ InReceiver' = InReceiver /\ InBuffer' = InBuffer
      /\ Asked' = Asked /\ Left' = Left /\ Depth' = Depth
    BY DEF InTransmitter, InReceiver, InBuffer, Asked, Left, Depth
<1>2. QED
    BY <1>1 DEF IInv, Room, CountInv, NumberInv, Numbered

(* A step that leaves no transfer and no byte behind.                      *)
LEMMA NoBytes ==
    ASSUME IInv, ~spi'.isBusy, dev'.tx = <<>>, dev'.rx = <<>>, spi'.hasFifos = spi.hasFifos,
           "TRANS_INHIBIT" \in dev'.cr
    PROVE  Room' /\ CountInv' /\ NumberInv' /\ IdleIsQuiet'
<1>1. InTransmitter' = 0 /\ InReceiver' = 0 /\ Depth' = Depth
    BY NothingNumbered DEF InTransmitter, InReceiver, Depth
<1>2. Depth \in Nat
    BY DepthType DEF IInv
<1>3. QED
    BY <1>1, <1>2 DEF Room, CountInv, NumberInv, IdleIsQuiet

LEMMA FaultStep ==
    ASSUME ~AllFaults, IInv, NEW f \in Faults, Fault(f)
    PROVE  StepCorrect
<1>1. spi \in Spis /\ dev \in Devs
    BY CountType DEF IInv
<1>2. f \in {"MODE_FAULT", "SLAVE_MODE_FAULT", "CMD_ERR"}
    BY OptionsAssumption
<1>3. /\ dev' \in Devs
      /\ dev'.iisr = dev.iisr \cup {f} /\ dev'.modf = (dev.modf \/ f = "MODE_FAULT")
      /\ dev'.tx = dev.tx /\ dev'.rx = dev.rx /\ dev'.cr = dev.cr /\ dev'.iier = dev.iier
      /\ dev'.dgier = dev.dgier
      /\ UNCHANGED <<spi, pc, intrStatus, byteCount, result>>
    BY <1>1, <1>2 DEF Fault, Devs, Interrupts, Errors
<1>4. TypeOK'
    BY <1>3 DEF IInv, TypeOK, Devs
<1>5. /\ Room' /\ CountInv' /\ NumberInv'
      /\ InBuffer' = InBuffer /\ InReceiver' = InReceiver /\ Asked' = Asked
    BY <1>3, SameBytes
<1>6. IdleIsQuiet' /\ DriverInv'
    BY <1>3, <1>5 DEF IInv, IdleIsQuiet, DriverInv
<1>7. ASSUME f = "MODE_FAULT" PROVE IInv'
    <2>1. spi.hasFifos /\ ~PolledTransfer /\ pc.isr = "none"
        BY <1>7 DEF Fault, CopedWith
    <2>2. ProgramInv' /\ HandlerInv' /\ LatchInv'
        BY <1>3, <1>5, <1>7, <2>1 DEF IInv, ProgramInv, HandlerInv, LatchInv, PolledTransfer
    <2>3. QED
        BY <1>4, <1>5, <1>6, <2>2 DEF IInv
<1>8. ASSUME f = "CMD_ERR" PROVE IInv'
    <2>1. PolledTransfer /\ dev.tx # <<>>
        BY <1>8 DEF Fault, CopedWith, Shifting
    <2>2. pc.isr = "none" /\ pc.main \in {"wait", "clear"}
        BY <2>1 DEF IInv, ProgramInv, PolledTransfer
    <2>3. ProgramInv' /\ HandlerInv' /\ LatchInv'
        BY <1>3, <1>5, <1>8, <2>1, <2>2 DEF IInv, ProgramInv, HandlerInv, LatchInv, PolledTransfer
    <2>4. QED
        BY <1>4, <1>5, <1>6, <2>3 DEF IInv
<1>9. ASSUME f = "SLAVE_MODE_FAULT" PROVE IInv'
    <2>1. ~spi.isStarted
        BY <1>9 DEF Fault, IInv, DriverInv
    <2>2. ~spi.isBusy /\ ~dev.dgier /\ ~PolledTransfer
          /\ pc.isr \in {"none", "app", "errors", "release", "abort", "body", "clear"}
        BY <2>1 DEF IInv, DriverInv, ProgramInv, HandlerInv, TypeOK, IsrLabels
    <2>3. pc.isr = "none"
        BY <2>2 DEF IInv, HandlerInv
    <2>4. ProgramInv' /\ HandlerInv' /\ LatchInv'
        BY <1>3, <1>5, <1>9, <2>1, <2>2, <2>3 DEF IInv, ProgramInv, HandlerInv, LatchInv, PolledTransfer
    <2>5. QED
        BY <1>4, <1>5, <1>6, <2>4 DEF IInv
<1>10. IInv'
    BY <1>2, <1>7, <1>8, <1>9
<1>11. BusStep
    BY <1>3, <1>5, BusStutter DEF BusOutcome
<1>12. ModeKept
    BY <1>3 DEF ModeKept, GetOptions, GetControlReg
<1>13. QED
    BY <1>10, <1>11, <1>12 DEF StepCorrect

-----------------------------------------------------------------------------
(* Initialisation, configuration and reset.                                *)

LEMMA ResetType == ResetDevice \in Devs
BY NothingNumbered DEF ResetDevice, Devs, ControlBits, OptionsTable

LEMMA MaskType == SlaveSelectMask \in SUBSET Lines
BY DEF SlaveSelectMask

LEMMA CfgInitializeStep ==
    ASSUME IInv, CfgInitialize
    PROVE  StepCorrect
<1>1. spi \in Spis /\ dev \in Devs /\ 0 \in 0..MaxBytes
    BY CountType, XSpiAssumption DEF IInv
<1>2. pc.isr = "none" /\ pc.main = "app"
    BY MainRuns DEF CfgInitialize
<1>3. /\ spi' \in Spis /\ dev' \in Devs
      /\ ~spi'.isStarted /\ ~spi'.isBusy /\ spi'.hasFifos = spi.hasFifos
      /\ UNCHANGED <<pc, intrStatus, byteCount, result>>
    BY <1>1, MaskType, ResetType, NothingNumbered DEF CfgInitialize, Spis
<1>4. /\ dev'.tx = <<>> /\ dev'.rx = <<>> /\ dev'.iisr = {} /\ dev'.iier = {} /\ ~dev'.dgier
      /\ "TRANS_INHIBIT" \in dev'.cr /\ "ENABLE" \notin dev'.cr /\ ~dev'.modf
    BY DEF CfgInitialize, ResetDevice
<1>5. TypeOK'
    BY <1>3 DEF IInv, TypeOK, Devs, Spis
<1>6. Room' /\ CountInv' /\ NumberInv' /\ IdleIsQuiet'
    BY <1>3, <1>4, NoBytes
<1>7. DriverInv' /\ ProgramInv' /\ HandlerInv' /\ LatchInv'
    BY <1>2, <1>3, <1>4 DEF DriverInv, ProgramInv, HandlerInv, LatchInv, PolledTransfer
<1>8. BusStep
    BY <1>2, <1>3 DEF BusStep, BusAsked, BusGot, BusOutcome, CfgInitialize, IInv, DriverInv
<1>9. ModeKept
    BY <1>3 DEF ModeKept
<1>10. QED
    BY <1>5, <1>6, <1>7, <1>8, <1>9 DEF IInv, StepCorrect

LEMMA ResetStep ==
    ASSUME IInv, Reset
    PROVE  StepCorrect
<1>1. spi \in Spis /\ dev \in Devs /\ 0 \in 0..MaxBytes
    BY CountType, XSpiAssumption DEF IInv
<1>2. pc.isr = "none" /\ pc.main = "app"
    BY MainRuns DEF Reset
<1>3. /\ spi' \in Spis /\ dev' \in Devs
      /\ ~spi'.isStarted /\ ~spi'.isBusy /\ spi'.hasFifos = spi.hasFifos
      /\ result' \in {result, "aborted"}
      /\ UNCHANGED <<pc, intrStatus, byteCount>>
    BY <1>1, MaskType, ResetType DEF Reset, AbortDriver, Spis
<1>4. /\ dev'.tx = <<>> /\ dev'.rx = <<>> /\ dev'.iisr = {} /\ dev'.iier = {} /\ ~dev'.dgier
      /\ "TRANS_INHIBIT" \in dev'.cr /\ "ENABLE" \notin dev'.cr /\ ~dev'.modf
    BY DEF Reset, ResetDevice
<1>5. TypeOK'
    BY <1>3 DEF IInv, TypeOK, Devs, Spis
<1>6. Room' /\ CountInv' /\ NumberInv' /\ IdleIsQuiet'
    BY <1>3, <1>4, NoBytes
<1>7. DriverInv' /\ ProgramInv' /\ HandlerInv' /\ LatchInv'
    BY <1>2, <1>3, <1>4 DEF DriverInv, ProgramInv, HandlerInv, LatchInv, PolledTransfer
<1>8. BusStep
    BY <1>2, <1>3 DEF BusStep, BusAsked, BusGot, BusOutcome, Reset
<1>9. ModeKept
    BY <1>3 DEF ModeKept
<1>10. QED
    BY <1>5, <1>6, <1>7, <1>8, <1>9 DEF IInv, StepCorrect

LEMMA StartStep ==
    ASSUME IInv, Start
    PROVE  StepCorrect
<1>1. spi \in Spis /\ dev \in Devs
    BY CountType DEF IInv
<1>2. pc.isr = "none" /\ pc.main = "app" /\ ~spi.isStarted /\ ~spi.isBusy
    BY MainRuns DEF Start, IInv, DriverInv
<1>3. /\ spi' \in Spis /\ spi'.isStarted /\ ~spi'.isBusy /\ spi'.hasFifos = spi.hasFifos
      /\ UNCHANGED <<pc, intrStatus, byteCount, result>>
    BY <1>1, <1>2 DEF Start, Spis
<1>4. /\ dev' \in Devs
      /\ dev'.tx = <<>> /\ dev'.rx = <<>> /\ dev'.iisr = dev.iisr
      /\ dev'.iier = dev.iier \cup DftMask /\ dev'.dgier
      /\ dev'.cr = dev.cr \cup {"ENABLE"} /\ dev'.modf = dev.modf
    BY <1>1, NothingNumbered DEF Start, IntrEnable, SetControlReg, GetControlReg, ResetFifos,
       IntrGlobalEnable, Devs, ControlBits, DftMask, Interrupts
<1>5. TypeOK'
    BY <1>3, <1>4 DEF IInv, TypeOK, Devs, Spis
<1>6. "TRANS_INHIBIT" \in dev'.cr
    BY <1>2, <1>4 DEF IInv, IdleIsQuiet
<1>7. Room' /\ CountInv' /\ NumberInv' /\ IdleIsQuiet'
    BY <1>3, <1>4, <1>6, NoBytes
<1>8. "TX_HALF_EMPTY" \notin DftMask
    BY DEF DftMask, Errors
<1>9. DriverInv' /\ ProgramInv' /\ HandlerInv' /\ LatchInv'
    BY <1>2, <1>3, <1>4, <1>8 DEF IInv, DriverInv, ProgramInv, HandlerInv, LatchInv, PolledTransfer
<1>10. BusStep
    BY <1>2, <1>3 DEF BusStep, BusAsked, BusGot, BusOutcome
<1>11. ModeKept
    BY <1>3 DEF ModeKept
<1>12. QED
    BY <1>5, <1>7, <1>9, <1>10, <1>11 DEF IInv, StepCorrect

LEMMA GotoMain ==
    ASSUME TypeOK, NEW label \in MainLabels, Goto("main", label)
    PROVE  /\ pc' \in [main : MainLabels, isr : IsrLabels]
           /\ pc'.main = label /\ pc'.isr = pc.isr
BY DEF TypeOK, Goto

LEMMA GotoIsr ==
    ASSUME TypeOK, NEW label \in IsrLabels, Goto("isr", label)
    PROVE  /\ pc' \in [main : MainLabels, isr : IsrLabels]
           /\ pc'.isr = label /\ pc'.main = pc.main
BY DEF TypeOK, Goto

(* XSpi_SetStatusHandler() and XSpi_SetSlaveSelect() write the instance only. *)
LEMMA InstanceStep ==
    ASSUME IInv, SetStatusHandler \/ \E m \in Selections : SetSlaveSelect(m)
    PROVE  StepCorrect
<1>1. spi \in Spis /\ dev \in Devs
    BY CountType DEF IInv
<1>2. \A m \in Selections : m \in SUBSET Lines
    BY XSpiAssumption DEF Lines
<1>3. /\ spi' \in Spis /\ pc.main = "app"
      /\ spi'.recv = spi.recv /\ spi'.requested = spi.requested /\ spi'.remaining = spi.remaining
      /\ spi'.hasFifos = spi.hasFifos /\ spi'.isBusy = spi.isBusy /\ spi'.isStarted = spi.isStarted
      /\ UNCHANGED <<dev, pc, intrStatus, byteCount, result>>
    <2>1. pc.main = "app"
        BY MainRuns DEF SetStatusHandler, SetSlaveSelect
    <2>2. QED
        BY <1>1, <1>2, <2>1 DEF SetStatusHandler, SetSlaveSelect, Spis
<1>4. TypeOK'
    BY <1>3 DEF IInv, TypeOK, Spis
<1>5. /\ Room' /\ CountInv' /\ NumberInv'
      /\ InBuffer' = InBuffer /\ InReceiver' = InReceiver /\ Asked' = Asked
    BY <1>3, SameBytes
<1>6. IdleIsQuiet' /\ DriverInv' /\ ProgramInv' /\ HandlerInv' /\ LatchInv'
    BY <1>3, <1>5 DEF IInv, IdleIsQuiet, DriverInv, ProgramInv, HandlerInv, LatchInv, PolledTransfer
<1>7. BusStep
    BY <1>3, <1>5, BusStutter DEF BusOutcome
<1>8. ModeKept
    BY <1>3 DEF ModeKept, GetOptions, GetControlReg
<1>9. QED
    BY <1>4, <1>5, <1>6, <1>7, <1>8 DEF IInv, StepCorrect

(* XSpi_Stop() and XSpi_SetOptions() look at the busy flag.                *)
LEMMA CheckStep ==
    ASSUME IInv, Stop \/ SetOptions
    PROVE  StepCorrect
<1>1. pc.isr = "none" /\ pc.main = "app" /\ ~spi.isBusy
    BY MainRuns DEF Stop, SetOptions
<1>2. /\ pc' \in [main : MainLabels, isr : IsrLabels]
      /\ pc'.main \in {"stop", "options"} /\ pc'.isr = pc.isr
      /\ UNCHANGED <<dev, intrStatus, byteCount, result>>
      /\ spi' \in Spis /\ spi'.isBusy = spi.isBusy /\ spi'.isStarted = spi.isStarted
      /\ spi'.recv = spi.recv /\ spi'.requested = spi.requested /\ spi'.remaining = spi.remaining
      /\ spi'.hasFifos = spi.hasFifos
      /\ pc'.main = "options" => spi'.controlReg = dev.cr
    <2>1. spi \in Spis /\ dev.cr \in SUBSET ControlBits
        BY CountType DEF IInv, Devs
    <2>2. CASE Stop
        BY <2>1, <2>2, GotoMain DEF IInv, Stop, InDriver, MainLabels
    <2>3. CASE SetOptions
        BY <2>1, <2>3, GotoMain DEF IInv, SetOptions, InDriver, MainLabels, GetControlReg, Spis
    <2>4. QED
        BY <2>2, <2>3
<1>3. TypeOK'
    BY <1>2 DEF IInv, TypeOK, Spis
<1>4. Room' /\ CountInv' /\ NumberInv'
    BY <1>2, SameBytes
<1>5. IdleIsQuiet' /\ DriverInv'
    BY <1>2 DEF IInv, IdleIsQuiet, DriverInv, Asked
<1>6. ProgramInv' /\ HandlerInv' /\ LatchInv'
    BY <1>1, <1>2 DEF IInv, ProgramInv, HandlerInv, LatchInv, PolledTransfer
<1>7. BusStep
    BY <1>1, <1>2 DEF BusStep, BusAsked, BusGot, BusOutcome
<1>8. ModeKept
    BY <1>1 DEF ModeKept
<1>9. QED
    BY <1>3, <1>4, <1>5, <1>6, <1>7, <1>8 DEF IInv, StepCorrect

LEMMA StopDeviceStep ==
    ASSUME IInv, StopDevice
    PROVE  StepCorrect
<1>1. spi \in Spis /\ dev \in Devs
    BY CountType DEF IInv
<1>2. pc.isr = "none" /\ pc.main = "stop" /\ ~spi.isBusy
    BY MainRuns DEF StopDevice, IInv, ProgramInv
<1>3. /\ pc' \in [main : MainLabels, isr : IsrLabels]
      /\ pc'.main = "app" /\ pc'.isr = "none"
      /\ UNCHANGED <<intrStatus, byteCount, result>>
    BY <1>2, GotoMain DEF IInv, StopDevice, InDriver, MainLabels
<1>4. /\ spi' \in Spis /\ ~spi'.isStarted /\ spi'.isBusy = spi.isBusy
      /\ spi'.recv = spi.recv /\ spi'.requested = spi.requested /\ spi'.remaining = spi.remaining
      /\ spi'.hasFifos = spi.hasFifos
    BY <1>1 DEF StopDevice, Spis
<1>5. /\ dev' \in Devs
      /\ dev'.tx = dev.tx /\ dev'.rx = dev.rx /\ dev'.iisr = dev.iisr /\ dev'.iier = dev.iier
      /\ dev'.modf = dev.modf /\ ~dev'.dgier /\ dev'.cr = dev.cr \ {"ENABLE"}
    BY <1>1 DEF StopDevice, SetControlReg, GetControlReg, IntrGlobalDisable, Devs
<1>6. TypeOK'
    BY <1>3, <1>4, <1>5 DEF IInv, TypeOK, Spis, Devs
<1>7. Room' /\ CountInv' /\ NumberInv'
    BY <1>4, <1>5, SameBytes
<1>8. IdleIsQuiet' /\ DriverInv'
    BY <1>2, <1>4, <1>5 DEF IInv, IdleIsQuiet, DriverInv
<1>9. ProgramInv' /\ HandlerInv' /\ LatchInv'
    BY <1>2, <1>3, <1>4, <1>5 DEF IInv, ProgramInv, HandlerInv, LatchInv, PolledTransfer
<1>10. BusStep
    BY <1>2, <1>3, <1>4 DEF BusStep, BusAsked, BusGot, BusOutcome
<1>11. ModeKept
    BY <1>2 DEF ModeKept
<1>12. QED
    BY <1>6, <1>7, <1>8, <1>9, <1>10, <1>11 DEF IInv, StepCorrect

LEMMA WriteOptionsStep ==
    ASSUME IInv, NEW o \in OptionSets, WriteOptions(o)
    PROVE  StepCorrect
<1>1. spi \in Spis /\ dev \in Devs
    BY CountType DEF IInv
<1>2. pc.isr = "none" /\ pc.main = "options" /\ ~spi.isBusy /\ spi.controlReg = dev.cr
    BY MainRuns DEF WriteOptions, IInv, ProgramInv
<1>3. /\ pc' \in [main : MainLabels, isr : IsrLabels]
      /\ pc'.main = "app" /\ pc'.isr = "none"
      /\ UNCHANGED <<intrStatus, byteCount, result>>
      /\ spi' \in Spis /\ spi'.isBusy = spi.isBusy /\ spi'.isStarted = spi.isStarted
      /\ spi'.recv = spi.recv /\ spi'.requested = spi.requested /\ spi'.remaining = spi.remaining
      /\ spi'.hasFifos = spi.hasFifos
    BY <1>1, <1>2, GotoMain DEF IInv, WriteOptions, InDriver, MainLabels, Spis
<1>4. /\ dev' \in Devs
      /\ dev'.tx = dev.tx /\ dev'.rx = dev.rx /\ dev'.iisr = dev.iisr /\ dev'.iier = dev.iier
      /\ dev'.modf = dev.modf /\ dev'.dgier = dev.dgier
      /\ "ENABLE" \in dev'.cr <=> "ENABLE" \in dev.cr
      /\ "TRANS_INHIBIT" \in dev'.cr <=> "TRANS_INHIBIT" \in dev.cr
    <2>1. o \subseteq OptionsTable
        BY OptionsAssumption
    <2>2. /\ dev' \in Devs
          /\ dev'.tx = dev.tx /\ dev'.rx = dev.rx /\ dev'.iisr = dev.iisr /\ dev'.iier = dev.iier
          /\ dev'.modf = dev.modf /\ dev'.dgier = dev.dgier
          /\ dev'.cr = (dev.cr \ OptionsTable) \cup o
        BY <1>1, <1>2, <2>1 DEF WriteOptions, SetControlReg, Devs, ControlBits
    <2>3. "ENABLE" \notin OptionsTable /\ "TRANS_INHIBIT" \notin OptionsTable
        BY DEF OptionsTable
    <2>4. QED
        BY <2>1, <2>2, <2>3
<1>5. TypeOK'
    BY <1>3, <1>4 DEF IInv, TypeOK, Devs, Spis
<1>6. Room' /\ CountInv' /\ NumberInv'
    BY <1>3, <1>4, SameBytes
<1>7. IdleIsQuiet' /\ DriverInv'
    BY <1>2, <1>3, <1>4 DEF IInv, IdleIsQuiet, DriverInv, Asked
<1>8. ProgramInv' /\ HandlerInv' /\ LatchInv'
    BY <1>2, <1>3, <1>4 DEF IInv, ProgramInv, HandlerInv, LatchInv, PolledTransfer
<1>9. BusStep
    BY <1>2, <1>3 DEF BusStep, BusAsked, BusGot, BusOutcome
<1>10. ModeKept
    BY <1>2 DEF ModeKept
<1>11. QED
    BY <1>5, <1>6, <1>7, <1>8, <1>9, <1>10 DEF IInv, StepCorrect

LEMMA MaskStep ==
    ASSUME IInv, Mask \/ Unmask
    PROVE  StepCorrect
<1>1. spi \in Spis /\ dev \in Devs
    BY CountType DEF IInv
<1>2. pc.isr = "none" /\ pc.main = "app" /\ spi.isStarted
    BY MainRuns DEF Mask, Unmask
<1>3. /\ dev' \in Devs
      /\ dev'.tx = dev.tx /\ dev'.rx = dev.rx /\ dev'.iisr = dev.iisr /\ dev'.iier = dev.iier
      /\ dev'.modf = dev.modf /\ dev'.cr = dev.cr
      /\ dev'.dgier <=> Unmask
      /\ UNCHANGED <<spi, pc, intrStatus, byteCount, result>>
    BY <1>1 DEF Mask, Unmask, IntrGlobalDisable, IntrGlobalEnable, Devs
<1>4. "SLAVE_MODE_FAULT" \notin dev.iisr
    BY <1>2, MainRuns DEF Mask, Unmask, IInv, LatchInv, DriverInv, Pending, DftMask, Errors
<1>5. TypeOK'
    BY <1>3 DEF IInv, TypeOK, Devs
<1>6. /\ Room' /\ CountInv' /\ NumberInv'
      /\ InBuffer' = InBuffer /\ InReceiver' = InReceiver /\ Asked' = Asked
    BY <1>3, SameBytes
<1>7. IdleIsQuiet' /\ DriverInv'
    BY <1>2, <1>3, <1>6 DEF IInv, IdleIsQuiet, DriverInv
<1>8. ProgramInv' /\ HandlerInv' /\ LatchInv'
    BY <1>2, <1>3, <1>4 DEF IInv, ProgramInv, HandlerInv, LatchInv, PolledTransfer
<1>9. BusStep
    BY <1>3, <1>6, BusStutter DEF BusOutcome
<1>10. ModeKept
    BY <1>3 DEF ModeKept, GetOptions, GetControlReg
<1>11. QED
    BY <1>5, <1>6, <1>7, <1>8, <1>9, <1>10 DEF IInv, StepCorrect

-----------------------------------------------------------------------------
(* XSpi_Transfer().                                                        *)

LEMMA TransferStep ==
    ASSUME IInv, NEW c \in {"main", "isr"}, NEW n \in Bytes, Transfer(c, n)
    PROVE  StepCorrect
<1>1. /\ spi \in Spis /\ dev \in Devs /\ Depth \in Nat /\ n \in 1..MaxBytes
      /\ n \in Nat /\ n > 0 /\ n \in 0..MaxBytes
    BY CountType, DepthType, XSpiAssumption DEF IInv, Bytes
<1>2. /\ ~spi.isBusy /\ spi.isStarted /\ dev.tx = <<>> /\ dev.rx = <<>>
      /\ "TX_EMPTY" \notin dev.iisr /\ "TX_HALF_EMPTY" \notin dev.iisr
    BY DEF IInv, IdleIsQuiet, LatchInv, Transfer, Begin, Accepts
<1> DEFINE s == [spi EXCEPT !.isBusy = TRUE, !.requested = n, !.remaining = n, !.recv = <<>>]
           d0 == GetStatusReg(IntrGlobalDisable(dev))
           k == FillCount(s, d0)
<1>3. /\ s \in Spis /\ s.requested = n /\ s.remaining = n /\ s.recv = <<>> /\ s.isBusy
      /\ s.isStarted /\ s.hasFifos = spi.hasFifos
    BY <1>1, <1>2, NothingNumbered DEF Spis
<1>4. /\ d0 \in Devs /\ d0.tx = <<>> /\ d0.rx = <<>> /\ ~d0.dgier /\ ~d0.modf
      /\ d0.iisr = dev.iisr /\ d0.iier = dev.iier /\ d0.cr = dev.cr
    BY <1>1, <1>2 DEF GetStatusReg, IntrGlobalDisable, Devs
<1>5. k \in Nat /\ k <= n /\ k <= Depth /\ FillCount(s, dev) = k
    BY <1>2, <1>3, <1>4, FillType DEF IInv, FillCount
<1>6. /\ Filled(s, d0) = [d0 EXCEPT !.tx = Filled(s, d0).tx]
      /\ Filled(s, d0).tx \in Seq(Bytes) /\ Len(Filled(s, d0).tx) = k
      /\ Numbered(Filled(s, d0).tx, 0)
    <2>1. n <= n /\ n - n = 0
        BY <1>1
    <2>2. QED
        BY <1>3, <1>4, <2>1, FilledBytes DEF IInv
<1>7. /\ spi' = [s EXCEPT !.remaining = n - k]
      /\ dev' = LET selected == SetSlaveSelectReg(Filled(s, d0), s.slaveSelectReg)
                IN  SetControlReg(selected, GetControlReg(selected) \ {"TRANS_INHIBIT"})
      /\ Goto(c, IF IsIntrGlobalEnabled(dev) THEN "interrupts" ELSE "wait")
      /\ byteCount' = IF IsIntrGlobalEnabled(dev) THEN byteCount ELSE n
      /\ UNCHANGED <<intrStatus, result>>
    BY <1>3, <1>5 DEF Transfer, Begin, Taken
<1>8. s.slaveSelectReg \in SUBSET Lines
    BY <1>3 DEF Spis
<1> HIDE DEF s, d0, k
<1>9. /\ dev' \in Devs
      /\ dev'.tx = Filled(s, d0).tx /\ dev'.rx = <<>> /\ ~dev'.dgier /\ ~dev'.modf
      /\ dev'.iisr = dev.iisr /\ dev'.iier = dev.iier /\ dev'.cr = dev.cr \ {"TRANS_INHIBIT"}
    BY <1>4, <1>6, <1>7, <1>8 DEF SetSlaveSelectReg, SetControlReg, GetControlReg, Devs
<1>10. /\ spi' \in Spis /\ spi'.isBusy /\ spi'.isStarted /\ spi'.hasFifos = spi.hasFifos
       /\ spi'.requested = n /\ spi'.remaining = n - k /\ spi'.recv = <<>>
    <2>1. n - k \in 0..MaxBytes
        BY <1>1, <1>5, XSpiAssumption
    <2>2. QED
        BY <1>3, <1>7, <2>1 DEF Spis
<1>11. /\ InTransmitter' = k /\ InReceiver' = 0 /\ InBuffer' = 0 /\ Asked' = n /\ Left' = n - k
       /\ Depth' = Depth
    BY <1>6, <1>9, <1>10, NothingNumbered DEF InTransmitter, InReceiver, InBuffer, Asked, Left, Depth
<1>12. 0 + k = k /\ k + 0 = k /\ 0 + 0 = 0 /\ 0 + 0 + k = n - (n - k) /\ n - 0 = n
    BY <1>1, <1>5
<1>13. Room' /\ CountInv'
    BY <1>5, <1>11, <1>12 DEF Room, CountInv
<1>14. NumberInv'
    <2>1. Numbered(spi'.recv, 0) /\ Numbered(dev'.rx, 0) /\ Numbered(dev'.tx, 0)
        BY <1>6, <1>9, <1>10, NothingNumbered
    <2>2. QED
        BY <1>11, <1>12, <2>1 DEF NumberInv, Numbered
<1>15. IdleIsQuiet' /\ DriverInv'
    BY <1>1, <1>2, <1>9, <1>10, <1>11 DEF IInv, IdleIsQuiet, DriverInv
<1>16. ASSUME c = "main" PROVE IInv'
    <2>1. pc.isr = "none" /\ pc.main = "app" /\ ~Pending
        BY <1>16, MainRuns DEF Transfer, Main
    <2>2. /\ pc' \in [main : MainLabels, isr : IsrLabels] /\ pc'.isr = "none"
          /\ pc'.main = IF dev.dgier THEN "interrupts" ELSE "wait"
        BY <1>7, <1>16, <2>1, GotoMain DEF IInv, MainLabels, IsIntrGlobalEnabled
    <2>3. byteCount' = IF dev.dgier THEN byteCount ELSE n
        BY <1>7 DEF IsIntrGlobalEnabled
    <2>4. TypeOK'
        BY <1>1, <1>7, <1>9, <1>10, <2>2, <2>3 DEF IInv, TypeOK, Spis, Devs
    <2>5. ProgramInv'
        BY <1>9, <1>10, <1>11, <1>12, <2>2, <2>3 DEF ProgramInv, PolledTransfer
    <2>6. HandlerInv'
        BY <2>2 DEF HandlerInv
    <2>7. "CMD_ERR" \notin dev.iisr /\ "SLAVE_MODE_FAULT" \notin dev.iisr
        BY <1>2, <2>1 DEF IInv, DriverInv, LatchInv, Pending, DftMask, Errors
    <2>8. dev.dgier => "MODE_FAULT" \notin dev.iisr
        BY <1>2, <2>1 DEF IInv, DriverInv, Pending, DftMask
    <2>9. LatchInv'
        BY <1>2, <1>9, <1>10, <2>2, <2>7, <2>8 DEF IInv, LatchInv, PolledTransfer
    <2>10. QED
        BY <1>13, <1>14, <1>15, <2>4, <2>5, <2>6, <2>9, <1>15 DEF IInv
<1>17. ASSUME c = "isr" PROVE IInv'
    <2>1. pc.isr = "app" /\ dev.dgier /\ pc.main = "app"
        BY <1>17, IsrRuns DEF Transfer, InterruptsNoCall, Isr, IInv, HandlerInv
    <2>2. pc.main # "interrupts" /\ ~PolledTransfer /\ pc.main \notin {"stop", "options"}
        BY <2>1 DEF PolledTransfer
    <2>3. /\ pc' \in [main : MainLabels, isr : IsrLabels] /\ pc'.main = pc.main
          /\ pc'.isr = "interrupts"
          /\ byteCount' = byteCount
        BY <1>7, <1>17, <2>1, GotoIsr DEF IInv, IsrLabels, IsIntrGlobalEnabled
    <2>4. TypeOK'
        BY <1>1, <1>7, <1>9, <1>10, <2>3 DEF IInv, TypeOK, Spis, Devs
    <2>5. ProgramInv' /\ HandlerInv'
        BY <1>9, <1>10, <2>2, <2>3 DEF ProgramInv, HandlerInv, PolledTransfer
    <2>6. LatchInv'
        BY <1>2, <1>9, <1>10, <2>1, <2>2, <2>3 DEF IInv, LatchInv, PolledTransfer
    <2>7. QED
        BY <1>13, <1>14, <1>15, <2>4, <2>5, <2>6, <1>15 DEF IInv
<1>18. IInv'
    BY <1>16, <1>17
<1>19. BusOutcome' = BusOutcome
    <2>1. CASE c = "main"
        BY <1>7, <2>1, MainRuns, GotoMain DEF Transfer, Main, IInv, MainLabels, BusOutcome
    <2>2. CASE c = "isr"
        BY <1>7, <2>2, IsrRuns, GotoIsr DEF Transfer, Isr, IInv, HandlerInv, IsrLabels, BusOutcome,
           IsIntrGlobalEnabled
    <2>3. QED
        BY <2>1, <2>2
<1>20. BusStep
    BY <1>1, <1>2, <1>7, <1>10, <1>11, <1>12, <1>19 DEF BusStep, BusAsked, BusGot, BusOutcome
<1>21. ModeKept
    BY <1>2 DEF ModeKept
<1>22. QED
    BY <1>18, <1>20, <1>21 DEF StepCorrect

LEMMA EnableInterruptsStep ==
    ASSUME IInv, NEW c \in {"main", "isr"}, EnableInterrupts(c)
    PROVE  StepCorrect
<1>1. spi \in Spis /\ dev \in Devs
    BY CountType DEF IInv
<1>2. /\ dev' \in Devs
      /\ dev'.tx = dev.tx /\ dev'.rx = dev.rx /\ dev'.iisr = dev.iisr
      /\ dev'.iier = dev.iier \cup {"TX_EMPTY"}
      /\ dev'.modf = dev.modf /\ dev'.cr = dev.cr /\ dev'.dgier
      /\ UNCHANGED <<spi, intrStatus, byteCount, result>>
    BY <1>1 DEF EnableInterrupts, InDriver, IntrGlobalEnable, IntrEnable, Devs, Interrupts
<1>3. /\ Room' /\ CountInv' /\ NumberInv'
      /\ InBuffer' = InBuffer /\ InReceiver' = InReceiver /\ Asked' = Asked
    BY <1>2, SameBytes
<1>4. /\ pc' \in [main : MainLabels, isr : IsrLabels] /\ spi.isBusy /\ ~dev.dgier
      /\ \/ pc.main = "interrupts" /\ pc.isr = "none" /\ pc'.main = "app" /\ pc'.isr = "none"
         \/ pc.isr = "interrupts" /\ pc'.isr = "app" /\ pc'.main = pc.main
    <2>1. CASE c = "main"
        BY <2>1, MainRuns, GotoMain DEF EnableInterrupts, Main, IInv, ProgramInv, MainLabels
    <2>2. CASE c = "isr"
        BY <2>2, IsrRuns, GotoIsr DEF EnableInterrupts, Isr, IInv, HandlerInv, IsrLabels
    <2>3. QED
        BY <2>1, <2>2
<1>5. TypeOK'
    BY <1>2, <1>4 DEF IInv, TypeOK, Devs
<1>6. IdleIsQuiet' /\ DriverInv'
    BY <1>2, <1>3, <1>4 DEF IInv, IdleIsQuiet, DriverInv
<1>7. ProgramInv' /\ HandlerInv' /\ LatchInv'
    BY <1>2, <1>4 DEF IInv, ProgramInv, HandlerInv, LatchInv, PolledTransfer
<1>8. BusStep
    BY <1>2, <1>3, <1>4, BusStutter DEF BusOutcome
<1>9. ModeKept
    BY <1>2 DEF ModeKept, GetOptions, GetControlReg
<1>10. QED
    BY <1>3, <1>5, <1>6, <1>7, <1>8, <1>9 DEF IInv, StepCorrect

(* Everything received is stored and the empty transmitter is refilled, by *)
(* a polled transfer or by the handler.                                    *)
LEMMA Refill ==
    ASSUME IInv, spi.isBusy, dev.tx = <<>>, NEW d \in Devs, d.tx = <<>>,
           spi' = Taken(Received(spi, dev), d)
    PROVE  /\ FillCount(Received(spi, dev), d) \in 0..Left
           /\ FillCount(Received(spi, dev), d) = 0 <=> Left = 0
           /\ Filled(Received(spi, dev), d) = [d EXCEPT !.tx = Filled(Received(spi, dev), d).tx]
           /\ Filled(Received(spi, dev), d).tx \in Seq(Bytes)
           /\ Len(Filled(Received(spi, dev), d).tx) = FillCount(Received(spi, dev), d)
           /\ Received(spi, dev).remaining = Left
           /\ spi' = [spi EXCEPT !.recv = spi.recv \o dev.rx,
                                 !.remaining = Left - FillCount(Received(spi, dev), d)]
           /\ spi' \in Spis
           /\ InBuffer' = InBuffer + InReceiver /\ Asked' = Asked
           /\ InBuffer + InReceiver = Asked - Left
           /\ Left' = Left - FillCount(Received(spi, dev), d)
           /\ \A tx \in Seq(Bytes) :
                 /\ dev'.tx = tx /\ dev'.rx = <<>>
                 /\ Len(tx) = FillCount(Received(spi, dev), d)
                 /\ tx = <<>> \/ tx = Filled(Received(spi, dev), d).tx
                 => Room' /\ CountInv' /\ NumberInv'
<1> DEFINE s == Received(spi, dev)
           n == FillCount(s, d)
<1>1. /\ spi \in Spis /\ dev \in Devs /\ Depth \in Nat /\ Depth > 0
      /\ InTransmitter \in Nat /\ InReceiver \in Nat /\ InBuffer \in Nat
      /\ Asked \in Nat /\ Left \in Nat /\ InTransmitter = 0
    BY CountType, DepthType, NothingNumbered DEF IInv, InTransmitter
<1>2. /\ InBuffer + InReceiver = Asked - Left
      /\ Numbered(spi.recv, 0) /\ Numbered(dev.rx, InBuffer)
    <2>1. InBuffer + InReceiver + 0 = InBuffer + InReceiver
        BY <1>1
    <2>2. QED
        BY <1>1, <2>1 DEF IInv, CountInv, NumberInv
<1>3. /\ spi.recv \o dev.rx \in Seq(Bytes) /\ Len(spi.recv \o dev.rx) = InBuffer + InReceiver
      /\ Numbered(spi.recv \o dev.rx, 0)
    <2>1. 0 + InBuffer = InBuffer
        BY <1>1
    <2>2. spi.recv \in Seq(Bytes) /\ dev.rx \in Seq(Bytes) /\ 0 \in Nat
        BY <1>1 DEF Spis, Devs
    <2>3. QED
        BY <1>2, <2>1, <2>2, ConcatNumbered DEF InBuffer, InReceiver
<1>4. /\ s = [spi EXCEPT !.recv = spi.recv \o dev.rx] /\ s \in Spis
      /\ s.requested = Asked /\ s.remaining = Left
    BY <1>1, <1>3 DEF Received, Spis, Asked, Left
<1>5. Left <= Asked
    BY <1>1, <1>2
<1>6. /\ n \in Nat /\ n <= Left /\ n <= Depth
    BY <1>4, FillType DEF IInv
<1>7. n = 0 <=> Left = 0
    <2>1. Depth - Len(d.tx) = Depth
        BY <1>1, NothingNumbered
    <2>2. n = IF Depth < Left THEN Depth ELSE Left
        BY <1>4, <2>1 DEF FillCount
    <2> HIDE DEF n, s
    <2>3. QED
        BY <1>1, <2>2
<1>8. /\ Filled(s, d) = [d EXCEPT !.tx = Filled(s, d).tx]
      /\ Filled(s, d).tx \in Seq(Bytes) /\ Len(Filled(s, d).tx) = n
      /\ Numbered(Filled(s, d).tx, Asked - Left)
    BY <1>4, <1>5, FilledBytes DEF IInv
<1>9. spi' = [s EXCEPT !.remaining = Left - n]
    BY <1>4 DEF Taken
<1> HIDE DEF s, n
<1>10. Left - n \in 0..MaxBytes
    BY <1>1, <1>4, <1>6, XSpiAssumption DEF Spis
<1>11. /\ spi' = [spi EXCEPT !.recv = spi.recv \o dev.rx, !.remaining = Left - n]
       /\ spi' \in Spis /\ spi'.recv = spi.recv \o dev.rx /\ spi'.requested = Asked
       /\ spi'.remaining = Left - n /\ spi'.hasFifos = spi.hasFifos
    BY <1>1, <1>3, <1>4, <1>9, <1>10 DEF Spis, Asked
<1>12. InBuffer' = InBuffer + InReceiver /\ Asked' = Asked /\ Left' = Left - n /\ Depth' = Depth
    BY <1>3, <1>11 DEF InBuffer, Asked, Left, Depth
<1>13. ASSUME NEW tx \in Seq(Bytes), dev'.tx = tx, dev'.rx = <<>>, Len(tx) = n,
              tx = <<>> \/ tx = Filled(s, d).tx
       PROVE  Room' /\ CountInv' /\ NumberInv'
    <2>1. InTransmitter' = n /\ InReceiver' = 0
        BY <1>13, NothingNumbered DEF InTransmitter, InReceiver
    <2>2. n + 0 = n /\ InBuffer + InReceiver + 0 = InBuffer + InReceiver
          /\ Asked - Left + n = Asked - (Left - n)
        BY <1>1, <1>6
    <2>3. Room' /\ CountInv'
        BY <1>2, <1>6, <1>12, <2>1, <2>2 DEF Room, CountInv
    <2>4. Numbered(tx, Asked - Left)
        BY <1>8, <1>13, NothingNumbered
    <2>5. Numbered(spi'.recv, 0) /\ Numbered(dev'.rx, InBuffer + InReceiver)
          /\ Numbered(dev'.tx, InBuffer + InReceiver)
        BY <1>2, <1>3, <1>11, <1>13, <2>4, NothingNumbered
    <2>6. NumberInv'
        BY <1>12, <2>1, <2>2, <2>5 DEF NumberInv, Numbered
    <2>7. QED
        BY <2>3, <2>6
<1>14. n \in 0..Left
    BY <1>1, <1>6
<1>15. QED
    BY <1>2, <1>4, <1>7, <1>8, <1>11, <1>12, <1>13, <1>14 DEF s, n

LEMMA PollEmptyStep ==
    ASSUME IInv, PollEmpty
    PROVE  StepCorrect
<1>1. pc.isr = "none" /\ pc.main = "wait" /\ "TX_EMPTY" \in dev.iisr
    BY MainRuns DEF PollEmpty, IntrGetStatus
<1>2. /\ pc' \in [main : MainLabels, isr : IsrLabels]
      /\ pc'.main = "clear" /\ pc'.isr = "none"
      /\ UNCHANGED <<spi, dev, intrStatus, byteCount, result>>
    BY <1>1, GotoMain DEF IInv, PollEmpty, InDriver, MainLabels
<1>3. TypeOK'
    BY <1>2 DEF IInv, TypeOK
<1>4. /\ Room' /\ CountInv' /\ NumberInv'
      /\ InBuffer' = InBuffer /\ InReceiver' = InReceiver /\ Asked' = Asked
    BY <1>2, SameBytes
<1>5. IdleIsQuiet' /\ DriverInv'
    BY <1>2, <1>4 DEF IInv, IdleIsQuiet, DriverInv
<1>6. ProgramInv' /\ HandlerInv' /\ LatchInv'
    BY <1>1, <1>2, <1>4 DEF IInv, ProgramInv, HandlerInv, LatchInv, PolledTransfer
<1>7. BusStep
    BY <1>1, <1>2, <1>4, BusStutter DEF BusOutcome
<1>8. ModeKept
    BY <1>2 DEF ModeKept, GetOptions, GetControlReg
<1>9. QED
    BY <1>3, <1>4, <1>5, <1>6, <1>7, <1>8 DEF IInv, StepCorrect

(* The toggling write clears everything that is latched when the mask is.  *)
LEMMA ClearAll ==
    ASSUME NEW d \in Devs, NEW mask, mask \subseteq d.iisr
    PROVE  /\ IntrClear(d, mask) \in Devs
           /\ IntrClear(d, mask).iisr = {}
           /\ IntrClear(d, mask).tx = d.tx /\ IntrClear(d, mask).rx = d.rx
           /\ IntrClear(d, mask).cr = d.cr /\ IntrClear(d, mask).iier = d.iier
           /\ IntrClear(d, mask).modf = d.modf /\ IntrClear(d, mask).dgier = d.dgier
           /\ IntrClear(d, mask).ssr = d.ssr
<1>1. d.iisr \cup mask = d.iisr
    OBVIOUS
<1>2. IntrClear(d, mask) = [d EXCEPT !.iisr = {}]
    <2>1. (d.iisr \ d.iisr) \cup (d.iisr \ d.iisr) = {}
        OBVIOUS
    <2>2. IntrClear(d, mask) = [d EXCEPT !.iisr = (d.iisr \ d.iisr) \cup (d.iisr \ d.iisr)]
        BY <1>1 DEF IntrClear, IntrGetStatus
    <2>3. QED
        BY <2>1, <2>2
<1>3. QED
    BY <1>2 DEF Devs

LEMMA PollClearStep ==
    ASSUME IInv, PollClear
    PROVE  StepCorrect
<1>1. pc.isr = "none" /\ pc.main = "clear" /\ "TX_EMPTY" \in dev.iisr /\ dev \in Devs
      /\ dev.tx = <<>>
    BY MainRuns, CountType DEF PollClear, IInv, ProgramInv, LatchInv
<1>2. /\ dev' \in Devs
      /\ dev'.tx = dev.tx /\ dev'.rx = dev.rx /\ dev'.iisr = {} /\ dev'.iier = dev.iier
      /\ dev'.modf = dev.modf /\ dev'.cr = dev.cr /\ dev'.dgier = dev.dgier
    BY <1>1, ClearAll DEF PollClear
<1>3. /\ pc' \in [main : MainLabels, isr : IsrLabels]
      /\ pc'.main = "round" /\ pc'.isr = "none"
      /\ UNCHANGED <<spi, intrStatus, byteCount, result>>
    BY <1>1, GotoMain DEF IInv, PollClear, InDriver, MainLabels
<1>4. TypeOK'
    BY <1>2, <1>3 DEF IInv, TypeOK, Devs
<1>5. /\ Room' /\ CountInv' /\ NumberInv'
      /\ InBuffer' = InBuffer /\ InReceiver' = InReceiver /\ Asked' = Asked
    BY <1>2, <1>3, SameBytes
<1>6. IdleIsQuiet' /\ DriverInv'
    BY <1>2, <1>3, <1>5 DEF IInv, IdleIsQuiet, DriverInv
<1>7. ProgramInv' /\ HandlerInv' /\ LatchInv'
    BY <1>1, <1>2, <1>3, <1>5 DEF IInv, ProgramInv, HandlerInv, LatchInv, PolledTransfer
<1>8. BusStep
    BY <1>1, <1>3, <1>5, BusStutter DEF BusOutcome
<1>9. ModeKept
    BY <1>2 DEF ModeKept, GetOptions, GetControlReg
<1>10. QED
    BY <1>4, <1>5, <1>6, <1>7, <1>8, <1>9 DEF IInv, StepCorrect

LEMMA PollRoundStep ==
    ASSUME IInv, PollRound
    PROVE  StepCorrect
<1> DEFINE s == Received(spi, dev)
           d == GetStatusReg(Drained(SetControlReg(dev, GetControlReg(dev) \cup {"TRANS_INHIBIT"})))
           n == FillCount(s, d)
<1>1. /\ pc.isr = "none" /\ pc.main = "round" /\ dev.iisr = {} /\ dev.tx = <<>>
      /\ spi.isBusy /\ ~dev.dgier /\ byteCount = Asked - InBuffer
    BY MainRuns DEF PollRound, IInv, ProgramInv, PolledTransfer
<1>2. /\ spi \in Spis /\ dev \in Devs
      /\ InTransmitter \in Nat /\ InReceiver \in Nat /\ InBuffer \in Nat
      /\ Asked \in Nat /\ Left \in Nat
    BY CountType DEF IInv
<1>3. /\ d \in Devs /\ d.tx = <<>> /\ d.rx = <<>> /\ ~d.modf /\ d.iisr = {}
      /\ d.dgier = dev.dgier /\ d.iier = dev.iier /\ d.cr = dev.cr \cup {"TRANS_INHIBIT"}
    BY <1>1, <1>2, NothingNumbered DEF GetStatusReg, Drained, SetControlReg, GetControlReg, Devs,
       ControlBits
<1>4. /\ spi' = Taken(s, d)
      /\ dev' = IF s.remaining > 0
                  THEN SetControlReg(Filled(s, d), GetControlReg(d) \ {"TRANS_INHIBIT"})
                  ELSE d
      /\ byteCount' = byteCount - InReceiver
      /\ Goto("main", IF byteCount - InReceiver > 0 THEN "wait" ELSE "end")
      /\ UNCHANGED <<intrStatus, result>>
    BY DEF PollRound, InReceiver
<1> HIDE DEF d
<1>5. /\ n \in 0..Left /\ (n = 0 <=> Left = 0)
      /\ Filled(s, d) = [d EXCEPT !.tx = Filled(s, d).tx]
      /\ Filled(s, d).tx \in Seq(Bytes) /\ Len(Filled(s, d).tx) = n
      /\ s.remaining = Left
      /\ spi' = [spi EXCEPT !.recv = spi.recv \o dev.rx, !.remaining = Left - n]
      /\ spi' \in Spis
      /\ InBuffer' = InBuffer + InReceiver /\ Asked' = Asked
      /\ InBuffer + InReceiver = Asked - Left
    BY <1>1, <1>3, <1>4, Refill, ZenonT(60)
<1>6. \A tx \in Seq(Bytes) :
          dev'.tx = tx /\ dev'.rx = <<>> /\ Len(tx) = n /\ (tx = <<>> \/ tx = Filled(s, d).tx)
          => Room' /\ CountInv' /\ NumberInv'
    BY <1>1, <1>3, <1>4, Refill, ZenonT(60)
<1> HIDE DEF s, n
<1>7. byteCount' = Left /\ byteCount' = Asked' - InBuffer'
    <2>1. byteCount - InReceiver = Asked - (InBuffer + InReceiver)
        BY <1>1, <1>2
    <2>2. Asked - (Asked - Left) = Left
        BY <1>2
    <2>3. QED
        BY <1>4, <1>5, <2>1, <2>2
<1>8. /\ spi'.isBusy /\ spi'.isStarted = spi.isStarted /\ spi'.hasFifos = spi.hasFifos
    BY <1>1, <1>2, <1>5 DEF Spis
<1>9. /\ pc' \in [main : MainLabels, isr : IsrLabels] /\ pc'.isr = "none"
      /\ pc'.main = IF Left > 0 THEN "wait" ELSE "end"
    <2>1. byteCount - InReceiver = Left
        BY <1>4, <1>7
    <2>2. QED
        BY <1>1, <1>4, <2>1, GotoMain DEF IInv, MainLabels
<1>10. /\ dev' \in Devs /\ dev'.rx = <<>> /\ ~dev'.modf /\ dev'.iisr = {} /\ ~dev'.dgier
       /\ dev'.iier = dev.iier
       /\ dev'.tx \in Seq(Bytes) /\ Len(dev'.tx) = n
       /\ dev'.tx = <<>> \/ dev'.tx = Filled(s, d).tx
       /\ Left = 0 => dev'.tx = <<>>
       /\ dev'.cr \ {"TRANS_INHIBIT"} = dev.cr \ {"TRANS_INHIBIT"}
    <2>1. CASE Left > 0
        <3>1. dev' = [Filled(s, d) EXCEPT !.cr = d.cr \ {"TRANS_INHIBIT"}]
            BY <1>4, <1>5, <2>1 DEF SetControlReg, GetControlReg
        <3>2. /\ dev' \in Devs /\ dev'.rx = <<>> /\ ~dev'.modf /\ dev'.iisr = {} /\ ~dev'.dgier
              /\ dev'.iier = dev.iier /\ dev'.tx = Filled(s, d).tx
              /\ dev'.cr = d.cr \ {"TRANS_INHIBIT"}
            BY <1>1, <1>3, <1>5, <3>1 DEF Devs
        <3>3. QED
            BY <1>3, <1>5, <2>1, <3>2
    <2>2. CASE Left = 0
        <3>1. dev' = d /\ n = 0
            BY <1>2, <1>4, <1>5, <2>2
        <3>2. QED
            BY <1>1, <1>3, <3>1, NothingNumbered
    <2>3. QED
        BY <1>2, <2>1, <2>2
<1>11. Room' /\ CountInv' /\ NumberInv'
    BY <1>6, <1>10
<1>12. TypeOK'
    <2>1. Left \in 0..MaxBytes
        BY <1>2 DEF Spis, Left
    <2>2. QED
        BY <1>4, <1>5, <1>7, <1>9, <1>10, <2>1 DEF IInv, TypeOK, Spis, Devs
<1>13. IdleIsQuiet' /\ DriverInv'
    BY <1>1, <1>5, <1>8, <1>10 DEF IInv, IdleIsQuiet, DriverInv
<1>14. ProgramInv' /\ HandlerInv'
    <2>1. pc'.main = "wait" \/ (pc'.main = "end" /\ byteCount' = 0 /\ dev'.tx = <<>>)
        <3>1. Left > 0 \/ Left = 0
            BY <1>2
        <3>2. Left = 0 => ~(Left > 0)
            BY <1>2
        <3>3. QED
            BY <1>7, <1>9, <1>10, <3>1, <3>2
    <2>2. ProgramInv'
        BY <1>7, <1>8, <1>9, <1>10, <2>1 DEF ProgramInv, PolledTransfer
    <2>3. HandlerInv'
        BY <1>9 DEF HandlerInv
    <2>4. QED
        BY <2>2, <2>3
<1>15. LatchInv'
    BY <1>8, <1>10 DEF LatchInv
<1>16. BusStep
    <2>1. InReceiver' = 0 /\ InBuffer' + 0 = InBuffer'
        BY <1>2, <1>5, <1>10, NothingNumbered DEF InReceiver
    <2>2. QED
        BY <1>1, <1>4, <1>5, <1>8, <1>9, <2>1 DEF BusStep, BusAsked, BusGot, BusOutcome
<1>17. ModeKept
    <2>1. "TRANS_INHIBIT" \notin OptionsTable
        BY DEF OptionsTable
    <2>2. dev'.cr \ {"TRANS_INHIBIT"} = dev.cr \ {"TRANS_INHIBIT"}
        BY <1>10
    <2>3. QED
        BY <2>1, <2>2 DEF ModeKept, GetOptions, GetControlReg
<1>18. QED
    BY <1>11, <1>12, <1>13, <1>14, <1>15, <1>16, <1>17 DEF IInv, StepCorrect

LEMMA PollEndStep ==
    ASSUME IInv, PollEnd
    PROVE  StepCorrect
<1>1. /\ pc.isr = "none" /\ pc.main = "end" /\ dev.iisr = {} /\ dev.tx = <<>>
      /\ spi.isBusy /\ ~dev.dgier /\ Asked - InBuffer = 0
    BY MainRuns DEF PollEnd, IInv, ProgramInv, PolledTransfer
<1>2. /\ spi \in Spis /\ dev \in Devs
      /\ InTransmitter \in Nat /\ InReceiver \in Nat /\ InBuffer \in Nat
      /\ Asked \in Nat /\ Left \in Nat
    BY CountType DEF IInv
<1>3. InReceiver = 0 /\ InBuffer + InReceiver = Asked
    <2>1. InBuffer + InReceiver + InTransmitter = Asked - Left
        BY <1>1 DEF IInv, CountInv
    <2>2. QED
        BY <1>1, <1>2, <2>1
<1>4. dev.rx = <<>>
    BY <1>2, <1>3, EmptyIsZero DEF InReceiver, Devs
<1>5. /\ dev' \in Devs
      /\ dev'.tx = <<>> /\ dev'.rx = <<>> /\ dev'.iisr = {} /\ dev'.iier = dev.iier
      /\ dev'.modf = dev.modf /\ dev'.cr = dev.cr \cup {"TRANS_INHIBIT"} /\ ~dev'.dgier
    BY <1>1, <1>2, <1>4, MaskType DEF PollEnd, SetSlaveSelectReg, SetControlReg, GetControlReg, Devs,
       ControlBits
<1>6. /\ pc' \in [main : MainLabels, isr : IsrLabels]
      /\ pc'.main = "app" /\ pc'.isr = "none" /\ result' = "done"
      /\ UNCHANGED <<intrStatus, byteCount>>
    BY <1>1, GotoMain DEF IInv, PollEnd, MainLabels
<1>7. /\ spi' \in Spis /\ ~spi'.isBusy /\ spi'.isStarted = spi.isStarted /\ spi'.hasFifos = spi.hasFifos
    BY <1>2 DEF PollEnd, Spis
<1>8. TypeOK'
    BY <1>5, <1>6, <1>7 DEF IInv, TypeOK, Spis, Devs
<1>9. Room' /\ CountInv' /\ NumberInv' /\ IdleIsQuiet'
    BY <1>5, <1>7, NoBytes
<1>10. DriverInv' /\ ProgramInv' /\ HandlerInv' /\ LatchInv'
    BY <1>1, <1>5, <1>6, <1>7 DEF IInv, DriverInv, ProgramInv, HandlerInv, LatchInv, PolledTransfer
<1>11. BusStep
    BY <1>1, <1>2, <1>3, <1>6, <1>7 DEF BusStep, BusAsked, BusGot, BusOutcome, IInv, DriverInv
<1>12. ModeKept
    BY <1>7 DEF ModeKept
<1>13. QED
    BY <1>3, <1>8, <1>9, <1>10, <1>11, <1>12 DEF IInv, StepCorrect

-----------------------------------------------------------------------------
(* XSpi_InterruptHandler().                                                *)

(* While the handler runs, the program is at its own steps.                *)
LEMMA HandlerAlone ==
    ASSUME IInv, pc.isr # "none"
    PROVE  ~PolledTransfer /\ pc.main \notin {"interrupts", "wait", "clear", "round", "end"}
BY DEF IInv, ProgramInv, PolledTransfer

LEMMA TakeInterruptStep ==
    ASSUME IInv, TakeInterrupt
    PROVE  StepCorrect
<1>1. /\ pc.isr = "none" /\ dev.dgier /\ dev.iisr \cap dev.iier # {} /\ intrStatus' = dev.iisr
      /\ ~PolledTransfer /\ pc.main \notin {"interrupts", "wait", "clear", "round", "end"}
      /\ spi.isStarted /\ dev \in Devs
    BY CountType DEF TakeInterrupt, Pending, IntrGetStatus, IInv, ProgramInv, PolledTransfer, DriverInv
<1>2. /\ pc' \in [main : MainLabels, isr : IsrLabels]
      /\ pc'.isr = "clear" /\ pc'.main = pc.main
      /\ UNCHANGED <<spi, dev, byteCount, result>>
    BY <1>1, GotoIsr DEF IInv, TakeInterrupt, IsrLabels
<1>3. TypeOK'
    BY <1>1, <1>2 DEF IInv, TypeOK, Devs
<1>4. /\ Room' /\ CountInv' /\ NumberInv'
      /\ InBuffer' = InBuffer /\ InReceiver' = InReceiver /\ Asked' = Asked
    BY <1>2, SameBytes
<1>5. IdleIsQuiet' /\ DriverInv' /\ ProgramInv' /\ LatchInv'
    BY <1>1, <1>2, <1>4 DEF IInv, IdleIsQuiet, DriverInv, ProgramInv, LatchInv, PolledTransfer
<1>6. spi.isBusy => "TX_EMPTY" \in dev.iisr \/ "MODE_FAULT" \in dev.iisr
    <2>1. PICK e \in dev.iisr : e \in dev.iier
        BY <1>1
    <2>2. e \in Interrupts
        BY <1>1 DEF Devs
    <2>3. /\ e \notin {"RX_OVERRUN", "TX_UNDERRUN", "CMD_ERR", "TX_HALF_EMPTY"}
          /\ spi.isBusy => e # "SLAVE_MODE_FAULT"
        BY <1>1, <2>1 DEF IInv, LatchInv, DriverInv
    <2>4. QED
        BY <2>1, <2>2, <2>3 DEF Interrupts, Errors
<1>7. HandlerInv'
    BY <1>1, <1>2, <1>6 DEF IInv, HandlerInv, LatchInv
<1>8. BusStep
    BY <1>1, <1>2, <1>4, BusStutter DEF BusOutcome
<1>9. ModeKept
    BY <1>2 DEF ModeKept, GetOptions, GetControlReg
<1>10. QED
    BY <1>3, <1>4, <1>5, <1>7, <1>8, <1>9 DEF IInv, StepCorrect

LEMMA ClearStatusStep ==
    ASSUME IInv, ClearStatus
    PROVE  StepCorrect
<1>1. pc.isr = "clear" /\ intrStatus \subseteq dev.iisr /\ dev \in Devs
    BY IsrRuns, CountType DEF ClearStatus, IInv, HandlerInv
<1>2. /\ dev' \in Devs
      /\ dev'.tx = dev.tx /\ dev'.rx = dev.rx /\ dev'.iisr = {} /\ dev'.iier = dev.iier
      /\ dev'.modf = dev.modf /\ dev'.cr = dev.cr /\ dev'.dgier = dev.dgier
    BY <1>1, ClearAll DEF ClearStatus
<1>3. /\ pc' \in [main : MainLabels, isr : IsrLabels]
      /\ pc'.isr = "body" /\ pc'.main = pc.main
      /\ UNCHANGED <<spi, intrStatus, byteCount, result>>
    BY <1>1, GotoIsr DEF IInv, ClearStatus, InDriver, IsrLabels
<1>4. TypeOK'
    BY <1>2, <1>3 DEF IInv, TypeOK, Devs
<1>5. /\ Room' /\ CountInv' /\ NumberInv'
      /\ InBuffer' = InBuffer /\ InReceiver' = InReceiver /\ Asked' = Asked
    BY <1>2, <1>3, SameBytes
<1>6. IdleIsQuiet' /\ DriverInv'
    BY <1>2, <1>3, <1>5 DEF IInv, IdleIsQuiet, DriverInv
<1>7. ProgramInv' /\ HandlerInv' /\ LatchInv'
    BY <1>1, <1>2, <1>3, HandlerAlone DEF IInv, ProgramInv, HandlerInv, LatchInv, PolledTransfer
<1>8. BusStep
    BY <1>1, <1>3, <1>5, BusStutter DEF BusOutcome
<1>9. ModeKept
    BY <1>2 DEF ModeKept, GetOptions, GetControlReg
<1>10. QED
    BY <1>4, <1>5, <1>6, <1>7, <1>8, <1>9 DEF IInv, StepCorrect

LEMMA ModeFaultStep ==
    ASSUME IInv, ModeFault
    PROVE  StepCorrect
<1>1. /\ pc.isr = "body" /\ "MODE_FAULT" \in intrStatus /\ dev.modf /\ dev.iisr = {} /\ dev \in Devs
      /\ spi.hasFifos
    BY IsrRuns, CountType DEF ModeFault, IInv, HandlerInv, LatchInv
<1>2. /\ dev' \in Devs
      /\ dev'.tx = dev.tx /\ dev'.rx = dev.rx /\ dev'.iisr = {} /\ dev'.iier = dev.iier
      /\ dev'.modf /\ dev'.cr = dev.cr /\ dev'.dgier = dev.dgier
    BY <1>1, MaskType DEF ModeFault, SetSlaveSelectReg, Devs
<1>3. /\ pc' \in [main : MainLabels, isr : IsrLabels]
      /\ pc'.isr = "abort" /\ pc'.main = pc.main
      /\ UNCHANGED <<spi, intrStatus, byteCount, result>>
    BY <1>1, GotoIsr DEF IInv, ModeFault, InDriver, IsrLabels
<1>4. TypeOK'
    BY <1>2, <1>3 DEF IInv, TypeOK, Devs
<1>5. /\ Room' /\ CountInv' /\ NumberInv'
      /\ InBuffer' = InBuffer /\ InReceiver' = InReceiver /\ Asked' = Asked
    BY <1>2, <1>3, SameBytes
<1>6. IdleIsQuiet' /\ DriverInv'
    BY <1>2, <1>3, <1>5 DEF IInv, IdleIsQuiet, DriverInv
<1>7. ProgramInv' /\ HandlerInv' /\ LatchInv'
    BY <1>1, <1>2, <1>3, HandlerAlone DEF IInv, ProgramInv, HandlerInv, LatchInv, PolledTransfer
<1>8. BusStep
    BY <1>1, <1>3, <1>5, BusStutter DEF BusOutcome
<1>9. ModeKept
    BY <1>2 DEF ModeKept, GetOptions, GetControlReg
<1>10. QED
    BY <1>4, <1>5, <1>6, <1>7, <1>8, <1>9 DEF IInv, StepCorrect

LEMMA AbortStep ==
    ASSUME IInv, Abort
    PROVE  StepCorrect
<1>1. /\ pc.isr = "abort" /\ dev.modf /\ dev.iisr = {} /\ spi.hasFifos /\ dev.dgier
      /\ spi \in Spis /\ dev \in Devs /\ 0 \in 0..MaxBytes
    BY IsrRuns, CountType, XSpiAssumption DEF Abort, IInv, HandlerInv, LatchInv
<1>2. /\ dev' \in Devs
      /\ dev'.tx = <<>> /\ dev'.rx = <<>> /\ dev'.iisr = {} /\ dev'.iier = dev.iier
      /\ dev'.modf /\ dev'.cr = dev.cr \cup {"TRANS_INHIBIT"} /\ dev'.dgier = dev.dgier
    BY <1>1, NothingNumbered DEF Abort, AbortDevice, ResetFifos, SetControlReg, GetControlReg, Devs,
       ControlBits
<1>3. /\ spi' \in Spis /\ ~spi'.isBusy /\ spi'.isStarted = spi.isStarted /\ spi'.hasFifos = spi.hasFifos
      /\ spi'.controlReg = spi.controlReg
    BY <1>1 DEF Abort, AbortDriver, Spis
<1>4. /\ pc' \in [main : MainLabels, isr : IsrLabels]
      /\ pc'.isr = "release" /\ pc'.main = pc.main
      /\ UNCHANGED <<intrStatus, byteCount, result>>
    BY <1>1, GotoIsr DEF IInv, Abort, InDriver, IsrLabels
<1>5. TypeOK'
    BY <1>2, <1>3, <1>4 DEF IInv, TypeOK, Devs, Spis
<1>6. Room' /\ CountInv' /\ NumberInv' /\ IdleIsQuiet'
    BY <1>2, <1>3, NoBytes
<1>7. DriverInv' /\ ProgramInv' /\ HandlerInv' /\ LatchInv'
    BY <1>1, <1>2, <1>3, <1>4, HandlerAlone
    DEF IInv, IdleIsQuiet, DriverInv, ProgramInv, HandlerInv, LatchInv, PolledTransfer
<1>8. BusStep
    BY <1>3, <1>4 DEF BusStep, BusAsked, BusGot, BusOutcome
<1>9. ModeKept
    BY <1>3 DEF ModeKept
<1>10. QED
    BY <1>5, <1>6, <1>7, <1>8, <1>9 DEF IInv, StepCorrect

LEMMA ReleaseStep ==
    ASSUME IInv, Release
    PROVE  StepCorrect
<1>1. pc.isr = "release" /\ dev.iisr = {} /\ dev \in Devs /\ ~spi.isBusy /\ dev.dgier
    BY IsrRuns, CountType DEF Release, IInv, HandlerInv
<1>2. /\ dev' \in Devs
      /\ dev'.tx = dev.tx /\ dev'.rx = dev.rx /\ dev'.iisr = {} /\ dev'.iier = dev.iier
      /\ ~dev'.modf /\ dev'.cr = dev.cr /\ dev'.dgier = dev.dgier
    BY <1>1 DEF Release, GetStatusReg, Devs
<1>3. /\ pc' \in [main : MainLabels, isr : IsrLabels]
      /\ pc'.isr = "app" /\ pc'.main = pc.main
      /\ intrStatus' = {} /\ result' = "aborted"
      /\ UNCHANGED <<spi, byteCount>>
    BY <1>1, GotoIsr DEF IInv, Release, IsrLabels
<1>4. TypeOK'
    BY <1>2, <1>3 DEF IInv, TypeOK, Devs
<1>5. /\ Room' /\ CountInv' /\ NumberInv'
      /\ InBuffer' = InBuffer /\ InReceiver' = InReceiver /\ Asked' = Asked
    BY <1>2, <1>3, SameBytes
<1>6. IdleIsQuiet' /\ DriverInv'
    BY <1>2, <1>3, <1>5 DEF IInv, IdleIsQuiet, DriverInv
<1>7. ProgramInv' /\ HandlerInv' /\ LatchInv'
    BY <1>1, <1>2, <1>3, HandlerAlone DEF IInv, ProgramInv, HandlerInv, LatchInv, PolledTransfer
<1>8. BusStep
    BY <1>1, <1>3 DEF BusStep, BusAsked, BusGot, BusOutcome
<1>9. ModeKept
    BY <1>1 DEF ModeKept
<1>10. QED
    BY <1>4, <1>5, <1>6, <1>7, <1>8, <1>9 DEF IInv, StepCorrect

(* The handler serves an empty transmitter of a transfer in progress only. *)
LEMMA EmptyMeans ==
    ASSUME IInv, Empty
    PROVE  /\ pc.isr = "body" /\ dev.iisr = {} /\ spi.isBusy /\ dev.tx = <<>> /\ dev.dgier
           /\ spi \in Spis /\ dev \in Devs
           /\ Inhibited \in Devs /\ Inhibited.tx = <<>> /\ Inhibited.rx = <<>>
           /\ Inhibited.iisr = {} /\ ~Inhibited.modf /\ Inhibited.dgier
           /\ Inhibited.iier = dev.iier /\ Inhibited.cr = dev.cr \cup {"TRANS_INHIBIT"}
<1>1. /\ pc.isr = "body" /\ dev.iisr = {} /\ spi.isBusy /\ dev.tx = <<>> /\ dev.dgier
      /\ spi \in Spis /\ dev \in Devs
    BY IsrRuns, CountType DEF Empty, IInv, HandlerInv
<1>2. QED
    BY <1>1, NothingNumbered DEF Inhibited, Drained, GetStatusReg, SetControlReg, GetControlReg, Devs,
       ControlBits

LEMMA SendMoreStep ==
    ASSUME IInv, SendMore
    PROVE  StepCorrect
<1> DEFINE s == Received(spi, dev)
           d == Inhibited
           n == FillCount(s, d)
<1>1. /\ pc.isr = "body" /\ dev.iisr = {} /\ spi.isBusy /\ dev.tx = <<>> /\ dev.dgier
      /\ spi \in Spis /\ dev \in Devs
      /\ d \in Devs /\ d.tx = <<>> /\ d.rx = <<>> /\ ~d.modf /\ d.iisr = {}
      /\ d.dgier /\ d.iier = dev.iier
    BY EmptyMeans DEF SendMore
<1>2. /\ spi' = Taken(s, d) /\ dev' = SetControlReg(Filled(s, d), GetControlReg(dev))
      /\ Goto("isr", "errors") /\ InDriver
    BY DEF SendMore
<1> HIDE DEF d
<1>3. /\ Filled(s, d) = [d EXCEPT !.tx = Filled(s, d).tx]
      /\ Filled(s, d).tx \in Seq(Bytes) /\ Len(Filled(s, d).tx) = n
      /\ spi' = [spi EXCEPT !.recv = spi.recv \o dev.rx, !.remaining = Left - n]
      /\ spi' \in Spis /\ Asked' = Asked /\ InBuffer' = InBuffer + InReceiver
    BY <1>1, <1>2, Refill, ZenonT(60)
<1>4. \A tx \in Seq(Bytes) :
          dev'.tx = tx /\ dev'.rx = <<>> /\ Len(tx) = n /\ (tx = <<>> \/ tx = Filled(s, d).tx)
          => Room' /\ CountInv' /\ NumberInv'
    BY <1>1, <1>2, Refill, ZenonT(60)
<1> HIDE DEF s, n
<1>5. dev' = [Filled(s, d) EXCEPT !.cr = dev.cr]
    BY <1>2 DEF SetControlReg, GetControlReg
<1>6. /\ dev' \in Devs /\ dev'.rx = <<>> /\ ~dev'.modf /\ dev'.iisr = {} /\ dev'.dgier
      /\ dev'.iier = dev.iier /\ dev'.tx = Filled(s, d).tx /\ dev'.cr = dev.cr
    BY <1>1, <1>3, <1>5 DEF Devs
<1>7. spi'.isBusy /\ spi'.isStarted = spi.isStarted /\ spi'.hasFifos = spi.hasFifos
    BY <1>1, <1>3 DEF Spis
<1>8. /\ pc' \in [main : MainLabels, isr : IsrLabels]
      /\ pc'.isr = "errors" /\ pc'.main = pc.main
      /\ UNCHANGED <<intrStatus, byteCount, result>>
    BY <1>1, <1>2, GotoIsr DEF IInv, InDriver, IsrLabels
<1>9. TypeOK'
    BY <1>3, <1>6, <1>8 DEF IInv, TypeOK, Devs, Spis
<1>10. Room' /\ CountInv' /\ NumberInv'
    BY <1>3, <1>4, <1>6
<1>11. IdleIsQuiet' /\ DriverInv'
    BY <1>1, <1>3, <1>6, <1>7 DEF IInv, IdleIsQuiet, DriverInv
<1>12. pc.main \notin {"stop", "options"} /\ pc'.main \notin {"interrupts", "wait", "clear", "round", "end"}
    BY <1>1, <1>8, HandlerAlone DEF IInv, ProgramInv
<1>13. ProgramInv' /\ HandlerInv' /\ LatchInv'
    BY <1>1, <1>6, <1>7, <1>8, <1>12 DEF ProgramInv, HandlerInv, LatchInv, PolledTransfer
<1>14. BusStep
    <2>1. InReceiver' = 0
        BY <1>6, NothingNumbered DEF InReceiver
    <2>2. InBuffer' + 0 = InBuffer'
        <3>1. InBuffer + InReceiver \in Nat
            BY CountType DEF IInv
        <3>2. QED
            BY <1>3, <3>1
    <2>3. QED
        BY <1>1, <1>3, <1>7, <1>8, <2>1, <2>2 DEF BusStep, BusAsked, BusGot, BusOutcome
<1>15. ModeKept
    BY <1>6 DEF ModeKept, GetOptions, GetControlReg
<1>16. QED
    BY <1>9, <1>10, <1>11, <1>13, <1>14, <1>15 DEF IInv, StepCorrect

LEMMA TransferDoneStep ==
    ASSUME IInv, TransferDone
    PROVE  StepCorrect
<1>1. /\ pc.isr = "body" /\ dev.iisr = {} /\ spi.isBusy /\ dev.tx = <<>> /\ dev.dgier
      /\ spi \in Spis /\ dev \in Devs /\ Left = 0
      /\ Inhibited \in Devs /\ Inhibited.tx = <<>> /\ Inhibited.rx = <<>> /\ ~Inhibited.modf
      /\ Inhibited.iisr = {} /\ Inhibited.dgier
      /\ Inhibited.iier = dev.iier /\ Inhibited.cr = dev.cr \cup {"TRANS_INHIBIT"}
    BY EmptyMeans DEF TransferDone, Left
<1>2. InBuffer + InReceiver = Asked
    <2>1. /\ InTransmitter = 0 /\ InReceiver \in Nat /\ InBuffer \in Nat /\ Asked \in Nat
        BY <1>1, CountType, NothingNumbered DEF IInv, InTransmitter
    <2>2. InBuffer + InReceiver + InTransmitter = Asked - Left
        BY <1>1 DEF IInv, CountInv
    <2>3. QED
        BY <1>1, <2>1, <2>2
<1>3. /\ dev' \in Devs /\ dev'.tx = <<>> /\ dev'.rx = <<>> /\ ~dev'.modf /\ dev'.iisr = {}
      /\ dev'.dgier /\ dev'.iier = dev.iier \ {"TX_EMPTY"} /\ dev'.cr = dev.cr \cup {"TRANS_INHIBIT"}
    <2>1. dev' = IntrDisable(SetSlaveSelectReg(Inhibited, SlaveSelectMask), {"TX_EMPTY"})
        BY DEF TransferDone
    <2>2. dev' = [Inhibited EXCEPT !.ssr = SlaveSelectMask, !.iier = Inhibited.iier \ {"TX_EMPTY"}]
        BY <1>1, <2>1 DEF IntrDisable, SetSlaveSelectReg, Devs
    <2>3. QED
        BY <1>1, <2>2, MaskType DEF Devs
<1>4. /\ spi' \in Spis /\ ~spi'.isBusy /\ spi'.isStarted = spi.isStarted /\ spi'.hasFifos = spi.hasFifos
    <2>1. spi.recv \o dev.rx \in Seq(Bytes)
        <3>1. spi.recv \in Seq(Bytes) /\ dev.rx \in Seq(Bytes)
            BY <1>1 DEF Spis, Devs
        <3>2. QED
            BY <3>1
    <2>2. QED
        BY <1>1, <2>1 DEF TransferDone, Received, Spis
<1>5. /\ pc' \in [main : MainLabels, isr : IsrLabels]
      /\ pc'.isr = "app" /\ pc'.main = pc.main /\ result' = "done"
      /\ UNCHANGED <<intrStatus, byteCount>>
    BY <1>1, GotoIsr DEF IInv, TransferDone, IsrLabels
<1>6. TypeOK'
    BY <1>3, <1>4, <1>5 DEF IInv, TypeOK, Devs, Spis
<1>7. Room' /\ CountInv' /\ NumberInv' /\ IdleIsQuiet'
    BY <1>3, <1>4, NoBytes
<1>8. "TX_EMPTY" \notin DftMask
    BY DEF DftMask, Errors
<1>9. DriverInv'
    BY <1>1, <1>3, <1>4, <1>8 DEF IInv, DriverInv
<1>10. pc.main \notin {"stop", "options", "interrupts", "wait", "clear", "round", "end"}
    BY <1>1, HandlerAlone DEF IInv, ProgramInv
<1>11. ProgramInv' /\ HandlerInv' /\ LatchInv'
    BY <1>3, <1>4, <1>5, <1>10 DEF ProgramInv, HandlerInv, LatchInv, PolledTransfer
<1>12. BusStep
    <2>1. Asked > 0
        BY <1>1 DEF IInv, DriverInv
    <2>2. QED
        BY <1>1, <1>2, <1>4, <1>5, <2>1 DEF BusStep, BusAsked, BusGot, BusOutcome
<1>13. ModeKept
    BY <1>4 DEF ModeKept
<1>14. QED
    BY <1>2, <1>6, <1>7, <1>9, <1>11, <1>12, <1>13 DEF IInv, StepCorrect

LEMMA HandlerReturnsStep ==
    ASSUME IInv, OtherInterrupt \/ HandlerReturns \/ ReportErrors \/ HandlerEnds
    PROVE  StepCorrect
<1>1. pc.isr \in {"body", "app", "errors"}
    BY IsrRuns DEF OtherInterrupt, HandlerReturns, ReportErrors, HandlerEnds
<1>2. /\ pc' \in [main : MainLabels, isr : IsrLabels]
      /\ pc'.isr \in {"errors", "app", "none"} /\ pc'.main = pc.main
      /\ result' \in {result, "error"} /\ intrStatus' \in {intrStatus, {}}
      /\ UNCHANGED <<spi, dev, byteCount>>
    BY GotoIsr
    DEF IInv, OtherInterrupt, HandlerReturns, ReportErrors, HandlerEnds, InDriver, IsrLabels
<1>3. dev.dgier
    BY <1>1 DEF IInv, HandlerInv
<1>4. TypeOK'
    BY <1>2 DEF IInv, TypeOK
<1>5. /\ Room' /\ CountInv' /\ NumberInv'
      /\ InBuffer' = InBuffer /\ InReceiver' = InReceiver /\ Asked' = Asked
    BY <1>2, SameBytes
<1>6. IdleIsQuiet' /\ DriverInv'
    BY <1>2, <1>5 DEF IInv, IdleIsQuiet, DriverInv
<1>7. ProgramInv' /\ HandlerInv' /\ LatchInv'
    BY <1>1, <1>2, <1>3, HandlerAlone DEF IInv, ProgramInv, HandlerInv, LatchInv, PolledTransfer
<1>8. BusStep
    <2>1. UNCHANGED <<BusAsked, BusGot>>
        BY <1>2, <1>5 DEF BusAsked, BusGot
    <2>2. QED
        BY <1>1, <1>2, <2>1 DEF BusStep, BusOutcome
<1>9. ModeKept
    BY <1>2 DEF ModeKept, GetOptions, GetControlReg
<1>10. QED
    BY <1>4, <1>5, <1>6, <1>7, <1>8, <1>9 DEF IInv, StepCorrect

-----------------------------------------------------------------------------
(* All steps, and the theorems.                                            *)

LEMMA InitCorrect == Init => IInv
<1> SUFFICES ASSUME Init PROVE IInv
    OBVIOUS
<1>1. /\ spi \in Spis /\ ~spi.isBusy /\ ~spi.isStarted
      /\ dev = ResetDevice /\ dev \in Devs
      /\ pc = [main |-> "app", isr |-> "none"]
      /\ intrStatus = {} /\ byteCount = 0 /\ 0 \in 0..MaxBytes /\ result = "none"
    BY NothingNumbered, ResetType, XSpiAssumption DEF Init, Spis
<1>2. /\ dev.tx = <<>> /\ dev.rx = <<>> /\ dev.iisr = {} /\ dev.iier = {} /\ ~dev.dgier
      /\ "TRANS_INHIBIT" \in dev.cr /\ "ENABLE" \notin dev.cr /\ ~dev.modf
    BY <1>1 DEF ResetDevice
<1>3. TypeOK
    BY <1>1 DEF TypeOK, Spis, Devs, MainLabels, IsrLabels
<1>4. Room /\ CountInv /\ NumberInv /\ IdleIsQuiet
    <2>1. InTransmitter = 0 /\ InReceiver = 0
        BY <1>2, NothingNumbered DEF InTransmitter, InReceiver
    <2>2. QED
        BY <1>1, <1>2, <1>3, <2>1, DepthType DEF Room, CountInv, NumberInv, IdleIsQuiet
<1>5. DriverInv /\ ProgramInv /\ HandlerInv /\ LatchInv
    BY <1>1, <1>2 DEF DriverInv, ProgramInv, HandlerInv, LatchInv, PolledTransfer
<1>6. QED
    BY <1>3, <1>4, <1>5 DEF IInv

LEMMA NothingHappens ==
    ASSUME IInv, UNCHANGED vars
    PROVE  IInv'
<1>1. /\ InTransmitter' = InTransmitter /\ InReceiver' = InReceiver /\ InBuffer' = InBuffer
      /\ Asked' = Asked /\ Left' = Left /\ Depth' = Depth
    BY DEF vars, InTransmitter, InReceiver, InBuffer, Asked, Left, Depth
<1>2. TypeOK'
    BY DEF vars, IInv, TypeOK
<1>3. Room' /\ CountInv' /\ NumberInv' /\ IdleIsQuiet'
    BY <1>1 DEF vars, IInv, Room, CountInv, NumberInv, IdleIsQuiet, Numbered
<1>4. DriverInv' /\ ProgramInv' /\ HandlerInv' /\ LatchInv'
    BY <1>1 DEF vars, IInv, DriverInv, ProgramInv, HandlerInv, LatchInv, PolledTransfer
<1>5. QED
    BY <1>2, <1>3, <1>4 DEF IInv

LEMMA StutterStep ==
    ASSUME IInv, UNCHANGED vars
    PROVE  StepCorrect
<1>1. IInv'
    BY NothingHappens
<1>2. BusStep
    BY BusStutter DEF vars, BusOutcome, InReceiver, InBuffer, Asked
<1>3. ModeKept
    BY DEF vars, ModeKept, GetOptions, GetControlReg
<1>4. QED
    BY <1>1, <1>2, <1>3 DEF StepCorrect

LEMMA NextCorrect ==
    ASSUME ~AllFaults, IInv, [Next]_vars
    PROVE  StepCorrect
<1>1. CASE Shift
    BY <1>1, ShiftStep
<1>2. CASE \E f \in Faults : Fault(f)
    BY <1>2, FaultStep
<1>3. CASE Configure
    <2>1. CASE CfgInitialize
        BY <2>1, CfgInitializeStep
    <2>2. CASE SetStatusHandler \/ \E m \in Selections : SetSlaveSelect(m)
        BY <2>2, InstanceStep
    <2>3. CASE Start
        BY <2>3, StartStep
    <2>4. CASE Stop \/ SetOptions
        BY <2>4, CheckStep
    <2>5. CASE StopDevice
        BY <2>5, StopDeviceStep
    <2>6. CASE Reset
        BY <2>6, ResetStep
    <2>7. CASE \E o \in OptionSets : WriteOptions(o)
        BY <2>7, WriteOptionsStep
    <2>8. CASE Mask \/ Unmask
        BY <2>8, MaskStep
    <2>9. QED
        BY <1>3, <2>1, <2>2, <2>3, <2>4, <2>5, <2>6, <2>7, <2>8 DEF Configure
<1>4. CASE \E c \in {"main", "isr"} : EnableInterrupts(c) \/ \E n \in Bytes : Transfer(c, n)
    BY <1>4, EnableInterruptsStep, TransferStep
<1>5. CASE Polling
    BY <1>5, PollEmptyStep, PollClearStep, PollRoundStep, PollEndStep DEF Polling
<1>6. CASE TakeInterrupt
    BY <1>6, TakeInterruptStep
<1>7. CASE Handler
    BY <1>7, ClearStatusStep, ModeFaultStep, AbortStep, ReleaseStep, SendMoreStep, TransferDoneStep,
       HandlerReturnsStep DEF Handler
<1>8. CASE UNCHANGED vars
    BY <1>8, StutterStep
<1>9. QED
    BY <1>1, <1>2, <1>3, <1>4, <1>5, <1>6, <1>7, <1>8 DEF Next

(* The inductive invariant: where every byte of a transfer is, and what    *)
(* may be latched, enabled and under way at each point of the program and  *)
(* of the handler.                                                         *)
THEOREM Invariance == ASSUME ~AllFaults PROVE Spec => []IInv
<1>1. Init => IInv
    BY InitCorrect
<1>2. IInv /\ [Next]_vars => IInv'
    BY NextCorrect DEF StepCorrect
<1>3. QED
    BY <1>1, <1>2, PTL DEF Spec

(* The types of the driver's instance, of the device's registers and of    *)
(* what the program and the handler are doing.                             *)
THEOREM TypeCorrect == ASSUME ~AllFaults PROVE Spec => []TypeOK
<1>1. IInv => TypeOK
    BY DEF IInv
<1>2. QED
    BY <1>1, Invariance, PTL

(* Every byte of a transfer is in exactly one place and in order, polled   *)
(* or driven by interrupts, and none is left when it is done or aborted, as*)
(* long as the device raises only the faults that the driver copes with: a *)
(* mode fault of a device without FIFOs would leave a byte behind.         *)
THEOREM BytesCorrect == ASSUME ~AllFaults PROVE Spec => []BytesInPlace
<1>1. IInv => BytesInPlace
    BY DEF IInv, CountInv, NumberInv, InBuffer, InReceiver, InTransmitter, Asked, Left, BytesInPlace,
       InOrder
<1>2. QED
    BY <1>1, Invariance, PTL

LEMMA BusInit == Init => Bus!Init
<1> SUFFICES ASSUME Init PROVE Bus!Init
    OBVIOUS
<1>1. ~spi.isBusy /\ result = "none" /\ pc["isr"] = "none"
    BY DEF Init
<1>2. QED
    BY <1>1 DEF Bus!Init

LEMMA BusNext ==
    ASSUME BusStep
    PROVE  [Bus!Next]_(Bus!vars)
BY DEF BusStep, BusAsked, BusGot, BusOutcome, Asked, InBuffer, InReceiver, Bus!Next, Bus!vars,
   Bus!Request, Bus!Exchange, Bus!Done, Bus!Abort, Bus!Report

(* A transfer exchanges its bytes one by one and is reported as done only  *)
(* when all of them have been exchanged: XSpi implements SpiBus, as long as*)
(* the device raises only the faults that the driver copes with.  With any *)
(* others an aborted transfer may be reported as done: see DoneIsTrue.     *)
THEOREM Refinement == ASSUME ~AllFaults PROVE Spec => ImplementsSpiBus
<1>1. Init => Bus!Init
    BY BusInit
<1>2. IInv /\ [Next]_vars => [Bus!Next]_(Bus!vars)
    BY NextCorrect, BusNext DEF StepCorrect
<1>3. QED
    BY <1>1, <1>2, Invariance, PTL DEF Spec, ImplementsSpiBus, Bus!Spec

-----------------------------------------------------------------------------
(* What the steps of a polled transfer and of the device leave as it is.   *)

Through == InBuffer + InReceiver

LEMMA SpiTypes ==
    ASSUME IInv
    PROVE  /\ spi \in Spis /\ dev \in Devs /\ InBuffer \in Nat /\ InReceiver \in Nat /\ Asked \in Nat
           /\ Through \in Nat /\ pc \in [main : MainLabels, isr : IsrLabels]
BY CountType DEF IInv, TypeOK, Through

LEMMA PollRoundEffect ==
    ASSUME IInv, PollRound
    PROVE  /\ spi.isBusy /\ spi'.isBusy /\ Through' = Through
           /\ dev'.ssr = dev.ssr /\ pc'.main \in {"wait", "end"}
           /\ spi'.isReady = spi.isReady /\ spi'.isStarted = spi.isStarted
           /\ spi'.slaveSelectReg = spi.slaveSelectReg
           /\ dev'.dgier = dev.dgier /\ ("MASTER_MODE" \in dev'.cr <=> "MASTER_MODE" \in dev.cr)
<1> DEFINE d0 == SetControlReg(dev, GetControlReg(dev) \cup {"TRANS_INHIBIT"})
           d == GetStatusReg(Drained(d0))
           s == Received(spi, dev)
<1>1. spi \in Spis /\ dev \in Devs /\ InBuffer \in Nat /\ InReceiver \in Nat
    BY SpiTypes
<1>2. pc.isr = "none" /\ pc.main = "round" /\ spi.isBusy /\ dev.tx = <<>>
    BY MainRuns DEF PollRound, IInv, ProgramInv, PolledTransfer
<1>3. /\ d \in Devs /\ d.tx = <<>> /\ d.rx = <<>> /\ d.ssr = dev.ssr /\ d.dgier = dev.dgier
      /\ d.cr = dev.cr \cup {"TRANS_INHIBIT"}
    <2>1. d = [dev EXCEPT !.cr = dev.cr \cup {"TRANS_INHIBIT"}, !.rx = <<>>, !.modf = FALSE]
        BY <1>1 DEF GetStatusReg, Drained, SetControlReg, GetControlReg, Devs
    <2> HIDE DEF d
    <2>2. QED
        BY <1>1, <1>2, <2>1, NothingNumbered DEF Devs, ControlBits
<1>4. /\ spi' = Taken(s, d)
      /\ dev' = IF s.remaining > 0
                THEN SetControlReg(Filled(s, d), GetControlReg(d) \ {"TRANS_INHIBIT"})
                ELSE d
      /\ Goto("main", IF byteCount - Len(dev.rx) > 0 THEN "wait" ELSE "end")
    BY DEF PollRound
<1> HIDE DEF d
<1>5. /\ Filled(s, d) = [d EXCEPT !.tx = Filled(s, d).tx]
      /\ Filled(s, d).tx \in Seq(Bytes)
      /\ spi' = [spi EXCEPT !.recv = spi.recv \o dev.rx, !.remaining = Left - FillCount(s, d)]
      /\ InBuffer' = InBuffer + InReceiver
    BY <1>2, <1>3, <1>4, Refill, ZenonT(60)
<1>6. /\ spi'.isBusy = spi.isBusy /\ spi'.isReady = spi.isReady /\ spi'.isStarted = spi.isStarted
      /\ spi'.slaveSelectReg = spi.slaveSelectReg
    BY <1>1, <1>5 DEF Spis
<1> HIDE DEF s
<1>7. \/ dev' = d
      \/ dev' = [d EXCEPT !.tx = Filled(s, d).tx, !.cr = d.cr \ {"TRANS_INHIBIT"}]
    BY <1>3, <1>4, <1>5 DEF SetControlReg, GetControlReg, Devs
<1>8. /\ dev'.ssr = dev.ssr /\ dev'.dgier = dev.dgier /\ dev'.rx = <<>>
      /\ ("MASTER_MODE" \in dev'.cr <=> "MASTER_MODE" \in dev.cr)
    <2>1. d.cr \ {"TRANS_INHIBIT"} \in SUBSET ControlBits
        BY <1>3 DEF Devs
    <2>2. /\ dev'.ssr = d.ssr /\ dev'.dgier = d.dgier /\ dev'.rx = d.rx
          /\ dev'.cr \in {d.cr, d.cr \ {"TRANS_INHIBIT"}}
        BY <1>3, <1>5, <1>7, <2>1 DEF Devs
    <2>3. QED
        BY <1>3, <2>2
<1>9. Through' = Through
    <2>1. InReceiver' = 0
        BY <1>8, NothingNumbered DEF InReceiver
    <2>2. InBuffer + InReceiver + 0 = InBuffer + InReceiver
        BY <1>1
    <2>3. QED
        BY <1>5, <2>1, <2>2 DEF Through
<1>10. pc'.main \in {"wait", "end"}
    BY <1>4, GotoMain DEF IInv, MainLabels
<1>11. QED
    BY <1>2, <1>6, <1>8, <1>9, <1>10

LEMMA PollEndEffect ==
    ASSUME IInv, PollEnd
    PROVE  /\ spi.isBusy /\ ~spi'.isBusy /\ Through # 0
           /\ pc'.main = "app"
           /\ spi'.isReady = spi.isReady /\ spi'.isStarted = spi.isStarted
           /\ spi'.slaveSelectReg = spi.slaveSelectReg
           /\ dev'.dgier = dev.dgier /\ ("MASTER_MODE" \in dev'.cr <=> "MASTER_MODE" \in dev.cr)
<1>1. spi \in Spis /\ dev \in Devs /\ InBuffer \in Nat /\ InReceiver \in Nat /\ Asked \in Nat
    BY SpiTypes
<1>2. /\ pc.isr = "none" /\ pc.main = "end" /\ spi.isBusy
      /\ byteCount = 0 /\ byteCount = Asked - InBuffer /\ Asked > 0
    BY MainRuns DEF PollEnd, IInv, ProgramInv, PolledTransfer, DriverInv
<1>3. Through # 0
    <2>1. InBuffer = Asked
        BY <1>1, <1>2
    <2>2. QED
        BY <1>1, <1>2, <2>1 DEF Through
<1>4. dev' = [dev EXCEPT !.cr = dev.cr \cup {"TRANS_INHIBIT"}, !.ssr = SlaveSelectMask]
    BY <1>1 DEF PollEnd, SetSlaveSelectReg, SetControlReg, GetControlReg, Devs
<1>5. dev'.dgier = dev.dgier /\ dev'.cr = dev.cr \cup {"TRANS_INHIBIT"}
    BY <1>1, <1>4 DEF Devs
<1>6. /\ ~spi'.isBusy /\ spi'.isReady = spi.isReady /\ spi'.isStarted = spi.isStarted
      /\ spi'.slaveSelectReg = spi.slaveSelectReg
    BY <1>1 DEF PollEnd, Spis
<1>7. pc'.main = "app"
    BY GotoMain DEF PollEnd, IInv, MainLabels
<1>8. QED
    BY <1>2, <1>3, <1>5, <1>6, <1>7

LEMMA PollingEffect ==
    ASSUME IInv, Polling
    PROVE  /\ IInv' /\ spi.isBusy
           /\ spi'.isBusy => Through' = Through /\ dev'.ssr = dev.ssr /\ PolledTransfer'
           /\ ~spi'.isBusy => Through # 0
           /\ pc'.main \in {"wait", "clear", "round", "end", "app"}
           /\ spi'.isReady = spi.isReady /\ spi'.isStarted = spi.isStarted
           /\ spi'.slaveSelectReg = spi.slaveSelectReg
           /\ dev'.dgier = dev.dgier /\ ("MASTER_MODE" \in dev'.cr <=> "MASTER_MODE" \in dev.cr)
<1>1. IInv'
    BY PollEmptyStep, PollClearStep, PollRoundStep, PollEndStep DEF Polling, StepCorrect
<1>2. CASE PollEmpty
    <2>1. pc.main = "wait" /\ spi.isBusy
        BY <1>2, MainRuns DEF PollEmpty, IInv, ProgramInv, PolledTransfer
    <2>2. pc'.main = "clear" /\ UNCHANGED <<spi, dev>>
        BY <1>2, GotoMain DEF PollEmpty, IInv, MainLabels
    <2>3. QED
        BY <1>1, <2>1, <2>2 DEF Through, InBuffer, InReceiver, PolledTransfer
<1>3. CASE PollClear
    <2>1. pc.main = "clear" /\ spi.isBusy /\ "TX_EMPTY" \in dev.iisr /\ dev \in Devs
        BY <1>3, MainRuns, SpiTypes DEF PollClear, IInv, ProgramInv, PolledTransfer
    <2>2. pc'.main = "round" /\ UNCHANGED spi
        BY <1>3, GotoMain DEF PollClear, IInv, MainLabels
    <2>3. dev'.rx = dev.rx /\ dev'.cr = dev.cr /\ dev'.dgier = dev.dgier /\ dev'.ssr = dev.ssr
        BY <1>3, <2>1, ClearAll DEF PollClear
    <2>4. QED
        BY <1>1, <2>1, <2>2, <2>3 DEF Through, InBuffer, InReceiver, PolledTransfer
<1>4. CASE PollRound
    BY <1>1, <1>4, PollRoundEffect DEF PolledTransfer
<1>5. CASE PollEnd
    BY <1>1, <1>5, PollEndEffect
<1>6. QED
    BY <1>2, <1>3, <1>4, <1>5 DEF Polling

LEMMA ShiftEffect ==
    ASSUME IInv, Shift
    PROVE  /\ IInv' /\ spi.isBusy /\ UNCHANGED <<spi, pc>>
           /\ dev'.cr = dev.cr /\ dev'.dgier = dev.dgier /\ dev'.ssr = dev.ssr
           /\ Through' # 0 /\ Head(dev.tx) = Through + 1
<1>1. IInv'
    BY ShiftStep DEF StepCorrect
<1>2. spi \in Spis /\ dev \in Devs /\ Through \in Nat /\ InBuffer \in Nat /\ InReceiver \in Nat
    BY SpiTypes
<1>3. spi.isBusy /\ dev.tx # <<>>
    BY DEF IInv, IdleIsQuiet, Shift, Shifting
<1>4. Head(dev.tx) = Through + 1
    <2>1. Numbered(dev.tx, Through) /\ dev.tx \in Seq(Bytes)
        BY <1>2, <1>3 DEF IInv, NumberInv, Through, Devs
    <2>2. QED
        BY <1>2, <1>3, <2>1, TailNumbered
<1>5. /\ UNCHANGED <<spi, pc>>
      /\ dev'.cr = dev.cr /\ dev'.dgier = dev.dgier /\ dev'.ssr = dev.ssr
      /\ dev'.tx = Tail(dev.tx)
    BY <1>2 DEF Shift, Devs
<1>6. Through' # 0
    <2>1. InTransmitter' = InTransmitter - 1 /\ InTransmitter \in Nat
        <3>1. dev.tx \in Seq(Bytes)
            BY <1>2 DEF Devs
        <3>2. QED
            BY <1>3, <1>5, <3>1 DEF InTransmitter
    <2>2. Through + InTransmitter = Asked - Left /\ Through' + InTransmitter' = Asked - Left
        <3>1. Asked' = Asked /\ Left' = Left /\ spi'.isBusy
            BY <1>3, <1>5 DEF Asked, Left
        <3>2. QED
            BY <1>1, <1>3, <3>1 DEF IInv, CountInv, Through
    <2>3. Through' \in Nat
        <3>1. spi'.recv \in Seq(Bytes) /\ dev'.rx \in Seq(Bytes)
            BY <1>1 DEF IInv, TypeOK
        <3>2. InBuffer' \in Nat /\ InReceiver' \in Nat
            BY <3>1 DEF InBuffer, InReceiver
        <3>3. Through' = InBuffer' + InReceiver'
            BY DEF Through
        <3>4. \A a, b \in Nat : a + b \in Nat
            OBVIOUS
        <3>5. QED
            BY <3>2, <3>3, <3>4, Zenon
    <2>4. QED
        BY <1>2, <2>1, <2>2, <2>3
<1>7. QED
    BY <1>1, <1>3, <1>4, <1>5, <1>6

-----------------------------------------------------------------------------
(* A transfer that is not looped back keeps the selection it has begun with*)
(* until it is over or aborted.                                            *)
Selects(m) == Cardinality(m \cap Slaves) <= 1

SelectInv ==
    /\ spi.isReady => Selects(spi.slaveSelectReg)
    /\ spi.isBusy => spi.isReady
    /\ spi.isBusy /\ "LOOPBACK" \notin dev.cr /\ pc.isr # "abort" =>
          dev.ssr = spi.slaveSelectReg /\ dev.ssr # SlaveSelectMask

(* What a step does that neither begins a transfer nor changes the         *)
(* selection.                                                              *)
SelectionKept ==
    /\ spi'.isReady = spi.isReady /\ spi'.slaveSelectReg = spi.slaveSelectReg
    /\ spi'.isBusy => spi.isBusy
    /\ spi'.isBusy /\ pc'.isr # "abort" => dev'.ssr = dev.ssr /\ pc.isr # "abort"

LEMMA KeptStep ==
    ASSUME SelectInv, StepCorrect, SelectionKept
    PROVE  SelectInv'
<1>1. spi.isBusy /\ spi'.isBusy => ("LOOPBACK" \in dev'.cr <=> "LOOPBACK" \in dev.cr)
    <2>1. "LOOPBACK" \in OptionsTable
        BY DEF OptionsTable
    <2>2. QED
        BY <2>1 DEF StepCorrect, ModeKept, GetOptions, GetControlReg
<1>2. QED
    BY <1>1 DEF SelectInv, SelectionKept

(* One action after the other.                                             *)
LEMMA ConfigureKeeps ==
    ASSUME IInv, \/ SetStatusHandler \/ Start \/ Stop \/ StopDevice \/ SetOptions
                 \/ \E o \in OptionSets : WriteOptions(o)
                 \/ Mask \/ Unmask
    PROVE  SelectionKept
<1> USE DEF SelectionKept
<1>1. spi \in Spis /\ dev \in Devs
    BY SpiTypes
<1>2. CASE SetStatusHandler
    BY <1>1, <1>2, MainRuns DEF SetStatusHandler, Spis
<1>3. CASE Start
    <2>1. ~spi.isBusy /\ spi' = [spi EXCEPT !.isStarted = TRUE]
        BY <1>3 DEF Start, IInv, DriverInv
    <2>2. QED
        BY <1>1, <2>1 DEF Spis
<1>4. CASE Stop \/ SetOptions
    BY <1>1, <1>4, MainRuns DEF Stop, SetOptions, Spis
<1>5. CASE StopDevice
    <2>1. ~spi.isBusy /\ spi' = [spi EXCEPT !.isStarted = FALSE]
        BY <1>5, MainRuns DEF StopDevice, IInv, ProgramInv
    <2>2. QED
        BY <1>1, <2>1 DEF Spis
<1>6. CASE \E o \in OptionSets : WriteOptions(o)
    BY <1>1, <1>6, MainRuns DEF WriteOptions, IInv, ProgramInv, Spis
<1>7. CASE Mask \/ Unmask
    BY <1>1, <1>7, MainRuns DEF Mask, Unmask, IntrGlobalDisable, IntrGlobalEnable, Devs
<1>8. QED
    BY <1>2, <1>3, <1>4, <1>5, <1>6, <1>7

LEMMA ReadySelects ==
    ASSUME SelectInv, spi \in Spis, spi'.isBusy = FALSE,
           spi'.isReady => Selects(spi'.slaveSelectReg)
    PROVE  SelectInv'
BY DEF SelectInv, Selects

LEMMA InstanceSelects ==
    ASSUME IInv, SelectInv,
           CfgInitialize \/ Reset \/ \E m \in Selections : SetSlaveSelect(m)
    PROVE  SelectInv'
<1>1. spi \in Spis /\ SlaveSelectMask \in SUBSET Lines /\ Selects(SlaveSelectMask)
    <2>1. SlaveSelectMask \cap Slaves = {} /\ Cardinality({}) = 0
        BY FS_EmptySet DEF SlaveSelectMask
    <2>2. QED
        BY <2>1, SpiTypes, MaskType DEF Selects
<1>2. CASE CfgInitialize
    <2>1. spi'.isBusy = FALSE /\ spi'.slaveSelectReg = SlaveSelectMask
        BY <1>1, <1>2 DEF CfgInitialize, Spis
    <2>2. QED
        BY <1>1, <2>1, ReadySelects
<1>3. CASE Reset
    <2>1. spi'.isBusy = FALSE /\ spi'.slaveSelectReg = SlaveSelectMask
        BY <1>1, <1>3 DEF Reset, AbortDriver, Spis
    <2>2. QED
        BY <1>1, <2>1, ReadySelects
<1>4. ASSUME NEW m \in Selections, SetSlaveSelect(m)
      PROVE  SelectInv'
    <2>1. spi'.isBusy = FALSE /\ spi'.slaveSelectReg = m
        BY <1>1, <1>4 DEF SetSlaveSelect, Spis
    <2>2. Selects(m)
        BY <1>4 DEF SetSlaveSelect, Selects
    <2>3. QED
        BY <1>1, <2>1, <2>2, ReadySelects
<1>5. QED
    BY <1>2, <1>3, <1>4

LEMMA TransferSelects ==
    ASSUME IInv, SelectInv, NEW c \in {"main", "isr"}, NEW n \in Bytes, Transfer(c, n)
    PROVE  SelectInv'
<1> DEFINE s == [spi EXCEPT !.isBusy = TRUE, !.requested = n, !.remaining = n, !.recv = <<>>]
           d0 == GetStatusReg(IntrGlobalDisable(dev))
<1>1. spi \in Spis /\ dev \in Devs /\ n \in 0..MaxBytes /\ n \in Nat
    BY SpiTypes, XSpiAssumption DEF Bytes
<1>2. ~spi.isBusy /\ dev.tx = <<>> /\ dev.rx = <<>> /\ spi.isReady
    BY DEF IInv, IdleIsQuiet, Transfer, Begin, Accepts
<1>3. /\ s \in Spis /\ s.requested = n /\ s.remaining = n /\ s.recv = <<>> /\ s.isBusy
      /\ s.isReady = spi.isReady /\ s.slaveSelectReg = spi.slaveSelectReg
    BY <1>1, NothingNumbered DEF Spis
<1>4. d0 \in Devs /\ d0.tx = <<>> /\ d0.rx = <<>> /\ d0.cr = dev.cr
    BY <1>1, <1>2 DEF GetStatusReg, IntrGlobalDisable, Devs
<1>5. Filled(s, d0) = [d0 EXCEPT !.tx = Filled(s, d0).tx] /\ Filled(s, d0).tx \in Seq(Bytes)
    <2>1. n <= n
        BY <1>1
    <2>2. QED
        BY <1>3, <1>4, <2>1, FilledBytes DEF IInv
<1>6. /\ spi' = [s EXCEPT !.remaining = @ - FillCount(s, dev)]
      /\ dev' = LET selected == SetSlaveSelectReg(Filled(s, d0), s.slaveSelectReg)
                IN  SetControlReg(selected, GetControlReg(selected) \ {"TRANS_INHIBIT"})
    BY DEF Transfer, Begin, Taken
<1> HIDE DEF s, d0
<1>7. spi'.isReady = spi.isReady /\ spi'.slaveSelectReg = spi.slaveSelectReg
    BY <1>3, <1>6 DEF Spis
<1>8. s.slaveSelectReg \in SUBSET Lines
    BY <1>3 DEF Spis
<1>9. dev'.cr = dev.cr \ {"TRANS_INHIBIT"} /\ dev'.ssr = spi.slaveSelectReg
    BY <1>3, <1>4, <1>5, <1>6, <1>8 DEF SetSlaveSelectReg, SetControlReg, GetControlReg, Devs
<1>10. "LOOPBACK" \notin dev'.cr => spi.slaveSelectReg # SlaveSelectMask
    BY <1>9 DEF Transfer, Begin, Accepts, NoSlave, GetControlReg
<1>11. QED
    BY <1>2, <1>7, <1>9, <1>10 DEF SelectInv

LEMMA PollingKeeps ==
    ASSUME IInv, Polling
    PROVE  SelectionKept
<1>1. pc.isr # "abort"
    BY MainRuns DEF Polling, PollEmpty, PollClear, PollRound, PollEnd
<1>2. QED
    BY <1>1, PollingEffect DEF SelectionKept

LEMMA HandlerKeeps ==
    ASSUME IInv, TakeInterrupt \/ Handler
    PROVE  SelectionKept
<1> USE DEF SelectionKept
<1>1. spi \in Spis /\ dev \in Devs
    BY SpiTypes
<1>2. CASE TakeInterrupt
    BY <1>2 DEF TakeInterrupt
<1>3. CASE ClearStatus
    <2>1. dev'.ssr = dev.ssr
        BY <1>1, <1>3 DEF ClearStatus, IntrClear, Devs
    <2>2. QED
        BY <1>3, <2>1, IsrRuns DEF ClearStatus
<1>4. CASE ModeFault
    <2>1. pc'.isr = "abort"
        BY <1>4, GotoIsr DEF ModeFault, IInv, IsrLabels
    <2>2. QED
        BY <1>4, <2>1 DEF ModeFault
<1>5. CASE Abort
    <2>1. /\ spi'.isBusy = FALSE /\ spi'.isReady = spi.isReady
          /\ spi'.slaveSelectReg = spi.slaveSelectReg
        BY <1>1, <1>5 DEF Abort, AbortDriver, Spis
    <2>2. QED
        BY <2>1
<1>6. CASE Release
    <2>1. dev'.ssr = dev.ssr
        BY <1>1, <1>6 DEF Release, GetStatusReg, Devs
    <2>2. QED
        BY <1>6, <2>1, IsrRuns DEF Release
<1>7. CASE SendMore
    <2> DEFINE s == Received(spi, dev)
               d == Inhibited
    <2>1. /\ spi.isBusy /\ dev.tx = <<>> /\ d \in Devs /\ d.tx = <<>> /\ d.rx = <<>>
        BY <1>7, EmptyMeans DEF SendMore
    <2>2. d.ssr = dev.ssr
        BY <1>1 DEF Inhibited, Drained, GetStatusReg, SetControlReg, GetControlReg, Devs
    <2>3. spi' = Taken(s, d) /\ dev' = SetControlReg(Filled(s, d), GetControlReg(dev))
        BY <1>7 DEF SendMore
    <2> HIDE DEF d
    <2>4. /\ Filled(s, d) = [d EXCEPT !.tx = Filled(s, d).tx]
          /\ Filled(s, d).tx \in Seq(Bytes)
          /\ spi' = [spi EXCEPT !.recv = spi.recv \o dev.rx, !.remaining = Left - FillCount(s, d)]
        BY <2>1, <2>3, Refill, ZenonT(60)
    <2> HIDE DEF s
    <2>5. dev'.ssr = dev.ssr
        BY <2>1, <2>2, <2>3, <2>4 DEF SetControlReg, GetControlReg, Devs
    <2>6. spi'.isReady = spi.isReady /\ spi'.slaveSelectReg = spi.slaveSelectReg
        BY <1>1, <2>4 DEF Spis
    <2>7. pc.isr = "body"
        BY <1>7, IsrRuns DEF SendMore, Empty
    <2>8. QED
        BY <2>1, <2>5, <2>6, <2>7
<1>8. CASE TransferDone
    <2>1. spi' = [Received(spi, dev) EXCEPT !.isBusy = FALSE]
        BY <1>8 DEF TransferDone
    <2>2. spi'.isBusy = FALSE /\ spi'.isReady = spi.isReady
          /\ spi'.slaveSelectReg = spi.slaveSelectReg
        BY <1>1, <2>1 DEF Received, Spis
    <2>3. QED
        BY <2>2
<1>9. CASE OtherInterrupt \/ HandlerReturns \/ ReportErrors \/ HandlerEnds
    BY <1>9, IsrRuns DEF OtherInterrupt, HandlerReturns, ReportErrors, HandlerEnds
<1>10. QED
    BY <1>2, <1>3, <1>4, <1>5, <1>6, <1>7, <1>8, <1>9 DEF Handler

LEMMA SelectNext ==
    ASSUME ~AllFaults, IInv, SelectInv, [Next]_vars
    PROVE  SelectInv'
<1>1. StepCorrect
    BY NextCorrect
<1>2. CASE Shift \/ UNCHANGED vars
    <2>1. SelectionKept
        BY <1>2, ShiftEffect DEF SelectionKept, vars
    <2>2. QED
        BY <1>1, <2>1, KeptStep
<1>3. ASSUME NEW f \in Faults, Fault(f)
      PROVE  SelectInv'
    <2>1. dev'.ssr = dev.ssr /\ UNCHANGED <<spi, pc>>
        BY <1>3, SpiTypes DEF Fault, Devs
    <2>2. SelectionKept
        BY <2>1 DEF SelectionKept
    <2>3. QED
        BY <1>1, <2>2, KeptStep
<1>4. CASE Configure
    <2>1. CASE CfgInitialize \/ Reset \/ \E m \in Selections : SetSlaveSelect(m)
        BY <2>1, InstanceSelects
    <2>2. CASE \/ SetStatusHandler \/ Start \/ Stop \/ StopDevice \/ SetOptions
               \/ \E o \in OptionSets : WriteOptions(o)
               \/ Mask \/ Unmask
        BY <1>1, <2>2, ConfigureKeeps, KeptStep
    <2>3. QED
        BY <1>4, <2>1, <2>2 DEF Configure
<1>5. ASSUME NEW c \in {"main", "isr"}, EnableInterrupts(c)
      PROVE  SelectInv'
    <2>1. dev'.ssr = dev.ssr /\ spi' = spi
        BY <1>5, SpiTypes DEF EnableInterrupts, IntrGlobalEnable, IntrEnable, Devs
    <2>2. pc.isr # "abort"
        BY <1>5, MainRuns, IsrRuns DEF EnableInterrupts, Main, Isr
    <2>3. SelectionKept
        BY <2>1, <2>2 DEF SelectionKept
    <2>4. QED
        BY <1>1, <2>3, KeptStep
<1>6. ASSUME NEW c \in {"main", "isr"}, NEW n \in Bytes, Transfer(c, n)
      PROVE  SelectInv'
    BY <1>6, TransferSelects
<1>7. CASE Polling
    BY <1>1, <1>7, PollingKeeps, KeptStep
<1>8. CASE TakeInterrupt \/ Handler
    BY <1>1, <1>8, HandlerKeeps, KeptStep
<1>9. QED
    BY <1>2, <1>3, <1>4, <1>5, <1>6, <1>7, <1>8 DEF Next

LEMMA SelectInit == Init => SelectInv
BY DEF Init, SelectInv

(* Every byte of a transfer that is neither looped back nor aborted goes   *)
(* out under the selection that the application made last, to one slave at *)
(* most, and to none only when XSpi_SetSlaveSelect() was asked for none.   *)
THEOREM ReachedCorrect == ASSUME ~AllFaults PROVE Spec => ReachesItsSlave
<1>1. Init => SelectInv
    BY SelectInit
<1>2. IInv /\ SelectInv /\ [Next]_vars => SelectInv'
    BY SelectNext
<1>3. IInv /\ SelectInv
      => [ Shift /\ "LOOPBACK" \notin dev.cr /\ pc["isr"] # "abort" =>
              /\ dev.ssr = spi.slaveSelectReg
              /\ Cardinality(dev.ssr \cap Slaves) <= 1
              /\ dev.ssr # SlaveSelectMask ]_vars
    BY ShiftEffect DEF SelectInv, Selects
<1>4. QED
    BY <1>1, <1>2, <1>3, Invariance, PTL DEF Spec, ReachesItsSlave

-----------------------------------------------------------------------------
(* The display.  First the points where a function of its driver can be,   *)
(* named for the next operation there, and the arcs between them.          *)

CMD_SETUP == [i \in {3} |-> FALSE]
Switches == {Nothing, CMD_DISPLAYON, CMD_DISPLAYOFF, CMD_SETUP}
Amounts == Nat \ {0}

(* On the way to a display that is on, which may have been on before.      *)
Opening == {"initialize", "options", "select", "tri", "data", "start", "mask", "pmoden", "reset"}
Dark == {"run", "setup", "clear", "vccen"}
On == Opening \cup Dark \cup {"tri on", "vccen on", "switchOn"}
Cut == {"cut", "float", "stop", "off"}
End == {"end", "end release"}
Shows == {"live", "pixels"}
Labels == On \cup Cut \cup End \cup Shows \cup {"switchOff"}

(* Where a function has returned: on a display that runs or is stopped.    *)
Final == {"live", "off"}

XSpiArc(l, s, m) ==
    \/ l = "options" /\ s = Do("options") /\ m = "select"
    \/ l = "select" /\ s = Do("select") /\ m = "tri"
    \/ l = "start" /\ s = Do("start") /\ m = "mask"
    \/ l = "mask" /\ s = Do("mask") /\ m = "pmoden"
    \/ l \in {"stop", "off"} /\ s = Do("stop") /\ m = "off"
    \/ l = "end" /\ s = Do("stop") /\ m = "end release"

InitializeArc(l, s, m) == l = "initialize" /\ s = Do("initialize") /\ m = "tri"

WriteArc(l, s, m) ==
    \/ l = "tri" /\ s = Write("tri", {}) /\ m = "data"
    \/ l = "data" /\ s = Write("data", {"RES", "PMODEN"}) /\ m = "start"
    \/ l = "pmoden" /\ s = Write("data", {"RES", "PMODEN"}) /\ m = "reset"
    \/ l = "reset" /\ s = Write("data", {"PMODEN"}) /\ m = "run"
    \/ l = "run" /\ s = Write("data", {"RES", "PMODEN"}) /\ m = "setup"
    \/ l = "vccen" /\ s = Write("data", {"RES", "VCCEN", "PMODEN"}) /\ m = "switchOn"
    \/ l = "tri on" /\ s = WriteAnd("tri", Pins \ {"VCCEN"}) /\ m = "vccen on"
    \/ l = "vccen on" /\ s = WriteOr("data", {"VCCEN"}) /\ m = "switchOn"
    \/ l = "cut" /\ s = WriteAnd("data", Pins \ {"VCCEN"}) /\ m \in {"float", "stop"}
    \/ l = "float" /\ s = WriteOr("tri", {"VCCEN"}) /\ m = "live"
    \/ l = "end release" /\ s = Write("data", {"DC", "RES"}) /\ m = "off"
    \/ /\ l = "off" /\ m = "off"
       /\ \E reg \in {"data", "tri"}, bits \in SUBSET Pins :
             s \in {Write(reg, bits), WriteAnd(reg, bits), WriteOr(reg, bits)}
    \/ l = "live" /\ s = Write("data", Pins) /\ m = "pixels"
    \/ l = "pixels" /\ s = Write("data", {"RES", "VCCEN", "PMODEN"}) /\ m = "live"

SendArc(l, s, m) ==
    \E n \in Amounts :
        \/ l = "setup" /\ s = Send("commands", n, CMD_SETUP) /\ m = "clear"
        \/ l = "clear" /\ s = Send("commands", n, Nothing) /\ m = "vccen"
        \/ l = "switchOn" /\ s = Send("commands", n, CMD_DISPLAYON) /\ m = "live"
        \/ l = "switchOff" /\ s = Send("commands", n, CMD_DISPLAYOFF) /\ m = "cut"
        \/ /\ l = "off" /\ m = "off"
           /\ \E kind \in {"commands", "pixels"}, switch \in Switches : s = Send(kind, n, switch)
        \/ l = "live" /\ s = Send("commands", n, Nothing) /\ m = "live"
        \/ l = "pixels" /\ s = Send("pixels", n, Nothing) /\ m = "pixels"

FontArc(l, s, m) ==
    /\ l \in Final /\ m = l
    /\ \/ s = Do("advance")
       \/ \E upperBit \in BOOLEAN : s = <<[op |-> "glyph", upperBit |-> upperBit]>>
       \/ \E sz \in Seq(BOOLEAN) : s = PutString(sz)

Arc(l, s, m) ==
    \/ InitializeArc(l, s, m) \/ XSpiArc(l, s, m)
    \/ WriteArc(l, s, m) \/ SendArc(l, s, m) \/ FontArc(l, s, m)

(* The operations.                                                         *)
Accesses == [op : {"write"}, reg : {"data", "tri"}, and : SUBSET Pins, or : SUBSET Pins]
Transfers == [op : {"send"}, kind : {"commands", "pixels"}, n : Bytes, switch : Switches]
Calls == [op : {"initialize", "options", "select", "start", "mask", "stop", "advance"}]
Glyphs == [op : {"glyph"}, upperBit : BOOLEAN]
Texts == [op : {"string"}, sz : Seq(BOOLEAN)]
Ops == Accesses \cup Transfers \cup Calls \cup Glyphs \cup Texts

Path(s, l, m) ==
    /\ s \in Seq(Ops)
    /\ \E at \in [1..Len(s) + 1 -> Labels] :
          /\ at[1] = l /\ at[Len(s) + 1] = m
          /\ \A i \in 1..Len(s) : Arc(at[i], <<s[i]>>, at[i + 1])

-----------------------------------------------------------------------------
(* What holds at a point.                                                  *)

(* The SPI device is stopped or about to be; it runs; it is set up.        *)
Down == {"options", "select", "off", "end release"}

(* Where the SPI device may not be started yet, or has its interrupts on.  *)
NotSet == Down \cup {"initialize", "tri", "data", "start", "mask"}

DeviceAt(l) ==
    /\ l \in Down => (spi.isStarted => pc.main = "stop")
    /\ l \notin Down \cup {"initialize", "tri", "data", "start"} => spi.isStarted
    /\ spi.isStarted => spi.isReady
    /\ l \notin {"options", "select"} =>
          (spi.isReady => spi.slaveSelectReg = {0} /\ "MASTER_MODE" \in dev.cr)
    /\ l = "select" => pc.main = "options" \/ "MASTER_MODE" \in dev.cr
    /\ pc.main = "options" => l = "select"
    /\ pc.main = "stop" => l \in {"off", "end release"}
    /\ dev.dgier => l = "mask"

(* The pins.                                                               *)
Powered == {"setup", "clear", "vccen", "tri on", "vccen on", "switchOn", "live", "pixels",
            "switchOff", "cut", "float", "stop", "end"}

PinsAt(l) ==
    /\ l \in {"data", "start", "mask", "pmoden", "reset", "run", "setup", "clear", "vccen"}
          => gpio.tri = {}
    /\ l \in Powered =>
          /\ {"RES", "PMODEN"} \subseteq High(gpio)
          /\ "DC" \in (IF l = "pixels" THEN High(gpio) ELSE Low(gpio))
    /\ l = "vccen on" => "VCCEN" \notin gpio.tri
    /\ l = "switchOn" => "VCCEN" \in High(gpio)

(* The display shows its memory, or will when the byte of the transfer     *)
(* that switches it has been shifted out.                                  *)
Shown ==
    IF spi.isBusy /\ InBuffer + InReceiver = 0 /\ 1 \in DOMAIN sent.switch
    THEN sent.switch[1] ELSE displayOn

DisplayAt(l) ==
    /\ l \in Dark \cup Cut => Shown = FALSE
    /\ l \in On => wanted = TRUE
    /\ l \in Cut \cup End \cup {"switchOff"} => wanted = FALSE
    /\ l \in Shows => Shown = wanted
    /\ l \in Powered /\ Shown = TRUE => "VCCEN" \in High(gpio)

Holds(l) == DeviceAt(l) /\ PinsAt(l) /\ DisplayAt(l)

(* While a transfer is in progress the display is selected and the pins    *)
(* tell it what the bytes are.                                             *)
TransferInv ==
    spi.isBusy =>
        /\ PolledTransfer
        /\ sent \in Transfers /\ dev.ssr = {0} /\ spi.slaveSelectReg = {0}
        /\ {"RES", "PMODEN"} \subseteq High(gpio)
        /\ "DC" \in (IF sent.kind = "pixels" THEN High(gpio) ELSE Low(gpio))
        /\ sent.kind = "pixels" => sent.switch = Nothing
        /\ sent.switch = CMD_SETUP => displayOn = FALSE

OledInv ==
    /\ IInv /\ OledTypeOK /\ TransferInv
    /\ \E l \in Labels, m \in Final : Path(todo, l, m) /\ Holds(l)

-----------------------------------------------------------------------------
(* Paths.                                                                  *)

LEMMA PathNil ==
    ASSUME NEW l \in Labels
    PROVE  Path(<<>>, l, l)
<1> DEFINE at == [i \in 1..1 |-> l]
<1>1. <<>> \in Seq(Ops) /\ Len(<<>>) = 0 /\ 0 + 1 = 1
    BY NothingNumbered
<1>2. at \in [1..1 -> Labels] /\ at[1] = l
    OBVIOUS
<1>3. \A i \in 1..0 : FALSE
    OBVIOUS
<1> HIDE DEF at
<1>4. QED
    BY <1>1, <1>2, <1>3 DEF Path

LEMMA PathEnd ==
    ASSUME NEW l, NEW m, Path(<<>>, l, m)
    PROVE  l = m
<1>1. Len(<<>>) = 0 /\ 0 + 1 = 1
    BY NothingNumbered
<1>2. QED
    BY <1>1 DEF Path

LEMMA PathOne ==
    ASSUME NEW l \in Labels, NEW m \in Labels, NEW s \in Seq(Ops), Len(s) = 1, Arc(l, s, m)
    PROVE  Path(s, l, m)
<1> DEFINE at == [i \in 1..2 |-> IF i = 1 THEN l ELSE m]
<1>1. s = <<s[1]>> /\ 1 + 1 = 2
    OBVIOUS
<1>2. at \in [1..2 -> Labels] /\ at[1] = l /\ at[2] = m
    OBVIOUS
<1>3. \A i \in 1..1 : i = 1
    OBVIOUS
<1> HIDE DEF at
<1>4. QED
    BY <1>1, <1>2, <1>3 DEF Path

LEMMA Joined ==
    ASSUME NEW S, NEW s \in Seq(S), NEW t \in Seq(S)
    PROVE  /\ s \o t \in Seq(S) /\ Len(s \o t) = Len(s) + Len(t)
           /\ Len(s) \in Nat /\ Len(t) \in Nat
           /\ \A i \in 1..Len(s) : (s \o t)[i] = s[i]
           /\ \A i \in 1..Len(t) : (s \o t)[Len(s) + i] = t[i]
OBVIOUS

LEMMA PathConcat ==
    ASSUME NEW s, NEW t, NEW l, NEW m, NEW n, Path(s, l, m), Path(t, m, n)
    PROVE  Path(s \o t, l, n)
<1>1. PICK a \in [1..Len(s) + 1 -> Labels] :
          /\ a[1] = l /\ a[Len(s) + 1] = m
          /\ \A i \in 1..Len(s) : Arc(a[i], <<s[i]>>, a[i + 1])
    BY DEF Path
<1>2. PICK b \in [1..Len(t) + 1 -> Labels] :
          /\ b[1] = m /\ b[Len(t) + 1] = n
          /\ \A i \in 1..Len(t) : Arc(b[i], <<t[i]>>, b[i + 1])
    BY DEF Path
<1> DEFINE j == Len(s)
           k == Len(t)
           u == s \o t
           at == [i \in 1..j + k + 1 |-> IF i <= j THEN a[i] ELSE b[i - j]]
<1>3. /\ u \in Seq(Ops) /\ Len(u) = j + k /\ j \in Nat /\ k \in Nat
      /\ \A i \in 1..j : u[i] = s[i]
      /\ \A i \in 1..k : u[j + i] = t[i]
    BY Joined DEF Path
<1> HIDE DEF j, k, u
<1>4. at \in [1..j + k + 1 -> Labels]
    <2>1. ASSUME NEW i \in 1..j + k + 1, ~(i <= j)
          PROVE  i - j \in 1..k + 1
        BY <1>3, <2>1
    <2>2. \A i \in 1..j + k + 1 : i <= j => i \in 1..j + 1
        BY <1>3
    <2>3. QED
        BY <1>1, <1>2, <2>1, <2>2 DEF j, k
<1>5. at[1] = l
    <2>1. 1 \in 1..j + k + 1 /\ (~(1 <= j) => j = 0 /\ 1 - j = 1 /\ j + 1 = 1)
        BY <1>3
    <2>2. QED
        BY <1>1, <1>2, <2>1 DEF j
<1>6. at[j + k + 1] = n
    <2>1. j + k + 1 \in 1..j + k + 1 /\ ~(j + k + 1 <= j) /\ (j + k + 1) - j = k + 1
        BY <1>3
    <2>2. QED
        BY <1>2, <2>1 DEF k
<1>7. ASSUME NEW i \in 1..j + k
      PROVE  Arc(at[i], <<u[i]>>, at[i + 1])
    <2>1. CASE i < j
        <3>1. i \in 1..j /\ i \in 1..j + k + 1 /\ i + 1 \in 1..j + k + 1 /\ i <= j /\ i + 1 <= j
            BY <1>3, <2>1
        <3>2. QED
            BY <1>1, <1>3, <3>1 DEF j
    <2>2. CASE i = j
        <3>1. /\ i \in 1..j /\ i \in 1..j + k + 1 /\ i + 1 \in 1..j + k + 1
              /\ i <= j /\ ~(i + 1 <= j) /\ (i + 1) - j = 1
            BY <1>3, <2>2
        <3>2. at[i] = a[i] /\ at[i + 1] = b[1]
            BY <3>1
        <3>3. QED
            BY <1>1, <1>2, <1>3, <2>2, <3>1, <3>2 DEF j
    <2>3. CASE i > j
        <3>1. /\ i - j \in 1..k /\ j + (i - j) = i /\ i \in 1..j + k + 1 /\ i + 1 \in 1..j + k + 1
              /\ ~(i <= j) /\ ~(i + 1 <= j) /\ (i + 1) - j = (i - j) + 1
            BY <1>3, <2>3
        <3>2. at[i] = b[i - j] /\ at[i + 1] = b[(i - j) + 1] /\ u[i] = t[i - j]
            BY <1>3, <3>1
        <3>3. QED
            BY <1>2, <3>1, <3>2 DEF k
    <2>4. QED
        BY <1>3, <2>1, <2>2, <2>3
<1> HIDE DEF at
<1>8. QED
    BY <1>3, <1>4, <1>5, <1>6, <1>7 DEF Path, u

LEMMA PathHead ==
    ASSUME NEW s, NEW l, NEW m, Path(s, l, m), s # <<>>
    PROVE  /\ Head(s) \in Ops /\ l \in Labels
           /\ \E k \in Labels : Arc(l, <<Head(s)>>, k) /\ Path(Tail(s), k, m)
<1>1. PICK a \in [1..Len(s) + 1 -> Labels] :
          /\ a[1] = l /\ a[Len(s) + 1] = m
          /\ \A i \in 1..Len(s) : Arc(a[i], <<s[i]>>, a[i + 1])
    BY DEF Path
<1> DEFINE j == Len(s)
           t == Tail(s)
           at == [i \in 1..j |-> a[i + 1]]
<1>2. /\ s \in Seq(Ops) /\ j \in Nat /\ j > 0
      /\ t \in Seq(Ops) /\ Len(t) = j - 1 /\ \A i \in 1..j - 1 : t[i] = s[i + 1]
      /\ Head(s) = s[1] /\ s[1] \in Ops
    <2>1. s \in Seq(Ops)
        BY DEF Path
    <2>2. QED
        BY <2>1
<1> HIDE DEF j, t
<1>3. /\ 1 \in 1..j /\ 1 \in 1..j + 1 /\ 2 \in 1..j + 1 /\ 1 + 1 = 2 /\ (j - 1) + 1 = j /\ j \in 1..j
      /\ \A i \in 1..j : i + 1 \in 1..j + 1
      /\ \A i \in 1..j - 1 : i \in 1..j /\ i + 1 \in 1..j
    BY <1>2
<1>4. at \in [1..j -> Labels] /\ at[1] = a[2] /\ at[j] = m
    BY <1>1, <1>2, <1>3 DEF j
<1>5. \A i \in 1..j - 1 : Arc(at[i], <<t[i]>>, at[i + 1])
    BY <1>1, <1>2, <1>3 DEF j
<1> HIDE DEF at
<1>6. Path(t, a[2], m)
    BY <1>2, <1>3, <1>4, <1>5 DEF Path
<1>7. a[2] \in Labels /\ l \in Labels /\ Arc(l, <<Head(s)>>, a[2])
    BY <1>1, <1>2, <1>3 DEF j
<1>8. QED
    BY <1>2, <1>6, <1>7 DEF t

-----------------------------------------------------------------------------
(* The operations, and the paths of the driver's functions.                *)

LEMMA One ==
    ASSUME NEW e \in Ops
    PROVE  <<e>> \in Seq(Ops) /\ Len(<<e>>) = 1
OBVIOUS

LEMMA WritePath ==
    ASSUME NEW reg \in {"data", "tri"}, NEW bits \in SUBSET Pins,
           NEW s \in {Write(reg, bits), WriteAnd(reg, bits), WriteOr(reg, bits)},
           NEW l \in Labels, NEW m \in Labels, WriteArc(l, s, m)
    PROVE  Path(s, l, m)
<1>1. {} \in SUBSET Pins /\ Pins \in SUBSET Pins
    OBVIOUS
<1>2. \E e \in Accesses : s = <<e>>
    <2>1. /\ [op |-> "write", reg |-> reg, and |-> {}, or |-> bits] \in Accesses
          /\ [op |-> "write", reg |-> reg, and |-> bits, or |-> {}] \in Accesses
          /\ [op |-> "write", reg |-> reg, and |-> Pins, or |-> bits] \in Accesses
        BY <1>1 DEF Accesses
    <2>2. QED
        BY <2>1 DEF Write, WriteAnd, WriteOr
<1>3. s \in Seq(Ops) /\ Len(s) = 1
    BY <1>2, One DEF Ops
<1>4. QED
    BY <1>3, PathOne DEF Arc

LEMMA DoPath ==
    ASSUME NEW op \in {"initialize", "options", "select", "start", "mask", "stop"},
           NEW l \in Labels, NEW m \in Labels,
           XSpiArc(l, Do(op), m) \/ InitializeArc(l, Do(op), m)
    PROVE  Path(Do(op), l, m)
<1>1. [op |-> op] \in Ops
    BY DEF Ops, Calls
<1>2. Do(op) \in Seq(Ops) /\ Len(Do(op)) = 1
    BY <1>1, One DEF Do
<1>3. QED
    BY <1>2, PathOne DEF Arc

LEMMA SendPath ==
    ASSUME NEW kind \in {"commands", "pixels"}, NEW n \in Amounts, NEW switch \in Switches,
           NEW l \in Labels, NEW m \in Labels, SendArc(l, Send(kind, n, switch), m)
    PROVE  Path(Send(kind, n, switch), l, m)
<1> DEFINE k == IF n < MaxBytes THEN n ELSE MaxBytes
           e == [op |-> "send", kind |-> kind, n |-> k, switch |-> switch]
<1>1. k \in Bytes
    BY XSpiAssumption DEF Bytes, Amounts
<1> HIDE DEF k
<1>2. e \in Ops
    BY <1>1 DEF Ops, Transfers
<1> HIDE DEF e
<1>3. <<e>> \in Seq(Ops) /\ Len(<<e>>) = 1
    BY <1>2, One
<1>4. Send(kind, n, switch) = <<e>>
    BY DEF Send, e, k
<1>5. QED
    BY <1>3, <1>4, PathOne DEF Arc

LEMMA FontPath ==
    ASSUME NEW l \in Final
    PROVE  /\ Path(Do("advance"), l, l)
           /\ \A upperBit \in BOOLEAN : Path(<<[op |-> "glyph", upperBit |-> upperBit]>>, l, l)
           /\ \A sz \in Seq(BOOLEAN) : Path(PutString(sz), l, l)
<1> l \in Labels
    BY DEF Final, Labels, Shows, Cut
<1>1. Path(Do("advance"), l, l)
    <2>1. [op |-> "advance"] \in Ops
        BY DEF Ops, Calls
    <2>2. Do("advance") \in Seq(Ops) /\ Len(Do("advance")) = 1
        BY <2>1, One DEF Do
    <2>3. QED
        BY <2>2, PathOne DEF Arc, FontArc
<1>2. ASSUME NEW upperBit \in BOOLEAN
      PROVE  Path(<<[op |-> "glyph", upperBit |-> upperBit]>>, l, l)
    <2>1. [op |-> "glyph", upperBit |-> upperBit] \in Ops
        BY DEF Ops, Glyphs
    <2>2. QED
        BY <2>1, One, PathOne DEF Arc, FontArc
<1>3. ASSUME NEW sz \in Seq(BOOLEAN)
      PROVE  Path(PutString(sz), l, l)
    <2>1. [op |-> "string", sz |-> sz] \in Ops
        BY DEF Ops, Texts
    <2>2. PutString(sz) \in Seq(Ops) /\ Len(PutString(sz)) = 1
        BY <2>1, One DEF PutString
    <2>3. QED
        BY <2>2, PathOne DEF Arc, FontArc
<1>4. QED
    BY <1>1, <1>2, <1>3

LEMMA AllLabels ==
    /\ {"initialize", "options", "select", "tri", "data", "start", "mask", "pmoden", "reset",
        "run", "setup", "clear", "vccen"} \subseteq Labels
    /\ {"tri on", "vccen on", "switchOn", "cut", "float", "stop", "off", "end", "end release",
        "live", "pixels", "switchOff"} \subseteq Labels
    /\ "live" \in Final /\ "off" \in Final
BY DEF Labels, On, Opening, Dark, Cut, End, Shows, Final

(* On a display that is stopped, everything leads nowhere else.            *)
LEMMA StoppedPath ==
    /\ \A reg \in {"data", "tri"}, bits \in SUBSET Pins :
          /\ Path(Write(reg, bits), "off", "off")
          /\ Path(WriteAnd(reg, bits), "off", "off")
          /\ Path(WriteOr(reg, bits), "off", "off")
    /\ \A kind \in {"commands", "pixels"}, n \in Amounts, switch \in Switches :
          Path(Send(kind, n, switch), "off", "off")
    /\ Path(Do("stop"), "off", "off")
<1> USE AllLabels
<1>1. ASSUME NEW reg \in {"data", "tri"}, NEW bits \in SUBSET Pins,
             NEW s \in {Write(reg, bits), WriteAnd(reg, bits), WriteOr(reg, bits)}
      PROVE  Path(s, "off", "off")
    <2>1. WriteArc("off", s, "off")
        BY DEF WriteArc
    <2>2. QED
        BY <2>1, WritePath
<1>2. ASSUME NEW kind \in {"commands", "pixels"}, NEW n \in Amounts, NEW switch \in Switches
      PROVE  Path(Send(kind, n, switch), "off", "off")
    <2>1. SendArc("off", Send(kind, n, switch), "off")
        BY DEF SendArc
    <2>2. QED
        BY <2>1, SendPath
<1>3. Path(Do("stop"), "off", "off")
    <2>1. XSpiArc("off", Do("stop"), "off")
        BY DEF XSpiArc
    <2>2. QED
        BY <2>1, DoPath
<1>4. QED
    BY <1>1, <1>2, <1>3

LEMMA SwitchTypes ==
    /\ Nothing \in Switches /\ CMD_SETUP \in Switches
    /\ CMD_DISPLAYON \in Switches /\ CMD_DISPLAYOFF \in Switches
BY DEF Switches

LEMMA AmountTypes == \A n \in {1, 5, 6, 7, 8, 13, 39} : n \in Amounts
BY DEF Amounts

LEMMA Join3 ==
    ASSUME NEW a, NEW b, NEW c, NEW k, NEW l, NEW m, NEW n, Path(a, k, l), Path(b, l, m), Path(c, m, n)
    PROVE  Path(a \o b \o c, k, n)
<1> DEFINE ab == a \o b
<1>1. Path(ab, k, m)
    BY PathConcat
<1> HIDE DEF ab
<1>2. Path(ab \o c, k, n)
    BY <1>1, PathConcat
<1>3. QED
    BY <1>2 DEF ab

LEMMA Join4 ==
    ASSUME NEW a, NEW b, NEW c, NEW d, NEW k, NEW l, NEW m, NEW n, NEW o,
           Path(a, k, l), Path(b, l, m), Path(c, m, n), Path(d, n, o)
    PROVE  Path(a \o b \o c \o d, k, o)
<1> DEFINE abc == a \o b \o c
<1>1. Path(abc, k, n)
    BY Join3
<1> HIDE DEF abc
<1>2. Path(abc \o d, k, o)
    BY <1>1, PathConcat
<1>3. QED
    BY <1>2 DEF abc

(* Commands only.                                                          *)
LEMMA CommandsPath ==
    ASSUME NEW n \in Amounts, NEW switch \in Switches, NEW l \in Labels, NEW m \in Labels,
           SendArc(l, Send("commands", n, switch), m)
    PROVE  Path(WriteSPI(n, switch, 0), l, m)
<1> DEFINE s == Send("commands", n, switch)
<1>1. Path(s, l, m)
    BY SendPath
<1>2. Path(<<>>, m, m)
    BY PathNil
<1> HIDE DEF s
<1>3. Path(s \o <<>>, l, m)
    BY <1>1, <1>2, PathConcat
<1>4. WriteSPI(n, switch, 0) = s \o <<>>
    BY DEF WriteSPI, s
<1>5. QED
    BY <1>3, <1>4

(* Commands and, if there are any, pixels.                                 *)
LEMMA DrawPath ==
    ASSUME NEW n \in Amounts, NEW nData \in Nat, NEW l \in Final
    PROVE  Path(WriteSPI(n, Nothing, nData), l, l)
<1> USE AllLabels, SwitchTypes
<1>0. l \in Labels /\ l \in {"live", "off"}
    BY DEF Final
<1>1. CASE nData = 0
    <2>1. SendArc(l, Send("commands", n, Nothing), l)
        BY <1>0 DEF SendArc
    <2>2. QED
        BY <1>0, <1>1, <2>1, CommandsPath
<1>2. CASE nData # 0
    <2> DEFINE a == Send("commands", n, Nothing)
               b == Write("data", Pins)
               c == Send("pixels", nData, Nothing)
               d == Write("data", {"RES", "VCCEN", "PMODEN"})
               p == IF l = "live" THEN "pixels" ELSE "off"
    <2>1. nData \in Amounts /\ p \in Labels
        BY <1>2 DEF Amounts
    <2>2. Path(a, l, l)
        <3>1. SendArc(l, a, l)
            BY <1>0 DEF SendArc
        <3>2. QED
            BY <1>0, <3>1, SendPath
    <2>3. Path(c, p, p)
        <3>1. SendArc(p, c, p)
            BY <1>0, <2>1 DEF SendArc
        <3>2. QED
            BY <2>1, <3>1, SendPath
    <2>4. Path(b, l, p)
        <3>1. WriteArc(l, b, p)
            BY <1>0 DEF WriteArc
        <3>2. QED
            BY <1>0, <2>1, <3>1, WritePath
    <2>5. Path(d, p, l)
        <3>1. WriteArc(p, d, l) /\ {"RES", "VCCEN", "PMODEN"} \in SUBSET Pins
            BY <1>0 DEF WriteArc, Pins
        <3>2. QED
            BY <1>0, <2>1, <3>1, WritePath
    <2>6. WriteSPI(n, Nothing, nData) = a \o (b \o c \o d)
        BY <1>2 DEF WriteSPI
    <2> HIDE DEF a, b, c, d, p
    <2>7. Path(b \o c \o d, l, l)
        BY <2>3, <2>4, <2>5, Join3
    <2> DEFINE bcd == b \o c \o d
    <2> HIDE DEF bcd
    <2>8. Path(a \o bcd, l, l)
        BY <2>2, <2>7, PathConcat DEF bcd
    <2>9. QED
        BY <2>6, <2>8 DEF bcd
<1>3. QED
    BY <1>1, <1>2

LEMMA HostInitPath == Path(HostInit, "tri", "pmoden")
<1> USE AllLabels
<1> DEFINE a == Write("tri", {})
           b == Write("data", {"RES", "PMODEN"})
           c == Do("start")
           d == Do("mask")
<1>1. Path(a, "tri", "data") /\ Path(b, "data", "start")
    <2>1. /\ WriteArc("tri", a, "data") /\ WriteArc("data", b, "start")
          /\ {} \in SUBSET Pins /\ {"RES", "PMODEN"} \in SUBSET Pins
        BY DEF WriteArc, Pins
    <2>2. QED
        BY <2>1, WritePath
<1>2. Path(c, "start", "mask") /\ Path(d, "mask", "pmoden")
    <2>1. XSpiArc("start", c, "mask") /\ XSpiArc("mask", d, "pmoden")
        BY DEF XSpiArc
    <2>2. QED
        BY <2>1, DoPath
<1>3. HostInit = a \o b \o c \o d
    BY DEF HostInit
<1> HIDE DEF a, b, c, d
<1>4. QED
    BY <1>1, <1>2, <1>3, Join4

LEMMA DevInitPath == Path(DevInit, "pmoden", "live")
<1> USE AllLabels, SwitchTypes
<1> DEFINE a == Write("data", {"RES", "PMODEN"})
           b == Write("data", {"PMODEN"})
           c == WriteSPI(39, CMD_SETUP, 0)
           d == Clear
           e == Write("data", {"RES", "VCCEN", "PMODEN"})
           f == WriteSPICommand(CMD_DISPLAYON)
<1>1. /\ Path(a, "pmoden", "reset") /\ Path(b, "reset", "run") /\ Path(a, "run", "setup")
      /\ Path(e, "vccen", "switchOn")
    <2>1. /\ WriteArc("pmoden", a, "reset") /\ WriteArc("reset", b, "run")
          /\ WriteArc("run", a, "setup") /\ WriteArc("vccen", e, "switchOn")
          /\ {"PMODEN"} \in SUBSET Pins /\ {"RES", "PMODEN"} \in SUBSET Pins
          /\ {"RES", "VCCEN", "PMODEN"} \in SUBSET Pins
        BY DEF WriteArc, Pins
    <2>2. QED
        BY <2>1, WritePath
<1>2. 39 \in Amounts /\ 5 \in Amounts /\ 1 \in Amounts
    BY AmountTypes
<1>3. Path(c, "setup", "clear")
    <2>1. SendArc("setup", Send("commands", 39, CMD_SETUP), "clear")
        BY <1>2 DEF SendArc
    <2>2. QED
        BY <1>2, <2>1, CommandsPath
<1>4. Path(d, "clear", "vccen")
    <2>1. SendArc("clear", Send("commands", 5, Nothing), "vccen")
        BY <1>2 DEF SendArc
    <2>2. QED
        BY <1>2, <2>1, CommandsPath DEF Clear, Cmds
<1>5. Path(f, "switchOn", "live")
    <2>1. SendArc("switchOn", Send("commands", 1, CMD_DISPLAYON), "live")
        BY <1>2 DEF SendArc
    <2>2. QED
        BY <1>2, <2>1, SendPath DEF WriteSPICommand
<1>6. DevInit = a \o b \o a \o c \o d \o e \o f
    BY DEF DevInit, CMD_SETUP
<1> HIDE DEF a, b, c, d, e, f
<1> DEFINE abac == a \o b \o a \o c
<1>7. Path(abac, "pmoden", "clear")
    BY <1>1, <1>3, Join4
<1> HIDE DEF abac
<1>8. Path(abac \o d \o e \o f, "pmoden", "live")
    BY <1>1, <1>4, <1>5, <1>7, Join4
<1>9. QED
    BY <1>6, <1>8 DEF abac

LEMMA BeginPath == Path(begin, "initialize", "live")
<1>1. Path(SPIInit, "initialize", "tri")
    BY AllLabels, DoPath DEF SPIInit, InitializeArc
<1>2. Path(SPIInit \o HostInit \o DevInit, "initialize", "live")
    BY <1>1, HostInitPath, DevInitPath, Join3
<1>3. QED
    BY <1>2 DEF begin

LEMMA ConfigurationPath == Path(Configuration, "options", "tri")
<1> USE AllLabels
<1>1. Path(Do("options"), "options", "select") /\ Path(Do("select"), "select", "tri")
    <2>1. XSpiArc("options", Do("options"), "select") /\ XSpiArc("select", Do("select"), "tri")
        BY DEF XSpiArc
    <2>2. QED
        BY <2>1, DoPath
<1>2. QED
    BY <1>1, PathConcat DEF Configuration

LEMMA EnablePath == Path(EnablePmod(TRUE), "tri", "live")
<1>1. Path(HostInit \o DevInit, "tri", "live")
    BY HostInitPath, DevInitPath, PathConcat
<1>2. QED
    BY <1>1 DEF EnablePmod

(* The display is switched off and its supply cut.                         *)
LEMMA DevTermPath ==
    /\ \A m \in {"float", "stop"} : Path(DevTerm, "switchOff", m)
    /\ Path(DevTerm, "off", "off")
<1> USE AllLabels, SwitchTypes
<1> DEFINE a == WriteSPICommand(CMD_DISPLAYOFF)
           b == WriteAnd("data", Pins \ {"VCCEN"})
<1>1. 1 \in Amounts /\ Pins \ {"VCCEN"} \in SUBSET Pins
    BY AmountTypes
<1>2. Path(a, "switchOff", "cut") /\ Path(a, "off", "off")
    <2>1. SendArc("switchOff", Send("commands", 1, CMD_DISPLAYOFF), "cut")
        BY <1>1 DEF SendArc
    <2>2. QED
        BY <1>1, <2>1, SendPath, StoppedPath DEF WriteSPICommand
<1>3. Path(b, "off", "off") /\ \A m \in {"float", "stop"} : Path(b, "cut", m)
    <2>1. \A m \in {"float", "stop"} : WriteArc("cut", b, m)
        BY DEF WriteArc
    <2>2. QED
        BY <1>1, <2>1, WritePath, StoppedPath
<1>4. DevTerm = a \o b
    BY DEF DevTerm
<1> HIDE DEF a, b
<1>5. QED
    BY <1>2, <1>3, <1>4, PathConcat

LEMMA HostTermPath == \A l \in {"stop", "end", "off"} : Path(HostTerm, l, "off")
<1> USE AllLabels
<1> DEFINE a == Do("stop")
           b == Write("data", {"DC", "RES"})
           c == Write("tri", Pins)
<1>1. Path(a, "stop", "off") /\ Path(a, "off", "off") /\ Path(a, "end", "end release")
    <2>1. XSpiArc("stop", a, "off") /\ XSpiArc("off", a, "off") /\ XSpiArc("end", a, "end release")
        BY DEF XSpiArc
    <2>2. QED
        BY <2>1, DoPath
<1>2. Path(b, "off", "off") /\ Path(b, "end release", "off") /\ Path(c, "off", "off")
    <2>1. /\ WriteArc("end release", b, "off")
          /\ {"DC", "RES"} \in SUBSET Pins /\ Pins \in SUBSET Pins
        BY DEF WriteArc, Pins
    <2>2. QED
        BY <2>1, WritePath, StoppedPath
<1>3. HostTerm = a \o b \o c
    BY DEF HostTerm
<1> HIDE DEF a, b, c
<1>4. QED
    BY <1>1, <1>2, <1>3, Join3

LEMMA DisablePath ==
    /\ \A l \in {"switchOff", "off"} : Path(EnablePmod(FALSE), l, "off")
    /\ \A l \in {"end", "off"} : Path(end, l, "off")
<1>1. \A l \in {"switchOff", "off"} : Path(DevTerm \o HostTerm, l, "off")
    BY DevTermPath, HostTermPath, PathConcat
<1>2. \A l \in {"end", "off"} : Path(HostTerm \o DevTerm, l, "off")
    BY DevTermPath, HostTermPath, PathConcat
<1>3. QED
    BY <1>1, <1>2 DEF EnablePmod, end

LEMMA BackLightPath ==
    /\ Path(EnableBackLight(TRUE), "tri on", "live")
    /\ Path(EnableBackLight(FALSE), "switchOff", "live")
    /\ \A fEnable \in BOOLEAN : Path(EnableBackLight(fEnable), "off", "off")
<1> USE AllLabels, SwitchTypes
<1> DEFINE a == WriteAnd("tri", Pins \ {"VCCEN"})
           b == WriteOr("data", {"VCCEN"})
           c == WriteSPICommand(CMD_DISPLAYON)
           d == WriteOr("tri", {"VCCEN"})
<1>1. {"VCCEN"} \in SUBSET Pins /\ Pins \ {"VCCEN"} \in SUBSET Pins /\ 1 \in Amounts
    BY AmountTypes DEF Pins
<1>2. /\ Path(a, "tri on", "vccen on") /\ Path(b, "vccen on", "switchOn")
      /\ Path(d, "float", "live")
    <2>1. /\ WriteArc("tri on", a, "vccen on") /\ WriteArc("vccen on", b, "switchOn")
          /\ WriteArc("float", d, "live")
        BY DEF WriteArc
    <2>2. QED
        BY <1>1, <2>1, WritePath
<1>3. Path(c, "switchOn", "live")
    <2>1. SendArc("switchOn", Send("commands", 1, CMD_DISPLAYON), "live")
        BY <1>1 DEF SendArc
    <2>2. QED
        BY <1>1, <2>1, SendPath DEF WriteSPICommand
<1>4. Path(a, "off", "off") /\ Path(b, "off", "off") /\ Path(c, "off", "off") /\ Path(d, "off", "off")
    BY <1>1, StoppedPath DEF WriteSPICommand
<1>5. EnableBackLight(TRUE) = a \o b \o c
    BY DEF EnableBackLight
<1>6. EnableBackLight(FALSE) = DevTerm \o d
    BY DEF EnableBackLight, DevTerm
<1> HIDE DEF a, b, c, d
<1>7. Path(a \o b \o c, "tri on", "live") /\ Path(a \o b \o c, "off", "off")
    BY <1>2, <1>3, <1>4, Join3
<1>8. Path(DevTerm \o d, "switchOff", "live") /\ Path(DevTerm \o d, "off", "off")
    BY <1>2, <1>4, DevTermPath, PathConcat
<1>9. QED
    BY <1>5, <1>6, <1>7, <1>8

(* The functions that draw.                                                *)
LEMMA BitmapPath ==
    ASSUME NEW c1 \in Int, NEW r1 \in Int, NEW c2 \in Int, NEW r2 \in Int,
           u8(c1) <= u8(c2) + 1, u8(r1) <= u8(r2) + 1, NEW l \in Final
    PROVE  Path(DrawBitmap(c1, r1, c2, r2), l, l)
<1> DEFINE w == u8(c2) - u8(c1) + 1
           h == u8(r2) - u8(r1) + 1
<1>1. w \in Nat /\ h \in Nat /\ 6 \in Amounts
    BY AmountTypes DEF u8
<1> HIDE DEF w, h
<1>2. 2 * w * h \in Nat
    BY <1>1
<1>3. DrawBitmap(c1, r1, c2, r2) = WriteSPI(6, Nothing, 2 * w * h)
    BY DEF DrawBitmap, w, h
<1>4. QED
    BY <1>1, <1>2, <1>3, DrawPath

Drawing == {"drawPixel", "drawLine", "drawRectangle", "setScrolling", "enableScrolling", "copy",
            "dim", "clear"}

LEMMA DrawingPath == \A f \in Drawing, l \in Final : Path(Functions[f], l, l)
<1> SUFFICES ASSUME NEW l \in Final
             PROVE  \A f \in Drawing : Path(Functions[f], l, l)
    OBVIOUS
<1>1. \A n \in {1, 5, 6, 7, 8, 13, 39} : n \in Amounts
    BY AmountTypes
<1>2. 0 \in Nat /\ 2 \in Nat
    OBVIOUS
<1>3. /\ Path(DrawPixel, l, l) /\ Path(DrawLine, l, l)
      /\ Path(DrawRectangle, l, l) /\ Path(SetScrolling, l, l)
      /\ Path(Copy, l, l) /\ Path(Dim, l, l) /\ Path(Clear, l, l)
    BY <1>1, <1>2, DrawPath DEF DrawPixel, DrawLine, DrawRectangle, SetScrolling, Copy, Dim, Clear, Cmds
<1>4. Path(EnableScrolling, l, l)
    <2>1. l \in Labels /\ SendArc(l, Send("commands", 1, Nothing), l)
        BY <1>1, AllLabels, SwitchTypes DEF SendArc, Final
    <2>2. QED
        BY <1>1, <2>1, SwitchTypes, SendPath DEF EnableScrolling, WriteSPICommand
<1>5. /\ Functions.drawPixel = DrawPixel /\ Functions.drawLine = DrawLine
      /\ Functions.drawRectangle = DrawRectangle /\ Functions.setScrolling = SetScrolling
      /\ Functions.enableScrolling = EnableScrolling /\ Functions.copy = Copy
      /\ Functions.dim = Dim /\ Functions.clear = Clear
    BY DEF Functions
<1>6. QED
    BY <1>3, <1>4, <1>5 DEF Drawing

LEMMA PutPath ==
    ASSUME NEW l \in Final
    PROVE  /\ \A upperBit \in BOOLEAN : Path(PutChar(upperBit), l, l)
           /\ \A sz \in Seq(BOOLEAN) : Path(PutString(sz), l, l)
<1>1. ASSUME NEW upperBit \in BOOLEAN
      PROVE  Path(PutChar(upperBit), l, l)
    <2> DEFINE g == <<[op |-> "glyph", upperBit |-> upperBit]>>
               a == Do("advance")
    <2>1. Path(g, l, l) /\ Path(a, l, l)
        BY FontPath
    <2>2. PutChar(upperBit) = g \o a
        BY DEF PutChar
    <2> HIDE DEF g, a
    <2>3. QED
        BY <2>1, <2>2, PathConcat
<1>2. QED
    BY <1>1, FontPath

-----------------------------------------------------------------------------
(* Steps from point to point.                                              *)

LEMMA StepsAlong ==
    ASSUME OledInv, todo # <<>>, todo' = Tail(todo), IInv', OledTypeOK', TransferInv',
           \A l \in Labels, k \in Labels : Arc(l, <<Head(todo)>>, k) /\ Holds(l) => Holds(k)'
    PROVE  OledInv'
<1>1. PICK l \in Labels, m \in Final : Path(todo, l, m) /\ Holds(l)
    BY DEF OledInv
<1>2. PICK k \in Labels : Arc(l, <<Head(todo)>>, k) /\ Path(Tail(todo), k, m)
    BY <1>1, PathHead
<1>3. Holds(k)' /\ Path(todo', k, m)
    BY <1>1, <1>2
<1>4. QED
    BY <1>3 DEF OledInv

LEMMA Stays ==
    ASSUME OledInv, todo' = todo, IInv', OledTypeOK', TransferInv',
           \A l \in Labels : Holds(l) => Holds(l)'
    PROVE  OledInv'
<1>1. PICK l \in Labels, m \in Final : Path(todo, l, m) /\ Holds(l)
    BY DEF OledInv
<1>2. Holds(l)' /\ Path(todo', l, m)
    BY <1>1
<1>3. QED
    BY <1>2 DEF OledInv

LEMMA Goes ==
    ASSUME IInv', OledTypeOK', TransferInv',
           NEW l \in Labels, NEW m \in Final, Path(todo', l, m), Holds(l)'
    PROVE  OledInv'
BY DEF OledInv

LEMMA AtApp ==
    ASSUME OledInv, Main("app")
    PROVE  /\ pc.main = "app" /\ pc.isr = "none" /\ ~spi.isBusy /\ Shown = displayOn
           /\ IInv /\ OledTypeOK
<1>1. pc.main = "app" /\ pc.isr = "none"
    BY MainRuns
<1>2. ~spi.isBusy
    BY <1>1 DEF OledInv, TransferInv, PolledTransfer
<1>3. QED
    BY <1>1, <1>2 DEF OledInv, Shown

LEMMA XSpiArcHolds ==
    ASSUME NEW l, NEW k, NEW s, XSpiArc(l, s, k), PinsAt(l), DisplayAt(l),
           UNCHANGED <<gpio, function, wanted>>, Shown' = Shown
    PROVE  PinsAt(k)' /\ DisplayAt(k)'
<1> USE DEF PinsAt, DisplayAt, Opening, Dark, On, Cut, End, Shows, Powered
<1>1. /\ l \in {"options", "select", "start", "mask"} =>
            /\ (k \in {"mask", "pmoden"} => l \in {"start", "mask"})
            /\ k \in {"select", "tri", "mask", "pmoden"}
      /\ l \in {"stop", "off"} => k = "off"
      /\ l = "end" => k = "end release"
      /\ l \in {"options", "select", "start", "mask", "stop", "off", "end"}
    BY DEF XSpiArc
<1>2. CASE l \in {"stop", "off"}
    BY <1>1, <1>2
<1>3. CASE l = "end"
    BY <1>1, <1>3
<1>4. CASE l \in {"options", "select", "start", "mask"}
    BY <1>1, <1>4
<1>5. QED
    BY <1>1, <1>2, <1>3, <1>4

(* Which operation an arc is.                                              *)

LEMMA OneIsOne ==
    ASSUME NEW a, NEW b, <<a>> = <<b>>
    PROVE  a = b
<1>1. <<a>>[1] = a /\ <<b>>[1] = b
    OBVIOUS
<1>2. QED
    BY <1>1

LEMMA DoIs ==
    ASSUME NEW e, NEW op, <<e>> = Do(op)
    PROVE  e.op = op
<1>1. e = [op |-> op]
    BY OneIsOne DEF Do
<1>2. QED
    BY <1>1

LEMMA SendIs ==
    ASSUME NEW e, NEW kind, NEW n, NEW switch, <<e>> = Send(kind, n, switch)
    PROVE  e.op = "send" /\ e.kind = kind /\ e.switch = switch
<1> DEFINE k == IF n < MaxBytes THEN n ELSE MaxBytes
<1>1. Send(kind, n, switch) = <<[op |-> "send", kind |-> kind, n |-> k, switch |-> switch]>>
    BY DEF Send
<1> HIDE DEF k
<1>2. e = [op |-> "send", kind |-> kind, n |-> k, switch |-> switch]
    BY <1>1, OneIsOne
<1>3. QED
    BY <1>2

LEMMA WriteIs ==
    ASSUME NEW e, NEW reg, NEW bits
    PROVE  /\ <<e>> = Write(reg, bits) => e.op = "write" /\ e.reg = reg /\ e.and = {} /\ e.or = bits
           /\ <<e>> = WriteAnd(reg, bits) => e.op = "write" /\ e.reg = reg /\ e.and = bits /\ e.or = {}
           /\ <<e>> = WriteOr(reg, bits) => e.op = "write" /\ e.reg = reg /\ e.and = Pins /\ e.or = bits
<1>1. <<e>> = Write(reg, bits) => e = [op |-> "write", reg |-> reg, and |-> {}, or |-> bits]
    BY OneIsOne DEF Write
<1>2. <<e>> = WriteAnd(reg, bits) => e = [op |-> "write", reg |-> reg, and |-> bits, or |-> {}]
    BY OneIsOne DEF WriteAnd
<1>3. <<e>> = WriteOr(reg, bits) => e = [op |-> "write", reg |-> reg, and |-> Pins, or |-> bits]
    BY OneIsOne DEF WriteOr
<1>4. QED
    BY <1>1, <1>2, <1>3

LEMMA XSpiArcIs ==
    ASSUME NEW l, NEW k, NEW e, XSpiArc(l, <<e>>, k)
    PROVE  \/ e.op = "options" /\ l = "options" /\ k = "select"
           \/ e.op = "select" /\ l = "select" /\ k = "tri"
           \/ e.op = "start" /\ l = "start" /\ k = "mask"
           \/ e.op = "mask" /\ l = "mask" /\ k = "pmoden"
           \/ e.op = "stop" /\ l \in {"stop", "end", "off"} /\ k \in {"off", "end release"}
<1>1. \A op : <<e>> = Do(op) => e.op = op
    BY DoIs
<1>2. QED
    BY <1>1 DEF XSpiArc

LEMMA InitializeArcIs ==
    ASSUME NEW l, NEW k, NEW e, InitializeArc(l, <<e>>, k)
    PROVE  e.op = "initialize" /\ l = "initialize" /\ k = "tri"
BY DoIs DEF InitializeArc

LEMMA WriteArcIs ==
    ASSUME NEW l, NEW k, NEW e, WriteArc(l, <<e>>, k)
    PROVE  e.op = "write"
<1>1. \A reg, bits :
        <<e>> \in {Write(reg, bits), WriteAnd(reg, bits), WriteOr(reg, bits)} => e.op = "write"
    BY WriteIs
<1>2. \E reg, bits : <<e>> \in {Write(reg, bits), WriteAnd(reg, bits), WriteOr(reg, bits)}
    BY DEF WriteArc
<1>3. QED
    BY <1>1, <1>2

LEMMA SendArcIs ==
    ASSUME NEW l, NEW k, NEW e, SendArc(l, <<e>>, k)
    PROVE  /\ e.op = "send"
           /\ \/ l = "setup" /\ k = "clear" /\ e.kind = "commands" /\ e.switch = CMD_SETUP
              \/ l = "clear" /\ k = "vccen" /\ e.kind = "commands" /\ e.switch = Nothing
              \/ l = "switchOn" /\ k = "live" /\ e.kind = "commands" /\ e.switch = CMD_DISPLAYON
              \/ l = "switchOff" /\ k = "cut" /\ e.kind = "commands" /\ e.switch = CMD_DISPLAYOFF
              \/ l = "off" /\ k = "off"
              \/ l = "live" /\ k = "live" /\ e.kind = "commands" /\ e.switch = Nothing
              \/ l = "pixels" /\ k = "pixels" /\ e.kind = "pixels" /\ e.switch = Nothing
<1>1. \A kind, n, switch :
        <<e>> = Send(kind, n, switch) => e.op = "send" /\ e.kind = kind /\ e.switch = switch
    BY SendIs
<1>2. QED
    BY <1>1 DEF SendArc

LEMMA FontArcIs ==
    ASSUME NEW l, NEW k, NEW e, FontArc(l, <<e>>, k)
    PROVE  /\ l \in Final /\ k = l
           /\ \/ e.op = "advance"
              \/ e.op = "glyph" /\ e.upperBit \in BOOLEAN
              \/ e.op = "string" /\ e.sz \in Seq(BOOLEAN)
<1>1. <<e>> = Do("advance") => e.op = "advance"
    BY DoIs
<1>2. ASSUME NEW upperBit \in BOOLEAN, <<e>> = <<[op |-> "glyph", upperBit |-> upperBit]>>
      PROVE  e.op = "glyph" /\ e.upperBit \in BOOLEAN
    <2>1. e = [op |-> "glyph", upperBit |-> upperBit]
        BY <1>2, OneIsOne
    <2>2. QED
        BY <2>1
<1>3. ASSUME NEW sz \in Seq(BOOLEAN), <<e>> = PutString(sz)
      PROVE  e.op = "string" /\ e.sz \in Seq(BOOLEAN)
    <2>1. e = [op |-> "string", sz |-> sz]
        BY <1>3, OneIsOne DEF PutString
    <2>2. QED
        BY <2>1
<1>4. QED
    BY <1>1, <1>2, <1>3 DEF FontArc

(* The device at the next point, for each call of XSpi.                    *)

LEMMA InitializeAt ==
    ASSUME IInv, Main("app"), CfgInitialize
    PROVE  IInv' /\ ~spi'.isBusy /\ DeviceAt("options")'
<1>1. spi \in Spis /\ pc.main = "app"
    BY SpiTypes, MainRuns
<1>2. IInv'
    BY CfgInitializeStep DEF StepCorrect
<1>3. ~spi'.isBusy /\ ~spi'.isStarted /\ ~dev'.dgier /\ pc' = pc
    BY <1>1 DEF CfgInitialize, ResetDevice, Spis
<1>4. QED
    BY <1>1, <1>2, <1>3 DEF DeviceAt, Down

LEMMA OptionsAt ==
    ASSUME IInv, Main("app"), SetOptions, DeviceAt("options")
    PROVE  IInv' /\ ~spi'.isBusy /\ DeviceAt("select")'
<1>1. IInv' /\ spi \in Spis
    BY CheckStep, SpiTypes DEF StepCorrect
<1>2. pc.main = "app" /\ pc'.main = "options" /\ dev' = dev
    BY MainRuns, GotoMain DEF SetOptions, IInv, MainLabels
<1>3. ~spi'.isBusy /\ spi'.isStarted = spi.isStarted /\ spi'.isReady = spi.isReady
    BY <1>1 DEF SetOptions, Spis
<1>4. QED
    BY <1>1, <1>2, <1>3 DEF DeviceAt, Down

LEMMA SelectAt ==
    ASSUME IInv, Main("app"), SetSlaveSelect({0}), DeviceAt("select")
    PROVE  IInv' /\ ~spi'.isBusy /\ DeviceAt("tri")'
<1>1. spi \in Spis /\ pc.main = "app" /\ {0} \in SUBSET Lines /\ {0} \in Selections
    BY SpiTypes, MainRuns, XSpiAssumption, OledAssumption DEF Lines
<1>2. IInv'
    BY <1>1, InstanceStep DEF StepCorrect
<1>3. /\ ~spi'.isBusy /\ spi'.isStarted = spi.isStarted /\ spi'.isReady = spi.isReady
      /\ spi'.slaveSelectReg = {0} /\ UNCHANGED <<dev, pc>>
    BY <1>1 DEF SetSlaveSelect, Spis
<1>4. QED
    BY <1>1, <1>2, <1>3 DEF DeviceAt, Down

LEMMA StartAt ==
    ASSUME IInv, Main("app"), DeviceAt("start"), ~spi.isBusy,
           IF spi.isStarted THEN UNCHANGED vars ELSE Start
    PROVE  IInv' /\ ~spi'.isBusy /\ DeviceAt("mask")'
<1>1. spi \in Spis /\ dev \in Devs /\ pc.main = "app"
    BY SpiTypes, MainRuns
<1>2. CASE ~spi.isStarted
    <2>1. IInv' /\ Start
        BY <1>2, StartStep DEF StepCorrect
    <2>2. /\ ~spi'.isBusy /\ spi'.isStarted /\ spi.isReady /\ spi'.isReady
          /\ spi'.slaveSelectReg = spi.slaveSelectReg /\ pc' = pc
        BY <1>1, <2>1 DEF Start, Spis
    <2>3. dev.cr \subseteq dev'.cr
        BY <1>1, <2>1 DEF Start, IntrEnable, SetControlReg, GetControlReg, ResetFifos, IntrGlobalEnable, Devs
    <2>4. QED
        BY <1>1, <2>1, <2>2, <2>3 DEF DeviceAt, Down
<1>3. CASE spi.isStarted
    <2>1. UNCHANGED <<spi, dev, pc>> /\ IInv'
        BY <1>3, NothingHappens DEF vars
    <2>2. QED
        BY <1>1, <1>3, <2>1 DEF DeviceAt, Down
<1>4. QED
    BY <1>2, <1>3

LEMMA MaskAt ==
    ASSUME IInv, Main("app"), DeviceAt("mask"), ~spi.isBusy,
           dev' = IntrGlobalDisable(dev), UNCHANGED <<spi, pc, intrStatus, byteCount, result>>
    PROVE  IInv' /\ ~spi'.isBusy /\ DeviceAt("pmoden")'
<1>1. dev \in Devs /\ pc.main = "app" /\ spi.isStarted /\ spi.isReady
    BY SpiTypes, MainRuns DEF DeviceAt, Down
<1>2. Mask
    BY <1>1 DEF Mask
<1>3. IInv'
    BY <1>2, MaskStep DEF StepCorrect
<1>4. ~dev'.dgier /\ dev'.cr = dev.cr
    BY <1>1 DEF IntrGlobalDisable, Devs
<1>5. QED
    BY <1>1, <1>3, <1>4 DEF DeviceAt, Down

LEMMA StopAt ==
    ASSUME IInv, Main("app"), NEW l \in {"stop", "end", "off"}, DeviceAt(l), ~spi.isBusy, Stop,
           NEW k \in {"off", "end release"}
    PROVE  IInv' /\ ~spi'.isBusy /\ DeviceAt(k)'
<1>1. IInv'
    BY CheckStep DEF StepCorrect
<1>2. pc'.main = "stop" /\ UNCHANGED <<spi, dev>>
    BY GotoMain DEF Stop, IInv, MainLabels
<1>3. /\ spi.isReady => spi.slaveSelectReg = {0} /\ "MASTER_MODE" \in dev.cr
      /\ ~dev.dgier /\ (spi.isStarted => spi.isReady)
    BY DEF DeviceAt
<1>4. QED
    BY <1>1, <1>2, <1>3 DEF DeviceAt, Down

LEMMA CallInitializeStep ==
    ASSUME OledInv, CallInitialize
    PROVE  OledInv'
<1>1. /\ Main("app") /\ todo # <<>> /\ Head(todo).op = "initialize"
      /\ UNCHANGED <<gpio, sent, cursor, displayOn, function, wanted>>
      /\ IF spi.isStarted THEN UNCHANGED vars ELSE CfgInitialize
      /\ todo' = (IF spi.isStarted THEN <<>> ELSE Configuration) \o Tail(todo)
    BY DEF CallInitialize, Step
<1>2. ~spi.isBusy /\ Shown = displayOn /\ IInv /\ OledTypeOK
    BY <1>1, AtApp
<1>3. PICK l \in Labels, m \in Final : Path(todo, l, m) /\ Holds(l)
    BY DEF OledInv
<1>4. PICK k \in Labels : Arc(l, <<Head(todo)>>, k) /\ Path(Tail(todo), k, m)
    BY <1>1, <1>3, PathHead
<1>5. l = "initialize" /\ k = "tri"
    BY <1>1, <1>4, InitializeArcIs, XSpiArcIs, WriteArcIs, SendArcIs, FontArcIs DEF Arc
<1>6. ASSUME NEW n \in {"tri", "options"},
             IInv', ~spi'.isBusy, DeviceAt(n)', Path(todo', n, m)
      PROVE  OledInv'
    <2>1. n \in Labels
        BY <1>6, AllLabels
    <2>2. PinsAt(n)'
        BY <1>6 DEF PinsAt, Powered
    <2>3. DisplayAt(n)'
        BY <1>1, <1>3, <1>5, <1>6 DEF Holds, DisplayAt, Opening, Dark, On, Cut, End, Shows, Powered
    <2>4. OledTypeOK' /\ TransferInv'
        BY <1>1, <1>2, <1>6 DEF IInv, OledTypeOK, TransferInv
    <2>5. QED
        BY <1>6, <2>1, <2>2, <2>3, <2>4, Goes DEF Holds
<1>7. CASE spi.isStarted
    <2>1. UNCHANGED <<spi, dev, pc>> /\ IInv'
        BY <1>1, <1>2, <1>7, NothingHappens DEF vars
    <2>2. DeviceAt("tri")'
        BY <1>3, <1>5, <2>1 DEF Holds, DeviceAt, Down
    <2>3. Path(todo', "tri", m)
        BY <1>1, <1>4, <1>5, <1>7, AllLabels, PathNil, PathConcat
    <2>4. QED
        BY <1>2, <1>6, <2>1, <2>2, <2>3
<1>8. CASE ~spi.isStarted
    <2>1. IInv' /\ ~spi'.isBusy /\ DeviceAt("options")'
        BY <1>1, <1>2, <1>8, InitializeAt
    <2>2. Path(todo', "options", m)
        BY <1>1, <1>4, <1>5, <1>8, AllLabels, ConfigurationPath, PathConcat
    <2>3. QED
        BY <1>6, <2>1, <2>2
<1>9. QED
    BY <1>7, <1>8

LEMMA CallXSpiStep ==
    ASSUME OledInv, CallXSpi
    PROVE  OledInv'
<1>1. /\ Main("app") /\ todo # <<>> /\ todo' = Tail(todo)
      /\ UNCHANGED <<gpio, sent, cursor, displayOn, function, wanted>>
    BY DEF CallXSpi, Step, Then
<1>2. ~spi.isBusy /\ Shown = displayOn /\ IInv /\ OledTypeOK
    BY <1>1, AtApp
<1>3. PICK l \in Labels, m \in Final : Path(todo, l, m) /\ Holds(l)
    BY DEF OledInv
<1>4. PICK k \in Labels : Arc(l, <<Head(todo)>>, k) /\ Path(Tail(todo), k, m)
    BY <1>1, <1>3, PathHead
<1>5. Head(todo).op \in {"options", "select", "start", "stop", "mask"}
    BY DEF CallXSpi, Step
<1>6. XSpiArc(l, <<Head(todo)>>, k)
    BY <1>4, <1>5, InitializeArcIs, WriteArcIs, SendArcIs, FontArcIs DEF Arc
<1>7. /\ Head(todo).op = "options" => l = "options" /\ k = "select"
      /\ Head(todo).op = "select" => l = "select" /\ k = "tri"
      /\ Head(todo).op = "start" => l = "start" /\ k = "mask"
      /\ Head(todo).op = "mask" => l = "mask" /\ k = "pmoden"
      /\ Head(todo).op = "stop" => l \in {"stop", "end", "off"} /\ k \in {"off", "end release"}
    BY <1>6, XSpiArcIs
<1>8. DeviceAt(l) /\ PinsAt(l) /\ DisplayAt(l)
    BY <1>3 DEF Holds
<1>9. IInv' /\ ~spi'.isBusy /\ DeviceAt(k)'
    <2>2. CASE Step("options") /\ SetOptions
        BY <1>1, <1>2, <1>7, <1>8, <2>2, OptionsAt DEF Step
    <2>3. CASE Step("select") /\ SetSlaveSelect({0})
        BY <1>1, <1>2, <1>7, <1>8, <2>3, SelectAt DEF Step
    <2>4. CASE Step("start") /\ IF spi.isStarted THEN UNCHANGED vars ELSE Start
        BY <1>1, <1>2, <1>7, <1>8, <2>4, StartAt DEF Step
    <2>5. CASE Step("stop") /\ IF spi.isBusy THEN UNCHANGED vars ELSE Stop
        BY <1>1, <1>2, <1>7, <1>8, <2>5, StopAt DEF Step
    <2>6. CASE /\ Step("mask") /\ dev' = IntrGlobalDisable(dev)
               /\ UNCHANGED <<spi, pc, intrStatus, byteCount, result>>
        BY <1>1, <1>2, <1>7, <1>8, <2>6, MaskAt DEF Step
    <2>7. QED
        BY <2>2, <2>3, <2>4, <2>5, <2>6 DEF CallXSpi
<1>10. Shown' = Shown
    BY <1>1, <1>2, <1>9 DEF Shown
<1>11. PinsAt(k)' /\ DisplayAt(k)'
    BY <1>1, <1>6, <1>8, <1>10, XSpiArcHolds
<1>12. OledTypeOK' /\ TransferInv'
    BY <1>1, <1>2, <1>9 DEF IInv, OledTypeOK, TransferInv
<1>13. QED
    BY <1>1, <1>4, <1>9, <1>11, <1>12, Goes DEF Holds

-----------------------------------------------------------------------------
(* Writing the pins.                                                       *)

Gpios == [data : SUBSET Pins, tri : SUBSET Pins]

LEMMA WriteEffect ==
    ASSUME gpio \in Gpios, WritePins, NEW bits \in SUBSET Pins
    PROVE  /\ <<Head(todo)>> = Write("data", bits) => gpio'.data = bits /\ gpio'.tri = gpio.tri
           /\ <<Head(todo)>> = Write("tri", bits) => gpio'.data = gpio.data /\ gpio'.tri = bits
           /\ <<Head(todo)>> = WriteAnd("data", bits) => 
                 gpio'.data = gpio.data \cap bits /\ gpio'.tri = gpio.tri
           /\ <<Head(todo)>> = WriteAnd("tri", bits) => 
                 gpio'.data = gpio.data /\ gpio'.tri = gpio.tri \cap bits
           /\ <<Head(todo)>> = WriteOr("data", bits) => 
                 gpio'.data = gpio.data \cup bits /\ gpio'.tri = gpio.tri
           /\ <<Head(todo)>> = WriteOr("tri", bits) => 
                 gpio'.data = gpio.data /\ gpio'.tri = gpio.tri \cup bits
<1> DEFINE w == Head(todo)
<1>1. gpio' = [gpio EXCEPT ![w.reg] = (gpio[w.reg] \cap w.and) \cup w.or]
    BY DEF WritePins
<1>2. \A reg :
        /\ <<w>> = Write(reg, bits) => w.reg = reg /\ w.and = {} /\ w.or = bits
        /\ <<w>> = WriteAnd(reg, bits) => w.reg = reg /\ w.and = bits /\ w.or = {}
        /\ <<w>> = WriteOr(reg, bits) => w.reg = reg /\ w.and = Pins /\ w.or = bits
    BY WriteIs
<1> HIDE DEF w
<1>3. /\ gpio.data \in SUBSET Pins /\ gpio.tri \in SUBSET Pins
      /\ gpio["data"] = gpio.data /\ gpio["tri"] = gpio.tri
    BY DEF Gpios
<1>4. w.reg = "data" => gpio'.data = (gpio.data \cap w.and) \cup w.or /\ gpio'.tri = gpio.tri
    BY <1>1 DEF Gpios
<1>5. w.reg = "tri" => gpio'.tri = (gpio.tri \cap w.and) \cup w.or /\ gpio'.data = gpio.data
    BY <1>1 DEF Gpios
<1>6. \A g \in SUBSET Pins :
        (g \cap {}) \cup bits = bits /\ (g \cap bits) \cup {} = g \cap bits
        /\ (g \cap Pins) \cup bits = g \cup bits
    OBVIOUS
<1>7. /\ <<w>> = Write("data", bits) => gpio'.data = bits /\ gpio'.tri = gpio.tri
      /\ <<w>> = Write("tri", bits) => gpio'.data = gpio.data /\ gpio'.tri = bits
    BY <1>2, <1>3, <1>4, <1>5, <1>6
<1>8. /\ <<w>> = WriteAnd("data", bits) => gpio'.data = gpio.data \cap bits /\ gpio'.tri = gpio.tri
      /\ <<w>> = WriteAnd("tri", bits) => gpio'.data = gpio.data /\ gpio'.tri = gpio.tri \cap bits
    BY <1>2, <1>3, <1>4, <1>5, <1>6
<1>9. /\ <<w>> = WriteOr("data", bits) => gpio'.data = gpio.data \cup bits /\ gpio'.tri = gpio.tri
      /\ <<w>> = WriteOr("tri", bits) => gpio'.data = gpio.data /\ gpio'.tri = gpio.tri \cup bits
    BY <1>2, <1>3, <1>4, <1>5, <1>6
<1>10. QED
    BY <1>7, <1>8, <1>9 DEF w

LEMMA WriteTypes ==
    ASSUME gpio \in Gpios, WritePins, Head(todo) \in Ops
    PROVE  gpio' \in Gpios
<1> DEFINE w == Head(todo)
<1>1. gpio' = [gpio EXCEPT ![w.reg] = (gpio[w.reg] \cap w.and) \cup w.or] /\ w.op = "write"
    BY DEF WritePins, Step
<1>2. w \in Accesses
    BY <1>1 DEF Ops, Transfers, Calls, Glyphs, Texts
<1> HIDE DEF w
<1>3. w.reg \in {"data", "tri"} /\ w.and \in SUBSET Pins /\ w.or \in SUBSET Pins
    BY <1>2 DEF Accesses
<1>4. CASE w.reg = "data"
    BY <1>1, <1>3, <1>4 DEF Gpios
<1>5. CASE w.reg = "tri"
    BY <1>1, <1>3, <1>5 DEF Gpios
<1>6. QED
    BY <1>3, <1>4, <1>5

LEMMA WriteArcEffect ==
    ASSUME gpio \in Gpios, WritePins, NEW l, NEW k, WriteArc(l, <<Head(todo)>>, k)
    PROVE  \/ l = "tri" /\ k = "data" /\ gpio'.tri = {}
           \/ l = "data" /\ k = "start" /\ gpio'.tri = gpio.tri
           \/ l = "pmoden" /\ k = "reset" /\ gpio'.tri = gpio.tri
           \/ l = "reset" /\ k = "run" /\ gpio'.data = {"PMODEN"} /\ gpio'.tri = gpio.tri
           \/ l = "run" /\ k = "setup" /\ gpio'.data = {"RES", "PMODEN"} /\ gpio'.tri = gpio.tri
           \/ /\ l = "vccen" /\ k = "switchOn"
              /\ gpio'.data = {"RES", "VCCEN", "PMODEN"} /\ gpio'.tri = gpio.tri
           \/ /\ l = "tri on" /\ k = "vccen on"
              /\ gpio'.data = gpio.data /\ gpio'.tri = gpio.tri \ {"VCCEN"}
           \/ /\ l = "vccen on" /\ k = "switchOn"
              /\ gpio'.data = gpio.data \cup {"VCCEN"} /\ gpio'.tri = gpio.tri
           \/ /\ l = "cut" /\ k \in {"float", "stop"}
              /\ gpio'.data = gpio.data \ {"VCCEN"} /\ gpio'.tri = gpio.tri
           \/ /\ l = "float" /\ k = "live"
              /\ gpio'.data = gpio.data /\ gpio'.tri = gpio.tri \cup {"VCCEN"}
           \/ l = "end release" /\ k = "off" /\ gpio'.data = {"DC", "RES"}
           \/ l = "off" /\ k = "off"
           \/ l = "live" /\ k = "pixels" /\ gpio'.data = Pins /\ gpio'.tri = gpio.tri
           \/ /\ l = "pixels" /\ k = "live"
              /\ gpio'.data = {"RES", "VCCEN", "PMODEN"} /\ gpio'.tri = gpio.tri
<1>1. /\ {} \in SUBSET Pins /\ {"RES", "PMODEN"} \in SUBSET Pins /\ {"PMODEN"} \in SUBSET Pins
      /\ {"RES", "VCCEN", "PMODEN"} \in SUBSET Pins /\ {"VCCEN"} \in SUBSET Pins
      /\ {"DC", "RES"} \in SUBSET Pins /\ Pins \in SUBSET Pins /\ Pins \ {"VCCEN"} \in SUBSET Pins
    BY DEF Pins
<1>2. \A g \in SUBSET Pins : g \cap (Pins \ {"VCCEN"}) = g \ {"VCCEN"}
    OBVIOUS
<1>3. gpio.data \in SUBSET Pins /\ gpio.tri \in SUBSET Pins
    BY DEF Gpios
<1>4. \A bits \in SUBSET Pins :
        /\ <<Head(todo)>> = Write("data", bits) => gpio'.data = bits /\ gpio'.tri = gpio.tri
        /\ <<Head(todo)>> = Write("tri", bits) => gpio'.data = gpio.data /\ gpio'.tri = bits
        /\ <<Head(todo)>> = WriteAnd("data", bits) => 
              gpio'.data = gpio.data \cap bits /\ gpio'.tri = gpio.tri
        /\ <<Head(todo)>> = WriteAnd("tri", bits) => 
              gpio'.data = gpio.data /\ gpio'.tri = gpio.tri \cap bits
        /\ <<Head(todo)>> = WriteOr("data", bits) => 
              gpio'.data = gpio.data \cup bits /\ gpio'.tri = gpio.tri
        /\ <<Head(todo)>> = WriteOr("tri", bits) => 
              gpio'.data = gpio.data /\ gpio'.tri = gpio.tri \cup bits
    BY WriteEffect
<1> DEFINE s == <<Head(todo)>>
<1>5. /\ s = Write("tri", {}) => gpio'.tri = {}
      /\ s = Write("data", {"RES", "PMODEN"})
            => gpio'.data = {"RES", "PMODEN"} /\ gpio'.tri = gpio.tri
      /\ s = Write("data", {"PMODEN"}) => gpio'.data = {"PMODEN"} /\ gpio'.tri = gpio.tri
      /\ s = Write("data", {"RES", "VCCEN", "PMODEN"})
            => gpio'.data = {"RES", "VCCEN", "PMODEN"} /\ gpio'.tri = gpio.tri
      /\ s = Write("data", {"DC", "RES"}) => gpio'.data = {"DC", "RES"}
      /\ s = Write("data", Pins) => gpio'.data = Pins /\ gpio'.tri = gpio.tri
    BY <1>1, <1>4
<1>6. /\ s = WriteAnd("tri", Pins \ {"VCCEN"})
            => gpio'.data = gpio.data /\ gpio'.tri = gpio.tri \ {"VCCEN"}
      /\ s = WriteAnd("data", Pins \ {"VCCEN"})
            => gpio'.data = gpio.data \ {"VCCEN"} /\ gpio'.tri = gpio.tri
      /\ s = WriteOr("data", {"VCCEN"})
            => gpio'.data = gpio.data \cup {"VCCEN"} /\ gpio'.tri = gpio.tri
      /\ s = WriteOr("tri", {"VCCEN"})
            => gpio'.data = gpio.data /\ gpio'.tri = gpio.tri \cup {"VCCEN"}
    BY <1>1, <1>2, <1>3, <1>4
<1> HIDE DEF s
<1>7. WriteArc(l, s, k)
    BY DEF s
<1>8. CASE l \in {"tri", "data", "pmoden", "reset", "run", "vccen"}
    <2>1. CASE l = "tri"
        BY <1>5, <1>7, <2>1 DEF WriteArc
    <2>2. CASE l = "data"
        BY <1>5, <1>7, <2>2 DEF WriteArc
    <2>3. CASE l = "pmoden"
        <3>1. s = Write("data", {"RES", "PMODEN"}) /\ k = "reset"
            BY <1>7, <2>3 DEF WriteArc
        <3>2. gpio'.tri = gpio.tri
            BY <1>5, <3>1
        <3>3. QED
            BY <2>3, <3>1, <3>2
    <2>4. CASE l = "reset"
        BY <1>5, <1>7, <2>4 DEF WriteArc
    <2>5. CASE l = "run"
        BY <1>5, <1>7, <2>5 DEF WriteArc
    <2>6. CASE l = "vccen"
        BY <1>5, <1>7, <2>6 DEF WriteArc
    <2>7. QED
        BY <1>8, <2>1, <2>2, <2>3, <2>4, <2>5, <2>6
<1>9. CASE l \in {"tri on", "vccen on", "cut", "float"}
    BY <1>6, <1>7, <1>9 DEF WriteArc
<1>10. CASE l \in {"end release", "off"}
    <2>1. l = "end release" => gpio'.data = {"DC", "RES"} /\ k = "off"
        BY <1>5, <1>7 DEF WriteArc
    <2>2. l = "off" => k = "off"
        BY <1>7 DEF WriteArc
    <2>3. QED
        BY <1>10, <2>1, <2>2
<1>11. CASE l \in {"live", "pixels"}
    <2>1. CASE l = "live"
        BY <1>5, <1>7, <2>1 DEF WriteArc
    <2>2. CASE l = "pixels"
        BY <1>5, <1>7, <2>2 DEF WriteArc
    <2>3. QED
        BY <1>11, <2>1, <2>2
<1>12. QED
    BY <1>7, <1>8, <1>9, <1>10, <1>11 DEF WriteArc

(* The controller runs on only as long as it is powered and not reset.     *)
LEMMA WriteDisplay ==
    ASSUME WritePins, displayOn \in BOOLEAN
    PROVE  /\ displayOn' \in BOOLEAN
           /\ displayOn = FALSE => displayOn' = FALSE
           /\ displayOn' = TRUE => {"RES", "PMODEN"} \subseteq High(gpio')
           /\ {"RES", "PMODEN"} \subseteq High(gpio') => displayOn' = displayOn
<1>1. displayOn' = (displayOn /\ {"RES", "PMODEN"} \subseteq High(gpio'))
    BY DEF WritePins
<1>2. CASE displayOn = FALSE
    BY <1>1, <1>2
<1>3. CASE displayOn = TRUE
    BY <1>1, <1>3
<1>4. QED
    BY <1>2, <1>3

LEMMA WriteAt ==
    ASSUME gpio \in Gpios, WritePins, pc.main = "app", displayOn \in BOOLEAN,
           Shown = displayOn, Shown' = displayOn', UNCHANGED <<vars, function, wanted>>,
           NEW l, NEW k, WriteArc(l, <<Head(todo)>>, k), Holds(l)
    PROVE  Holds(k)'
<1>1. DeviceAt(l) /\ PinsAt(l) /\ DisplayAt(l)
    BY DEF Holds
<1>2. /\ displayOn' \in BOOLEAN
      /\ displayOn = FALSE => displayOn' = FALSE
      /\ displayOn' = TRUE => {"RES", "PMODEN"} \subseteq High(gpio')
      /\ {"RES", "PMODEN"} \subseteq High(gpio') => displayOn' = displayOn
    BY WriteDisplay
<1>3. gpio.data \in SUBSET Pins /\ gpio.tri \in SUBSET Pins
    BY DEF Gpios
<1>4. UNCHANGED <<spi, dev, pc>>
    BY DEF vars
<1>5. /\ l \in Down <=> k \in Down
      /\ l \in {"initialize", "tri", "data", "start"} <=> k \in {"initialize", "tri", "data", "start"}
      /\ {l, k} \cap {"options", "select", "mask"} = {}
    BY WriteArcEffect DEF Down
<1>6. DeviceAt(k)'
    BY <1>1, <1>4, <1>5 DEF DeviceAt
<1> USE DEF High
<1>7. CASE l \in {"tri", "data", "pmoden", "reset"}
    <2>1. \/ l = "tri" /\ k = "data" /\ gpio'.tri = {}
          \/ /\ l \in {"data", "pmoden"} /\ k \in {"start", "reset"}
             /\ gpio'.tri = gpio.tri
          \/ l = "reset" /\ k = "run" /\ gpio'.data = {"PMODEN"} /\ gpio'.tri = gpio.tri
        BY <1>7, WriteArcEffect
    <2>2. PinsAt(k)'
        BY <1>1, <2>1 DEF PinsAt, Powered
    <2>3. k = "run" => displayOn' = FALSE
        BY <1>2, <2>1
    <2>4. DisplayAt(k)'
        BY <1>1, <2>1, <2>3 DEF DisplayAt, Opening, Dark, On, Cut, End, Shows, Powered
    <2>5. QED
        BY <1>6, <2>2, <2>4 DEF Holds
<1>8. CASE l \in {"run", "vccen"}
    <2>1. /\ gpio'.tri = {} /\ displayOn = FALSE /\ wanted = TRUE
          /\ \/ l = "run" /\ k = "setup" /\ gpio'.data = {"RES", "PMODEN"}
             \/ l = "vccen" /\ k = "switchOn" /\ gpio'.data = {"RES", "VCCEN", "PMODEN"}
        BY <1>1, <1>8, WriteArcEffect DEF PinsAt, DisplayAt, Dark, On
    <2>2. PinsAt(k)'
        BY <2>1 DEF PinsAt, Powered, Low, Pins
    <2>3. DisplayAt(k)'
        BY <1>2, <2>1 DEF DisplayAt, Opening, Dark, On, Cut, End, Shows, Powered
    <2>4. QED
        BY <1>6, <2>1, <2>2, <2>3 DEF Holds
<1>9. CASE l \in {"tri on", "vccen on"}
    <2>1. \/ /\ l = "tri on" /\ k = "vccen on"
             /\ gpio'.data = gpio.data /\ gpio'.tri = gpio.tri \ {"VCCEN"}
          \/ /\ l = "vccen on" /\ k = "switchOn"
             /\ gpio'.data = gpio.data \cup {"VCCEN"} /\ gpio'.tri = gpio.tri
        BY <1>9, WriteArcEffect
    <2>2. /\ wanted = TRUE /\ {"RES", "PMODEN"} \subseteq High(gpio) /\ "DC" \in Low(gpio)
          /\ l = "vccen on" => "VCCEN" \notin gpio.tri
          /\ displayOn = TRUE => "VCCEN" \in High(gpio)
        BY <1>1, <1>9 DEF PinsAt, DisplayAt, On, Powered
    <2>3. /\ {"RES", "PMODEN"} \subseteq High(gpio)' /\ "DC" \in Low(gpio)'
          /\ "VCCEN" \in High(gpio) => "VCCEN" \in High(gpio)'
          /\ k = "switchOn" => "VCCEN" \in High(gpio)'
          /\ "VCCEN" \notin gpio'.tri
        BY <2>1, <2>2 DEF Low, Pins
    <2>4. PinsAt(k)'
        BY <2>1, <2>3 DEF PinsAt, Powered
    <2>5. DisplayAt(k)'
        BY <1>2, <2>1, <2>2, <2>3 DEF DisplayAt, Opening, Dark, On, Cut, End, Shows, Powered
    <2>6. QED
        BY <1>6, <2>3, <2>4, <2>5 DEF Holds
<1>10. CASE l \in {"cut", "float"}
    <2>1. \/ /\ l = "cut" /\ k \in {"float", "stop"}
             /\ gpio'.data = gpio.data \ {"VCCEN"} /\ gpio'.tri = gpio.tri
          \/ /\ l = "float" /\ k = "live"
             /\ gpio'.data = gpio.data /\ gpio'.tri = gpio.tri \cup {"VCCEN"}
        BY <1>10, WriteArcEffect
    <2>2. /\ wanted = FALSE /\ {"RES", "PMODEN"} \subseteq High(gpio) /\ "DC" \in Low(gpio)
          /\ displayOn = FALSE
        BY <1>1, <1>10 DEF PinsAt, DisplayAt, Cut, Powered
    <2>3. {"RES", "PMODEN"} \subseteq High(gpio)' /\ "DC" \in Low(gpio)'
        BY <2>1, <2>2 DEF Low, Pins
    <2>4. PinsAt(k)'
        BY <2>1, <2>3 DEF PinsAt, Powered
    <2>5. DisplayAt(k)'
        BY <1>2, <2>1, <2>2 DEF DisplayAt, Opening, Dark, On, Cut, End, Shows, Powered
    <2>6. QED
        BY <1>6, <2>2, <2>4, <2>5 DEF Holds
<1>11. CASE l = "off"
    <2>1. k = "off"
        BY <1>11, WriteArcEffect
    <2>2. wanted = FALSE /\ displayOn = FALSE
        BY <1>1, <1>11 DEF DisplayAt, Cut
    <2>3. PinsAt(k)'
        BY <2>1 DEF PinsAt, Powered
    <2>4. DisplayAt(k)'
        BY <1>2, <2>1, <2>2 DEF DisplayAt, Opening, Dark, On, Cut, End, Shows, Powered
    <2>5. QED
        BY <1>6, <2>3, <2>4 DEF Holds
<1>12. CASE l = "end release"
    <2>1. k = "off"
        BY <1>12, WriteArcEffect
    <2>7. gpio'.data = {"DC", "RES"}
        BY <1>12, WriteArcEffect
    <2>2. wanted = FALSE
        BY <1>1, <1>12 DEF DisplayAt, End
    <2>3. displayOn' = FALSE
        BY <1>2, <2>7
    <2>4. PinsAt(k)'
        BY <2>1 DEF PinsAt, Powered
    <2>5. DisplayAt(k)'
        BY <2>1, <2>2, <2>3 DEF DisplayAt, Opening, Dark, On, Cut, End, Shows, Powered
    <2>6. QED
        BY <1>6, <2>4, <2>5 DEF Holds
<1>13. CASE l \in {"live", "pixels"}
    <2>1. /\ gpio'.tri = gpio.tri
          /\ \/ l = "live" /\ k = "pixels" /\ gpio'.data = Pins
             \/ l = "pixels" /\ k = "live" /\ gpio'.data = {"RES", "VCCEN", "PMODEN"}
        BY <1>13, WriteArcEffect
    <2>2. /\ {"RES", "PMODEN"} \subseteq High(gpio)
          /\ "DC" \in (IF l = "pixels" THEN High(gpio) ELSE Low(gpio))
          /\ displayOn = TRUE => "VCCEN" \in High(gpio)
          /\ displayOn = wanted
        BY <1>1, <1>13 DEF PinsAt, DisplayAt, Shows, Powered
    <2>3. "DC" \notin gpio.tri
        BY <1>13, <2>2 DEF Low, Pins
    <2>4. /\ {"RES", "PMODEN"} \subseteq High(gpio)'
          /\ "DC" \in (IF k = "pixels" THEN High(gpio)' ELSE Low(gpio)')
          /\ "VCCEN" \in High(gpio) => "VCCEN" \in High(gpio)'
        BY <2>1, <2>2, <2>3 DEF Low, Pins
    <2>5. PinsAt(k)'
        BY <2>1, <2>4 DEF PinsAt, Powered
    <2>6. DisplayAt(k)'
        BY <1>2, <2>1, <2>2, <2>4 DEF DisplayAt, Opening, Dark, On, Cut, End, Shows, Powered
    <2>7. QED
        BY <1>6, <2>4, <2>5, <2>6 DEF Holds
<1>14. QED
    BY <1>7, <1>8, <1>9, <1>10, <1>11, <1>12, <1>13, WriteArcEffect

LEMMA WritePinsStep ==
    ASSUME OledInv, WritePins
    PROVE  OledInv'
<1>1. /\ Main("app") /\ todo # <<>> /\ todo' = Tail(todo) /\ Head(todo).op = "write"
      /\ UNCHANGED <<vars, sent, cursor, function, wanted>>
    BY DEF WritePins, Step, Then
<1>2. pc.main = "app" /\ ~spi.isBusy /\ Shown = displayOn /\ IInv /\ OledTypeOK
    BY <1>1, AtApp
<1>3. UNCHANGED <<spi, dev, pc, intrStatus, byteCount, result>>
    BY <1>1 DEF vars
<1>4. PICK l \in Labels, m \in Final : Path(todo, l, m) /\ Holds(l)
    BY DEF OledInv
<1>5. PICK k \in Labels : Arc(l, <<Head(todo)>>, k) /\ Path(Tail(todo), k, m)
    BY <1>1, <1>4, PathHead
<1>6. WriteArc(l, <<Head(todo)>>, k)
    BY <1>1, <1>5, InitializeArcIs, XSpiArcIs, SendArcIs, FontArcIs DEF Arc
<1>7. gpio \in Gpios /\ displayOn \in BOOLEAN
    BY <1>2 DEF OledTypeOK, Gpios
<1>8. Shown' = displayOn'
    BY <1>2, <1>3 DEF Shown
<1>9. Holds(k)'
    BY <1>1, <1>2, <1>4, <1>6, <1>7, <1>8, WriteAt
<1>10. IInv'
    BY <1>1, <1>2, NothingHappens
<1>11. gpio' \in Gpios
    BY <1>1, <1>4, <1>7, PathHead, WriteTypes
<1>12. OledTypeOK' /\ TransferInv'
    BY <1>1, <1>2, <1>3, <1>7, <1>10, <1>11, WriteDisplay DEF IInv, OledTypeOK, TransferInv, Gpios
<1>13. QED
    BY <1>1, <1>5, <1>9, <1>10, <1>12, Goes

-----------------------------------------------------------------------------
(* Transfers.                                                              *)

LEMMA SwitchFacts ==
    /\ DOMAIN Nothing = {} /\ DOMAIN CMD_SETUP = {3} /\ CMD_SETUP[3] = FALSE
    /\ 1 \notin DOMAIN Nothing /\ 1 \notin DOMAIN CMD_SETUP
    /\ DOMAIN CMD_DISPLAYON = {1} /\ CMD_DISPLAYON[1] = TRUE
    /\ DOMAIN CMD_DISPLAYOFF = {1} /\ CMD_DISPLAYOFF[1] = FALSE
    /\ Nothing # CMD_SETUP /\ CMD_DISPLAYON # CMD_SETUP /\ CMD_DISPLAYOFF # CMD_SETUP
<1>1. DOMAIN Nothing = {}
    BY DEF Nothing
<1>2. DOMAIN CMD_SETUP = {3} /\ CMD_SETUP[3] = FALSE
    BY DEF CMD_SETUP
<1>3. DOMAIN CMD_DISPLAYON = {1} /\ CMD_DISPLAYON[1] = TRUE
    BY DEF CMD_DISPLAYON
<1>4. DOMAIN CMD_DISPLAYOFF = {1} /\ CMD_DISPLAYOFF[1] = FALSE
    BY DEF CMD_DISPLAYOFF
<1>5. {} # {3} /\ {1} # {3}
    OBVIOUS
<1>6. 1 \notin {} /\ 1 \notin {3}
    OBVIOUS
<1>7. QED
    BY <1>1, <1>2, <1>3, <1>4, <1>5, <1>6

LEMMA NoNoSlave ==
    ASSUME spi.slaveSelectReg = {0}
    PROVE  ~NoSlave(dev)
<1>1. 0 \in Slaves
    BY XSpiAssumption DEF Slaves
<1>2. QED
    BY <1>1 DEF NoSlave, SlaveSelectMask

LEMMA BeginEffect ==
    ASSUME IInv, Main("app"), NEW n \in Bytes, "MASTER_MODE" \in dev.cr, ~dev.dgier, Begin("main", n)
    PROVE  /\ IInv' /\ spi'.isBusy /\ pc'.main = "wait" /\ Through' = 0
           /\ spi'.isReady = spi.isReady /\ spi'.isStarted = spi.isStarted
           /\ spi'.slaveSelectReg = spi.slaveSelectReg /\ dev'.ssr = spi.slaveSelectReg
           /\ "MASTER_MODE" \in dev'.cr /\ ~dev'.dgier
<1> DEFINE s == [spi EXCEPT !.isBusy = TRUE, !.requested = n, !.remaining = n, !.recv = <<>>]
           d0 == GetStatusReg(IntrGlobalDisable(dev))
<1>1. spi \in Spis /\ dev \in Devs /\ n \in 0..MaxBytes /\ n \in Nat
    BY SpiTypes, XSpiAssumption DEF Bytes
<1>2. ~spi.isBusy /\ dev.tx = <<>> /\ dev.rx = <<>>
    BY DEF IInv, IdleIsQuiet, Begin, Accepts
<1>3. Transfer("main", n)
    BY DEF Transfer, Main, InterruptsNoCall
<1>4. IInv'
    BY <1>3, TransferStep DEF StepCorrect
<1>5. /\ s \in Spis /\ s.requested = n /\ s.remaining = n /\ s.recv = <<>> /\ s.isBusy
      /\ s.isReady = spi.isReady /\ s.isStarted = spi.isStarted
      /\ s.slaveSelectReg = spi.slaveSelectReg
    BY <1>1, NothingNumbered DEF Spis
<1>6. d0 \in Devs /\ d0.tx = <<>> /\ d0.rx = <<>> /\ ~d0.dgier /\ d0.cr = dev.cr
    BY <1>1, <1>2 DEF GetStatusReg, IntrGlobalDisable, Devs
<1>7. Filled(s, d0) = [d0 EXCEPT !.tx = Filled(s, d0).tx] /\ Filled(s, d0).tx \in Seq(Bytes)
    <2>1. n <= n
        BY <1>1
    <2>2. QED
        BY <1>5, <1>6, <2>1, FilledBytes DEF IInv
<1>8. /\ spi' = [s EXCEPT !.remaining = @ - FillCount(s, dev)]
      /\ dev' = LET selected == SetSlaveSelectReg(Filled(s, d0), s.slaveSelectReg)
                IN  SetControlReg(selected, GetControlReg(selected) \ {"TRANS_INHIBIT"})
      /\ Goto("main", IF IsIntrGlobalEnabled(dev) THEN "interrupts" ELSE "wait")
    BY DEF Begin, Taken
<1> HIDE DEF s, d0
<1>9. /\ spi'.isBusy /\ spi'.recv = <<>>
      /\ spi'.isReady = spi.isReady /\ spi'.isStarted = spi.isStarted
      /\ spi'.slaveSelectReg = spi.slaveSelectReg
    BY <1>5, <1>8 DEF Spis
<1>10. s.slaveSelectReg \in SUBSET Lines
    BY <1>5 DEF Spis
<1>11. dev'.rx = <<>> /\ ~dev'.dgier /\ dev'.cr = dev.cr \ {"TRANS_INHIBIT"}
       /\ dev'.ssr = s.slaveSelectReg
    BY <1>6, <1>7, <1>8, <1>10 DEF SetSlaveSelectReg, SetControlReg, GetControlReg, Devs
<1>12. InBuffer' = 0 /\ InReceiver' = 0 /\ 0 + 0 = 0
    BY <1>9, <1>11, NothingNumbered DEF InBuffer, InReceiver
<1>13. Through' = 0
    BY <1>12 DEF Through
<1>14. pc'.main = "wait"
    BY <1>8, GotoMain DEF IInv, MainLabels, IsIntrGlobalEnabled
<1>15. QED
    BY <1>4, <1>5, <1>9, <1>11, <1>13, <1>14

(* The display at the next point, once it has taken the first byte.        *)
LEMMA SendAt ==
    ASSUME NEW l, NEW k, NEW e, SendArc(l, <<e>>, k), l # "off", PinsAt(l), DisplayAt(l),
           UNCHANGED <<gpio, function, wanted, displayOn>>, Shown = displayOn,
           Shown' = IF 1 \in DOMAIN e.switch THEN e.switch[1] ELSE displayOn
    PROVE  /\ l \notin NotSet
           /\ k \notin NotSet
           /\ PinsAt(k)' /\ DisplayAt(k)'
           /\ {"RES", "PMODEN"} \subseteq High(gpio)
           /\ "DC" \in (IF e.kind = "pixels" THEN High(gpio) ELSE Low(gpio))
           /\ e.kind = "pixels" => e.switch = Nothing
           /\ e.switch = CMD_SETUP => displayOn = FALSE
<1>1. \/ l = "setup" /\ k = "clear" /\ e.kind = "commands" /\ e.switch = CMD_SETUP
      \/ l = "clear" /\ k = "vccen" /\ e.kind = "commands" /\ e.switch = Nothing
      \/ l = "switchOn" /\ k = "live" /\ e.kind = "commands" /\ e.switch = CMD_DISPLAYON
      \/ l = "switchOff" /\ k = "cut" /\ e.kind = "commands" /\ e.switch = CMD_DISPLAYOFF
      \/ l = "live" /\ k = "live" /\ e.kind = "commands" /\ e.switch = Nothing
      \/ l = "pixels" /\ k = "pixels" /\ e.kind = "pixels" /\ e.switch = Nothing
    BY SendArcIs
<1> USE DEF PinsAt, DisplayAt, Opening, Dark, On, Cut, End, Shows, Powered, Down, NotSet
<1>2. /\ e.switch \in {Nothing, CMD_SETUP} => Shown' = displayOn
      /\ e.switch = CMD_DISPLAYON => Shown' = TRUE
      /\ e.switch = CMD_DISPLAYOFF => Shown' = FALSE
    <2> DEFINE first == e.switch[1]
    <2>1. 1 \in DOMAIN e.switch => Shown' = first
        OBVIOUS
    <2>2. 1 \notin DOMAIN e.switch => Shown' = displayOn
        OBVIOUS
    <2>3. e.switch = CMD_DISPLAYON => 1 \in DOMAIN e.switch /\ first = TRUE
        BY SwitchFacts
    <2>4. e.switch = CMD_DISPLAYOFF => 1 \in DOMAIN e.switch /\ first = FALSE
        BY SwitchFacts
    <2>5. e.switch \in {Nothing, CMD_SETUP} => 1 \notin DOMAIN e.switch
        BY SwitchFacts, Zenon
    <2> HIDE DEF first
    <2>6. QED
        BY <2>1, <2>2, <2>3, <2>4, <2>5
<1>3. CASE l \in {"setup", "clear"}
    BY <1>1, <1>2, <1>3, SwitchFacts
<1>4. CASE l = "switchOn"
    BY <1>1, <1>2, <1>4, SwitchFacts
<1>5. CASE l = "switchOff"
    BY <1>1, <1>2, <1>5, SwitchFacts
<1>6. CASE l \in {"live", "pixels"}
    BY <1>1, <1>2, <1>6, SwitchFacts
<1>7. QED
    BY <1>1, <1>3, <1>4, <1>5, <1>6

LEMMA CallTransferStep ==
    ASSUME OledInv, CallTransfer
    PROVE  OledInv'
<1>1. /\ Main("app") /\ todo # <<>> /\ todo' = Tail(todo) /\ Head(todo).op = "send"
      /\ UNCHANGED <<gpio, cursor, displayOn, function, wanted>>
    BY DEF CallTransfer, Step, Then
<1>2. pc.main = "app" /\ ~spi.isBusy /\ Shown = displayOn /\ IInv /\ OledTypeOK
    BY <1>1, AtApp
<1>3. PICK l \in Labels, m \in Final : Path(todo, l, m) /\ Holds(l)
    BY DEF OledInv
<1>4. PICK k \in Labels : Arc(l, <<Head(todo)>>, k) /\ Path(Tail(todo), k, m)
    BY <1>1, <1>3, PathHead
<1>5. SendArc(l, <<Head(todo)>>, k)
    BY <1>1, <1>4, InitializeArcIs, XSpiArcIs, WriteArcIs, FontArcIs DEF Arc
<1>6. Head(todo) \in Transfers /\ Head(todo).n \in Bytes
    <2>1. Head(todo) \in Ops
        BY <1>1, <1>3, PathHead
    <2>2. Head(todo) \in Transfers
        BY <1>1, <2>1 DEF Ops, Accesses, Calls, Glyphs, Texts
    <2>3. QED
        BY <2>2 DEF Transfers
<1>7. DeviceAt(l) /\ PinsAt(l) /\ DisplayAt(l)
    BY <1>3 DEF Holds
<1>8. CASE l = "off"
    <2>1. k = "off"
        BY <1>5, <1>8, SendArcIs
    <2>2. ~Accepts
        BY <1>2, <1>7, <1>8 DEF Accepts, DeviceAt, Down
    <2>3. UNCHANGED <<vars, sent>>
        BY <2>2 DEF CallTransfer
    <2>4. UNCHANGED <<spi, dev, pc, intrStatus, byteCount, result>> /\ IInv'
        BY <1>2, <2>3, NothingHappens DEF vars
    <2>5. Shown' = Shown
        BY <1>1, <1>2, <2>4 DEF Shown
    <2>6. DeviceAt(k)' /\ PinsAt(k)' /\ DisplayAt(k)'
        BY <1>1, <1>7, <1>8, <2>1, <2>4, <2>5
        DEF DeviceAt, PinsAt, DisplayAt, Down, Opening, Dark, On, Cut, End, Shows, Powered
    <2>7. OledTypeOK' /\ TransferInv'
        BY <1>1, <1>2, <2>4 DEF IInv, OledTypeOK, TransferInv
    <2>8. QED
        BY <1>1, <1>4, <2>4, <2>6, <2>7, Goes DEF Holds
<1>9. CASE l # "off"
    <2>1. l \notin NotSet
        BY <1>5, <1>9, SendArcIs DEF NotSet, Down
    <2>2. /\ spi.isReady /\ spi.isStarted /\ spi.slaveSelectReg = {0} /\ "MASTER_MODE" \in dev.cr
          /\ ~dev.dgier
        BY <1>7, <2>1 DEF DeviceAt, NotSet, Down
    <2>3. Accepts
        BY <1>2, <2>2, NoNoSlave DEF Accepts
    <2>4. Begin("main", Head(todo).n) /\ sent' = Head(todo)
        BY <2>3 DEF CallTransfer
    <2>5. /\ IInv' /\ spi'.isBusy /\ pc'.main = "wait" /\ Through' = 0
          /\ spi'.isReady = spi.isReady /\ spi'.isStarted = spi.isStarted
          /\ spi'.slaveSelectReg = spi.slaveSelectReg /\ dev'.ssr = spi.slaveSelectReg
          /\ "MASTER_MODE" \in dev'.cr /\ ~dev'.dgier
        BY <1>1, <1>2, <1>6, <2>2, <2>4, BeginEffect
    <2>6. Shown' = IF 1 \in DOMAIN sent'.switch THEN sent'.switch[1] ELSE displayOn
        BY <1>1, <2>5 DEF Shown, Through
    <2>7. /\ k \notin NotSet
          /\ PinsAt(k)' /\ DisplayAt(k)'
          /\ {"RES", "PMODEN"} \subseteq High(gpio)
          /\ "DC" \in (IF sent'.kind = "pixels" THEN High(gpio) ELSE Low(gpio))
          /\ sent'.kind = "pixels" => sent'.switch = Nothing
          /\ sent'.switch = CMD_SETUP => displayOn = FALSE
        BY <1>1, <1>2, <1>5, <1>7, <1>9, <2>4, <2>6, SendAt
    <2>8. DeviceAt(k)'
        BY <2>2, <2>5, <2>7 DEF DeviceAt, NotSet
    <2>9. TransferInv'
        BY <1>1, <1>6, <2>2, <2>4, <2>5, <2>7 DEF TransferInv, PolledTransfer
    <2>10. OledTypeOK'
        BY <1>1, <1>2, <2>5 DEF IInv, OledTypeOK
    <2>11. QED
        BY <1>1, <1>4, <2>5, <2>7, <2>8, <2>9, <2>10, Goes DEF Holds
<1>10. QED
    BY <1>8, <1>9

-----------------------------------------------------------------------------
(* The steps in XSpi of a call that has been made.                         *)

LEMMA StopDeviceAt ==
    ASSUME IInv, StopDevice, ~spi.isBusy
    PROVE  /\ IInv' /\ ~spi'.isBusy
           /\ \A l \in Labels : DeviceAt(l) => DeviceAt(l)'
<1>1. spi \in Spis /\ dev \in Devs /\ pc.main = "stop"
    BY SpiTypes, MainRuns DEF StopDevice
<1>2. IInv'
    BY StopDeviceStep DEF StepCorrect
<1>3. /\ ~spi'.isBusy /\ ~spi'.isStarted /\ spi'.isReady = spi.isReady
      /\ spi'.slaveSelectReg = spi.slaveSelectReg
    BY <1>1 DEF StopDevice, Spis
<1>4. pc'.main = "app"
    BY GotoMain DEF StopDevice, IInv, MainLabels
<1>5. ~dev'.dgier /\ dev'.cr = dev.cr \ {"ENABLE"}
    BY <1>1 DEF StopDevice, SetControlReg, GetControlReg, IntrGlobalDisable, Devs
<1>6. "MASTER_MODE" \in dev'.cr <=> "MASTER_MODE" \in dev.cr
    BY <1>5
<1>7. QED
    BY <1>1, <1>2, <1>3, <1>4, <1>5, <1>6 DEF DeviceAt, Down

LEMMA WriteOptionsAt ==
    ASSUME IInv, WriteOptions({"MASTER_MODE"}), ~spi.isBusy
    PROVE  /\ IInv' /\ ~spi'.isBusy
           /\ \A l \in Labels : DeviceAt(l) => DeviceAt(l)'
<1>1. spi \in Spis /\ dev \in Devs /\ pc.main = "options" /\ {"MASTER_MODE"} \in OptionSets
    BY SpiTypes, MainRuns, OledAssumption DEF WriteOptions
<1>2. IInv'
    BY <1>1, WriteOptionsStep DEF StepCorrect
<1>3. /\ ~spi'.isBusy /\ spi'.isStarted = spi.isStarted /\ spi'.isReady = spi.isReady
      /\ spi'.slaveSelectReg = spi.slaveSelectReg
    BY <1>1 DEF WriteOptions, Spis
<1>4. pc'.main = "app"
    BY GotoMain DEF WriteOptions, IInv, MainLabels
<1>5. dev'.dgier = dev.dgier /\ "MASTER_MODE" \in dev'.cr
    BY <1>1 DEF WriteOptions, SetControlReg, GetControlReg, Devs
<1>6. QED
    BY <1>1, <1>2, <1>3, <1>4, <1>5 DEF DeviceAt, Down

LEMMA InXSpiStep ==
    ASSUME OledInv, InXSpi
    PROVE  OledInv'
<1>1. UNCHANGED oled /\ todo' = todo /\ UNCHANGED <<gpio, function, sent, cursor, displayOn, wanted>>
    BY DEF InXSpi, oled
<1>2. IInv /\ OledTypeOK /\ TransferInv
    BY DEF OledInv
<1>3. CASE StopDevice \/ WriteOptions({"MASTER_MODE"})
    <2>1. ~spi.isBusy
        BY <1>2, <1>3, MainRuns DEF TransferInv, PolledTransfer, StopDevice, WriteOptions
    <2>2. IInv' /\ ~spi'.isBusy /\ \A l \in Labels : DeviceAt(l) => DeviceAt(l)'
        BY <1>2, <1>3, <2>1, StopDeviceAt, WriteOptionsAt
    <2>3. Shown' = Shown
        BY <1>1, <2>1, <2>2 DEF Shown
    <2>4. \A l \in Labels : Holds(l) => Holds(l)'
        BY <1>1, <2>2, <2>3 DEF Holds, PinsAt, DisplayAt
    <2>5. OledTypeOK' /\ TransferInv'
        BY <1>1, <1>2, <2>2 DEF IInv, OledTypeOK, TransferInv
    <2>6. QED
        BY <1>1, <2>2, <2>4, <2>5, Stays
<1>4. CASE Polling
    <2>1. /\ IInv' /\ spi.isBusy
          /\ spi'.isBusy => Through' = Through /\ dev'.ssr = dev.ssr /\ PolledTransfer'
          /\ ~spi'.isBusy => Through # 0
          /\ pc'.main \in {"wait", "clear", "round", "end", "app"}
          /\ spi'.isReady = spi.isReady /\ spi'.isStarted = spi.isStarted
          /\ spi'.slaveSelectReg = spi.slaveSelectReg
          /\ dev'.dgier = dev.dgier /\ ("MASTER_MODE" \in dev'.cr <=> "MASTER_MODE" \in dev.cr)
        BY <1>2, <1>4, PollingEffect
    <2>2. pc.main \notin {"options", "stop"}
        BY <1>2, <2>1 DEF TransferInv, PolledTransfer
    <2>3. Shown' = Shown
        BY <1>1, <2>1 DEF Shown, Through
    <2>4. ASSUME NEW l \in Labels, DeviceAt(l)
          PROVE  DeviceAt(l)'
        BY <2>1, <2>2, <2>4 DEF DeviceAt
    <2>5. \A l \in Labels : Holds(l) => Holds(l)'
        BY <1>1, <2>3, <2>4 DEF Holds, PinsAt, DisplayAt
    <2>6. OledTypeOK' /\ TransferInv'
        BY <1>1, <1>2, <2>1 DEF IInv, OledTypeOK, TransferInv
    <2>7. QED
        BY <1>1, <2>1, <2>5, <2>6, Stays
<1>5. QED
    BY <1>3, <1>4 DEF InXSpi

-----------------------------------------------------------------------------
(* The display takes a byte.                                               *)

LEMMA SwitchKinds ==
    ASSUME NEW s \in Switches, NEW n \in Nat
    PROVE  /\ n \in DOMAIN s => s[n] \in BOOLEAN
           /\ n \in DOMAIN s /\ n # 1 => s = CMD_SETUP /\ s[n] = FALSE
<1>1. \/ s = Nothing /\ n \notin DOMAIN s
      \/ s = CMD_DISPLAYON /\ (n \in DOMAIN s => n = 1 /\ s[n] = TRUE)
      \/ s = CMD_DISPLAYOFF /\ (n \in DOMAIN s => n = 1 /\ s[n] = FALSE)
      \/ s = CMD_SETUP /\ (n \in DOMAIN s => s[n] = FALSE)
    BY SwitchFacts DEF Switches
<1>2. QED
    BY <1>1

LEMMA ShiftOutStep ==
    ASSUME OledInv, ShiftOut
    PROVE  /\ OledInv'
           /\ "DC" \in (IF sent.kind = "pixels" THEN High(gpio) ELSE Low(gpio))
           /\ 0 \in dev.ssr /\ {"RES", "PMODEN"} \subseteq High(gpio)
<1> DEFINE first == Head(dev.tx)
<1>1. UNCHANGED <<gpio, todo, function, sent, cursor, wanted>> /\ Shift
    BY DEF ShiftOut
<1>2. IInv /\ OledTypeOK /\ TransferInv
    BY DEF OledInv
<1>3. /\ IInv' /\ spi.isBusy /\ UNCHANGED <<spi, pc>>
      /\ dev'.cr = dev.cr /\ dev'.dgier = dev.dgier /\ dev'.ssr = dev.ssr
      /\ Through' # 0 /\ first = Through + 1
    BY <1>1, <1>2, ShiftEffect
<1>4. /\ sent \in Transfers /\ dev.ssr = {0}
      /\ {"RES", "PMODEN"} \subseteq High(gpio)
      /\ "DC" \in (IF sent.kind = "pixels" THEN High(gpio) ELSE Low(gpio))
      /\ sent.kind = "pixels" => sent.switch = Nothing
      /\ sent.switch = CMD_SETUP => displayOn = FALSE
    BY <1>2, <1>3 DEF TransferInv
<1>5. sent.switch \in Switches /\ Through \in Nat /\ first \in Nat
    <2>1. Through \in Nat
        BY <1>2, SpiTypes
    <2>2. QED
        BY <1>3, <1>4, <2>1 DEF Transfers
<1>6. displayOn' = IF first \in DOMAIN sent.switch THEN sent.switch[first] ELSE displayOn
    <2>1. first \in DOMAIN sent.switch => sent.kind # "pixels"
        BY <1>4, SwitchFacts
    <2>2. QED
        BY <1>4, <2>1 DEF ShiftOut
<1> HIDE DEF first
<1>7. displayOn \in BOOLEAN /\ Shown' = displayOn'
    BY <1>2, <1>3 DEF OledTypeOK, Shown, Through
<1>8. Shown = IF Through = 0 /\ 1 \in DOMAIN sent.switch THEN sent.switch[1] ELSE displayOn
    BY <1>3 DEF Shown, Through
<1>9. Shown' = Shown
    <2>1. CASE Through = 0
        <3>1. first = 1
            BY <1>3, <2>1
        <3>2. QED
            BY <1>6, <1>7, <1>8, <2>1, <3>1
    <2>2. CASE Through # 0
        <3>1. first # 1 /\ Shown = displayOn
            BY <1>3, <1>5, <1>8, <2>2
        <3>2. displayOn' = displayOn
            BY <1>4, <1>5, <1>6, <3>1, SwitchKinds
        <3>3. QED
            BY <1>7, <3>1, <3>2
    <2>3. QED
        BY <2>1, <2>2
<1>10. /\ displayOn' \in BOOLEAN
       /\ sent.switch = CMD_SETUP => displayOn' = FALSE
    <2>1. displayOn' \in BOOLEAN
        BY <1>5, <1>6, <1>7, SwitchKinds
    <2>2. sent.switch = CMD_SETUP => displayOn' = FALSE
        BY <1>4, <1>6, SwitchFacts
    <2>3. QED
        BY <2>1, <2>2
<1>11. \A l \in Labels : Holds(l) => Holds(l)'
    <2>1. ASSUME NEW l \in Labels, DeviceAt(l)
          PROVE  DeviceAt(l)'
        BY <1>3, <2>1 DEF DeviceAt
    <2>2. ASSUME NEW l \in Labels, PinsAt(l)
          PROVE  PinsAt(l)'
        BY <1>1, <2>2 DEF PinsAt
    <2>3. ASSUME NEW l \in Labels, DisplayAt(l)
          PROVE  DisplayAt(l)'
        BY <1>1, <1>9, <2>3 DEF DisplayAt
    <2>4. QED
        BY <2>1, <2>2, <2>3 DEF Holds
<1>12. OledTypeOK'
    BY <1>1, <1>2, <1>3, <1>10 DEF IInv, OledTypeOK
<1>13. TransferInv'
    BY <1>1, <1>2, <1>3, <1>10 DEF TransferInv, PolledTransfer
<1>14. QED
    BY <1>1, <1>3, <1>4, <1>11, <1>12, <1>13, Stays

-----------------------------------------------------------------------------
(* Characters and the cursor.                                              *)

Cursors == {c \in [x : Int, y : Int] : c.x < xchOledrgbMax /\ c.y < ychOledrgbMax}

LEMMA Quotient ==
    ASSUME NEW a \in Nat, a >= 8
    PROVE  a \div 8 \in Nat \ {0}
OBVIOUS

LEMMA CursorMax == xchOledrgbMax \in Nat \ {0} /\ ychOledrgbMax \in Nat \ {0}
BY OledAssumption, Quotient DEF xchOledrgbMax, ychOledrgbMax, OLEDRGB_CHARBYTES

LEMMA SetCursorType ==
    ASSUME NEW xch \in Int, NEW ych \in Int
    PROVE  SetCursor(xch, ych) \in Cursors
<1> DEFINE i == IF xch >= xchOledrgbMax THEN xchOledrgbMax - 1 ELSE xch
           j == IF ych >= ychOledrgbMax THEN ychOledrgbMax - 1 ELSE ych
<1>1. i \in Int /\ i < xchOledrgbMax /\ j \in Int /\ j < ychOledrgbMax
    BY CursorMax
<1>2. SetCursor(xch, ych) = [x |-> i, y |-> j]
    BY DEF SetCursor
<1> HIDE DEF i, j
<1>3. QED
    BY <1>1, <1>2 DEF Cursors

LEMMA AdvanceCursorType ==
    ASSUME NEW cur \in Cursors
    PROVE  AdvanceCursor(cur) \in Cursors
<1>1. cur.x \in Int /\ cur.y \in Int
    BY DEF Cursors
<1> DEFINE nextLine == cur.x + 1 >= xchOledrgbMax
           i == IF nextLine THEN 0 ELSE cur.x + 1
           j == IF nextLine THEN cur.y + 1 ELSE cur.y
           k == IF j >= ychOledrgbMax THEN 0 ELSE j
<1>2. i \in Int /\ j \in Int /\ k \in Int
    BY <1>1
<1>3. AdvanceCursor(cur) = SetCursor(i, k)
    BY DEF AdvanceCursor
<1> HIDE DEF i, k
<1>4. QED
    BY <1>2, <1>3, SetCursorType

(* The eight columns of a character are not torn apart by the conversion.  *)
LEMMA Converted ==
    ASSUME NEW a \in Int
    PROVE  u8(a * 8) <= u8(a * 8 + 7) + 1
BY DEF u8

LEMMA GlyphPath ==
    ASSUME NEW upperBit \in BOOLEAN, NEW cur \in Cursors, NEW l \in Final
    PROVE  Path(DrawGlyph(upperBit, cur), l, l)
<1> DEFINE i == cur.x * 8
           j == cur.y * 8
<1>1. cur.x \in Int /\ cur.y \in Int
    BY DEF Cursors
<1>2. i \in Int /\ j \in Int /\ u8(i) <= u8(i + 7) + 1 /\ u8(j) <= u8(j + 7) + 1
    BY <1>1, Converted
<1>3. CASE upperBit = TRUE
    <2>1. DrawGlyph(upperBit, cur) = <<>>
        BY <1>3 DEF DrawGlyph
    <2>2. l \in Labels
        BY AllLabels DEF Final
    <2>3. QED
        BY <2>1, <2>2, PathNil
<1>4. CASE upperBit = FALSE
    <2>1. DrawGlyph(upperBit, cur) = DrawBitmap(i, j, i + 8 - 1, j + 7)
        BY <1>4 DEF DrawGlyph, OLEDRGB_CHARBYTES
    <2> HIDE DEF i, j
    <2>2. i + 8 - 1 = i + 7 /\ i + 7 \in Int /\ j + 7 \in Int
        BY <1>2
    <2>3. Path(DrawBitmap(i, j, i + 7, j + 7), l, l)
        BY <1>2, <2>2, BitmapPath
    <2>4. QED
        BY <2>1, <2>2, <2>3
<1>5. QED
    BY <1>3, <1>4

LEMMA FontStep ==
    ASSUME OledInv, Main("app"), todo # <<>>,
           Head(todo).op \in {"advance", "glyph", "string"},
           UNCHANGED <<vars, gpio, function, sent, displayOn, wanted>>,
           \A l \in Final, m \in Final : Path(Tail(todo), l, m) => Path(todo', l, m),
           cursor' \in Cursors
    PROVE  OledInv'
<1>1. IInv /\ OledTypeOK /\ TransferInv
    BY DEF OledInv
<1>2. UNCHANGED <<spi, dev, pc>>
    BY DEF vars
<1>3. IInv'
    BY <1>1, NothingHappens
<1>4. PICK l \in Labels, m \in Final : Path(todo, l, m) /\ Holds(l)
    BY DEF OledInv
<1>5. PICK k \in Labels : Arc(l, <<Head(todo)>>, k) /\ Path(Tail(todo), k, m)
    BY <1>4, PathHead
<1>6. l \in Final /\ k = l
    BY <1>5, InitializeArcIs, XSpiArcIs, WriteArcIs, SendArcIs, FontArcIs DEF Arc
<1>7. Path(todo', l, m)
    BY <1>5, <1>6
<1>8. Shown' = Shown
    BY <1>2 DEF Shown, InBuffer, InReceiver
<1>9. Holds(l)'
    <2>1. DeviceAt(l)'
        BY <1>2, <1>4 DEF Holds, DeviceAt
    <2>2. PinsAt(l)'
        BY <1>4 DEF Holds, PinsAt
    <2>3. DisplayAt(l)'
        BY <1>4, <1>8 DEF Holds, DisplayAt
    <2>4. QED
        BY <2>1, <2>2, <2>3 DEF Holds
<1>10. OledTypeOK' /\ TransferInv'
    BY <1>1, <1>2, <1>3 DEF IInv, OledTypeOK, TransferInv, PolledTransfer, Cursors
<1>11. QED
    BY <1>3, <1>6, <1>7, <1>9, <1>10, AllLabels, Goes

(* Nothing happens, but that the cursor may be set.                        *)
LEMMA IdleStep ==
    ASSUME OledInv, UNCHANGED <<vars, gpio, todo, function, sent, displayOn, wanted>>,
           cursor' \in Cursors
    PROVE  OledInv'
<1>1. IInv /\ OledTypeOK /\ TransferInv
    BY DEF OledInv
<1>2. UNCHANGED <<spi, dev, pc>>
    BY DEF vars
<1>3. IInv'
    BY <1>1, NothingHappens
<1>4. Shown' = Shown
    BY <1>2 DEF Shown, InBuffer, InReceiver
<1>5. ASSUME NEW l \in Labels, Holds(l)
      PROVE  Holds(l)'
    <2>1. DeviceAt(l)'
        BY <1>2, <1>5 DEF Holds, DeviceAt
    <2>2. PinsAt(l)'
        BY <1>5 DEF Holds, PinsAt
    <2>3. DisplayAt(l)'
        BY <1>4, <1>5 DEF Holds, DisplayAt
    <2>4. QED
        BY <2>1, <2>2, <2>3 DEF Holds
<1>6. OledTypeOK' /\ TransferInv'
    BY <1>1, <1>2, <1>3 DEF IInv, OledTypeOK, TransferInv, PolledTransfer, Cursors
<1>7. QED
    BY <1>3, <1>5, <1>6, Stays

(* What the operation of a character or of the cursor is.                  *)
LEMMA FontOp ==
    ASSUME OledInv, todo # <<>>
    PROVE  /\ Head(todo).op = "glyph" => Head(todo).upperBit \in BOOLEAN
           /\ Head(todo).op = "string" => Head(todo).sz \in Seq(BOOLEAN)
<1>1. PICK l \in Labels, m \in Final : Path(todo, l, m)
    BY DEF OledInv
<1>2. PICK k \in Labels : Arc(l, <<Head(todo)>>, k)
    BY <1>1, PathHead
<1>3. QED
    BY <1>2, InitializeArcIs, XSpiArcIs, WriteArcIs, SendArcIs, FontArcIs DEF Arc

LEMMA GlyphStep ==
    ASSUME OledInv, Glyph
    PROVE  OledInv'
<1>1. /\ Main("app") /\ todo # <<>> /\ Head(todo).op = "glyph"
      /\ UNCHANGED <<vars, gpio, function, sent, cursor, displayOn, wanted>>
      /\ todo' = DrawGlyph(Head(todo).upperBit, cursor) \o Tail(todo)
    BY DEF Glyph, Step
<1>2. cursor \in Cursors
    BY DEF OledInv, OledTypeOK, Cursors
<1>3. \A l \in Final : Path(DrawGlyph(Head(todo).upperBit, cursor), l, l)
    BY <1>1, <1>2, FontOp, GlyphPath
<1>4. \A l \in Final, m \in Final : Path(Tail(todo), l, m) => Path(todo', l, m)
    BY <1>1, <1>3, PathConcat
<1>5. QED
    BY <1>1, <1>2, <1>4, FontStep

LEMMA AdvanceStep ==
    ASSUME OledInv, Advance
    PROVE  OledInv'
<1>1. /\ Main("app") /\ todo # <<>> /\ Head(todo).op = "advance" /\ todo' = Tail(todo)
      /\ UNCHANGED <<vars, gpio, function, sent, displayOn, wanted>>
      /\ cursor' = AdvanceCursor(cursor)
    BY DEF Advance, Step, Then
<1>2. cursor' \in Cursors
    BY <1>1, AdvanceCursorType DEF OledInv, OledTypeOK, Cursors
<1>3. QED
    BY <1>1, <1>2, FontStep

LEMMA CharacterStep ==
    ASSUME OledInv, Character
    PROVE  OledInv'
<1> DEFINE sz == Head(todo).sz
           a == PutChar(Head(sz))
           b == PutString(Tail(sz))
<1>1. /\ Main("app") /\ todo # <<>> /\ Head(todo).op = "string"
      /\ UNCHANGED <<vars, gpio, function, sent, cursor, displayOn, wanted>>
      /\ todo' = IF sz = <<>> THEN Tail(todo) ELSE a \o b \o Tail(todo)
    BY DEF Character, Step
<1>2. sz # <<>> => \A l \in Final : Path(a, l, l) /\ Path(b, l, l)
    <2>1. sz \in Seq(BOOLEAN)
        BY <1>1, FontOp
    <2>2. sz # <<>> => Head(sz) \in BOOLEAN /\ Tail(sz) \in Seq(BOOLEAN)
        <3> HIDE DEF sz
        <3>1. QED
            BY <2>1
    <2>3. QED
        BY <2>2, PutPath
<1> HIDE DEF sz, a, b
<1>3. ASSUME NEW l \in Final, NEW m \in Final, Path(Tail(todo), l, m)
      PROVE  Path(todo', l, m)
    <2>1. CASE sz = <<>>
        BY <1>1, <1>3, <2>1
    <2>2. CASE sz # <<>>
        <3>1. Path(a \o b \o Tail(todo), l, m)
            BY <1>2, <1>3, <2>2, Join3
        <3>2. QED
            BY <1>1, <2>2, <3>1
    <2>3. QED
        BY <2>1, <2>2
<1>4. cursor' \in Cursors
    BY <1>1 DEF OledInv, OledTypeOK, Cursors
<1>5. QED
    BY <1>1, <1>3, <1>4, FontStep

-----------------------------------------------------------------------------
(* The application calls a function.                                       *)

(* Where each function begins on a display that runs or is stopped.        *)
Entry(f, k, l) ==
    \/ f = "begin" /\ l = "initialize"
    \/ f = "enablePmod" /\ l = "tri"
    \/ /\ k = "live"
       /\ \/ f = "enableBackLight" /\ l = "tri on"
          \/ f \in {"disablePmod", "disableBackLight"} /\ l = "switchOff"
          \/ f = "end" /\ l = "end"
          \/ f \notin {"begin", "enablePmod", "enableBackLight"} \cup SwitchesOff /\ l = "live"
    \/ k = "off" /\ f \notin {"begin", "enablePmod"} /\ l = "off"

LEMMA CallStep ==
    ASSUME OledInv, NEW f, NEW left, Call(f, left),
           f \in DOMAIN Functions \cup {"drawBitmap", "putChar", "putString"},
           \A k \in Final : \E l \in Labels, m \in Final : Path(left, l, m) /\ Entry(f, k, l)
    PROVE  OledInv'
<1>1. /\ Main("app") /\ todo = <<>> /\ todo' = left /\ function' = f
      /\ UNCHANGED <<vars, gpio, sent, cursor, displayOn>>
      /\ wanted' = IF SwitchesOn(f) THEN TRUE ELSE IF f \in SwitchesOff THEN FALSE ELSE wanted
    BY DEF Call, Returned
<1>2. pc.main = "app" /\ ~spi.isBusy /\ Shown = displayOn /\ IInv /\ OledTypeOK
    BY <1>1, AtApp
<1>3. UNCHANGED <<spi, dev, pc>> /\ IInv'
    BY <1>1, <1>2, NothingHappens DEF vars
<1>4. PICK k \in Final : Holds(k)
    BY <1>1, PathEnd DEF OledInv
<1>5. DeviceAt(k) /\ PinsAt(k) /\ DisplayAt(k)
    BY <1>4 DEF Holds
<1>6. PICK l \in Labels, m \in Final : Path(left, l, m) /\ Entry(f, k, l)
    BY <1>4
<1>7. (k = "live" <=> spi.isStarted) /\ k \in {"live", "off"}
    BY <1>2, <1>5 DEF DeviceAt, Down, Final
<1>8. \/ l \in {"initialize", "tri"} /\ f \in {"begin", "enablePmod"}
      \/ l = "off" /\ k = "off" /\ f \notin {"begin", "enablePmod"}
      \/ l \in {"tri on", "switchOff", "end", "live"} /\ k = "live"
    BY <1>6 DEF Entry
<1>9. DeviceAt(l)'
    BY <1>2, <1>3, <1>5, <1>7, <1>8 DEF DeviceAt, Down
<1>10. PinsAt(l)'
    <2>1. PinsAt(l)
        BY <1>5, <1>8 DEF PinsAt, Powered
    <2>2. QED
        BY <1>1, <2>1 DEF PinsAt
<1>11. Shown' = Shown
    BY <1>1, <1>2, <1>3 DEF Shown
<1>12. DisplayAt(l)'
    <2>1. CASE l \in {"initialize", "tri"}
        <3>1. wanted' = TRUE
            BY <1>1, <1>8, <2>1 DEF SwitchesOn
        <3>2. QED
            BY <2>1, <3>1 DEF DisplayAt, Opening, Dark, On, Cut, End, Shows, Powered
    <2>2. CASE l = "off"
        <3>1. Shown = FALSE /\ wanted = FALSE /\ ~SwitchesOn(f)
            BY <1>5, <1>7, <1>8, <2>2 DEF DisplayAt, Cut, SwitchesOn
        <3>2. wanted' = FALSE
            BY <1>1, <3>1
        <3>3. QED
            BY <1>11, <2>2, <3>1, <3>2 DEF DisplayAt, Opening, Dark, On, Cut, End, Shows, Powered
    <2>3. CASE l \in {"tri on", "switchOff", "end", "live"}
        <3>1. /\ Shown = wanted /\ (Shown = TRUE => "VCCEN" \in High(gpio)) /\ spi.isStarted
              /\ SwitchesOn(f) => wanted' = TRUE
            BY <1>1, <1>5, <1>7, <1>8, <2>3 DEF DisplayAt, Shows, Powered, SwitchesOn
        <3>2. /\ l = "tri on" => wanted' = TRUE
              /\ l \in {"switchOff", "end"} => wanted' = FALSE
              /\ l = "live" => wanted' = wanted
            BY <1>1, <1>6, <1>7, <2>3, <3>1 DEF Entry, SwitchesOn, SwitchesOff
        <3>3. QED
            BY <1>1, <1>11, <2>3, <3>1, <3>2
            DEF DisplayAt, Opening, Dark, On, Cut, End, Shows, Powered
    <2>4. QED
        BY <1>8, <2>1, <2>2, <2>3
<1>13. OledTypeOK' /\ TransferInv'
    BY <1>1, <1>2, <1>3 DEF IInv, OledTypeOK, TransferInv
<1>14. QED
    BY <1>1, <1>3, <1>6, <1>9, <1>10, <1>12, <1>13, Goes DEF Holds

LEMMA FunctionNames ==
    DOMAIN Functions = Drawing \cup {"begin", "enablePmod", "enableBackLight"} \cup SwitchesOff
BY DEF Functions, Drawing, SwitchesOff

LEMMA FunctionPath ==
    ASSUME NEW f \in DOMAIN Functions, NEW k \in Final
    PROVE  \E l \in Labels, m \in Final : Path(Functions[f], l, m) /\ Entry(f, k, l)
<1>1. /\ Functions.begin = begin /\ Functions.end = end
      /\ Functions.enablePmod = EnablePmod(TRUE) /\ Functions.disablePmod = EnablePmod(FALSE)
      /\ Functions.enableBackLight = EnableBackLight(TRUE)
      /\ Functions.disableBackLight = EnableBackLight(FALSE)
    BY DEF Functions
<1>2. f \in Drawing \/ f \in {"begin", "end", "enablePmod", "disablePmod", "enableBackLight",
                             "disableBackLight"}
    BY FunctionNames DEF SwitchesOff
<1>3. {"live", "initialize", "tri", "tri on", "switchOff", "end", "off"} \subseteq Labels
      /\ k \in {"live", "off"} /\ "live" \in Final /\ "off" \in Final
    BY AllLabels DEF Final
<1>4. CASE f \in Drawing
    <2>1. Path(Functions[f], k, k) /\ Entry(f, k, k)
        BY <1>3, <1>4, DrawingPath DEF Entry, Drawing, SwitchesOff
    <2>2. QED
        BY <1>3, <2>1
<1>5. CASE f = "begin"
    BY <1>1, <1>3, <1>5, BeginPath DEF Entry
<1>6. CASE f = "end"
    BY <1>1, <1>3, <1>6, DisablePath DEF Entry
<1>7. CASE f = "enablePmod"
    BY <1>1, <1>3, <1>7, EnablePath DEF Entry
<1>8. CASE f = "disablePmod"
    BY <1>1, <1>3, <1>8, DisablePath DEF Entry
<1>9. CASE f = "enableBackLight"
    BY <1>1, <1>3, <1>9, BackLightPath DEF Entry
<1>10. CASE f = "disableBackLight"
    BY <1>1, <1>3, <1>10, BackLightPath DEF Entry
<1>11. QED
    BY <1>2, <1>4, <1>5, <1>6, <1>7, <1>8, <1>9, <1>10

LEMMA CallFunctionStep ==
    ASSUME OledInv, NEW f \in DOMAIN Functions, Call(f, Functions[f])
    PROVE  OledInv'
BY FunctionPath, CallStep

LEMMA CallDrawingStep ==
    ASSUME OledInv, NEW f \in {"drawBitmap", "putChar", "putString"}, NEW left,
           \A l \in Final : Path(left, l, l), Call(f, left)
    PROVE  OledInv'
<1>1. \A k \in Final : k \in Labels /\ Entry(f, k, k)
    BY AllLabels DEF SwitchesOff, Final, Entry
<1>2. QED
    BY <1>1, CallStep

LEMMA WindowPath ==
    ASSUME NEW w \in Windows, NEW l \in Final
    PROVE  Path(DrawBitmap(w.c1, w.r1, w.c2, w.r2), l, l)
<1>1. /\ w \in [c1 : 0..255, r1 : 0..255, c2 : 0..255, r2 : 0..255]
      /\ w.c1 <= w.c2 + 1 /\ w.r1 <= w.r2 + 1
    BY OledAssumption
<1>2. w.c1 \in 0..255 /\ w.r1 \in 0..255 /\ w.c2 \in 0..255 /\ w.r2 \in 0..255
    BY <1>1
<1>3. \A i \in 0..255 : i \in Int /\ u8(i) = i
    BY DEF u8
<1>4. QED
    BY <1>1, <1>2, <1>3, BitmapPath

LEMMA CallSetCursorStep ==
    ASSUME OledInv, NEW xch \in Positions, NEW ych \in Positions, CallSetCursor(xch, ych)
    PROVE  OledInv'
<1>1. /\ UNCHANGED <<vars, gpio, todo, function, sent, displayOn, wanted>>
      /\ cursor' = SetCursor(xch, ych)
    BY DEF CallSetCursor
<1>2. cursor' \in Cursors
    BY <1>1, OledAssumption, SetCursorType
<1>3. QED
    BY <1>1, <1>2, IdleStep

LEMMA OledNextCorrect ==
    ASSUME OledInv, [OledNext]_oledVars
    PROVE  OledInv'
<1>1. ASSUME NEW f \in DOMAIN Functions, Call(f, Functions[f])
      PROVE  OledInv'
    BY <1>1, CallFunctionStep
<1>2. ASSUME NEW w \in Windows, Call("drawBitmap", DrawBitmap(w.c1, w.r1, w.c2, w.r2))
      PROVE  OledInv'
    BY <1>2, WindowPath, CallDrawingStep
<1>3. ASSUME NEW upperBit \in BOOLEAN, Call("putChar", PutChar(upperBit))
      PROVE  OledInv'
    BY <1>3, PutPath, CallDrawingStep
<1>4. ASSUME NEW sz \in Strings, Call("putString", PutString(sz))
      PROVE  OledInv'
    <2>1. sz \in Seq(BOOLEAN)
        BY OledAssumption
    <2>2. QED
        BY <1>4, <2>1, PutPath, CallDrawingStep
<1>5. ASSUME NEW xch \in Positions, NEW ych \in Positions, CallSetCursor(xch, ych)
      PROVE  OledInv'
    BY <1>5, CallSetCursorStep
<1>6. CASE WritePins
    BY <1>6, WritePinsStep
<1>7. CASE CallXSpi
    BY <1>7, CallXSpiStep
<1>8. CASE CallTransfer
    BY <1>8, CallTransferStep
<1>9. CASE Glyph
    BY <1>9, GlyphStep
<1>10. CASE Advance
    BY <1>10, AdvanceStep
<1>11. CASE Character
    BY <1>11, CharacterStep
<1>12. CASE InXSpi
    BY <1>12, InXSpiStep
<1>13. CASE ShiftOut
    BY <1>13, ShiftOutStep
<1>14. CASE UNCHANGED oledVars
    <2>1. UNCHANGED <<vars, gpio, todo, function, sent, displayOn, wanted>> /\ cursor' = cursor
        BY <1>14 DEF oledVars, oled
    <2>2. cursor' \in Cursors
        BY <2>1 DEF OledInv, OledTypeOK, Cursors
    <2>3. QED
        BY <2>1, <2>2, IdleStep
<1>15. CASE CallInitialize
    BY <1>15, CallInitializeStep
<1>16. QED
    BY <1>1, <1>2, <1>3, <1>4, <1>5, <1>6, <1>7, <1>8, <1>9, <1>10, <1>11, <1>12, <1>13, <1>14,
       <1>15
    DEF OledNext, Program

LEMMA OledInitCorrect == OledInit => OledInv
<1> SUFFICES ASSUME OledInit PROVE OledInv
    OBVIOUS
<1>1. IInv
    BY InitCorrect DEF OledInit
<1>2. /\ todo = <<>> /\ function = "end" /\ displayOn = FALSE /\ wanted = FALSE
      /\ gpio = [data |-> {}, tri |-> Pins] /\ cursor = [x |-> 0, y |-> 0]
      /\ ~spi.isBusy /\ ~spi.isStarted /\ ~spi.isReady /\ pc.main = "app" /\ ~dev.dgier
    BY DEF OledInit, Init, ResetDevice
<1>3. OledTypeOK
    <2>1. cursor \in Cursors
        BY <1>2, CursorMax DEF Cursors
    <2>2. function \in DOMAIN Functions
        BY <1>2, FunctionNames DEF SwitchesOff
    <2>3. QED
        BY <1>1, <1>2, <2>1, <2>2 DEF IInv, OledTypeOK, Cursors
<1>4. TransferInv
    BY <1>2 DEF TransferInv
<1>5. Shown = FALSE
    BY <1>2 DEF Shown
<1>6. Holds("off")
    <2>1. DeviceAt("off")
        BY <1>2 DEF DeviceAt, Down
    <2>2. PinsAt("off") /\ DisplayAt("off")
        BY <1>2, <1>5 DEF PinsAt, DisplayAt, Powered, Opening, Dark, On, Cut, End, Shows
    <2>3. QED
        BY <2>1, <2>2 DEF Holds
<1>7. Path(todo, "off", "off") /\ "off" \in Labels /\ "off" \in Final
    BY <1>2, AllLabels, PathNil DEF Final
<1>8. QED
    BY <1>1, <1>3, <1>4, <1>6, <1>7 DEF OledInv

-----------------------------------------------------------------------------
(* The theorems.                                                           *)

(* The inductive invariant: at which point the running function of         *)
(* PmodOLEDrgb.c is, and what holds there of the SPI device, of the pins   *)
(* and of what the display shows or will, once it has taken the bytes.     *)
THEOREM OledInvariance == OledSpec => []OledInv
<1>1. OledInit => OledInv
    BY OledInitCorrect
<1>2. OledInv /\ [OledNext]_oledVars => OledInv'
    BY OledNextCorrect
<1>3. QED
    BY <1>1, <1>2, PTL DEF OledSpec

(* The types, and that the cursor is never beyond the last column or row,  *)
(* whatever the size of the display and wherever the application sets it;  *)
(* that it is not to the left of the first column or above the first row   *)
(* is not claimed, as OLEDrgb_SetCursor() does not see to that.            *)
THEOREM OledTypeCorrect == OledSpec => []OledTypeOK
<1>1. OledInv => OledTypeOK
    BY DEF OledInv
<1>2. QED
    BY <1>1, OledInvariance, PTL

(* In any order of the application's calls, on a display that runs or is   *)
(* stopped, when a function has returned the display is on if and only if  *)
(* the last call that could switch it asked for that, and powered then.    *)
THEOREM DisplayCorrect == OledSpec => []DisplayAsAsked
<1>1. ASSUME OledInv, Returned
      PROVE  /\ displayOn = wanted
             /\ displayOn => {"RES", "VCCEN", "PMODEN"} \subseteq High(gpio)
    <2>1. Main("app") /\ todo = <<>>
        BY <1>1 DEF Returned
    <2>2. Shown = displayOn /\ displayOn \in BOOLEAN
        BY <1>1, <2>1, AtApp DEF OledTypeOK
    <2>3. PICK k \in Final : Holds(k)
        BY <1>1, <2>1, PathEnd DEF OledInv
    <2>4. CASE k = "live"
        BY <2>2, <2>3, <2>4 DEF Holds, PinsAt, DisplayAt, Shows, Powered
    <2>5. CASE k = "off"
        BY <2>2, <2>3, <2>5 DEF Holds, DisplayAt, Cut
    <2>6. QED
        BY <2>3, <2>4, <2>5 DEF Final
<1>2. OledInv => DisplayAsAsked
    BY <1>1 DEF DisplayAsAsked
<1>3. QED
    BY <1>2, OledInvariance, PTL

(* The data/command pin that WriteSPI() writes before and after a transfer *)
(* has the right value at every byte that the device shifts in between.    *)
THEOREM CommandsCorrect == OledSpec => CommandsAreCommands
<1>1. OledInv /\ [OledNext]_oledVars
      => [ ShiftOut => "DC" \in (IF sent.kind = "pixels" THEN High(gpio) ELSE Low(gpio)) ]_oledVars
    BY ShiftOutStep
<1>2. QED
    BY <1>1, OledInvariance, PTL DEF OledSpec, CommandsAreCommands

(* Every byte that the device shifts goes to the display, which is powered *)
(* and not in reset: the functions that go on sending after XSpi_Stop(),   *)
(* or are called on a stopped display, are refused.                        *)
THEOREM BytesReachCorrect == OledSpec => BytesReachDisplay
<1>1. OledInv /\ [OledNext]_oledVars
      => [ ShiftOut => 0 \in dev.ssr /\ {"RES", "PMODEN"} \subseteq High(gpio) ]_oledVars
    BY ShiftOutStep
<1>2. QED
    BY <1>1, OledInvariance, PTL DEF OledSpec, BytesReachDisplay

-----------------------------------------------------------------------------
(* The display driver as a program on top of XSpi.                         *)

LEMMA XSpiStep ==
    ASSUME OledInv, [OledNext]_oledVars
    PROVE  StepCorrect
<1> IInv
    BY DEF OledInv
<1>1. CASE CallXSpi
    <2>2. CASE Step("options") /\ SetOptions
        BY <2>2, CheckStep
    <2>3. CASE Step("select") /\ SetSlaveSelect({0})
        BY <2>3, OledAssumption, InstanceStep
    <2>4. CASE Step("start") /\ IF spi.isStarted THEN UNCHANGED vars ELSE Start
        BY <2>4, StartStep, StutterStep
    <2>5. CASE Step("stop") /\ IF spi.isBusy THEN UNCHANGED vars ELSE Stop
        BY <2>5, CheckStep, StutterStep
    <2>6. CASE /\ Step("mask") /\ dev' = IntrGlobalDisable(dev)
               /\ UNCHANGED <<spi, pc, intrStatus, byteCount, result>>
        <3>1. Main("app")
            BY <2>6 DEF Step
        <3>2. spi.isStarted
            <4>1. todo # <<>> /\ Head(todo).op = "mask"
                BY <2>6 DEF Step
            <4>2. PICK l \in Labels, m \in Final : Path(todo, l, m) /\ Holds(l)
                BY DEF OledInv
            <4>3. PICK k \in Labels : Arc(l, <<Head(todo)>>, k)
                BY <4>1, <4>2, PathHead
            <4>4. l = "mask"
                BY <4>1, <4>3, InitializeArcIs, XSpiArcIs, WriteArcIs, SendArcIs, FontArcIs DEF Arc
            <4>5. QED
                BY <4>2, <4>4 DEF Holds, DeviceAt, Down
        <3>3. Mask
            BY <2>6, <3>1, <3>2 DEF Mask
        <3>4. QED
            BY <3>3, MaskStep
    <2>7. QED
        BY <1>1, <2>2, <2>3, <2>4, <2>5, <2>6 DEF CallXSpi
<1>2. CASE CallTransfer
    <2>1. CASE UNCHANGED vars
        BY <2>1, StutterStep
    <2>2. CASE Accepts /\ Begin("main", Head(todo).n)
        <3>1. Main("app") /\ todo # <<>> /\ Head(todo).op = "send"
            BY <1>2 DEF CallTransfer, Step
        <3>2. PICK l \in Labels, m \in Final : Path(todo, l, m) /\ Holds(l)
            BY DEF OledInv
        <3>3. PICK k \in Labels : Arc(l, <<Head(todo)>>, k)
            BY <3>1, <3>2, PathHead
        <3>4. Head(todo).n \in Bytes
            <4>1. Head(todo) \in Ops
                BY <3>1, <3>2, PathHead
            <4>2. QED
                BY <3>1, <4>1 DEF Ops, Accesses, Transfers, Calls, Glyphs, Texts
        <3>5. l \notin {"options", "select"}
            BY <3>1, <3>3, InitializeArcIs, XSpiArcIs, WriteArcIs, FontArcIs, SendArcIs DEF Arc
        <3>6. "MASTER_MODE" \in dev.cr
            BY <2>2, <3>2, <3>5 DEF Holds, DeviceAt, Accepts
        <3>7. Transfer("main", Head(todo).n)
            BY <2>2, <3>1, <3>6 DEF Transfer, Main, InterruptsNoCall
        <3>8. QED
            BY <3>4, <3>7, TransferStep
    <2>3. QED
        BY <1>2, <2>1, <2>2 DEF CallTransfer
<1>3. CASE InXSpi
    BY <1>3, OledAssumption, StopDeviceStep, WriteOptionsStep, PollEmptyStep, PollClearStep,
       PollRoundStep, PollEndStep DEF InXSpi, Polling
<1>4. CASE ShiftOut
    BY <1>4, ShiftStep DEF ShiftOut
<1>5. CASE CallInitialize
    BY <1>5, CfgInitializeStep, StutterStep DEF CallInitialize
<1>6. CASE ~(CallXSpi \/ CallTransfer \/ InXSpi \/ ShiftOut \/ CallInitialize)
    <2>1. UNCHANGED vars
        BY <1>6 DEF OledNext, Program, Call, CallSetCursor, WritePins, Glyph, Advance, Character,
                    oledVars
    <2>2. QED
        BY <2>1, StutterStep
<1>7. QED
    BY <1>1, <1>2, <1>3, <1>4, <1>5, <1>6

(* The transfers of the display exchange their bytes one by one, and each  *)
(* ends once all of its bytes have been exchanged.                         *)
THEOREM OledRefinement == OledSpec => ImplementsSpiBus
<1>1. OledInit => Bus!Init
    BY BusInit DEF OledInit
<1>2. OledInv /\ [OledNext]_oledVars => [Bus!Next]_(Bus!vars)
    BY XSpiStep, BusNext DEF StepCorrect
<1>3. QED
    BY <1>1, <1>2, OledInvariance, PTL DEF OledSpec, ImplementsSpiBus, Bus!Spec

(* Every byte for the display is in one place and in order, and none is    *)
(* left over from one transfer to the next.                                *)
THEOREM OledBytesCorrect == OledSpec => []BytesInPlace
<1>1. OledInv => BytesInPlace
    BY DEF OledInv, IInv, CountInv, NumberInv, InBuffer, InReceiver, InTransmitter, Asked, Left,
       BytesInPlace, InOrder
<1>2. QED
    BY <1>1, OledInvariance, PTL

(* Whatever the display driver sends, the display and nothing else is      *)
(* selected.                                                               *)
THEOREM OledReached == OledSpec => ReachesItsSlave
<1>1. ASSUME OledInv, Shift
      PROVE  /\ dev.ssr = spi.slaveSelectReg /\ Cardinality(dev.ssr \cap Slaves) <= 1
             /\ dev.ssr # SlaveSelectMask
    <2>1. spi.isBusy
        BY <1>1, ShiftEffect DEF OledInv
    <2>2. dev.ssr = {0} /\ spi.slaveSelectReg = {0}
        BY <1>1, <2>1 DEF OledInv, TransferInv
    <2>3. 0 \in Slaves
        BY XSpiAssumption DEF Slaves
    <2>4. dev.ssr \cap Slaves = {0} /\ dev.ssr # SlaveSelectMask
        BY <2>2, <2>3 DEF SlaveSelectMask
    <2>5. Cardinality(dev.ssr \cap Slaves) = 1
        BY <2>4, FS_Singleton
    <2>6. QED
        BY <2>2, <2>4, <2>5
<1>2. OledInv /\ [OledNext]_oledVars
      => [ Shift /\ "LOOPBACK" \notin dev.cr /\ pc["isr"] # "abort" =>
              /\ dev.ssr = spi.slaveSelectReg
              /\ Cardinality(dev.ssr \cap Slaves) <= 1
              /\ dev.ssr # SlaveSelectMask ]_vars
    BY <1>1
<1>3. QED
    BY <1>2, OledInvariance, PTL DEF OledSpec, ReachesItsSlave
=============================================================================
