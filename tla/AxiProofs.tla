------------------------------ MODULE AxiProofs ------------------------------
(***************************************************************************)
(* Proofs about AxiLiteSlave: types, one response per access, and that the   *)
(* handshakes implement RegisterFile.                                        *)
(***************************************************************************)
EXTENDS AxiLiteSlave, TLAPS

(* The two ready signals of a write are one, and a ready signal is only high  *)
(* for a valid channel whose address has been latched.                       *)
ReadyInv ==
  /\ axi_awready = axi_wready
  /\ axi_awready = 1 => aw = "valid" /\ w = "valid" /\ axi_awaddr = req.addr
  /\ axi_arready = 1 => ar = "valid" /\ axi_araddr = addr

IInv == TypeOK /\ ReadyInv /\ OneResponse

(* A merge of two words is a word.                                           *)
LEMMA MergeType ==
  ASSUME NEW old \in Words, NEW new \in Words, NEW strobes
  PROVE  Merge(old, new, strobes) \in Words
BY DEF Merge, Words

LEMMA ZeroType == Zero \in Words /\ 0 \in Addresses
BY ValuesAssumption, RegistersAssumption DEF Zero, Words, Addresses

LEMMA RegistersType ==
  ASSUME TypeOK, WriteRegister
  PROVE  slv_reg' \in [Writable -> Words]
<1>1. req.data \in Words
  BY DEF TypeOK, Requests
<1>2. \A r \in Writable : Merge(slv_reg[r], req.data, req.strb) \in Words
  BY <1>1, MergeType DEF TypeOK
<1>3. QED
  BY <1>2 DEF TypeOK, WriteRegister

LEMMA ReadableType ==
  ASSUME TypeOK, NEW a \in Addresses
  PROVE  Readable(a) \subseteq Words
BY ZeroType DEF TypeOK, Readable

(* Types of the slave's outputs after a clock.                               *)
LEMMA SlaveType ==
  ASSUME TypeOK, Slave
  PROVE  /\ axi_awready' \in {0, 1} /\ axi_wready' \in {0, 1}
         /\ axi_bvalid' \in {0, 1} /\ axi_arready' \in {0, 1}
         /\ axi_rvalid' \in {0, 1} /\ axi_awaddr' \in Addresses
         /\ axi_araddr' \in Addresses /\ axi_rdata' \in Words
         /\ slv_reg' \in [Writable -> Words]
<1> USE DEF Slave
<1>1. req.addr \in Addresses
  BY DEF TypeOK, Requests
<1>2. axi_awready' \in {0, 1} /\ axi_awaddr' \in Addresses
  BY <1>1 DEF AddressReady, TypeOK
<1>3. axi_wready' \in {0, 1}
  BY DEF DataReady
<1>4. axi_bvalid' \in {0, 1}
  BY DEF Response, TypeOK
<1>5. axi_arready' \in {0, 1} /\ axi_araddr' \in Addresses
  BY DEF ReadAddress, TypeOK
<1>6. axi_rvalid' \in {0, 1} /\ axi_rdata' \in Words
  BY ReadableType DEF ReadData, TypeOK
<1>7. slv_reg' \in [Writable -> Words]
  BY RegistersType
<1>8. QED
  BY <1>2, <1>3, <1>4, <1>5, <1>6, <1>7

LEMMA MasterType ==
  ASSUME TypeOK, Master
  PROVE  /\ aw' \in Channel /\ w' \in Channel /\ req' \in Requests
         /\ ar' \in Channel /\ addr' \in Addresses
         /\ BREADY' \in {0, 1} /\ RREADY' \in {0, 1}
<1> USE DEF TypeOK, Channel, Progress
<1>1. aw' \in Channel /\ w' \in Channel /\ req' \in Requests
  BY DEF Master, StartWrite, SendWrite, EndWrite, WaitWrite
<1>2. ar' \in Channel /\ addr' \in Addresses
  BY DEF Master, StartRead, SendRead, EndRead, WaitRead
<1>3. QED
  BY <1>1, <1>2 DEF Master

(* One clock of the write channels. The cases are those of the master.       *)
LEMMA WriteSideInv ==
  ASSUME IInv, Slave, Master
  PROVE  /\ axi_awready' = axi_wready'
         /\ axi_awready' = 1 => /\ aw' = "valid" /\ w' = "valid"
                                /\ axi_awaddr' = req'.addr
         /\ axi_bvalid' = 1 <=> aw' = "done"
         /\ aw' = "done" <=> w' = "done"
<1> USE DEF IInv, TypeOK, Channel, ReadyInv, OneResponse, Slave,
            AddressReady, DataReady, Response, Accepted, NoWrite, Awaiting
<1>1. CASE StartWrite
  BY <1>1 DEF StartWrite
<1>2. CASE SendWrite
  BY <1>2 DEF SendWrite, Progress
<1>3. CASE EndWrite
  BY <1>3 DEF EndWrite
<1>4. CASE WaitWrite
  BY <1>4 DEF WaitWrite
<1>5. QED
  BY <1>1, <1>2, <1>3, <1>4 DEF Master

LEMMA ReadSideInv ==
  ASSUME IInv, Slave, Master
  PROVE  /\ axi_arready' = 1 => ar' = "valid" /\ axi_araddr' = addr'
         /\ axi_rvalid' = 1 <=> ar' = "done"
<1> USE DEF IInv, TypeOK, Channel, ReadyInv, OneResponse, Slave,
            ReadAddress, ReadData
<1>1. CASE StartRead
  BY <1>1 DEF StartRead
<1>2. CASE SendRead
  BY <1>2 DEF SendRead, Progress
<1>3. CASE EndRead
  BY <1>3 DEF EndRead
<1>4. CASE WaitRead
  BY <1>4 DEF WaitRead
<1>5. QED
  BY <1>1, <1>2, <1>3, <1>4 DEF Master

(* The inductive invariant holds initially and after every step.             *)
LEMMA InitIInv == Init => IInv
<1> SUFFICES ASSUME Init PROVE IInv
  OBVIOUS
<1>1. req \in Requests
  BY ZeroType DEF Init, Requests
<1>2. TypeOK
  BY <1>1, ZeroType DEF Init, TypeOK, Channel
<1>3. QED
  BY <1>2 DEF Init, IInv, ReadyInv, OneResponse

LEMMA NextIInv == IInv /\ [Next]_vars => IInv'
<1> SUFFICES ASSUME IInv, [Next]_vars PROVE IInv'
  OBVIOUS
<1>1. CASE Clock
  <2>1. TypeOK'
    BY <1>1, SlaveType, MasterType DEF IInv, Clock, TypeOK
  <2>2. ReadyInv' /\ OneResponse'
    BY <1>1, WriteSideInv, ReadSideInv DEF Clock, ReadyInv, OneResponse
  <2>3. QED
    BY <2>1, <2>2 DEF IInv
<1>2. CASE Reset
  <2>1. TypeOK'
    BY <1>2, ZeroType DEF Reset, IInv, TypeOK, Channel
  <2>2. ReadyInv' /\ OneResponse'
    BY <1>2 DEF Reset, ReadyInv, OneResponse
  <2>3. QED
    BY <2>1, <2>2 DEF IInv
<1>3. CASE UNCHANGED vars
  BY <1>3 DEF vars, master, IInv, TypeOK, ReadyInv, OneResponse
<1>4. QED
  BY <1>1, <1>2, <1>3 DEF Next

(* The inductive invariant: the handshake between clocks.                    *)
THEOREM Invariance == Spec => []IInv
BY InitIInv, NextIInv, PTL DEF Spec

(* Types of the slave and its master, for every register map and word.       *)
THEOREM TypeCorrect == Spec => []TypeOK
BY Invariance, PTL DEF IInv

(* Each accepted access has exactly one response pending until it is taken.  *)
THEOREM OneResponseCorrect == Spec => []OneResponse
BY Invariance, PTL DEF IInv

-----------------------------------------------------------------------------
(* The registers change only in the clock that accepts a write, and then only *)
(* where and as far as the pending request says.                             *)
LEMMA WriteEffect ==
  ASSUME IInv, Slave
  PROVE  slv_reg' = IF axi_awready = 1
                    THEN [r \in Writable |->
                            IF r = req.addr
                            THEN Merge(slv_reg[r], req.data, req.strb)
                            ELSE slv_reg[r]]
                    ELSE slv_reg
<1> USE DEF IInv, Slave, WriteRegister, Accepted, ReadyInv
<1>1. CASE axi_awready = 1
  BY <1>1
<1>2. CASE axi_awready # 1
  <2>1. slv_reg = [r \in Writable |-> slv_reg[r]]
    BY DEF TypeOK
  <2>2. QED
    BY <1>2, <2>1
<1>3. QED
  BY <1>1, <1>2

(* A clock is one step, or none, of the write of the register file ...       *)
LEMMA WriteSideStep ==
  ASSUME IInv, Slave, Master
  PROVE  File!WriteSide
<1> USE DEF IInv, TypeOK, Channel, ReadyInv, OneResponse,
            WriteProgress, NoWrite, Awaiting, File!WriteSide
<1>1. CASE StartWrite
  <2>1. slv_reg' = slv_reg
    BY <1>1, WriteEffect DEF StartWrite
  <2>2. WriteProgress = "idle" /\ WriteProgress' = "called"
    BY <1>1 DEF StartWrite
  <2>3. QED
    <3>1. req' \in Requests
      BY <1>1 DEF StartWrite
    <3>2. QED
      BY <2>1, <2>2, <3>1 DEF File!WriteCall, File!Requests, Requests,
        File!Words, Words, File!Addresses, Addresses
<1>2. CASE SendWrite
  <2>1. CASE axi_awready = 1
    <3>1. WriteProgress = "called" /\ WriteProgress' = "done" /\ req' = req
      BY <1>2, <2>1 DEF SendWrite, Progress
    <3>2. QED
      BY <2>1, <3>1, WriteEffect DEF File!WriteDo, File!Merge, Merge
  <2>2. CASE axi_awready = 0
    <3>1. slv_reg' = slv_reg /\ req' = req
      BY <1>2, <2>2, WriteEffect DEF SendWrite
    <3>2. WriteProgress = "called" /\ WriteProgress' = "called"
      BY <1>2, <2>2 DEF SendWrite, Progress
    <3>3. QED
      BY <3>1, <3>2 DEF File!writing
  <2>3. QED
    BY <2>1, <2>2
<1>3. CASE EndWrite
  <2>1. slv_reg' = slv_reg
    BY <1>3, WriteEffect DEF EndWrite
  <2>2. WriteProgress = "done" /\ WriteProgress' = "idle"
    BY <1>3 DEF EndWrite
  <2>3. QED
    BY <1>3, <2>1, <2>2 DEF EndWrite, File!WriteReturn
<1>4. CASE WaitWrite
  <2>1. slv_reg' = slv_reg
    BY <1>4, WriteEffect DEF WaitWrite
  <2>2. WriteProgress' = WriteProgress /\ req' = req
    BY <1>4 DEF WaitWrite
  <2>3. QED
    BY <2>1, <2>2 DEF File!writing
<1>5. QED
  BY <1>1, <1>2, <1>3, <1>4 DEF Master

(* ... and one step, or none, of its read.                                   *)
LEMMA ReadSideStep ==
  ASSUME IInv, Slave, Master
  PROVE  File!ReadSide
<1> USE DEF IInv, TypeOK, Channel, ReadyInv, OneResponse, Slave, ReadData,
            ReadProgress, File!ReadSide
<1>1. CASE StartRead
  BY <1>1 DEF StartRead, File!ReadCall, File!Addresses, Addresses
<1>2. CASE SendRead
  <2>1. CASE axi_arready = 1
    <3>1. ReadProgress = "called" /\ ReadProgress' = "done" /\ addr' = addr
      BY <1>2, <2>1 DEF SendRead, Progress
    <3>2. axi_rdata' \in Readable(addr)
      BY <1>2, <2>1 DEF SendRead
    <3>3. axi_rdata' \in File!Readable(addr)
      BY <3>2 DEF Readable, File!Readable, File!Words, Words, File!Zero, Zero
    <3>4. QED
      BY <3>1, <3>3 DEF File!ReadDo
  <2>2. CASE axi_arready = 0
    BY <1>2, <2>2 DEF SendRead, Progress, File!reading
  <2>3. QED
    BY <2>1, <2>2
<1>3. CASE EndRead
  BY <1>3 DEF EndRead, File!ReadReturn
<1>4. CASE WaitRead
  BY <1>4 DEF WaitRead, File!reading
<1>5. QED
  BY <1>1, <1>2, <1>3, <1>4 DEF Master

(* The handshakes implement the register file: for every register map, word   *)
(* and interleaving of the channels, each access is atomic and happens once.  *)
THEOREM RegisterFileCorrect == Spec => ImplementsRegisterFile
<1>1. Init => File!Init
  <2> SUFFICES ASSUME Init PROVE File!Init
    OBVIOUS
  <2>1. req \in Requests /\ addr \in Addresses
    BY InitIInv DEF IInv, TypeOK
  <2>2. QED
    BY <2>1 DEF Init, File!Init, WriteProgress, ReadProgress, NoWrite, Zero,
                File!Zero, File!Requests, Requests, File!Words, Words,
                File!Addresses, Addresses
<1>2. IInv /\ [Next]_vars => [File!Next]_(File!vars)
  <2> SUFFICES ASSUME IInv, [Next]_vars PROVE [File!Next]_(File!vars)
    OBVIOUS
  <2>1. CASE Clock
    BY <2>1, WriteSideStep, ReadSideStep DEF Clock, File!Next
  <2>2. CASE Reset
    <3>1. File!Reset
      BY <2>2 DEF Reset, File!Reset, WriteProgress, ReadProgress, NoWrite,
                  Zero, File!Zero
    <3>2. QED
      BY <3>1 DEF File!Next
  <2>3. CASE UNCHANGED vars
    BY <2>3 DEF vars, master, File!vars, File!writing, File!reading,
                WriteProgress, ReadProgress, NoWrite, Awaiting
  <2>4. QED
    BY <2>1, <2>2, <2>3 DEF Next
<1>3. QED
  BY Invariance, <1>1, <1>2, PTL DEF Spec, ImplementsRegisterFile, File!Spec
=============================================================================
