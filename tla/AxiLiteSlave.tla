---------------------------- MODULE AxiLiteSlave ----------------------------
(***************************************************************************)
(* The register slave of the motor driver, the PWM detection and the Nexys4   *)
(* I/O, modelled from motor_driver_v1_0_S00_AXI.v: the five AXI-Lite channels *)
(* and the registers behind them. (The rotary encoder's slave has the same    *)
(* handshake and another write decoder.) A step is a rising edge of the       *)
(* clock, at which slave and master update their outputs from the values      *)
(* before it. The master keeps the rules of AXI and has at most one write and *)
(* one read in flight: "This design expects no outstanding transactions".     *)
(***************************************************************************)
EXTENDS RegisterMap

VARIABLES
  axi_awready, axi_wready, axi_awaddr, axi_bvalid,   \* write channels
  axi_arready, axi_araddr, axi_rvalid, axi_rdata,    \* read channels
  slv_reg,         \* the writable registers
  aw, w,           \* the master's write address and write data channels
  req,             \* S_AXI_AWADDR, S_AXI_WDATA and S_AXI_WSTRB
  ar, addr,        \* its read address channel, and S_AXI_ARADDR
  BREADY, RREADY

master == <<aw, w, req, ar, addr, BREADY, RREADY>>
vars == <<axi_awready, axi_wready, axi_awaddr, axi_bvalid, axi_arready,
          axi_araddr, axi_rvalid, axi_rdata, slv_reg, master>>

(* A channel of the master is off, valid, or done: accepted by the slave in a *)
(* transaction that has not ended yet.                                       *)
Channel == {"off", "valid", "done"}

Init ==
  /\ axi_awready = 0 /\ axi_wready = 0 /\ axi_awaddr = 0 /\ axi_bvalid = 0
  /\ axi_arready = 0 /\ axi_araddr = 0 /\ axi_rvalid = 0 /\ axi_rdata = Zero
  /\ slv_reg = [r \in Writable |-> Zero]
  /\ aw = "off" /\ w = "off" /\ ar = "off"
  /\ req = [addr |-> 0, data |-> Zero, strb |-> {}] /\ addr = 0
  /\ BREADY = 0 /\ RREADY = 0

-----------------------------------------------------------------------------
(* The slave. Both ready signals are high for one clock, when both write      *)
(* channels are valid.                                                        *)
AddressReady ==
  IF axi_awready = 0 /\ aw = "valid" /\ w = "valid"
  THEN axi_awready' = 1 /\ axi_awaddr' = req.addr
  ELSE axi_awready' = 0 /\ UNCHANGED axi_awaddr

DataReady ==
  axi_wready' = IF axi_wready = 0 /\ aw = "valid" /\ w = "valid" THEN 1 ELSE 0

(* slv_reg_wren; the condition of the write response is the same.            *)
Accepted ==
  axi_wready = 1 /\ w = "valid" /\ axi_awready = 1 /\ aw = "valid"

(* Fault for the mutation runs: the register is written while the address is  *)
(* being latched, at the address of the write before.                        *)
WriteRegisterEarly ==
  slv_reg' = [r \in Writable |->
                IF aw = "valid" /\ w = "valid" /\ axi_wready = 0 /\ r = axi_awaddr
                THEN Merge(slv_reg[r], req.data, req.strb) ELSE slv_reg[r]]

WriteRegister ==
  slv_reg' = [r \in Writable |->
                IF Accepted /\ r = axi_awaddr
                THEN Merge(slv_reg[r], req.data, req.strb) ELSE slv_reg[r]]

(* Fault: the response is only raised for a master that already waits for it. *)
ResponseIfAwaited ==
  IF Accepted /\ axi_bvalid = 0 THEN axi_bvalid' = BREADY
  ELSE axi_bvalid' = IF BREADY = 1 /\ axi_bvalid = 1 THEN 0 ELSE axi_bvalid

Response ==
  IF Accepted /\ axi_bvalid = 0 THEN axi_bvalid' = 1
  ELSE axi_bvalid' = IF BREADY = 1 /\ axi_bvalid = 1 THEN 0 ELSE axi_bvalid

ReadAddress ==
  IF axi_arready = 0 /\ ar = "valid"
  THEN axi_arready' = 1 /\ axi_araddr' = addr
  ELSE axi_arready' = 0 /\ UNCHANGED axi_araddr

(* The read multiplexer: reg_data_out.                                       *)
Readable(a) ==
  IF a \in Writable THEN {slv_reg[a]}
  ELSE IF a \in Registers THEN Words ELSE {Zero}

ReadData ==
  IF axi_arready = 1 /\ ar = "valid" /\ axi_rvalid = 0
  THEN axi_rvalid' = 1 /\ axi_rdata' \in Readable(axi_araddr)
  ELSE /\ axi_rvalid' = IF axi_rvalid = 1 /\ RREADY = 1 THEN 0 ELSE axi_rvalid
       /\ UNCHANGED axi_rdata

Slave ==
  /\ AddressReady /\ DataReady /\ WriteRegister /\ Response
  /\ ReadAddress /\ ReadData

-----------------------------------------------------------------------------
(* The master raises the two write channels in any order and holds each until *)
(* it is accepted; it may be slow to take a response.                        *)
NoWrite == aw = "off" /\ w = "off"
Awaiting == aw = "done" /\ w = "done"

StartWrite ==
  /\ NoWrite
  /\ aw' \in {"off", "valid"} /\ w' \in {"off", "valid"}
  /\ ~NoWrite'
  /\ req' \in Requests

Progress(channel, ready) ==
  IF channel = "off" THEN {"off", "valid"}
  ELSE IF channel = "valid" /\ ready = 0 THEN {"valid"}
  ELSE {"done"}

SendWrite ==
  /\ ~NoWrite /\ ~Awaiting
  /\ aw' \in Progress(aw, axi_awready) /\ w' \in Progress(w, axi_wready)
  /\ UNCHANGED req

EndWrite ==
  /\ Awaiting /\ axi_bvalid = 1 /\ BREADY = 1
  /\ aw' = "off" /\ w' = "off"
  /\ UNCHANGED req

WaitWrite ==
  /\ NoWrite \/ (Awaiting /\ ~(axi_bvalid = 1 /\ BREADY = 1))
  /\ UNCHANGED <<aw, w, req>>

StartRead ==
  /\ ar = "off" /\ ar' = "valid"
  /\ addr' \in Addresses

SendRead ==
  /\ ar = "valid" /\ ar' \in Progress(ar, axi_arready)
  /\ UNCHANGED addr

EndRead ==
  /\ ar = "done" /\ axi_rvalid = 1 /\ RREADY = 1
  /\ ar' = "off"
  /\ UNCHANGED addr

WaitRead ==
  /\ ar = "off" \/ (ar = "done" /\ ~(axi_rvalid = 1 /\ RREADY = 1))
  /\ UNCHANGED <<ar, addr>>

Master ==
  /\ StartWrite \/ SendWrite \/ EndWrite \/ WaitWrite
  /\ StartRead \/ SendRead \/ EndRead \/ WaitRead
  /\ BREADY' \in {0, 1} /\ RREADY' \in {0, 1}

Clock == Slave /\ Master

(* S_AXI_ARESETN ends the transactions on both sides.                        *)
Reset ==
  /\ axi_awready' = 0 /\ axi_wready' = 0 /\ axi_awaddr' = 0 /\ axi_bvalid' = 0
  /\ axi_arready' = 0 /\ axi_araddr' = 0 /\ axi_rvalid' = 0
  /\ axi_rdata' = Zero
  /\ slv_reg' = [r \in Writable |-> Zero]
  /\ aw' = "off" /\ w' = "off" /\ ar' = "off"
  /\ BREADY' = 0 /\ RREADY' = 0
  /\ UNCHANGED <<req, addr>>

Next == Clock \/ Reset

Spec == Init /\ [][Next]_vars
FairSpec == Spec /\ WF_vars(Clock)

-----------------------------------------------------------------------------
TypeOK ==
  /\ axi_awready \in {0, 1} /\ axi_wready \in {0, 1} /\ axi_bvalid \in {0, 1}
  /\ axi_arready \in {0, 1} /\ axi_rvalid \in {0, 1}
  /\ axi_awaddr \in Addresses /\ axi_araddr \in Addresses
  /\ axi_rdata \in Words /\ slv_reg \in [Writable -> Words]
  /\ aw \in Channel /\ w \in Channel /\ ar \in Channel
  /\ req \in Requests /\ addr \in Addresses
  /\ BREADY \in {0, 1} /\ RREADY \in {0, 1}

(* Every accepted access is owed exactly one response, and no response is     *)
(* given without one: the address and the data of a write are accepted        *)
(* together, although each has a ready signal of its own, and a response      *)
(* lasts until the master takes it.                                          *)
OneResponse ==
  /\ axi_bvalid = 1 <=> aw = "done"
  /\ aw = "done" <=> w = "done"
  /\ axi_rvalid = 1 <=> ar = "done"

WriteProgress ==
  IF NoWrite THEN "idle" ELSE IF Awaiting THEN "done" ELSE "called"

ReadProgress ==
  IF ar = "off" THEN "idle" ELSE IF ar = "done" THEN "done" ELSE "called"

File ==
  INSTANCE RegisterFile WITH
    mem <- slv_reg, write <- WriteProgress, wreq <- req,
    read <- ReadProgress, raddr <- addr, rval <- axi_rdata

(* The handshakes implement atomic registers: the effect of a write is seen   *)
(* once, between its call and its return, merged by its own strobes at its    *)
(* own address, and a read returns what its register held at one clock.      *)
ImplementsRegisterFile == File!Spec

(* Software that reads or writes a register gets on: if the master raises     *)
(* both channels of a write and takes the responses, no access hangs.        *)
PatientMaster ==
  /\ []<>(aw = "off" <=> w = "off")
  /\ []<>(axi_bvalid = 0 \/ BREADY = 1)
  /\ []<>(axi_rvalid = 0 \/ RREADY = 1)

AccessesEnd == PatientMaster => (~NoWrite ~> NoWrite) /\ (ar # "off" ~> ar = "off")
=============================================================================
