---------------------------- MODULE RegisterFile ----------------------------
(***************************************************************************)
(* What a register slave of this repository promises   to software: a read   *)
(* and a write may be in progress at a time; each takes effect once, at one   *)
(* instant between its call and its return; and when both take effect at the  *)
(* same clock, the read returns the value from before the write.             *)
(***************************************************************************)
EXTENDS RegisterMap

VARIABLES
  mem,          \* the writable registers
  write, wreq,  \* progress of the write, and its request
  read, raddr,  \* progress of the read, and its address
  rval          \* the value that the read returns

writing == <<write, wreq>>
reading == <<read, raddr, rval>>
vars == <<mem, writing, reading>>

Init ==
  /\ mem = [r \in Writable |-> Zero]
  /\ write = "idle" /\ wreq \in Requests
  /\ read = "idle" /\ raddr \in Addresses /\ rval = Zero

-----------------------------------------------------------------------------
WriteCall ==
  /\ write = "idle" /\ write' = "called"
  /\ wreq' \in Requests
  /\ UNCHANGED mem

WriteDo ==
  /\ write = "called" /\ write' = "done"
  /\ mem' = [r \in Writable |-> IF r = wreq.addr
                                THEN Merge(mem[r], wreq.data, wreq.strb)
                                ELSE mem[r]]
  /\ UNCHANGED wreq

WriteReturn ==
  /\ write = "done" /\ write' = "idle"
  /\ UNCHANGED <<mem, wreq>>

WriteSide == WriteCall \/ WriteDo \/ WriteReturn \/ UNCHANGED <<mem, writing>>

-----------------------------------------------------------------------------
ReadCall ==
  /\ read = "idle" /\ read' = "called"
  /\ raddr' \in Addresses
  /\ UNCHANGED rval

(* A register that hardware drives may hold any word, and an address without  *)
(* a register reads as 0.                                                    *)
Readable(a) ==
  IF a \in Writable THEN {mem[a]} ELSE IF a \in Registers THEN Words ELSE {Zero}

ReadDo ==
  /\ read = "called" /\ read' = "done"
  /\ rval' \in Readable(raddr)
  /\ UNCHANGED raddr

ReadReturn ==
  /\ read = "done" /\ read' = "idle"
  /\ UNCHANGED <<raddr, rval>>

ReadSide == ReadCall \/ ReadDo \/ ReadReturn \/ UNCHANGED reading

Reset ==
  /\ mem' = [r \in Writable |-> Zero]
  /\ write' = "idle" /\ read' = "idle" /\ rval' = Zero
  /\ UNCHANGED <<wreq, raddr>>

Next == (WriteSide /\ ReadSide) \/ Reset

Spec == Init /\ [][Next]_vars
=============================================================================
