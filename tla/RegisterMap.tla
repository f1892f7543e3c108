---------------------------- MODULE RegisterMap ----------------------------
(***************************************************************************)
(* The registers behind an AXI-Lite slave: which word addresses exist, which *)
(* of them software writes, and how a write merges its bytes.                *)
(***************************************************************************)
EXTENDS Naturals

CONSTANTS
  Registers,   \* word addresses in the read multiplexer, slv_reg0 ...
  Writable,    \* those in the write decoder; hardware drives the others
  OffMap,      \* word addresses that neither decodes
  Lanes,       \* bytes of a word, one per write strobe
  Values       \* values of a byte

ASSUME RegistersAssumption == 0 \in Registers
ASSUME WritableAssumption == Writable \subseteq Registers
ASSUME OffMapAssumption == OffMap \intersect Registers = {}
ASSUME ValuesAssumption == 0 \in Values

Addresses == Registers \union OffMap
Words == [Lanes -> Values]
Zero == [l \in Lanes |-> 0]
Requests == [addr : Addresses, data : Words, strb : SUBSET Lanes]

(* The bytes whose strobe is set are written, the others stay.               *)
Merge(old, new, strobes) ==
  [l \in Lanes |-> IF l \in strobes THEN new[l] ELSE old[l]]
=============================================================================
