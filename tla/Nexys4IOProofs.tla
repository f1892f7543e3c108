--------------------------- MODULE Nexys4IOProofs ---------------------------
(***************************************************************************)
(* Proofs about the driver of the board's own input and output.  A call    *)
(* leaves a sequence of writes behind it, which are made one by one; what  *)
(* is proved of the registers between calls is an invariant about the      *)
(* value that each register will have when all of them are made.           *)
(***************************************************************************)
EXTENDS Nexys4IO, SequenceTheorems, TLAPS

-----------------------------------------------------------------------------
(* The values of each register, and the writes that a call can leave.      *)

Colours == [red : 0..255, green : 0..255, blue : 0..255, rest : {0}]
Panels == [digit : [0..3 -> 0..31], decpt : SUBSET (0..3)]

Values(reg) ==
    IF reg = "LEDS" THEN 0..LEDS_MASK
    ELSE IF reg \in {"RGB1_DATA", "RGB2_DATA"} THEN Colours
    ELSE IF reg \in {"RGB1_CNTRL", "RGB2_CNTRL"} THEN SUBSET {0, 1, 2, 6}
    ELSE Panels

Typed(rs) ==
    /\ rs = [reg \in Registers |-> rs[reg]]
    /\ \A reg \in Registers : rs[reg] \in Values(reg)

Entries == UNION {[reg : {r}, val : Values(r)] : r \in Registers}

\* No bank is written twice, so that its digits change once in a call.
WritesOK(td) ==
    /\ td \in Seq(Entries)
    /\ \A i, j \in 1..Len(td) : i < j /\ td[i].reg \in Banks => td[j].reg # td[i].reg

\* The write may be made by call c when the registers are rs.
Allowed(c, rs, w) ==
    IF w.reg \in Banks THEN Changes(c, w.reg, rs[w.reg], w.val) ELSE MayChange(c, w.reg)

Lawful(c, rs, td) == \A i \in 1..Len(td) : Allowed(c, rs, td[i])

\* What register reg holds when all the writes of td have been made.
Settles(rs, td, reg, v) ==
    \/ /\ \A i \in 1..Len(td) : td[i].reg # reg
       /\ v = rs[reg]
    \/ \E i \in 1..Len(td) :
           /\ td[i].reg = reg /\ td[i].val = v
           /\ \A j \in (i + 1)..Len(td) : td[j].reg # reg

Kept(rs, td, en) ==
    \A led \in Leds : \E v : Settles(rs, td, Cntrl[led], v) /\ v \cap CHEN_MASK = en[led]

Spelling(rs, td, number) ==
    \E lo, hi : /\ Settles(rs, td, "SSEGLO", lo)
                /\ Settles(rs, td, "SSEGHI", hi)
                /\ Shows(lo.digit, hi.digit, number)

-----------------------------------------------------------------------------
(* The inductive invariant.                                                *)

Styles == {"none", "u16", "u16hi", "hex", "dec"}

VarsOK ==
    /\ Typed(regs)
    /\ btnsw \in [btns : SUBSET Buttons, sw : Nat]
    /\ WritesOK(todo)
    /\ status \in {"none", "success", "failure"}
    /\ calls \in 0..MaxCalls
    /\ asked \in [style : Styles, n : Nat, trim : BOOLEAN]
    /\ enabled \in [Leds -> SUBSET CHEN_MASK]

Begun ==
    /\ call.op = "none" => Idle /\ enabled = [led \in Leds |-> {}]
    /\ ~Idle => status = "success"

IInv ==
    /\ VarsOK
    /\ Begun
    /\ Lawful(call, regs, todo)
    /\ Kept(regs, todo, enabled)
    /\ Spelling(regs, todo, asked)

-----------------------------------------------------------------------------
(* Registers and the writes to them.                                       *)

LEMMA RegistersAre ==
    Registers = {"LEDS", "RGB1_DATA", "RGB2_DATA", "RGB1_CNTRL", "RGB2_CNTRL", "SSEGLO", "SSEGHI"}
<1>1. {Data[led] : led \in Leds} = {"RGB1_DATA", "RGB2_DATA"}
  BY DEF Leds, Data
<1>2. {Cntrl[led] : led \in Leds} = {"RGB1_CNTRL", "RGB2_CNTRL"}
  BY DEF Leds, Cntrl
<1> QED
  BY <1>1, <1>2, SMT DEF Registers, Banks

LEMMA EntryIs ==
    ASSUME NEW r \in Registers, NEW v \in Values(r)
    PROVE  [reg |-> r, val |-> v] \in Entries
<1>1. [reg |-> r, val |-> v] \in [reg : {r}, val : Values(r)]
  OBVIOUS
<1> QED
  BY <1>1 DEF Entries

LEMMA EntryHas ==
    ASSUME NEW w \in Entries
    PROVE  w.reg \in Registers /\ w.val \in Values(w.reg)
<1>1. PICK r \in Registers : w \in [reg : {r}, val : Values(r)]
  BY DEF Entries
<1>2. w.reg = r /\ w.val \in Values(r)
  BY <1>1
<1> QED
  BY <1>1, <1>2

LEMMA Rewritten ==
    ASSUME NEW rs, Typed(rs), NEW w \in Entries
    PROVE  /\ Typed([rs EXCEPT ![w.reg] = w.val])
           /\ [rs EXCEPT ![w.reg] = w.val][w.reg] = w.val
           /\ \A r \in Registers : r # w.reg => [rs EXCEPT ![w.reg] = w.val][r] = rs[r]
<1> DEFINE new == [rs EXCEPT ![w.reg] = w.val]
<1>1. w.reg \in Registers /\ w.val \in Values(w.reg)
  BY EntryHas
<1>2. DOMAIN rs = Registers
  BY DEF Typed
<1>3. new[w.reg] = w.val /\ \A r \in Registers : r # w.reg => new[r] = rs[r]
  BY <1>1, <1>2, SMT
<1>4. new = [r \in Registers |-> new[r]]
  BY <1>2
<1>5. \A r \in Registers : new[r] \in Values(r)
  BY <1>1, <1>3, SMT DEF Typed
<1> QED
  BY <1>3, <1>4, <1>5 DEF Typed

-----------------------------------------------------------------------------
(* Making the first write of a call.                                       *)

LEMMA TailOfWrites ==
    ASSUME NEW td, WritesOK(td), td # <<>>
    PROVE  /\ td[1] \in Entries /\ Head(td) = td[1]
           /\ Len(td) \in Nat /\ Len(td) >= 1 /\ Len(Tail(td)) = Len(td) - 1
           /\ \A i \in 1..(Len(td) - 1) : Tail(td)[i] = td[i + 1]
           /\ WritesOK(Tail(td))
<1>1. td \in Seq(Entries)
  BY DEF WritesOK
<1>2. Len(td) \in Nat /\ Len(td) >= 1
  BY <1>1, SMT
<1>3. td[1] \in Entries /\ Head(td) = td[1]
  BY <1>1, <1>2, SMT
<1>4. Tail(td) \in Seq(Entries) /\ Len(Tail(td)) = Len(td) - 1
  BY <1>1, SMT
<1>5. \A i \in 1..(Len(td) - 1) : Tail(td)[i] = td[i + 1]
  BY <1>1, <1>4, SMT
<1>6. ASSUME NEW i \in 1..Len(Tail(td)), NEW j \in 1..Len(Tail(td)),
             i < j, Tail(td)[i].reg \in Banks
      PROVE  Tail(td)[j].reg # Tail(td)[i].reg
  <2>1. /\ i + 1 \in 1..Len(td) /\ j + 1 \in 1..Len(td) /\ i + 1 < j + 1
        /\ Tail(td)[i] = td[i + 1] /\ Tail(td)[j] = td[j + 1]
    BY <1>2, <1>4, <1>5, <1>6, SMT
  <2> QED
    BY <1>6, <2>1 DEF WritesOK
<1> QED
  BY <1>2, <1>3, <1>4, <1>5, <1>6 DEF WritesOK

LEMMA SettlesAfterWrite ==
    ASSUME NEW rs, Typed(rs), NEW td, WritesOK(td), td # <<>>,
           NEW r \in Registers, NEW v, Settles(rs, td, r, v)
    PROVE  Settles([rs EXCEPT ![Head(td).reg] = Head(td).val], Tail(td), r, v)
<1> DEFINE new == [rs EXCEPT ![Head(td).reg] = Head(td).val]
           n == Len(td)
           rest == Tail(td)
<1>1. /\ td[1] \in Entries /\ Head(td) = td[1]
      /\ n \in Nat /\ n >= 1 /\ Len(rest) = n - 1
      /\ \A i \in 1..(n - 1) : rest[i] = td[i + 1]
  BY TailOfWrites
<1>2. /\ new[td[1].reg] = td[1].val
      /\ r # td[1].reg => new[r] = rs[r]
  <2>1. /\ new[Head(td).reg] = Head(td).val
        /\ r # Head(td).reg => new[r] = rs[r]
    <3>1. Head(td) \in Entries
      BY <1>1
    <3> QED
      BY <3>1, Rewritten
  <2> QED
    BY <1>1, <2>1
<1> HIDE DEF new, n, rest
<1>3. CASE (\A i \in 1..n : td[i].reg # r) /\ v = rs[r]
  <2>1. \A i \in 1..(n - 1) : rest[i].reg # r
    BY <1>1, <1>3, SMT
  <2>2. new[r] = v
    BY <1>1, <1>2, <1>3, SMT
  <2> QED
    BY <1>1, <2>1, <2>2 DEF Settles, new, rest
<1>4. ASSUME NEW i \in 1..n, td[i].reg = r, td[i].val = v, \A j \in (i + 1)..n : td[j].reg # r
      PROVE  Settles(new, rest, r, v)
  <2>1. CASE i = 1
    <3>1. \A j \in 1..(n - 1) : rest[j].reg # r
      BY <1>1, <1>4, <2>1, SMT
    <3>2. new[r] = v
      BY <1>2, <1>4, <2>1
    <3> QED
      BY <1>1, <3>1, <3>2 DEF Settles
  <2>2. CASE i # 1
    <3>1. i - 1 \in 1..(n - 1) /\ rest[i - 1] = td[i]
      BY <1>1, <2>2, SMT
    <3>2. \A j \in ((i - 1) + 1)..(n - 1) : rest[j].reg # r
      BY <1>1, <1>4, SMT
    <3> QED
      BY <1>1, <1>4, <3>1, <3>2 DEF Settles
  <2> QED
    BY <2>1, <2>2
<1> QED
  BY <1>3, <1>4 DEF Settles, new, rest, n

LEMMA LawfulAfterWrite ==
    ASSUME NEW rs, Typed(rs), NEW td, WritesOK(td), td # <<>>, NEW c, Lawful(c, rs, td)
    PROVE  Lawful(c, [rs EXCEPT ![Head(td).reg] = Head(td).val], Tail(td))
<1> DEFINE new == [rs EXCEPT ![Head(td).reg] = Head(td).val]
<1> SUFFICES ASSUME NEW i \in 1..Len(Tail(td))
             PROVE  Allowed(c, new, Tail(td)[i])
  BY DEF Lawful
<1>1. /\ td[1] \in Entries /\ Head(td) = td[1] /\ Len(td) \in Nat
      /\ i + 1 \in 1..Len(td) /\ 1 \in 1..Len(td) /\ 1 < i + 1
      /\ Tail(td)[i] = td[i + 1] /\ td[i + 1] \in Entries
  BY TailOfWrites, SMT DEF WritesOK
<1>2. Allowed(c, rs, td[i + 1])
  BY <1>1 DEF Lawful
<1>3. CASE td[i + 1].reg \in Banks
  <2>1. td[i + 1].reg # td[1].reg
    BY <1>1, <1>3 DEF WritesOK
  <2>2. td[i + 1].reg \in Registers
    BY <1>1, EntryHas
  <2>3. new[td[i + 1].reg] = rs[td[i + 1].reg]
    BY <1>1, <2>1, <2>2, Rewritten
  <2> QED
    BY <1>1, <1>2, <1>3, <2>3 DEF Allowed
<1>4. CASE td[i + 1].reg \notin Banks
  BY <1>1, <1>2, <1>4 DEF Allowed
<1> QED
  BY <1>3, <1>4

-----------------------------------------------------------------------------
(* What the registers will hold after the writes that a call leaves.       *)

LEMMA NoWrites ==
    /\ WritesOK(<<>>)
    /\ \A c, rs : Lawful(c, rs, <<>>)
    /\ \A rs, r : Settles(rs, <<>>, r, rs[r])
    /\ \A rs, r, v : Settles(rs, <<>>, r, v) => v = rs[r]
<1>1. Len(<<>>) = 0 /\ <<>> \in Seq(Entries)
  OBVIOUS
<1> QED
  BY <1>1, SMT DEF WritesOK, Lawful, Settles

LEMMA OneWrite ==
    ASSUME NEW w \in Entries
    PROVE  /\ WritesOK(<<w>>)
           /\ \A c, rs : Allowed(c, rs, w) => Lawful(c, rs, <<w>>)
           /\ \A rs : Settles(rs, <<w>>, w.reg, w.val)
           /\ \A rs, r : r # w.reg => Settles(rs, <<w>>, r, rs[r])
<1>1. Len(<<w>>) = 1 /\ <<w>> \in Seq(Entries) /\ <<w>>[1] = w
  OBVIOUS
<1>2. WritesOK(<<w>>)
  BY <1>1, SMT DEF WritesOK
<1>3. \A c, rs : Allowed(c, rs, w) => Lawful(c, rs, <<w>>)
  BY <1>1, SMT DEF Lawful
<1>4. \A rs : Settles(rs, <<w>>, w.reg, w.val)
  BY <1>1, SMT DEF Settles
<1>5. \A rs, r : r # w.reg => Settles(rs, <<w>>, r, rs[r])
  BY <1>1, SMT DEF Settles
<1> QED
  BY <1>2, <1>3, <1>4, <1>5

LEMMA TwoWrites ==
    ASSUME NEW w \in Entries, NEW x \in Entries, w.reg # x.reg
    PROVE  /\ WritesOK(<<w, x>>)
           /\ \A c, rs : Allowed(c, rs, w) /\ Allowed(c, rs, x) => Lawful(c, rs, <<w, x>>)
           /\ \A rs : /\ Settles(rs, <<w, x>>, w.reg, w.val)
                      /\ Settles(rs, <<w, x>>, x.reg, x.val)
           /\ \A rs, r : r # w.reg /\ r # x.reg => Settles(rs, <<w, x>>, r, rs[r])
<1> DEFINE td == <<w, x>>
<1>1. Len(td) = 2 /\ td \in Seq(Entries) /\ td[1] = w /\ td[2] = x
  OBVIOUS
<1> HIDE DEF td
<1>2. WritesOK(td)
  BY <1>1, SMT DEF WritesOK
<1>3. \A c, rs : Allowed(c, rs, w) /\ Allowed(c, rs, x) => Lawful(c, rs, td)
  BY <1>1, SMT DEF Lawful
<1>4. \A rs : Settles(rs, td, w.reg, w.val) /\ Settles(rs, td, x.reg, x.val)
  BY <1>1, SMT DEF Settles
<1>5. \A rs, r : r # w.reg /\ r # x.reg => Settles(rs, td, r, rs[r])
  BY <1>1, SMT DEF Settles
<1> QED
  BY <1>2, <1>3, <1>4, <1>5 DEF td

LEMMA PairJoined ==
    ASSUME NEW S, NEW w \in S, NEW x \in S
    PROVE  <<w>> \o <<x>> = <<w, x>>
<1> DEFINE s == <<w>> \o <<x>>
           t == <<w, x>>
<1>1. s \in Seq(S) /\ Len(s) = 2 /\ s[1] = w /\ s[2] = x
  OBVIOUS
<1>2. t \in Seq(S) /\ Len(t) = 2 /\ t[1] = w /\ t[2] = x
  OBVIOUS
<1> HIDE DEF s, t
<1>3. \A i \in 1..Len(s) : s[i] = t[i]
  BY <1>1, <1>2
<1>4. s = t
  BY <1>1, <1>2, <1>3, SeqEqual, Zenon
<1> QED
  BY <1>4 DEF s, t

LEMMA TripleJoined ==
    ASSUME NEW S, NEW w \in S, NEW x \in S, NEW y \in S
    PROVE  <<w, x>> \o <<y>> = <<w, x, y>>
<1> DEFINE s == <<w, x>> \o <<y>>
           t == <<w, x, y>>
<1>1. s \in Seq(S) /\ Len(s) = 3 /\ s[1] = w /\ s[2] = x /\ s[3] = y
  OBVIOUS
<1>2. t \in Seq(S) /\ Len(t) = 3 /\ t[1] = w /\ t[2] = x /\ t[3] = y
  OBVIOUS
<1> HIDE DEF s, t
<1>3. \A i \in 1..Len(s) : s[i] = t[i]
  BY <1>1, <1>2
<1>4. s = t
  BY <1>1, <1>2, <1>3, SeqEqual, Zenon
<1> QED
  BY <1>4 DEF s, t

\* The channels are stopped, the duty cycles set and the channels restarted.
LEMMA ThreeWrites ==
    ASSUME NEW w \in Entries, NEW x \in Entries, NEW y \in Entries,
           w.reg = y.reg, w.reg # x.reg, w.reg \notin Banks, x.reg \notin Banks
    PROVE  /\ WritesOK(<<w, x, y>>)
           /\ \A c, rs : Allowed(c, rs, w) /\ Allowed(c, rs, x) => Lawful(c, rs, <<w, x, y>>)
           /\ \A rs : Settles(rs, <<w, x, y>>, w.reg, y.val)
           /\ \A rs, r : r # w.reg /\ r # x.reg => Settles(rs, <<w, x, y>>, r, rs[r])
<1> DEFINE td == <<w, x, y>>
<1>1. Len(td) = 3 /\ td \in Seq(Entries) /\ td[1] = w /\ td[2] = x /\ td[3] = y
  OBVIOUS
<1> HIDE DEF td
<1>2. WritesOK(td)
  BY <1>1, SMT DEF WritesOK
<1>3. \A c, rs : Allowed(c, rs, w) => Allowed(c, rs, y)
  BY DEF Allowed
<1>4. \A c, rs : Allowed(c, rs, w) /\ Allowed(c, rs, x) => Lawful(c, rs, td)
  BY <1>1, <1>3, SMT DEF Lawful
<1>5. \A rs : Settles(rs, td, w.reg, y.val)
  BY <1>1, SMT DEF Settles
<1>6. \A rs, r : r # w.reg /\ r # x.reg => Settles(rs, td, r, rs[r])
  BY <1>1, SMT DEF Settles
<1> QED
  BY <1>2, <1>4, <1>5, <1>6 DEF td

-----------------------------------------------------------------------------
(* Between calls the invariant is about the registers themselves.          *)

\* The enabled channels and the digits are the ones that were asked for.
Agrees(rs, en, number) ==
    /\ \A led \in Leds : rs[Cntrl[led]] \cap CHEN_MASK = en[led]
    /\ Shows(rs["SSEGLO"].digit, rs["SSEGHI"].digit, number)

LEMMA AgreesWhenIdle ==
    ASSUME NEW rs, NEW en, NEW number
    PROVE  Kept(rs, <<>>, en) /\ Spelling(rs, <<>>, number) <=> Agrees(rs, en, number)
<1>1. Kept(rs, <<>>, en) <=> \A led \in Leds : rs[Cntrl[led]] \cap CHEN_MASK = en[led]
  BY NoWrites, Zenon DEF Kept
<1>2. Spelling(rs, <<>>, number) <=> Shows(rs["SSEGLO"].digit, rs["SSEGHI"].digit, number)
  <2>1. ASSUME Spelling(rs, <<>>, number)
        PROVE  Shows(rs["SSEGLO"].digit, rs["SSEGHI"].digit, number)
    <3>1. PICK lo, hi : /\ Settles(rs, <<>>, "SSEGLO", lo)
                        /\ Settles(rs, <<>>, "SSEGHI", hi)
                        /\ Shows(lo.digit, hi.digit, number)
      BY <2>1, Zenon DEF Spelling
    <3>2. lo = rs["SSEGLO"] /\ hi = rs["SSEGHI"]
      BY <3>1, NoWrites, Zenon
    <3> QED
      BY <3>1, <3>2, Zenon
  <2>2. ASSUME Shows(rs["SSEGLO"].digit, rs["SSEGHI"].digit, number)
        PROVE  Spelling(rs, <<>>, number)
    BY <2>2, NoWrites, Zenon DEF Spelling
  <2> QED
    BY <2>1, <2>2
<1> QED
  BY <1>1, <1>2 DEF Agrees

\* What a call may leave behind when it begins with these registers.
Good(c, rs, td, en, number) ==
    /\ WritesOK(td)
    /\ Lawful(c, rs, td)
    /\ Kept(rs, td, en)
    /\ Spelling(rs, td, number)

\* A call that leaves no writes.
LEMMA GoodNone ==
    ASSUME NEW rs, NEW c, NEW en, NEW number, Agrees(rs, en, number)
    PROVE  Good(c, rs, <<>>, en, number)
BY NoWrites, AgreesWhenIdle DEF Good

\* A call that leaves the digits and the channels alone.
LEMMA GoodOther ==
    ASSUME NEW rs, NEW c, NEW en, NEW number, Agrees(rs, en, number),
           NEW w \in Entries, MayChange(c, w.reg),
           w.reg \notin Banks, \A led \in Leds : w.reg # Cntrl[led]
    PROVE  Good(c, rs, <<w>>, en, number)
<1>1. \A r : r # w.reg => Settles(rs, <<w>>, r, rs[r])
  BY OneWrite
<1>2. Kept(rs, <<w>>, en)
  BY <1>1 DEF Kept, Agrees
<1>3. Spelling(rs, <<w>>, number)
  BY <1>1, Zenon DEF Spelling, Agrees, Banks
<1>4. WritesOK(<<w>>) /\ Lawful(c, rs, <<w>>)
  BY OneWrite DEF Allowed
<1> QED
  BY <1>2, <1>3, <1>4 DEF Good

\* A call that writes one bank.
LEMMA GoodBank ==
    ASSUME NEW rs, NEW c, NEW en, NEW number, NEW asked2, Agrees(rs, en, number),
           NEW bank \in Banks, NEW data \in Panels,
           Changes(c, bank, rs[bank], data),
           bank = "SSEGLO" => Shows(data.digit, rs["SSEGHI"].digit, asked2),
           bank = "SSEGHI" => Shows(rs["SSEGLO"].digit, data.digit, asked2)
    PROVE  Good(c, rs, <<[reg |-> bank, val |-> data]>>, en, asked2)
<1> DEFINE w == [reg |-> bank, val |-> data]
<1>1. w \in Entries
  <2>1. bank \in Registers /\ data \in Values(bank)
    BY RegistersAre, SMT DEF Values, Banks
  <2> QED
    BY <2>1, EntryIs
<1>2. w.reg = bank /\ w.val = data
  OBVIOUS
<1> HIDE DEF w
<1>3. /\ \A r : r # bank => Settles(rs, <<w>>, r, rs[r])
      /\ Settles(rs, <<w>>, bank, data)
  BY <1>1, <1>2, OneWrite
<1>4. WritesOK(<<w>>) /\ Lawful(c, rs, <<w>>)
  <2>1. Allowed(c, rs, w)
    BY <1>2 DEF Allowed
  <2> QED
    BY <1>1, <2>1, OneWrite
<1>5. Kept(rs, <<w>>, en)
  <2>1. \A led \in Leds : Cntrl[led] # bank
    BY SMT DEF Leds, Cntrl, Banks
  <2> QED
    BY <1>3, <2>1, Zenon DEF Kept, Agrees
<1>6. Spelling(rs, <<w>>, asked2)
  <2>1. CASE bank = "SSEGLO"
    BY <1>3, <2>1, Zenon DEF Spelling
  <2>2. CASE bank = "SSEGHI"
    BY <1>3, <2>2, Zenon DEF Spelling
  <2> QED
    BY <2>1, <2>2 DEF Banks
<1> QED
  BY <1>4, <1>5, <1>6 DEF Good, w

\* A call that writes both.
LEMMA GoodBanks ==
    ASSUME NEW rs, NEW c, NEW en, NEW number, NEW asked2, Agrees(rs, en, number),
           NEW hi \in Panels, NEW lo \in Panels,
           Changes(c, "SSEGHI", rs["SSEGHI"], hi), Changes(c, "SSEGLO", rs["SSEGLO"], lo),
           Shows(lo.digit, hi.digit, asked2)
    PROVE  Good(c, rs, <<[reg |-> "SSEGHI", val |-> hi], [reg |-> "SSEGLO", val |-> lo]>>,
                en, asked2)
<1> DEFINE w == [reg |-> "SSEGHI", val |-> hi]
           x == [reg |-> "SSEGLO", val |-> lo]
<1>1. w \in Entries /\ x \in Entries
  <2>1. /\ "SSEGHI" \in Registers /\ hi \in Values("SSEGHI")
        /\ "SSEGLO" \in Registers /\ lo \in Values("SSEGLO")
    BY RegistersAre, SMT DEF Values, Banks
  <2> QED
    BY <2>1, EntryIs
<1>2. w.reg = "SSEGHI" /\ w.val = hi /\ x.reg = "SSEGLO" /\ x.val = lo
  OBVIOUS
<1> HIDE DEF w, x
<1>3. /\ \A r : r # "SSEGHI" /\ r # "SSEGLO" => Settles(rs, <<w, x>>, r, rs[r])
      /\ Settles(rs, <<w, x>>, "SSEGHI", hi)
      /\ Settles(rs, <<w, x>>, "SSEGLO", lo)
  BY <1>1, <1>2, TwoWrites
<1>4. WritesOK(<<w, x>>) /\ Lawful(c, rs, <<w, x>>)
  <2>1. Allowed(c, rs, w) /\ Allowed(c, rs, x)
    BY <1>2 DEF Allowed, Banks
  <2> QED
    BY <1>1, <1>2, <2>1, TwoWrites
<1>5. Kept(rs, <<w, x>>, en)
  <2>1. \A led \in Leds : Cntrl[led] # "SSEGHI" /\ Cntrl[led] # "SSEGLO"
    BY SMT DEF Leds, Cntrl
  <2> QED
    BY <1>3, <2>1, Zenon DEF Kept, Agrees
<1>6. Spelling(rs, <<w, x>>, asked2)
  BY <1>3, Zenon DEF Spelling
<1> QED
  BY <1>4, <1>5, <1>6 DEF Good, w, x

\* A call that sets which channels of an LED are enabled.
LEMMA GoodCntrl ==
    ASSUME NEW rs, NEW c, NEW en, NEW number, NEW en2, Agrees(rs, en, number),
           NEW led \in Leds, NEW cntrl \in SUBSET {0, 1, 2, 6}, MayChange(c, Cntrl[led]),
           cntrl \cap CHEN_MASK = en2[led], \A l \in Leds : l # led => en2[l] = en[l]
    PROVE  Good(c, rs, <<[reg |-> Cntrl[led], val |-> cntrl]>>, en2, number)
<1> DEFINE w == [reg |-> Cntrl[led], val |-> cntrl]
<1>0. /\ Cntrl[led] \notin Banks /\ "SSEGHI" # Cntrl[led] /\ "SSEGLO" # Cntrl[led]
      /\ \A l \in Leds : l # led => Cntrl[l] # Cntrl[led]
  BY SMT DEF Leds, Cntrl, Banks
<1>1. w \in Entries
  <2>1. Cntrl[led] \in Registers /\ cntrl \in Values(Cntrl[led])
    BY RegistersAre, SMT DEF Values, Cntrl, Leds, Banks
  <2> QED
    BY <2>1, EntryIs
<1>2. w.reg = Cntrl[led] /\ w.val = cntrl
  OBVIOUS
<1> HIDE DEF w
<1>3. /\ \A r : r # Cntrl[led] => Settles(rs, <<w>>, r, rs[r])
      /\ Settles(rs, <<w>>, Cntrl[led], cntrl)
  BY <1>1, <1>2, OneWrite
<1>4. WritesOK(<<w>>) /\ Lawful(c, rs, <<w>>)
  <2>1. Allowed(c, rs, w)
    BY <1>0, <1>2 DEF Allowed
  <2> QED
    BY <1>1, <2>1, OneWrite
<1>5. Kept(rs, <<w>>, en2)
  <2> SUFFICES ASSUME NEW l \in Leds
               PROVE  \E v : Settles(rs, <<w>>, Cntrl[l], v) /\ v \cap CHEN_MASK = en2[l]
    BY DEF Kept
  <2>1. CASE l = led
    BY <1>3, <2>1, Zenon
  <2>2. CASE l # led
    BY <1>0, <1>3, <2>2, Zenon DEF Agrees
  <2> QED
    BY <2>1, <2>2
<1>6. Spelling(rs, <<w>>, number)
  BY <1>0, <1>3, Zenon DEF Spelling, Agrees
<1> QED
  BY <1>4, <1>5, <1>6 DEF Good, w

\* A call that stops the channels, sets the duty cycles and restores the channels.
LEMMA GoodDutyCycle ==
    ASSUME NEW rs, NEW c, NEW en, NEW number, Agrees(rs, en, number),
           NEW led \in Leds, NEW data \in Colours, NEW cntrl \in SUBSET {0, 1, 2, 6},
           MayChange(c, Cntrl[led]), MayChange(c, Data[led]),
           cntrl \cap CHEN_MASK = rs[Cntrl[led]] \cap CHEN_MASK
    PROVE  Good(c, rs, <<[reg |-> Cntrl[led], val |-> {}], [reg |-> Data[led], val |-> data],
                         [reg |-> Cntrl[led], val |-> cntrl]>>, en, number)
<1> DEFINE w == [reg |-> Cntrl[led], val |-> {}]
           x == [reg |-> Data[led], val |-> data]
           y == [reg |-> Cntrl[led], val |-> cntrl]
<1>0. /\ Cntrl[led] \notin Banks /\ Data[led] \notin Banks /\ Cntrl[led] # Data[led]
      /\ "SSEGHI" # Cntrl[led] /\ "SSEGLO" # Cntrl[led]
      /\ "SSEGHI" # Data[led] /\ "SSEGLO" # Data[led]
      /\ \A l \in Leds : Cntrl[l] # Data[led]
      /\ \A l \in Leds : l # led => Cntrl[l] # Cntrl[led]
  BY SMT DEF Leds, Cntrl, Data, Banks
<1>1. w \in Entries /\ x \in Entries /\ y \in Entries
  <2>1. Cntrl[led] \in Registers /\ {} \in Values(Cntrl[led]) /\ cntrl \in Values(Cntrl[led])
    BY RegistersAre, SMT DEF Values, Cntrl, Leds, Banks
  <2>2. Data[led] \in Registers /\ data \in Values(Data[led])
    <3>1. Data[led] \in {"RGB1_DATA", "RGB2_DATA"}
      BY DEF Data, Leds
    <3>2. Values(Data[led]) = Colours
      BY <3>1, SMT DEF Values
    <3> QED
      BY <3>1, <3>2, RegistersAre
  <2> QED
    BY <2>1, <2>2, EntryIs
<1>2. w.reg = Cntrl[led] /\ x.reg = Data[led] /\ y.reg = Cntrl[led] /\ y.val = cntrl
  OBVIOUS
<1> HIDE DEF w, x, y
<1>3. /\ \A r : r # Cntrl[led] /\ r # Data[led] => Settles(rs, <<w, x, y>>, r, rs[r])
      /\ Settles(rs, <<w, x, y>>, Cntrl[led], cntrl)
  BY <1>0, <1>1, <1>2, ThreeWrites
<1>4. WritesOK(<<w, x, y>>) /\ Lawful(c, rs, <<w, x, y>>)
  <2>1. Allowed(c, rs, w) /\ Allowed(c, rs, x)
    BY <1>0, <1>2 DEF Allowed
  <2> QED
    BY <1>0, <1>1, <1>2, <2>1, ThreeWrites
<1>5. Kept(rs, <<w, x, y>>, en)
  <2> SUFFICES ASSUME NEW l \in Leds
               PROVE  \E v : Settles(rs, <<w, x, y>>, Cntrl[l], v) /\ v \cap CHEN_MASK = en[l]
    BY DEF Kept
  <2>1. rs[Cntrl[l]] \cap CHEN_MASK = en[l]
    BY DEF Agrees
  <2>2. CASE l = led
    BY <1>3, <2>1, <2>2, Zenon
  <2>3. CASE l # led
    BY <1>0, <1>3, <2>1, <2>3, Zenon
  <2> QED
    BY <2>2, <2>3
<1>6. Spelling(rs, <<w, x, y>>, number)
  BY <1>0, <1>3, Zenon DEF Spelling, Agrees
<1> QED
  BY <1>4, <1>5, <1>6 DEF Good, w, x, y

-----------------------------------------------------------------------------
(* The digits of a number.                                                 *)

LEMMA NumbersAre ==
    ASSUME NEW n \in Numbers
    PROVE  n \in Nat /\ u32(n)
<1>1. u32(n)
  BY Nexys4IOAssumption
<1> QED
  BY <1>1, SMT DEF u32

\* Dividing in two steps; the powers are those of the table of bin2hex().
LEMMA Nibble ==
    ASSUME NEW n \in Nat
    PROVE  /\ n \div 16 \in Nat
           /\ n = 16 * (n \div 16) + (n % 16)
           /\ n % 16 \in 0..15
BY SMT

LEMMA Shifts ==
    ASSUME NEW n \in Nat
    PROVE  /\ n \div 256 = (n \div 16) \div 16
           /\ n \div 4096 = (n \div 256) \div 16
           /\ n \div 65536 = (n \div 4096) \div 16
           /\ n \div 1048576 = (n \div 65536) \div 16
           /\ n \div 16777216 = (n \div 1048576) \div 16
           /\ n \div 268435456 = (n \div 16777216) \div 16
<1>1. n \div 256 = (n \div 16) \div 16
  BY SMT
<1>2. n \div 4096 = (n \div 256) \div 16
  BY SMT
<1>3. n \div 65536 = (n \div 4096) \div 16
  BY SMT
<1>4. n \div 1048576 = (n \div 65536) \div 16
  BY SMT
<1>5. n \div 16777216 = (n \div 1048576) \div 16
  BY SMT
<1>6. n \div 268435456 = (n \div 16777216) \div 16
  BY SMT
<1> QED
  BY <1>1, <1>2, <1>3, <1>4, <1>5, <1>6, SMT

\* The nibbles of bin2hex() are digits, and the number can be put together from them.
LEMMA HexDigits ==
    ASSUME NEW n \in Nat
    PROVE  /\ bin2hex(n) \in [0..7 -> 0..15]
           /\ n = bin2hex(n)[0] + 16 * (bin2hex(n)[1] + 16 * (bin2hex(n)[2] + 16 *
                     (bin2hex(n)[3] + 16 * (n \div 65536))))
           /\ u32(n) =>
                  n \div 65536 = bin2hex(n)[4] + 16 * (bin2hex(n)[5] + 16 *
                                     (bin2hex(n)[6] + 16 * bin2hex(n)[7]))
<1> DEFINE cc == bin2hex(n)
           q1 == n \div 16
           q2 == n \div 256
           q3 == n \div 4096
           q4 == n \div 65536
           q5 == n \div 1048576
           q6 == n \div 16777216
           q7 == n \div 268435456
<1>1. /\ cc[0] = n % 16 /\ cc[1] = q1 % 16 /\ cc[2] = q2 % 16 /\ cc[3] = q3 % 16
      /\ cc[4] = q4 % 16 /\ cc[5] = q5 % 16 /\ cc[6] = q6 % 16 /\ cc[7] = q7 % 16
  BY SMT DEF bin2hex, pow_sixteen
<1>2. cc \in [0..7 -> 0..15]
  <2>1. \A i \in 0..7 : (n \div pow_sixteen[i + 1]) % 16 \in 0..15
    <3> TAKE i \in 0..7
    <3>1. pow_sixteen[i + 1] \in Nat /\ pow_sixteen[i + 1] > 0
      BY SMT DEF pow_sixteen
    <3> QED
      BY <3>1, SMT
  <2> QED
    BY <2>1, SMT DEF bin2hex
<1>3. /\ q1 \in Nat /\ q2 \in Nat /\ q3 \in Nat /\ q4 \in Nat
      /\ q5 \in Nat /\ q6 \in Nat /\ q7 \in Nat
      /\ q2 = q1 \div 16 /\ q3 = q2 \div 16 /\ q4 = q3 \div 16
      /\ q5 = q4 \div 16 /\ q6 = q5 \div 16 /\ q7 = q6 \div 16
  BY Shifts, SMT
<1> HIDE DEF cc, q1, q2, q3, q4, q5, q6, q7
<1>4. /\ q1 = 16 * q2 + (q1 % 16) /\ q2 = 16 * q3 + (q2 % 16) /\ q3 = 16 * q4 + (q3 % 16)
      /\ q4 = 16 * q5 + (q4 % 16) /\ q5 = 16 * q6 + (q5 % 16) /\ q6 = 16 * q7 + (q6 % 16)
  BY <1>3, SMT
<1>5. n = 16 * q1 + (n % 16)
  BY Nibble, SMT DEF q1
<1>6. n = cc[0] + 16 * (cc[1] + 16 * (cc[2] + 16 * (cc[3] + 16 * q4)))
  BY <1>1, <1>3, <1>4, <1>5, SMT
<1>7. ASSUME u32(n)
      PROVE  q4 = cc[4] + 16 * (cc[5] + 16 * (cc[6] + 16 * cc[7]))
  <2>0. q4 <= 65535
    BY <1>7, SMT DEF u32, u16, q4
  <2>1. q7 \in 0..15
    BY <1>3, <2>0, SMT
  <2>2. q7 % 16 = q7
    BY <2>1, SMT
  <2> QED
    BY <1>1, <1>3, <1>4, <2>2, SMT
<1> QED
  BY <1>2, <1>6, <1>7, SMT DEF cc, q4

\* Taking the powers of ten away from the left, as bin2bcd() does.
LEMMA DecimalDigits ==
    ASSUME NEW n \in Nat, n <= MAX_DECIMAL
    PROVE  /\ bin2bcd(n) \in [0..9 -> 0..9]
           /\ bin2bcd(n)[0] = 0 /\ bin2bcd(n)[1] = 0
           /\ n = bin2bcd(n)[9] + 10 * (bin2bcd(n)[8] + 10 * (bin2bcd(n)[7] + 10 *
                     (bin2bcd(n)[6] + 10 * (bin2bcd(n)[5] + 10 * (bin2bcd(n)[4] + 10 *
                         (bin2bcd(n)[3] + 10 * bin2bcd(n)[2]))))))
<1> DEFINE cc == bin2bcd(n)
           l3 == n % 10000000
           l4 == n % 1000000
           l5 == n % 100000
           l6 == n % 10000
           l7 == n % 1000
           l8 == n % 100
           l9 == n % 10
<1>1. /\ cc = [i \in 0..9 |-> cc[i]]
      /\ cc[0] = n \div 1000000000
      /\ cc[1] = (n % 1000000000) \div 100000000
      /\ cc[2] = (n % 100000000) \div 10000000
      /\ cc[3] = l3 \div 1000000 /\ cc[4] = l4 \div 100000
      /\ cc[5] = l5 \div 10000 /\ cc[6] = l6 \div 1000
      /\ cc[7] = l7 \div 100 /\ cc[8] = l8 \div 10 /\ cc[9] = l9 \div 1
  BY SMT DEF bin2bcd, left, pow_ten_tbl
<1> HIDE DEF cc
<1>2. /\ n \div 1000000000 = 0 /\ (n % 1000000000) \div 100000000 = 0
      /\ (n % 100000000) \div 10000000 \in 0..9
      /\ n = 10000000 * ((n % 100000000) \div 10000000) + l3
  <2>1. n \div 1000000000 = 0
    BY SMT DEF MAX_DECIMAL
  <2>2. n % 1000000000 = n /\ n \div 100000000 = 0
    BY SMT DEF MAX_DECIMAL
  <2>3. n % 100000000 = n /\ n \div 10000000 \in 0..9
    BY SMT DEF MAX_DECIMAL
  <2>4. n = 10000000 * (n \div 10000000) + l3
    BY SMT
  <2> QED
    BY <2>1, <2>2, <2>3, <2>4, SMT
<1>3. l9 \div 1 = l9
  BY SMT
<1>4. /\ l9 \in 0..9 /\ l8 \div 10 \in 0..9 /\ l7 \div 100 \in 0..9 /\ l6 \div 1000 \in 0..9
      /\ l5 \div 10000 \in 0..9 /\ l4 \div 100000 \in 0..9 /\ l3 \div 1000000 \in 0..9
  <2>1. l9 \in 0..9
    BY SMT
  <2>2. l8 \div 10 \in 0..9
    BY SMT
  <2>3. l7 \div 100 \in 0..9
    BY SMT
  <2>4. l6 \div 1000 \in 0..9
    BY SMT
  <2>5. l5 \div 10000 \in 0..9
    BY SMT
  <2>6. l4 \div 100000 \in 0..9
    BY SMT
  <2>7. l3 \div 1000000 \in 0..9
    BY SMT
  <2> QED
    BY <2>1, <2>2, <2>3, <2>4, <2>5, <2>6, <2>7, SMT
<1>9. l8 = 10 * (l8 \div 10) + l9
  BY SMT
<1>10. l7 = 100 * (l7 \div 100) + l8
  BY SMT
<1>11. l6 = 1000 * (l6 \div 1000) + l7
  BY SMT
<1>12. l5 = 10000 * (l5 \div 10000) + l6
  BY SMT
<1>13. l4 = 100000 * (l4 \div 100000) + l5
  BY SMT
<1>14. l3 = 1000000 * (l3 \div 1000000) + l4
  BY SMT
<1>15. l3 \in Int /\ l4 \in Int /\ l5 \in Int /\ l6 \in Int /\ l7 \in Int /\ l8 \in Int /\ l9 \in Int
  BY SMT
<1> HIDE DEF l3, l4, l5, l6, l7, l8, l9
<1>5. /\ cc[0] = 0 /\ cc[1] = 0 /\ cc[2] \in 0..9 /\ cc[3] \in 0..9 /\ cc[4] \in 0..9
      /\ cc[5] \in 0..9 /\ cc[6] \in 0..9 /\ cc[7] \in 0..9 /\ cc[8] \in 0..9 /\ cc[9] \in 0..9
  BY <1>1, <1>2, <1>3, <1>4, SMT
<1>6. /\ n = 10000000 * cc[2] + l3
      /\ l3 = 1000000 * cc[3] + l4 /\ l4 = 100000 * cc[4] + l5
      /\ l5 = 10000 * cc[5] + l6 /\ l6 = 1000 * cc[6] + l7
      /\ l7 = 100 * cc[7] + l8 /\ l8 = 10 * cc[8] + l9 /\ l9 = cc[9]
  BY <1>1, <1>2, <1>3, <1>9, <1>10, <1>11, <1>12, <1>13, <1>14, SMT
<1>7. cc \in [0..9 -> 0..9]
  <2>1. \A i \in 0..9 : cc[i] \in 0..9
    BY <1>5, SMT
  <2> QED
    BY <1>1, <2>1, SMT
<1>8. n = cc[9] + 10 * (cc[8] + 10 * (cc[7] + 10 * (cc[6] + 10 * (cc[5] + 10 *
              (cc[4] + 10 * (cc[3] + 10 * cc[2]))))))
  <2> DEFINE c2 == cc[2]
             c3 == cc[3]
             c4 == cc[4]
             c5 == cc[5]
             c6 == cc[6]
             c7 == cc[7]
             c8 == cc[8]
             c9 == cc[9]
  <2>1. /\ n = 10000000 * c2 + l3 /\ l3 = 1000000 * c3 + l4 /\ l4 = 100000 * c4 + l5
        /\ l5 = 10000 * c5 + l6 /\ l6 = 1000 * c6 + l7 /\ l7 = 100 * c7 + l8
        /\ l8 = 10 * c8 + l9 /\ l9 = c9
    BY <1>6, SMT
  <2>2. /\ c2 \in 0..9 /\ c3 \in 0..9 /\ c4 \in 0..9 /\ c5 \in 0..9
        /\ c6 \in 0..9 /\ c7 \in 0..9 /\ c8 \in 0..9 /\ c9 \in 0..9
    BY <1>5, SMT
  <2> HIDE DEF c2, c3, c4, c5, c6, c7, c8, c9
  <2>3. n = c9 + 10 * (c8 + 10 * (c7 + 10 * (c6 + 10 * (c5 + 10 * (c4 + 10 * (c3 + 10 * c2))))))
    BY <1>15, <2>1, <2>2, SMT
  <2> QED
    BY <2>3, SMT DEF c2, c3, c4, c5, c6, c7, c8, c9
<1> QED
  BY <1>5, <1>7, <1>8, SMT DEF cc

-----------------------------------------------------------------------------
(* The digits that the functions for numbers write spell the number.       *)

LEMMA AllDigits ==
    ASSUME NEW bank \in Banks, NEW dp \in SUBSET (0..3), NEW d \in [0..3 -> 0..31]
    PROVE  /\ [digit |-> d, decpt |-> dp] \in Panels
           /\ setAllDigits(bank, d[3], d[2], d[1], d[0], dp)
                  = <<[reg |-> bank, val |-> [digit |-> d, decpt |-> dp]]>>
<1> DEFINE t == <<d[0], d[1], d[2], d[3]>>
           digit == [i \in 0..3 |-> t[i + 1] % 32]
<1>1. \A i \in 0..3 : digit[i] = d[i]
  <2>1. digit[0] = d[0] /\ digit[1] = d[1] /\ digit[2] = d[2] /\ digit[3] = d[3]
    BY SMT
  <2> HIDE DEF digit
  <2> TAKE i \in 0..3
  <2>2. i = 0 \/ i = 1 \/ i = 2 \/ i = 3
    BY SMT
  <2> QED
    BY <2>1, <2>2, Zenon
<1>2. digit = d
  BY <1>1
<1>3. dp \cap DECPTS_MASK = dp
  BY DEF DECPTS_MASK
<1>4. setAllDigits(bank, d[3], d[2], d[1], d[0], dp) = setSSEG_DATA(bank, Bank(digit, dp))
  BY Zenon DEF setAllDigits
<1> HIDE DEF digit
<1>5. setSSEG_DATA(bank, Bank(d, dp)) = <<[reg |-> bank, val |-> [digit |-> d, decpt |-> dp]]>>
  BY <1>3 DEF setSSEG_DATA, Bank, Write
<1>6. [digit |-> d, decpt |-> dp] \in Panels
  BY Zenon DEF Panels
<1> QED
  BY <1>2, <1>4, <1>5, <1>6, Zenon

LEMMA HexShown ==
    ASSUME NEW n \in Nat, u32(n), NEW lo \in [0..3 -> 0..31], NEW hi \in [0..3 -> 0..31],
           \A i \in 0..3 : lo[i] = bin2hex(n)[i] /\ hi[i] = bin2hex(n)[i + 4]
    PROVE  Shows(lo, hi, [style |-> "hex", n |-> n, trim |-> FALSE])
<1> DEFINE cc == bin2hex(n)
<1>1. /\ lo[0] = cc[0] /\ lo[1] = cc[1] /\ lo[2] = cc[2] /\ lo[3] = cc[3]
      /\ hi[0] = cc[4] /\ hi[1] = cc[5] /\ hi[2] = cc[6] /\ hi[3] = cc[7]
  BY SMT
<1>2. /\ cc[0] \in 0..15 /\ cc[1] \in 0..15 /\ cc[2] \in 0..15 /\ cc[3] \in 0..15
      /\ cc[4] \in 0..15 /\ cc[5] \in 0..15 /\ cc[6] \in 0..15 /\ cc[7] \in 0..15
  BY HexDigits, SMT
<1>3. n = cc[0] + 16 * (cc[1] + 16 * (cc[2] + 16 * (cc[3] + 16 * (cc[4] + 16 * (cc[5] + 16 *
              (cc[6] + 16 * cc[7]))))))
  BY HexDigits, SMT
<1> HIDE DEF cc
<1>4. Spelt8(lo, hi, 16) = cc[0] + 16 * (cc[1] + 16 * (cc[2] + 16 * (cc[3] + 16 *
              (cc[4] + 16 * (cc[5] + 16 * (cc[6] + 16 * cc[7]))))))
  <2>1. /\ Value(lo, hi, 0) = cc[0] /\ Value(lo, hi, 1) = cc[1] /\ Value(lo, hi, 2) = cc[2]
        /\ Value(lo, hi, 3) = cc[3] /\ Value(lo, hi, 4) = cc[4] /\ Value(lo, hi, 5) = cc[5]
        /\ Value(lo, hi, 6) = cc[6] /\ Value(lo, hi, 7) = cc[7]
    BY <1>1, <1>2, SMT DEF Value, Shown, CC_BLANK
  <2> QED
    BY <2>1, Zenon DEF Spelt8
<1> QED
  BY <1>3, <1>4, SMT DEF Shows

LEMMA U16Shown ==
    ASSUME NEW n \in Nat, u16(n), NEW lo \in [0..3 -> 0..31], NEW hi,
           \A i \in 0..3 : lo[i] = bin2hex(n)[i]
    PROVE  Shows(lo, hi, [style |-> "u16", n |-> n, trim |-> FALSE])
<1> DEFINE cc == bin2hex(n)
<1>1. lo[0] = cc[0] /\ lo[1] = cc[1] /\ lo[2] = cc[2] /\ lo[3] = cc[3]
  BY SMT
<1>2. cc[0] \in 0..15 /\ cc[1] \in 0..15 /\ cc[2] \in 0..15 /\ cc[3] \in 0..15
  BY HexDigits, SMT
<1>3. n = cc[0] + 16 * (cc[1] + 16 * (cc[2] + 16 * cc[3]))
  <2>1. n \div 65536 = 0
    BY SMT DEF u16
  <2>2. n = cc[0] + 16 * (cc[1] + 16 * (cc[2] + 16 * (cc[3] + 16 * (n \div 65536))))
    BY HexDigits, SMT
  <2> QED
    BY <1>2, <2>1, <2>2, SMT
<1> HIDE DEF cc
<1>4. Spelt4(lo, hi, 16) = cc[0] + 16 * (cc[1] + 16 * (cc[2] + 16 * cc[3]))
  <2>1. /\ Value(lo, hi, 0) = cc[0] /\ Value(lo, hi, 1) = cc[1]
        /\ Value(lo, hi, 2) = cc[2] /\ Value(lo, hi, 3) = cc[3]
    BY <1>1, <1>2, SMT DEF Value, Shown, CC_BLANK
  <2> QED
    BY <2>1, Zenon DEF Spelt4
<1> QED
  BY <1>3, <1>4, SMT DEF Shows

LEMMA U16UpperShown ==
    ASSUME NEW n \in Nat, u16(n), NEW lo, NEW hi \in [0..3 -> 0..31],
           \A i \in 0..3 : hi[i] = bin2hex(n)[i + 4]
    PROVE  Shows(lo, hi, [style |-> "u16hi", n |-> n, trim |-> FALSE])
<1>1. bin2hex(n)[4] = 0 /\ bin2hex(n)[5] = 0 /\ bin2hex(n)[6] = 0 /\ bin2hex(n)[7] = 0
  <2>1. n \div 65536 = 0 /\ n \div 1048576 = 0 /\ n \div 16777216 = 0 /\ n \div 268435456 = 0
    BY SMT DEF u16
  <2> QED
    BY <2>1, SMT DEF bin2hex, pow_sixteen
<1>2. hi[0] = 0 /\ hi[1] = 0 /\ hi[2] = 0 /\ hi[3] = 0
  BY <1>1, SMT
<1>3. \A p \in 4..7 : Shown(lo, hi, p) = 0
  BY <1>2, SMT DEF Shown
<1> QED
  BY <1>3, SMT DEF Shows

LEMMA DecShown ==
    ASSUME NEW n \in Nat, n <= MAX_DECIMAL, NEW trim \in BOOLEAN,
           NEW cc, cc = IF trim THEN Trimmed(bin2bcd(n)) ELSE bin2bcd(n),
           NEW lo \in [0..3 -> 0..31], NEW hi \in [0..3 -> 0..31],
           \A i \in 0..3 : lo[i] = cc[9 - i] /\ hi[i] = cc[5 - i]
    PROVE  Shows(lo, hi, [style |-> "dec", n |-> n, trim |-> trim])
<1> DEFINE bcd == bin2bcd(n)
<1>1. /\ bcd \in [0..9 -> 0..9] /\ bcd[0] = 0 /\ bcd[1] = 0
      /\ n = bcd[9] + 10 * (bcd[8] + 10 * (bcd[7] + 10 * (bcd[6] + 10 * (bcd[5] + 10 *
                 (bcd[4] + 10 * (bcd[3] + 10 * bcd[2]))))))
  BY DecimalDigits, SMT
<1>2. \A i \in 0..9 : cc[i] = IF trim /\ i < 9 /\ (\A j \in 0..i : bcd[j] = 0) THEN 30 ELSE bcd[i]
  <2>1. CASE trim
    BY <2>1, SMT DEF Trimmed, CC_BLANK
  <2>2. CASE ~trim
    BY <2>2, SMT
  <2> QED
    BY <2>1, <2>2, SMT
<1>3. \A p \in 0..7 : Shown(lo, hi, p) = cc[9 - p]
  <2> TAKE p \in 0..7
  <2>1. CASE p < 4
    <3>1. p \in 0..3
      BY <2>1, SMT
    <3> QED
      BY <2>1, <3>1, SMT DEF Shown
  <2>2. CASE ~(p < 4)
    <3>1. p - 4 \in 0..3 /\ 5 - (p - 4) = 9 - p
      BY <2>2, SMT
    <3>2. hi[p - 4] = cc[5 - (p - 4)]
      BY <3>1, SMT
    <3> QED
      BY <2>2, <3>1, <3>2, SMT DEF Shown
  <2> QED
    BY <2>1, <2>2, SMT
<1> HIDE DEF bcd
<1>4. \A i \in 0..9 : bcd[i] \in 0..9
  BY <1>1, SMT
<1>5. \A p \in 0..7 : /\ Value(lo, hi, p) = bcd[9 - p]
                      /\ Shown(lo, hi, p) \in {0, 30} <=> bcd[9 - p] = 0
                      /\ Shown(lo, hi, p) = 30 <=> trim /\ p > 0 /\ \A j \in 0..(9 - p) : bcd[j] = 0
  <2> TAKE p \in 0..7
  <2>1. 9 - p \in 0..9 /\ (9 - p < 9 <=> p > 0)
    BY SMT
  <2>2. bcd[9 - p] \in 0..9 /\ 9 - p \in 0..(9 - p)
    BY <1>4, <2>1, SMT
  <2>3. Shown(lo, hi, p)
            = IF trim /\ p > 0 /\ (\A j \in 0..(9 - p) : bcd[j] = 0) THEN 30 ELSE bcd[9 - p]
    BY <1>2, <1>3, <2>1, SMT
  <2>4. CASE trim /\ p > 0 /\ (\A j \in 0..(9 - p) : bcd[j] = 0)
    BY <2>2, <2>3, <2>4, SMT DEF Value, CC_BLANK
  <2>5. CASE ~(trim /\ p > 0 /\ (\A j \in 0..(9 - p) : bcd[j] = 0))
    BY <2>2, <2>3, <2>5, SMT DEF Value, CC_BLANK
  <2> QED
    BY <2>4, <2>5
<1>6. Spelt8(lo, hi, 10) = n
  <2>1. /\ Value(lo, hi, 0) = bcd[9] /\ Value(lo, hi, 1) = bcd[8] /\ Value(lo, hi, 2) = bcd[7]
        /\ Value(lo, hi, 3) = bcd[6] /\ Value(lo, hi, 4) = bcd[5] /\ Value(lo, hi, 5) = bcd[4]
        /\ Value(lo, hi, 6) = bcd[3] /\ Value(lo, hi, 7) = bcd[2]
    BY <1>5, SMT
  <2>2. Spelt8(lo, hi, 10)
            = bcd[9] + 10 * (bcd[8] + 10 * (bcd[7] + 10 * (bcd[6] + 10 * (bcd[5] + 10 *
                  (bcd[4] + 10 * (bcd[3] + 10 * bcd[2]))))))
    BY <2>1, Zenon DEF Spelt8
  <2> QED
    BY <1>1, <2>2, Zenon
<1>7. ASSUME NEW p \in 0..7
      PROVE  Shown(lo, hi, p) = CC_BLANK <=> trim /\ LeadingZero(lo, hi, p)
  <2>1. (\A q \in p..7 : Shown(lo, hi, q) \in {0, 30}) <=> \A j \in 0..(9 - p) : bcd[j] = 0
    <3>1. ASSUME \A q \in p..7 : Shown(lo, hi, q) \in {0, 30}, NEW j \in 0..(9 - p)
          PROVE  bcd[j] = 0
      <4>1. CASE j < 2
        BY <1>1, <4>1, SMT
      <4>2. CASE j >= 2
        <5>1. 9 - j \in p..7 /\ 9 - j \in 0..7 /\ 9 - (9 - j) = j
          BY <4>2, SMT
        <5>2. Shown(lo, hi, 9 - j) \in {0, 30}
          BY <3>1, <5>1, Zenon
        <5>3. bcd[9 - (9 - j)] = 0
          BY <1>5, <5>1, <5>2, Zenon
        <5> QED
          BY <5>1, <5>3
      <4> QED
        BY <4>1, <4>2, SMT
    <3>2. ASSUME \A j \in 0..(9 - p) : bcd[j] = 0, NEW q \in p..7
          PROVE  Shown(lo, hi, q) \in {0, 30}
      <4>1. q \in 0..7 /\ 9 - q \in 0..(9 - p)
        BY SMT
      <4> QED
        BY <1>5, <3>2, <4>1, Zenon
    <3> QED
      BY <3>1, <3>2, Zenon
  <2>2. Shown(lo, hi, p) = 30 <=> trim /\ p > 0 /\ \A j \in 0..(9 - p) : bcd[j] = 0
    BY <1>5, Zenon
  <2> QED
    BY <2>1, <2>2, Zenon DEF LeadingZero, CC_BLANK
<1> QED
  BY <1>6, <1>7, Zenon DEF Shows

-----------------------------------------------------------------------------
(* Beginning a call.                                                       *)

LEMMA BeginsAgreed ==
    ASSUME IInv, NEW op, NEW on, NEW digit, NEW writes, NEW sts,
           Begin(op, on, digit, writes, sts)
    PROVE  /\ Typed(regs) /\ Agrees(regs, enabled, asked)
           /\ regs' = regs /\ btnsw' = btnsw /\ todo' = writes /\ status' = sts
           /\ call' = [op |-> op, on |-> on, digit |-> digit]
<1>1. todo = <<>> /\ Kept(regs, todo, enabled) /\ Spelling(regs, todo, asked) /\ Typed(regs)
  BY DEF IInv, VarsOK, Begin, Idle
<1>2. Agrees(regs, enabled, asked)
  BY <1>1, AgreesWhenIdle
<1> QED
  BY <1>1, <1>2 DEF Begin

LEMMA BeginKeepsIInv ==
    ASSUME IInv, NEW op, NEW on, NEW digit, NEW writes, NEW sts,
           Begin(op, on, digit, writes, sts), op # "none",
           sts \in {"success", "failure"}, sts = "success" \/ writes = <<>>,
           Good([op |-> op, on |-> on, digit |-> digit], regs, writes, enabled', asked'),
           asked' \in [style : Styles, n : Nat, trim : BOOLEAN],
           enabled' \in [Leds -> SUBSET CHEN_MASK]
    PROVE  IInv'
<1>1. /\ regs' = regs /\ btnsw' = btnsw /\ todo' = writes /\ status' = sts
      /\ call' = [op |-> op, on |-> on, digit |-> digit]
  BY BeginsAgreed
<1>2. calls' \in 0..MaxCalls
  BY Nexys4IOAssumption, SMT DEF Begin, IInv, VarsOK
<1>3. VarsOK'
  <2>1. Typed(regs) /\ btnsw \in [btns : SUBSET Buttons, sw : Nat]
    BY DEF IInv, VarsOK
  <2>2. WritesOK(writes)
    BY DEF Good
  <2> QED
    BY <1>1, <1>2, <2>1, <2>2 DEF VarsOK
<1>4. Begun'
  <2>1. call'.op # "none"
    BY <1>1
  <2> QED
    BY <1>1, <2>1 DEF Begun, Idle
<1>5. Lawful(call', regs', todo') /\ Kept(regs', todo', enabled') /\ Spelling(regs', todo', asked')
  BY <1>1 DEF Good
<1> QED
  BY <1>3, <1>4, <1>5 DEF IInv

LEMMA TypedAre ==
    ASSUME NEW rs, Typed(rs)
    PROVE  /\ \A led \in Leds : rs[Cntrl[led]] \in SUBSET {0, 1, 2, 6}
           /\ \A bank \in Banks : rs[bank] \in Panels
<1>1. /\ rs["RGB1_CNTRL"] \in SUBSET {0, 1, 2, 6} /\ rs["RGB2_CNTRL"] \in SUBSET {0, 1, 2, 6}
      /\ rs["SSEGLO"] \in Panels /\ rs["SSEGHI"] \in Panels
  BY RegistersAre, SMT DEF Typed, Values, Banks
<1> QED
  BY <1>1, SMT DEF Leds, Cntrl, Banks

LEMMA AskedIs ==
    ASSUME IInv
    PROVE  /\ asked \in [style : Styles, n : Nat, trim : BOOLEAN]
           /\ Nothing \in [style : Styles, n : Nat, trim : BOOLEAN]
           /\ enabled \in [Leds -> SUBSET CHEN_MASK]
BY DEF IInv, VarsOK, Nothing, Styles

\* Nothing is asked of the digits.
LEMMA NothingShown ==
    ASSUME NEW lo, NEW hi
    PROVE  Shows(lo, hi, Nothing)
BY DEF Shows, Nothing

LEMMA NoChange ==
    ASSUME NEW s, NEW c, NEW rs, NEW en, NEW number, Agrees(rs, en, number), s = <<>>
    PROVE  Good(c, rs, s, en, number)
BY GoodNone

-----------------------------------------------------------------------------
(* One lemma for each call.                                                *)

LEMMA LEDsKeepsIInv ==
    ASSUME IInv, CallLEDs
    PROVE  IInv'
<1>1. PICK value \in Numbers \cup {getSwitches} :
          Begin("setLEDs", NoSuch, 0, setLEDs(value), "success")
  BY DEF CallLEDs
<1>2. asked' = asked /\ enabled' = enabled
  BY DEF CallLEDs
<1>3. value \in Nat
  BY NumbersAre, SMT DEF IInv, VarsOK, getSwitches
<1> DEFINE v == value % (LEDS_MASK + 1)
           w == [reg |-> "LEDS", val |-> v]
           c == [op |-> "setLEDs", on |-> NoSuch, digit |-> 0]
<1>4. v \in 0..LEDS_MASK
  <2>1. v \in Nat /\ v <= LEDS_MASK /\ LEDS_MASK \in Nat
    BY <1>3, SMT DEF LEDS_MASK
  <2> QED
    BY <2>1, SMT
<1>5. setLEDs(value) = <<w>>
  BY DEF setLEDs, Write
<1> HIDE DEF v
<1>6. w \in Entries /\ w.reg = "LEDS"
  <2>1. "LEDS" \in Registers /\ v \in Values("LEDS")
    BY <1>4, RegistersAre, SMT DEF Values
  <2> QED
    BY <2>1, EntryIs
<1>7. MayChange(c, "LEDS")
  BY DEF MayChange
<1>8. "LEDS" \notin Banks /\ \A led \in Leds : "LEDS" # Cntrl[led]
  BY SMT DEF Banks, Leds, Cntrl
<1> HIDE DEF w, c
<1>9. Good(c, regs, <<w>>, enabled, asked)
  <2>1. Agrees(regs, enabled, asked)
    BY <1>1, BeginsAgreed
  <2> QED
    BY <1>6, <1>7, <1>8, <2>1, GoodOther
<1> QED
  BY <1>1, <1>2, <1>5, <1>9, AskedIs, BeginKeepsIInv DEF c

\* A function that writes nothing because its argument is outside the enumeration.
LEMMA ToNone ==
    ASSUME IInv, NEW op, op # "none", NEW on, NEW digit, NEW writes, NEW sts,
           Begin(op, on, digit, writes, sts), sts \in {"success", "failure"},
           writes = <<>>, asked' = asked, enabled' = enabled
    PROVE  IInv'
<1>1. Agrees(regs, enabled, asked)
  BY BeginsAgreed
<1>2. Good([op |-> op, on |-> on, digit |-> digit], regs, <<>>, enabled, asked)
  BY <1>1, GoodNone
<1> QED
  BY <1>2, AskedIs, BeginKeepsIInv

\* The mask of setRGB_DATA() leaves the duty cycles.
LEMMA DutiesAre ==
    ASSUME NEW data \in [red : {0}, green : Duties, blue : Duties, rest : {0, 255}]
    PROVE  [data EXCEPT !.rest = 0] \in Colours
<1>1. Duties \subseteq 0..255
  BY Nexys4IOAssumption
<1>2. data.red \in 0..255 /\ data.green \in 0..255 /\ data.blue \in 0..255
  <2>1. data.red = 0 /\ data.green \in Duties /\ data.blue \in Duties
    OBVIOUS
  <2>2. 0 \in 0..255
    OBVIOUS
  <2> QED
    BY <1>1, <2>1, <2>2, Zenon
<1>3. [data EXCEPT !.rest = 0]
          = [red |-> data.red, green |-> data.green, blue |-> data.blue, rest |-> 0]
  BY SMT
<1> QED
  BY <1>2, <1>3, Zenon DEF Colours

LEMMA RGB_DATAKeepsIInv ==
    ASSUME IInv, CallRGB_DATA
    PROVE  IInv'
<1>1. PICK led \in Leds \cup {NoSuch},
           data \in [red : {0}, green : Duties, blue : Duties, rest : {0, 255}] :
          Begin("setRGB_DATA", led, 0, setRGB_DATA(led, data), "success")
  BY DEF CallRGB_DATA
<1>2. asked' = asked /\ enabled' = enabled
  BY DEF CallRGB_DATA
<1> DEFINE masked == [data EXCEPT !.rest = 0]
<1>3. masked \in Colours
  BY DutiesAre
<1>4. CASE led \notin Leds
  <2>1. setRGB_DATA(led, data) = <<>>
    BY <1>4 DEF setRGB_DATA
  <2> QED
    BY <1>1, <1>2, <2>1, ToNone
<1>5. CASE led \in Leds
  <2> DEFINE w == [reg |-> Data[led], val |-> masked]
             c == [op |-> "setRGB_DATA", on |-> led, digit |-> 0]
  <2>1. setRGB_DATA(led, data) = <<w>>
    BY <1>5 DEF setRGB_DATA, Write
  <2>2. Data[led] \in {"RGB1_DATA", "RGB2_DATA"}
    BY <1>5 DEF Data, Leds
  <2>3. w \in Entries /\ w.reg = Data[led]
    <3>1. Data[led] \in Registers /\ masked \in Values(Data[led])
      BY <1>3, <2>2, RegistersAre, SMT DEF Values
    <3> QED
      BY <3>1, EntryIs
  <2>4. MayChange(c, Data[led])
    BY <1>5 DEF MayChange
  <2>5. Data[led] \notin Banks /\ \A l \in Leds : Data[led] # Cntrl[l]
    BY <2>2, SMT DEF Banks, Leds, Cntrl
  <2> HIDE DEF w, c
  <2>6. Good(c, regs, <<w>>, enabled, asked)
    <3>1. Agrees(regs, enabled, asked)
      BY <1>1, BeginsAgreed
    <3> QED
      BY <2>3, <2>4, <2>5, <3>1, GoodOther
  <2> QED
    BY <1>1, <1>2, <2>1, <2>6, AskedIs, BeginKeepsIInv DEF c
<1> QED
  BY <1>4, <1>5

LEMMA DutyCycleKeepsIInv ==
    ASSUME IInv, CallDutyCycle
    PROVE  IInv'
<1>1. PICK led \in Leds \cup {NoSuch},
           data \in [red : {0}, green : Duties, blue : Duties, rest : {0}] :
          Begin("setDutyCycle", led, 0, setDutyCycle(led, data), "success")
  BY DEF CallDutyCycle
<1>2. asked' = asked /\ enabled' = enabled
  BY DEF CallDutyCycle
<1> DEFINE masked == [data EXCEPT !.rest = 0]
<1>3. masked \in Colours
  BY DutiesAre
<1>4. CASE led \notin Leds
  <2>1. setDutyCycle(led, data) = <<>>
    BY <1>4 DEF setDutyCycle, setRGB_DATA, setRGB_CNTRL
  <2> QED
    BY <1>1, <1>2, <2>1, ToNone
<1>5. CASE led \in Leds
  <2> DEFINE cntrl == regs[Cntrl[led]] \cap CHEN_MASK
             w == [reg |-> Cntrl[led], val |-> {}]
             x == [reg |-> Data[led], val |-> masked]
             y == [reg |-> Cntrl[led], val |-> cntrl]
             c == [op |-> "setDutyCycle", on |-> led, digit |-> 0]
  <2>1. setDutyCycle(led, data) = <<w, x, y>>
    <3>1. setRGB_CNTRL(led, {}) = <<w>>
      BY <1>5 DEF setRGB_CNTRL, Write
    <3>2. setRGB_DATA(led, data) = <<x>>
      BY <1>5 DEF setRGB_DATA, Write
    <3>3. setRGB_CNTRL(led, getRGB_CNTRL(led)) = <<y>>
      BY <1>5 DEF setRGB_CNTRL, getRGB_CNTRL, Write
    <3> HIDE DEF w, x, y
    <3> DEFINE S == {w, x, y}
    <3>4. w \in S /\ x \in S /\ y \in S
      BY Zenon
    <3> HIDE DEF S
    <3>5. <<w>> \o <<x>> = <<w, x>>
      BY <3>4, PairJoined
    <3>6. <<w, x>> \o <<y>> = <<w, x, y>>
      BY <3>4, TripleJoined
    <3> QED
      BY <3>1, <3>2, <3>3, <3>5, <3>6, Zenon DEF setDutyCycle
  <2>2. MayChange(c, Data[led]) /\ MayChange(c, Cntrl[led])
    BY <1>5 DEF MayChange
  <2>3. Agrees(regs, enabled, asked) /\ Typed(regs)
    BY <1>1, BeginsAgreed
  <2>4. cntrl \in SUBSET {0, 1, 2, 6} /\ cntrl \cap CHEN_MASK = regs[Cntrl[led]] \cap CHEN_MASK
    BY <1>5, <2>3, TypedAre
  <2> HIDE DEF cntrl, c
  <2>5. Good(c, regs, <<w, x, y>>, enabled, asked)
    BY <1>3, <1>5, <2>2, <2>3, <2>4, GoodDutyCycle
  <2> QED
    BY <1>1, <1>2, <2>1, <2>5, AskedIs, BeginKeepsIInv DEF c
<1> QED
  BY <1>4, <1>5

LEMMA CntrlKeepsIInv ==
    ASSUME IInv, CallCntrl
    PROVE  IInv'
<1>1. PICK led \in Leds \cup {NoSuch}, cntrl \in {{}, {0, 2}, {1, 2, 3}} :
          /\ \/ Begin("setRGB_CNTRL", led, 0, setRGB_CNTRL(led, cntrl), "success")
             \/ cntrl \subseteq CHEN_MASK
                /\ Begin("setChnlEn", led, 0, setChnlEn(led, cntrl), "success")
          /\ enabled' = [l \in Leds |-> IF l = led THEN cntrl \ {3} ELSE enabled[l]]
  BY DEF CallCntrl
<1>2. PICK op \in {"setRGB_CNTRL", "setChnlEn"} :
          Begin(op, led, 0, setRGB_CNTRL(led, cntrl), "success")
  BY <1>1 DEF setChnlEn
<1>3. asked' = asked
  BY DEF CallCntrl
<1>4. enabled \in [Leds -> SUBSET CHEN_MASK]
  BY AskedIs
<1>5. cntrl \cap CHEN_MASK = cntrl \ {3} /\ cntrl \cap CHEN_MASK \in SUBSET {0, 1, 2, 6}
  BY SMT DEF CHEN_MASK
<1>6. CASE led \notin Leds
  <2>1. setRGB_CNTRL(led, cntrl) = <<>>
    BY <1>6 DEF setRGB_CNTRL
  <2>2. enabled' = enabled
    BY <1>1, <1>4, <1>6
  <2> QED
    BY <1>2, <1>3, <2>1, <2>2, ToNone
<1>7. CASE led \in Leds
  <2> DEFINE v == cntrl \cap CHEN_MASK
             w == [reg |-> Cntrl[led], val |-> v]
             c == [op |-> op, on |-> led, digit |-> 0]
  <2>1. setRGB_CNTRL(led, cntrl) = <<w>>
    BY <1>7 DEF setRGB_CNTRL, Write
  <2>2. MayChange(c, Cntrl[led])
    BY <1>7 DEF MayChange
  <2>3. /\ enabled' \in [Leds -> SUBSET CHEN_MASK] /\ v \cap CHEN_MASK = enabled'[led]
        /\ \A l \in Leds : l # led => enabled'[l] = enabled[l]
    BY <1>1, <1>4, <1>5, <1>7
  <2>4. Agrees(regs, enabled, asked)
    BY <1>2, BeginsAgreed
  <2> HIDE DEF v, c
  <2>5. Good(c, regs, <<w>>, enabled', asked)
    BY <1>5, <1>7, <2>2, <2>3, <2>4, GoodCntrl DEF v
  <2> QED
    BY <1>2, <1>3, <2>1, <2>3, <2>5, AskedIs, BeginKeepsIInv DEF c
<1> QED
  BY <1>6, <1>7

\* Writing a bank with other digits or points.
LEMMA BankWritten ==
    ASSUME IInv, NEW op, op # "none", NEW bank \in Banks, NEW on, NEW digit, NEW data \in Panels,
           NEW writes, Begin(op, on, digit, writes, "success"),
           writes = <<[reg |-> bank, val |-> data]>>,
           Changes([op |-> op, on |-> on, digit |-> digit], bank, regs[bank], data),
           asked' \in [style : Styles, n : Nat, trim : BOOLEAN],
           bank = "SSEGLO" => Shows(data.digit, regs["SSEGHI"].digit, asked'),
           bank = "SSEGHI" => Shows(regs["SSEGLO"].digit, data.digit, asked'),
           enabled' = enabled
    PROVE  IInv'
<1>1. Agrees(regs, enabled, asked)
  BY BeginsAgreed
<1>2. Good([op |-> op, on |-> on, digit |-> digit], regs, writes, enabled, asked')
  <2> DEFINE c == [op |-> op, on |-> on, digit |-> digit]
             number == asked'
  <2> HIDE DEF c, number
  <2>1. Good(c, regs, <<[reg |-> bank, val |-> data]>>, enabled, number)
    BY <1>1, GoodBank DEF c, number
  <2> QED
    BY <2>1 DEF c, number
<1> QED
  BY <1>2, AskedIs, BeginKeepsIInv

\* Points that are not among the four have no place in a register.
LEMMA BankIs ==
    ASSUME NEW bank \in Banks, NEW digit \in [0..3 -> 0..31], NEW decpt
    PROVE  \E data \in Panels :
               /\ data.digit = digit /\ data.decpt = decpt \cap (0..3)
               /\ setSSEG_DATA(bank, Bank(digit, decpt)) = <<[reg |-> bank, val |-> data]>>
<1> DEFINE data == [digit |-> digit, decpt |-> decpt \cap (0..3)]
<1>1. data \in Panels /\ data.digit = digit /\ data.decpt = decpt \cap (0..3)
  BY DEF Panels
<1>2. setSSEG_DATA(bank, Bank(digit, decpt)) = <<[reg |-> bank, val |-> data]>>
  BY DEF setSSEG_DATA, Bank, Write, DECPTS_MASK
<1> QED
  BY <1>1, <1>2

LEMMA ConstantDigits ==
    ASSUME NEW cc \in Nat, cc <= CC_BLANK1
    PROVE  cc \in 0..31 /\ [i \in 0..3 |-> cc] \in [0..3 -> 0..31]
<1>1. cc \in 0..31
  BY SMT DEF CC_BLANK1
<1> QED
  BY <1>1

LEMMA SSEG_DATAKeepsIInv ==
    ASSUME IInv, CallSSEG_DATA
    PROVE  IInv'
<1>1. PICK bank \in Banks \cup {NoSuch}, cc \in Codes, decpt \in {{}, {1, 4}} :
          /\ cc <= CC_BLANK1
          /\ Begin("setSSEG_DATA", bank, 0,
                   setSSEG_DATA(bank, Bank([i \in 0..3 |-> cc], decpt)), "success")
          /\ asked' = IF bank \in Banks THEN Nothing ELSE asked
  BY DEF CallSSEG_DATA
<1>2. enabled' = enabled
  BY DEF CallSSEG_DATA
<1>3. cc \in Nat
  BY Nexys4IOAssumption
<1> DEFINE digit == [i \in 0..3 |-> cc]
           c == [op |-> "setSSEG_DATA", on |-> bank, digit |-> 0]
<1>4. digit \in [0..3 -> 0..31]
  BY <1>1, <1>3, ConstantDigits
<1> HIDE DEF digit
<1>5. CASE bank \notin Banks
  <2>1. setSSEG_DATA(bank, Bank(digit, decpt)) = <<>>
    BY <1>5 DEF setSSEG_DATA
  <2> QED
    BY <1>1, <1>2, <1>5, <2>1, ToNone DEF digit
<1>6. CASE bank \in Banks
  <2>1. PICK data \in Panels :
            setSSEG_DATA(bank, Bank(digit, decpt)) = <<[reg |-> bank, val |-> data]>>
    BY <1>4, <1>6, BankIs
  <2>2. Changes(c, bank, regs[bank], data)
    BY <1>6 DEF Changes, MayChangeDigit, MayChangeDecPt
  <2>3. asked' = Nothing
    BY <1>1, <1>6
  <2> QED
    BY <1>1, <1>2, <1>6, <2>1, <2>2, <2>3, AskedIs, NothingShown, BankWritten DEF digit
<1> QED
  BY <1>5, <1>6

LEMMA ShowButtonsKeepsIInv ==
    ASSUME IInv, ShowButtons
    PROVE  IInv'
<1> DEFINE digit == regs["SSEGHI"].digit
           c == [op |-> "showButtons", on |-> "SSEGHI", digit |-> 0]
<1>1. /\ Begin("showButtons", "SSEGHI", 0,
               setSSEG_DATA("SSEGHI", Bank(digit, getBtns)), "success")
      /\ asked' = asked /\ enabled' = enabled
  BY DEF ShowButtons, getSSEG_DATA
<1>2. "SSEGHI" \in Banks /\ "SSEGHI" # "SSEGLO"
  BY DEF Banks
<1>3. Typed(regs) /\ Agrees(regs, enabled, asked)
  BY <1>1, BeginsAgreed
<1>4. digit \in [0..3 -> 0..31]
  BY <1>2, <1>3, TypedAre DEF Panels
<1> HIDE DEF digit
<1>5. PICK data \in Panels :
          /\ data.digit = digit
          /\ setSSEG_DATA("SSEGHI", Bank(digit, getBtns)) = <<[reg |-> "SSEGHI", val |-> data]>>
  BY <1>2, <1>4, BankIs
<1>6. Changes(c, "SSEGHI", regs["SSEGHI"], data)
  BY <1>2, <1>5 DEF Changes, MayChangeDigit, MayChangeDecPt, digit
<1>7. Shows(regs["SSEGLO"].digit, data.digit, asked)
  BY <1>3, <1>5 DEF Agrees, digit
<1> QED
  BY <1>1, <1>2, <1>5, <1>6, <1>7, AskedIs, BankWritten

LEMMA DigitKeepsIInv ==
    ASSUME IInv, CallDigit
    PROVE  IInv'
<1>1. PICK bank \in Banks \cup {NoSuch}, digit \in {0, 5, 8}, cc \in Codes \cup {getSwitches % 32} :
          IF cc <= CC_BLANK1 /\ bank \in Banks /\ digit \in Digits
          THEN /\ Begin("setDigit", bank, digit, setDigit(bank, digit, cc), "success")
               /\ asked' = Nothing
          ELSE /\ Begin("setDigit", bank, digit, <<>>, "failure")
               /\ UNCHANGED asked
  BY Zenon DEF CallDigit
<1>2. enabled' = enabled
  BY DEF CallDigit
<1>3. cc \in Nat
  BY Nexys4IOAssumption, SMT DEF IInv, VarsOK, getSwitches
<1>4. CASE ~(cc <= CC_BLANK1 /\ bank \in Banks /\ digit \in Digits)
  BY <1>1, <1>2, <1>4, ToNone
<1>5. CASE cc <= CC_BLANK1 /\ bank \in Banks /\ digit \in Digits
  <2> DEFINE new == [regs[bank].digit EXCEPT ![Place(digit)] = cc]
             c == [op |-> "setDigit", on |-> bank, digit |-> digit]
  <2>1. /\ Begin("setDigit", bank, digit, setDigit(bank, digit, cc), "success")
        /\ asked' = Nothing
    BY <1>1, <1>5
  <2>2. regs[bank] \in Panels
    BY <1>5, <2>1, BeginsAgreed, TypedAre
  <2>3. cc \in 0..31 /\ Place(digit) \in 0..3
    BY <1>3, <1>5, ConstantDigits, SMT DEF Place
  <2>4. /\ new \in [0..3 -> 0..31]
        /\ \A i \in 0..3 : i # Place(digit) => new[i] = regs[bank].digit[i]
    BY <2>2, <2>3, SMT DEF Panels
  <2>5. regs[bank].decpt \cap (0..3) = regs[bank].decpt
    BY <2>2, Zenon DEF Panels
  <2>6. setDigit(bank, digit, cc) = setSSEG_DATA(bank, Bank(new, regs[bank].decpt))
    BY DEF setDigit, getSSEG_DATA
  <2> HIDE DEF new
  <2>7. PICK data \in Panels :
            /\ data.digit = new /\ data.decpt = regs[bank].decpt
            /\ setDigit(bank, digit, cc) = <<[reg |-> bank, val |-> data]>>
    <3>1. PICK data \in Panels :
              /\ data.digit = new /\ data.decpt = regs[bank].decpt \cap (0..3)
              /\ setSSEG_DATA(bank, Bank(new, regs[bank].decpt)) = <<[reg |-> bank, val |-> data]>>
      BY <1>5, <2>4, BankIs
    <3> QED
      BY <2>5, <2>6, <3>1, Zenon
  <2>8. Changes(c, bank, regs[bank], data)
    BY <1>5, <2>4, <2>7 DEF Changes, MayChangeDigit, MayChangeDecPt
  <2> QED
    BY <1>2, <1>5, <2>1, <2>7, <2>8, AskedIs, NothingShown, BankWritten
<1> QED
  BY <1>4, <1>5

LEMMA DecPtKeepsIInv ==
    ASSUME IInv, CallDecPt
    PROVE  IInv'
<1>1. PICK bank \in Banks \cup {NoSuch}, digit \in {0, 5, 8}, on \in BOOLEAN :
          IF bank \in Banks /\ digit \in Digits
          THEN Begin("setDecPt", bank, digit, setDecPt(bank, digit, on), "success")
          ELSE Begin("setDecPt", bank, digit, <<>>, "failure")
  BY Zenon DEF CallDecPt
<1>2. asked' = asked /\ enabled' = enabled
  BY DEF CallDecPt
<1>3. CASE ~(bank \in Banks /\ digit \in Digits)
  BY <1>1, <1>2, <1>3, ToNone
<1>4. CASE bank \in Banks /\ digit \in Digits
  <2> DEFINE decpt == IF on THEN regs[bank].decpt \cup {Place(digit)}
                            ELSE regs[bank].decpt \ {Place(digit)}
             same == regs[bank].digit
             c == [op |-> "setDecPt", on |-> bank, digit |-> digit]
  <2>1. Begin("setDecPt", bank, digit, setDecPt(bank, digit, on), "success")
    BY <1>1, <1>4
  <2>2. regs[bank] \in Panels /\ Agrees(regs, enabled, asked)
    BY <1>4, <2>1, BeginsAgreed, TypedAre
  <2>3. same \in [0..3 -> 0..31] /\ regs[bank].decpt \subseteq 0..3
    BY <2>2, Zenon DEF Panels
  <2>4. \A i \in 0..3 : i # Place(digit) => (i \in decpt \cap (0..3) <=> i \in regs[bank].decpt)
    BY <2>3, Zenon
  <2>5. setDecPt(bank, digit, on) = setSSEG_DATA(bank, Bank(same, decpt))
    BY DEF setDecPt, getSSEG_DATA
  <2> HIDE DEF decpt, same
  <2>6. PICK data \in Panels :
            /\ data.digit = same /\ data.decpt = decpt \cap (0..3)
            /\ setDecPt(bank, digit, on) = <<[reg |-> bank, val |-> data]>>
    BY <1>4, <2>3, <2>5, BankIs
  <2>7. Changes(c, bank, regs[bank], data)
    BY <1>4, <2>4, <2>6 DEF Changes, MayChangeDigit, MayChangeDecPt, same
  <2>8. /\ bank = "SSEGLO" => Shows(data.digit, regs["SSEGHI"].digit, asked)
        /\ bank = "SSEGHI" => Shows(regs["SSEGLO"].digit, data.digit, asked)
    BY <2>2, <2>6 DEF Agrees, same
  <2> QED
    BY <1>2, <1>4, <2>1, <2>6, <2>7, <2>8, AskedIs, BankWritten
<1> QED
  BY <1>3, <1>4

LEMMA AllDigitsKeepsIInv ==
    ASSUME IInv, CallAllDigits
    PROVE  IInv'
<1>1. PICK bank \in Banks \cup {NoSuch}, cc \in Codes, dp \in {{}, {3, 4}} :
          IF bank \in Banks
          THEN /\ Begin("setAllDigits", bank, 0, setAllDigits(bank, cc, CC_BLANK, 0, cc, dp), "success")
               /\ asked' = Nothing
          ELSE /\ Begin("setAllDigits", bank, 0, <<>>, "failure")
               /\ UNCHANGED asked
  BY Zenon DEF CallAllDigits
<1>2. enabled' = enabled
  BY DEF CallAllDigits
<1>3. cc \in Nat
  BY Nexys4IOAssumption
<1>4. CASE bank \notin Banks
  BY <1>1, <1>2, <1>4, ToNone
<1>5. CASE bank \in Banks
  <2> DEFINE d == <<cc, 0, CC_BLANK, cc>>
             digit == [i \in 0..3 |-> d[i + 1] % 32]
             c == [op |-> "setAllDigits", on |-> bank, digit |-> 0]
  <2>1. digit \in [0..3 -> 0..31]
    <3>1. \A i \in 0..3 : d[i + 1] \in Nat
      BY <1>3, SMT DEF CC_BLANK
    <3>2. \A i \in 0..3 : d[i + 1] % 32 \in 0..31
      <4> TAKE i \in 0..3
      <4> DEFINE x == d[i + 1]
      <4>1. x \in Nat
        BY <3>1
      <4> HIDE DEF x
      <4>2. x % 32 \in 0..31
        BY <4>1, SMT
      <4> QED
        BY <4>2 DEF x
    <3> QED
      BY <3>2, Zenon
  <2>2. setAllDigits(bank, cc, CC_BLANK, 0, cc, dp) = setSSEG_DATA(bank, Bank(digit, dp))
    BY Zenon DEF setAllDigits
  <2> HIDE DEF digit
  <2>3. PICK data \in Panels :
            setSSEG_DATA(bank, Bank(digit, dp)) = <<[reg |-> bank, val |-> data]>>
    BY <1>5, <2>1, BankIs
  <2>4. Changes(c, bank, regs[bank], data)
    BY <1>5 DEF Changes, MayChangeDigit, MayChangeDecPt
  <2>5. /\ Begin("setAllDigits", bank, 0, setAllDigits(bank, cc, CC_BLANK, 0, cc, dp), "success")
        /\ asked' = Nothing
    BY <1>1, <1>5
  <2> QED
    BY <1>2, <1>5, <2>2, <2>3, <2>4, <2>5, AskedIs, NothingShown, BankWritten
<1> QED
  BY <1>4, <1>5

\* The nibbles of a number, low and high, with the points that a bank has.
LEMMA HexBank ==
    ASSUME NEW rs, Typed(rs), NEW n \in Nat, NEW bank \in Banks, NEW k \in {0, 4}
    PROVE  LET cc == bin2hex(n)
           IN  \E data \in Panels :
                   /\ \A i \in 0..3 : data.digit[i] = cc[i + k]
                   /\ data.decpt = rs[bank].decpt
                   /\ setAllDigits(bank, cc[k + 3], cc[k + 2], cc[k + 1], cc[k], rs[bank].decpt)
                          = <<[reg |-> bank, val |-> data]>>
<1> DEFINE cc == bin2hex(n)
           d == [i \in 0..3 |-> cc[i + k]]
           data == [digit |-> d, decpt |-> rs[bank].decpt]
<1>1. cc \in [0..7 -> 0..15]
  BY HexDigits
<1> HIDE DEF cc
<1>2. \A i \in 0..3 : cc[i + k] \in 0..31
  BY <1>1, SMT
<1>3. /\ d \in [0..3 -> 0..31] /\ \A i \in 0..3 : d[i] = cc[i + k]
      /\ d[0] = cc[k] /\ d[1] = cc[k + 1] /\ d[2] = cc[k + 2] /\ d[3] = cc[k + 3]
  BY <1>2, SMT
<1>4. rs[bank].decpt \in SUBSET (0..3)
  BY TypedAre, Zenon DEF Panels
<1> HIDE DEF d
<1>5. /\ data \in Panels
      /\ setAllDigits(bank, d[3], d[2], d[1], d[0], rs[bank].decpt)
             = <<[reg |-> bank, val |-> data]>>
  BY <1>3, <1>4, AllDigits
<1>6. data.digit = d /\ data.decpt = rs[bank].decpt
  OBVIOUS
<1> HIDE DEF data
<1> QED
  BY <1>3, <1>5, <1>6, Zenon DEF cc

LEMMA U16HexKeepsIInv ==
    ASSUME IInv, CallU16Hex
    PROVE  IInv'
<1>1. PICK bank \in Banks \cup {NoSuch}, number \in Numbers \cup {getSwitches} :
          IF bank \in Banks
          THEN /\ Begin("putU16Hex", bank, 0, putU16Hex(bank, number % 65536), "success")
               /\ asked' = [style |-> IF bank = "SSEGLO" THEN "u16" ELSE "u16hi",
                            n |-> number % 65536, trim |-> FALSE]
          ELSE /\ Begin("putU16Hex", bank, 0, <<>>, "failure")
               /\ UNCHANGED asked
  BY SMT DEF CallU16Hex
<1>2. enabled' = enabled
  BY DEF CallU16Hex
<1>3. CASE bank \notin Banks
  BY <1>1, <1>2, <1>3, ToNone
<1>4. CASE bank \in Banks
  <2>0. number \in Nat
    BY NumbersAre, SMT DEF IInv, VarsOK, getSwitches
  <2> DEFINE n == number % 65536
             cc == bin2hex(n)
             c == [op |-> "putU16Hex", on |-> bank, digit |-> 0]
  <2>1. n \in Nat /\ u16(n)
    BY <2>0, SMT DEF u16
  <2>2. /\ Begin("putU16Hex", bank, 0, putU16Hex(bank, n), "success")
        /\ asked' = [style |-> IF bank = "SSEGLO" THEN "u16" ELSE "u16hi", n |-> n, trim |-> FALSE]
    BY <1>1, <1>4, SMT
  <2> HIDE DEF n
  <2>3. Typed(regs)
    BY <2>2, BeginsAgreed
  <2>4. CASE bank = "SSEGLO"
    <3>1. PICK data \in Panels :
              /\ \A i \in 0..3 : data.digit[i] = cc[i + 0]
              /\ data.decpt = regs[bank].decpt
              /\ setAllDigits(bank, cc[0 + 3], cc[0 + 2], cc[0 + 1], cc[0], regs[bank].decpt)
                     = <<[reg |-> bank, val |-> data]>>
      BY <1>4, <2>1, <2>3, HexBank
    <3>2. putU16Hex(bank, n) = <<[reg |-> bank, val |-> data]>>
      BY <2>4, <3>1, SMT DEF putU16Hex, getSSEG_DATA
    <3>3. Changes(c, bank, regs[bank], data)
      BY <1>4, <3>1 DEF Changes, MayChangeDigit
    <3>4. asked' = [style |-> "u16", n |-> n, trim |-> FALSE]
      BY <2>2, <2>4
    <3>5. Shows(data.digit, regs["SSEGHI"].digit, [style |-> "u16", n |-> n, trim |-> FALSE])
      <4>1. data.digit \in [0..3 -> 0..31] /\ \A i \in 0..3 : data.digit[i] = cc[i]
        BY <3>1, SMT DEF Panels
      <4> QED
        BY <2>1, <4>1, U16Shown
    <3>6. asked' \in [style : Styles, n : Nat, trim : BOOLEAN]
      BY <2>1, <3>4 DEF Styles
    <3>7. Shows(data.digit, regs["SSEGHI"].digit, asked') /\ bank # "SSEGHI"
      BY <2>4, <3>4, <3>5
    <3> QED
      BY <1>2, <1>4, <2>2, <3>2, <3>3, <3>6, <3>7, BankWritten
  <2>5. CASE bank = "SSEGHI"
    <3>1. PICK data \in Panels :
              /\ \A i \in 0..3 : data.digit[i] = cc[i + 4]
              /\ data.decpt = regs[bank].decpt
              /\ setAllDigits(bank, cc[4 + 3], cc[4 + 2], cc[4 + 1], cc[4], regs[bank].decpt)
                     = <<[reg |-> bank, val |-> data]>>
      BY <1>4, <2>1, <2>3, HexBank
    <3>2. putU16Hex(bank, n) = <<[reg |-> bank, val |-> data]>>
      BY <2>5, <3>1, SMT DEF putU16Hex, getSSEG_DATA
    <3>3. Changes(c, bank, regs[bank], data)
      BY <1>4, <3>1 DEF Changes, MayChangeDigit
    <3>4. asked' = [style |-> "u16hi", n |-> n, trim |-> FALSE]
      BY <2>2, <2>5
    <3>5. Shows(regs["SSEGLO"].digit, data.digit, [style |-> "u16hi", n |-> n, trim |-> FALSE])
      <4>1. data.digit \in [0..3 -> 0..31]
        BY SMT DEF Panels
      <4> QED
        BY <2>1, <3>1, <4>1, U16UpperShown
    <3>6. asked' \in [style : Styles, n : Nat, trim : BOOLEAN]
      BY <2>1, <3>4 DEF Styles
    <3>7. Shows(regs["SSEGLO"].digit, data.digit, asked') /\ bank # "SSEGLO"
      BY <2>5, <3>4, <3>5
    <3> QED
      BY <1>2, <1>4, <2>2, <3>2, <3>3, <3>6, <3>7, BankWritten
  <2> QED
    BY <1>4, <2>4, <2>5 DEF Banks
<1> QED
  BY <1>3, <1>4

\* Writing both banks, the points as they were.
LEMMA BanksWritten ==
    ASSUME IInv, NEW op \in {"putU32Hex", "putU32Dec"}, NEW hi \in Panels, NEW lo \in Panels,
           NEW writes, Begin(op, NoSuch, 0, writes, "success"),
           writes = <<[reg |-> "SSEGHI", val |-> hi]>> \o <<[reg |-> "SSEGLO", val |-> lo]>>,
           hi.decpt = regs["SSEGHI"].decpt, lo.decpt = regs["SSEGLO"].decpt,
           NEW number \in [style : Styles, n : Nat, trim : BOOLEAN],
           asked' = number, enabled' = enabled, Shows(lo.digit, hi.digit, number)
    PROVE  IInv'
<1> DEFINE c == [op |-> op, on |-> NoSuch, digit |-> 0]
           w == [reg |-> "SSEGHI", val |-> hi]
           x == [reg |-> "SSEGLO", val |-> lo]
<1>1. Agrees(regs, enabled, asked)
  BY BeginsAgreed
<1>2. writes = <<w, x>>
  <2> DEFINE S == {w, x}
  <2>1. w \in S /\ x \in S
    BY Zenon
  <2> HIDE DEF S
  <2>2. <<w>> \o <<x>> = <<w, x>>
    BY <2>1, PairJoined
  <2> QED
    BY <2>2, Zenon
<1>3. Changes(c, "SSEGHI", regs["SSEGHI"], hi) /\ Changes(c, "SSEGLO", regs["SSEGLO"], lo)
  BY DEF Changes, MayChangeDigit, Banks
<1> HIDE DEF c
<1>4. Good(c, regs, <<w, x>>, enabled, number)
  BY <1>1, <1>3, GoodBanks
<1> QED
  BY <1>2, <1>4, AskedIs, BeginKeepsIInv DEF c

LEMMA U32HexKeepsIInv ==
    ASSUME IInv, CallU32Hex
    PROVE  IInv'
<1>1. PICK n \in Numbers :
          /\ Begin("putU32Hex", NoSuch, 0, putU32Hex(n), "success")
          /\ asked' = [style |-> "hex", n |-> n, trim |-> FALSE]
  BY DEF CallU32Hex
<1>2. enabled' = enabled
  BY DEF CallU32Hex
<1>3. n \in Nat /\ u32(n)
  BY NumbersAre
<1>4. Typed(regs) /\ "SSEGHI" \in Banks /\ "SSEGLO" \in Banks
  BY <1>1, BeginsAgreed DEF Banks
<1> DEFINE cc == bin2hex(n)
           number == [style |-> "hex", n |-> n, trim |-> FALSE]
<1>5. PICK hi \in Panels :
          /\ \A i \in 0..3 : hi.digit[i] = cc[i + 4]
          /\ hi.decpt = regs["SSEGHI"].decpt
          /\ setAllDigits("SSEGHI", cc[4 + 3], cc[4 + 2], cc[4 + 1], cc[4], regs["SSEGHI"].decpt)
                 = <<[reg |-> "SSEGHI", val |-> hi]>>
  BY <1>3, <1>4, HexBank
<1>6. PICK lo \in Panels :
          /\ \A i \in 0..3 : lo.digit[i] = cc[i + 0]
          /\ lo.decpt = regs["SSEGLO"].decpt
          /\ setAllDigits("SSEGLO", cc[0 + 3], cc[0 + 2], cc[0 + 1], cc[0], regs["SSEGLO"].decpt)
                 = <<[reg |-> "SSEGLO", val |-> lo]>>
  BY <1>3, <1>4, HexBank
<1>7. putU32Hex(n) = <<[reg |-> "SSEGHI", val |-> hi]>> \o <<[reg |-> "SSEGLO", val |-> lo]>>
  <2>1. /\ setAllDigits("SSEGHI", cc[7], cc[6], cc[5], cc[4], regs["SSEGHI"].decpt)
               = <<[reg |-> "SSEGHI", val |-> hi]>>
        /\ setAllDigits("SSEGLO", cc[3], cc[2], cc[1], cc[0], regs["SSEGLO"].decpt)
               = <<[reg |-> "SSEGLO", val |-> lo]>>
    BY <1>5, <1>6, SMT
  <2> QED
    BY <2>1, Zenon DEF putU32Hex, getSSEG_DATA
<1>8. Shows(lo.digit, hi.digit, number)
  <2>1. /\ lo.digit \in [0..3 -> 0..31] /\ hi.digit \in [0..3 -> 0..31]
        /\ \A i \in 0..3 : lo.digit[i] = cc[i] /\ hi.digit[i] = cc[i + 4]
    BY <1>5, <1>6, SMT DEF Panels
  <2> QED
    BY <1>3, <2>1, HexShown
<1>9. number \in [style : Styles, n : Nat, trim : BOOLEAN]
  BY <1>3 DEF Styles
<1> HIDE DEF number
<1> QED
  BY <1>1, <1>2, <1>5, <1>6, <1>7, <1>8, <1>9, BanksWritten DEF number

\* The ten digits that putU32Dec() has, some of them blank.
LEMMA Trims ==
    ASSUME NEW n \in Nat, n <= MAX_DECIMAL, NEW trim \in BOOLEAN
    PROVE  (IF trim THEN Trimmed(bin2bcd(n)) ELSE bin2bcd(n)) \in [0..9 -> 0..31]
<1> DEFINE bcd == bin2bcd(n)
<1>1. bcd \in [0..9 -> 0..9]
  BY DecimalDigits
<1> HIDE DEF bcd
<1>2. \A i \in 0..9 : bcd[i] \in 0..31
  BY <1>1, SMT
<1>3. Trimmed(bcd) \in [0..9 -> 0..31]
  BY <1>2, SMT DEF Trimmed, CC_BLANK
<1>4. bcd \in [0..9 -> 0..31]
  BY <1>1, <1>2, SMT
<1> QED
  BY <1>3, <1>4, Zenon DEF bcd

LEMMA DecBank ==
    ASSUME NEW rs, Typed(rs), NEW cc \in [0..9 -> 0..31], NEW bank \in Banks, NEW k \in {5, 9}
    PROVE  \E data \in Panels :
               /\ \A i \in 0..3 : data.digit[i] = cc[k - i]
               /\ data.decpt = rs[bank].decpt
               /\ setAllDigits(bank, cc[k - 3], cc[k - 2], cc[k - 1], cc[k], rs[bank].decpt)
                      = <<[reg |-> bank, val |-> data]>>
<1> DEFINE d == [i \in 0..3 |-> cc[k - i]]
           data == [digit |-> d, decpt |-> rs[bank].decpt]
<1>1. \A i \in 0..3 : cc[k - i] \in 0..31
  BY SMT
<1>2. /\ d \in [0..3 -> 0..31] /\ \A i \in 0..3 : d[i] = cc[k - i]
      /\ d[0] = cc[k] /\ d[1] = cc[k - 1] /\ d[2] = cc[k - 2] /\ d[3] = cc[k - 3]
  BY <1>1, SMT
<1>3. rs[bank].decpt \in SUBSET (0..3)
  BY TypedAre, Zenon DEF Panels
<1> HIDE DEF d
<1>4. /\ data \in Panels
      /\ setAllDigits(bank, d[3], d[2], d[1], d[0], rs[bank].decpt)
             = <<[reg |-> bank, val |-> data]>>
  BY <1>2, <1>3, AllDigits
<1>5. data.digit = d /\ data.decpt = rs[bank].decpt
  OBVIOUS
<1> HIDE DEF data
<1> QED
  BY <1>2, <1>4, <1>5, Zenon

\* Both calls of putU32Dec() are the same: one from anywhere, one for the time.
LEMMA DecKeepsIInv ==
    ASSUME IInv, NEW n \in Nat, n <= MAX_DECIMAL, NEW trim \in BOOLEAN,
           Begin("putU32Dec", NoSuch, 0, putU32Dec(n, trim), "success"),
           asked' = [style |-> "dec", n |-> n, trim |-> trim], enabled' = enabled
    PROVE  IInv'
<1> DEFINE cc == IF trim THEN Trimmed(bin2bcd(n)) ELSE bin2bcd(n)
           number == [style |-> "dec", n |-> n, trim |-> trim]
<1>1. Typed(regs) /\ "SSEGHI" \in Banks /\ "SSEGLO" \in Banks
  BY BeginsAgreed, Zenon DEF Banks
<1>2. cc \in [0..9 -> 0..31]
  BY Trims
<1>3. putU32Dec(n, trim)
          = setAllDigits("SSEGHI", cc[2], cc[3], cc[4], cc[5], regs["SSEGHI"].decpt)
         \o setAllDigits("SSEGLO", cc[6], cc[7], cc[8], cc[9], regs["SSEGLO"].decpt)
  BY Zenon DEF putU32Dec, getSSEG_DATA
<1>4. \A lo \in [0..3 -> 0..31], hi \in [0..3 -> 0..31] :
          (\A i \in 0..3 : lo[i] = cc[9 - i] /\ hi[i] = cc[5 - i]) => Shows(lo, hi, number)
  BY DecShown, Zenon
<1> HIDE DEF cc
<1>5. PICK hi \in Panels :
          /\ \A i \in 0..3 : hi.digit[i] = cc[5 - i]
          /\ hi.decpt = regs["SSEGHI"].decpt
          /\ setAllDigits("SSEGHI", cc[5 - 3], cc[5 - 2], cc[5 - 1], cc[5], regs["SSEGHI"].decpt)
                 = <<[reg |-> "SSEGHI", val |-> hi]>>
  BY <1>1, <1>2, DecBank
<1>6. PICK lo \in Panels :
          /\ \A i \in 0..3 : lo.digit[i] = cc[9 - i]
          /\ lo.decpt = regs["SSEGLO"].decpt
          /\ setAllDigits("SSEGLO", cc[9 - 3], cc[9 - 2], cc[9 - 1], cc[9], regs["SSEGLO"].decpt)
                 = <<[reg |-> "SSEGLO", val |-> lo]>>
  BY <1>1, <1>2, DecBank
<1>7. putU32Dec(n, trim)
          = <<[reg |-> "SSEGHI", val |-> hi]>> \o <<[reg |-> "SSEGLO", val |-> lo]>>
  <2>1. 5 - 3 = 2 /\ 5 - 2 = 3 /\ 5 - 1 = 4 /\ 9 - 3 = 6 /\ 9 - 2 = 7 /\ 9 - 1 = 8
    BY SMT
  <2>2. /\ setAllDigits("SSEGHI", cc[2], cc[3], cc[4], cc[5], regs["SSEGHI"].decpt)
               = <<[reg |-> "SSEGHI", val |-> hi]>>
        /\ setAllDigits("SSEGLO", cc[6], cc[7], cc[8], cc[9], regs["SSEGLO"].decpt)
               = <<[reg |-> "SSEGLO", val |-> lo]>>
    BY <1>5, <1>6, <2>1, SMT
  <2> QED
    BY <1>3, <2>2, Zenon
<1>8. Shows(lo.digit, hi.digit, number)
  <2>1. lo.digit \in [0..3 -> 0..31] /\ hi.digit \in [0..3 -> 0..31]
    BY Zenon DEF Panels
  <2> QED
    BY <1>4, <1>5, <1>6, <2>1, Zenon
<1>9. number \in [style : Styles, n : Nat, trim : BOOLEAN]
  BY SMT DEF Styles
<1>10. asked' = number
  OBVIOUS
<1> HIDE DEF number
<1> QED
  BY <1>5, <1>6, <1>7, <1>8, <1>9, <1>10, BanksWritten

LEMMA U32DecKeepsIInv ==
    ASSUME IInv, CallU32Dec
    PROVE  IInv'
<1>1. PICK n \in Numbers, trim \in BOOLEAN :
          IF n > MAX_DECIMAL
          THEN /\ Begin("putU32Dec", NoSuch, 0, <<>>, "failure")
               /\ UNCHANGED asked
          ELSE /\ Begin("putU32Dec", NoSuch, 0, putU32Dec(n, trim), "success")
               /\ asked' = [style |-> "dec", n |-> n, trim |-> trim]
  BY Zenon DEF CallU32Dec
<1>2. enabled' = enabled
  BY DEF CallU32Dec
<1>3. CASE n > MAX_DECIMAL
  BY <1>1, <1>2, <1>3, ToNone
<1>4. CASE ~(n > MAX_DECIMAL)
  <2>1. n \in Nat /\ n <= MAX_DECIMAL
    <3>1. n \in Nat
      BY NumbersAre
    <3> QED
      BY <1>4, <3>1, SMT DEF MAX_DECIMAL
  <2> QED
    BY <1>1, <1>2, <1>4, <2>1, DecKeepsIInv
<1> QED
  BY <1>3, <1>4

LEMMA ShowTimeKeepsIInv ==
    ASSUME IInv, ShowTime
    PROVE  IInv'
<1>1. PICK n \in Numbers :
          /\ n <= MAX_DECIMAL
          /\ Begin("putU32Dec", NoSuch, 0, putU32Dec(n, TRUE), "success")
          /\ asked' = [style |-> "dec", n |-> n, trim |-> TRUE]
  BY DEF ShowTime
<1>2. enabled' = enabled
  BY DEF ShowTime
<1> QED
  BY <1>1, <1>2, NumbersAre, DecKeepsIInv

-----------------------------------------------------------------------------
(* The other steps.                                                        *)

\* The self test leaves a bit in a control register that enables nothing.
LEMMA InitializeKeepsIInv ==
    ASSUME IInv, initialize
    PROVE  IInv'
<1> DEFINE blue == [red |-> 0, green |-> 0, blue |-> 48, rest |-> 0]
           new == [regs EXCEPT !["LEDS"] = 32, !["RGB1_CNTRL"] = {6}, !["RGB1_DATA"] = blue]
<1>1. /\ regs' = new /\ status' \in {"success", "failure"} /\ call'.op = "initialize"
      /\ UNCHANGED <<btnsw, todo, calls, asked, enabled>>
  BY SMT DEF initialize
<1>2. todo = <<>> /\ todo' = <<>>
  BY <1>1 DEF IInv, Begun, Idle, initialize
<1>3. /\ DOMAIN new = Registers /\ new = [reg \in Registers |-> new[reg]]
      /\ new["LEDS"] = 32 /\ new["RGB1_CNTRL"] = {6} /\ new["RGB1_DATA"] = blue
      /\ \A reg \in Registers \ {"LEDS", "RGB1_CNTRL", "RGB1_DATA"} : new[reg] = regs[reg]
  <2>1. DOMAIN regs = Registers
    BY DEF IInv, VarsOK, Typed
  <2>2. "LEDS" \in Registers /\ "RGB1_CNTRL" \in Registers /\ "RGB1_DATA" \in Registers
    BY RegistersAre
  <2>3. DOMAIN new = Registers /\ new = [reg \in Registers |-> new[reg]]
    BY <2>1
  <2>4. new["LEDS"] = 32 /\ new["RGB1_CNTRL"] = {6} /\ new["RGB1_DATA"] = blue
    BY <2>1, <2>2, SMT
  <2>5. \A reg \in Registers \ {"LEDS", "RGB1_CNTRL", "RGB1_DATA"} : new[reg] = regs[reg]
    BY <2>1, <2>2, SMT
  <2> QED
    BY <2>3, <2>4, <2>5
<1> HIDE DEF new
<1>4. Typed(new)
  <2>1. /\ 32 \in 0..LEDS_MASK /\ {6} \in SUBSET {0, 1, 2, 6} /\ blue \in Colours
    BY SMT DEF LEDS_MASK, Colours
  <2>2. new["LEDS"] \in Values("LEDS") /\ new["RGB1_CNTRL"] \in Values("RGB1_CNTRL")
        /\ new["RGB1_DATA"] \in Values("RGB1_DATA")
    BY <1>3, <2>1, SMT DEF Values
  <2>3. \A reg \in Registers : new[reg] \in Values(reg)
    BY <1>3, <2>2, Zenon DEF IInv, VarsOK, Typed
  <2> QED
    BY <1>3, <2>3 DEF Typed
<1>5. Agrees(regs, enabled, asked)
  BY <1>2, AgreesWhenIdle DEF IInv
<1>6. Agrees(new, enabled, asked)
  <2>1. new["SSEGLO"] = regs["SSEGLO"] /\ new["SSEGHI"] = regs["SSEGHI"]
        /\ new["RGB2_CNTRL"] = regs["RGB2_CNTRL"]
    BY <1>3, RegistersAre, SMT
  <2>2. enabled["RGB1"] = {} /\ {6} \cap CHEN_MASK = {}
    <3>1. enabled = [led \in Leds |-> {}]
      BY DEF initialize, IInv, Begun
    <3>2. "RGB1" \in Leds
      BY DEF Leds
    <3> QED
      BY <3>1, <3>2, SMT DEF CHEN_MASK
  <2>3. \A led \in Leds : new[Cntrl[led]] \cap CHEN_MASK = enabled[led]
    BY <1>3, <1>5, <2>1, <2>2, SMT DEF Agrees, Leds, Cntrl
  <2> QED
    BY <1>5, <2>1, <2>3 DEF Agrees
<1>7. VarsOK'
  <2>1. /\ btnsw \in [btns : SUBSET Buttons, sw : Nat] /\ WritesOK(todo)
        /\ calls \in 0..MaxCalls /\ asked \in [style : Styles, n : Nat, trim : BOOLEAN]
        /\ enabled \in [Leds -> SUBSET CHEN_MASK]
    BY DEF IInv, VarsOK
  <2> QED
    BY <1>1, <1>4, <2>1 DEF VarsOK
<1>8. Begun'
  BY <1>1, <1>2 DEF Begun, Idle
<1>9. Good(call', regs', todo', enabled', asked')
  BY <1>1, <1>2, <1>6, GoodNone
<1> QED
  BY <1>7, <1>8, <1>9 DEF IInv, Good

LEMMA WriteKeepsIInv ==
    ASSUME IInv, WriteReg
    PROVE  IInv'
<1> DEFINE w == Head(todo)
           new == [regs EXCEPT ![w.reg] = w.val]
<1>1. /\ todo # <<>> /\ regs' = new /\ todo' = Tail(todo)
      /\ UNCHANGED <<btnsw, call, status, calls, asked, enabled>>
  BY DEF WriteReg, Idle
<1>2. Typed(regs) /\ WritesOK(todo)
  BY DEF IInv, VarsOK
<1>3. w \in Entries /\ WritesOK(Tail(todo))
  BY <1>1, <1>2, TailOfWrites
<1>4. Typed(new)
  <2> HIDE DEF w
  <2> QED
    BY <1>2, <1>3, Rewritten
<1>5. Lawful(call, new, Tail(todo))
  BY <1>1, <1>2, LawfulAfterWrite DEF IInv
<1>6. Kept(new, Tail(todo), enabled)
  <2> SUFFICES ASSUME NEW led \in Leds
               PROVE  \E v : Settles(new, Tail(todo), Cntrl[led], v) /\ v \cap CHEN_MASK = enabled[led]
    BY DEF Kept
  <2>1. PICK v : Settles(regs, todo, Cntrl[led], v) /\ v \cap CHEN_MASK = enabled[led]
    BY DEF IInv, Kept
  <2>2. Cntrl[led] \in Registers
    BY SMT DEF Registers
  <2>3. Settles(new, Tail(todo), Cntrl[led], v)
    BY <1>1, <1>2, <2>1, <2>2, SettlesAfterWrite
  <2> QED
    BY <2>1, <2>3
<1>7. Spelling(new, Tail(todo), asked)
  <2>1. PICK lo, hi : /\ Settles(regs, todo, "SSEGLO", lo)
                      /\ Settles(regs, todo, "SSEGHI", hi)
                      /\ Shows(lo.digit, hi.digit, asked)
    BY DEF IInv, Spelling
  <2>2. "SSEGLO" \in Registers /\ "SSEGHI" \in Registers
    BY RegistersAre
  <2>3. Settles(new, Tail(todo), "SSEGLO", lo) /\ Settles(new, Tail(todo), "SSEGHI", hi)
    BY <1>1, <1>2, <2>1, <2>2, SettlesAfterWrite
  <2> QED
    BY <2>1, <2>3 DEF Spelling
<1> HIDE DEF new
<1>8. VarsOK'
  <2>1. /\ btnsw \in [btns : SUBSET Buttons, sw : Nat] /\ status \in {"none", "success", "failure"}
        /\ calls \in 0..MaxCalls /\ asked \in [style : Styles, n : Nat, trim : BOOLEAN]
        /\ enabled \in [Leds -> SUBSET CHEN_MASK]
    BY DEF IInv, VarsOK
  <2> QED
    BY <1>1, <1>3, <1>4, <2>1 DEF VarsOK
<1>9. Begun'
  <2>1. call.op # "none" /\ status = "success"
    BY <1>1 DEF IInv, Begun, Idle
  <2> QED
    BY <1>1, <2>1 DEF Begun
<1> QED
  BY <1>1, <1>5, <1>6, <1>7, <1>8, <1>9 DEF IInv

LEMMA OperateKeepsIInv ==
    ASSUME IInv, Operate
    PROVE  IInv'
<1>1. btnsw' \in [btns : SUBSET Buttons, sw : Nat]
  <2>1. Switches \subseteq Nat
    BY Nexys4IOAssumption, SMT DEF u16
  <2>2. btnsw' \in [btns : {{}, {0, 4}}, sw : Switches] /\ {0, 4} \subseteq Buttons
    BY SMT DEF Operate, Buttons
  <2> QED
    BY <2>1, <2>2, Zenon
<1>2. UNCHANGED <<regs, todo, call, status, calls, asked, enabled>>
  BY DEF Operate
<1>3. VarsOK'
  BY <1>1, <1>2 DEF IInv, VarsOK
<1> QED
  BY <1>2, <1>3 DEF IInv, Begun, Idle

-----------------------------------------------------------------------------
(* The theorems.                                                           *)

LEMMA InitMakesIInv ==
    ASSUME Init
    PROVE  IInv
<1>1. /\ todo = <<>> /\ status = "none" /\ calls = 0 /\ asked = Nothing
      /\ enabled = [led \in Leds |-> {}] /\ btnsw \in [btns : {{}}, sw : Switches]
  BY DEF Init
<1>2. /\ regs = [reg \in Registers |-> regs[reg]]
      /\ regs["LEDS"] = 0 /\ regs["RGB1_DATA"] = Off /\ regs["RGB2_DATA"] = Off
      /\ regs["RGB1_CNTRL"] = {} /\ regs["RGB2_CNTRL"] = {}
      /\ regs["SSEGLO"] = Zeros /\ regs["SSEGHI"] = Zeros
  BY RegistersAre, SMT DEF Init, Banks
<1>3. Typed(regs)
  <2>1. 0 \in 0..LEDS_MASK /\ Off \in Colours
    BY SMT DEF LEDS_MASK, Off, Colours
  <2>2. Zeros \in Panels
    BY SMT DEF Zeros, Bank, Panels
  <2>3. /\ regs["LEDS"] \in Values("LEDS") /\ regs["RGB1_DATA"] \in Values("RGB1_DATA")
        /\ regs["RGB2_DATA"] \in Values("RGB2_DATA")
    BY <1>2, <2>1, SMT DEF Values
  <2>4. /\ regs["RGB1_CNTRL"] \in Values("RGB1_CNTRL") /\ regs["RGB2_CNTRL"] \in Values("RGB2_CNTRL")
    BY <1>2, SMT DEF Values
  <2>5. /\ regs["SSEGLO"] \in Values("SSEGLO") /\ regs["SSEGHI"] \in Values("SSEGHI")
    BY <1>2, <2>2, SMT DEF Values
  <2>6. \A reg \in Registers : regs[reg] \in Values(reg)
    BY <2>3, <2>4, <2>5, RegistersAre, Zenon
  <2> QED
    BY <1>2, <2>6 DEF Typed
<1>4. btnsw \in [btns : SUBSET Buttons, sw : Nat]
  <2>1. Switches \subseteq Nat
    BY Nexys4IOAssumption, SMT DEF u16
  <2>2. btnsw \in [btns : {{}}, sw : Nat]
    BY <1>1, <2>1, Zenon
  <2> QED
    BY <2>2
<1>5. VarsOK
  <2>1. asked \in [style : Styles, n : Nat, trim : BOOLEAN]
    BY <1>1 DEF Nothing, Styles
  <2>2. calls \in 0..MaxCalls
    BY <1>1, Nexys4IOAssumption, SMT
  <2> QED
    BY <1>1, <1>3, <1>4, <2>1, <2>2, NoWrites DEF VarsOK
<1>6. Agrees(regs, enabled, asked)
  <2>1. ASSUME NEW led \in Leds
        PROVE  regs[Cntrl[led]] \cap CHEN_MASK = enabled[led]
    <3>1. Cntrl[led] \in {"RGB1_CNTRL", "RGB2_CNTRL"}
      BY SMT DEF Leds, Cntrl
    <3>2. regs[Cntrl[led]] = {}
      BY <1>2, <3>1, Zenon
    <3>3. enabled[led] = {}
      BY <1>1
    <3> QED
      BY <3>2, <3>3
  <2> QED
    BY <1>1, <2>1, NothingShown DEF Agrees
<1>7. Good(call, regs, todo, enabled, asked)
  BY <1>1, <1>6, GoodNone
<1> QED
  BY <1>1, <1>5, <1>7 DEF IInv, Begun, Good, Idle

(* The invariant of the driver: whatever a call still has to write leaves  *)
(* the digits at the number and the channels at the enables asked for.     *)
THEOREM NexysInvariance == Spec => []IInv
<1>1. Init => IInv
  BY InitMakesIInv
<1>2. IInv /\ [Next]_vars => IInv'
  <2> SUFFICES ASSUME IInv, [Next]_vars
               PROVE  IInv'
    OBVIOUS
  <2>1. CASE initialize
    BY <2>1, InitializeKeepsIInv
  <2>2. CASE CallLEDs
    BY <2>2, LEDsKeepsIInv
  <2>3. CASE CallRGB_DATA
    BY <2>3, RGB_DATAKeepsIInv
  <2>4. CASE CallDutyCycle
    BY <2>4, DutyCycleKeepsIInv
  <2>5. CASE CallCntrl
    BY <2>5, CntrlKeepsIInv
  <2>6. CASE CallSSEG_DATA
    BY <2>6, SSEG_DATAKeepsIInv
  <2>7. CASE ShowButtons
    BY <2>7, ShowButtonsKeepsIInv
  <2>8. CASE CallDigit
    BY <2>8, DigitKeepsIInv
  <2>9. CASE CallDecPt
    BY <2>9, DecPtKeepsIInv
  <2>10. CASE CallAllDigits
    BY <2>10, AllDigitsKeepsIInv
  <2>11. CASE CallU16Hex
    BY <2>11, U16HexKeepsIInv
  <2>12. CASE CallU32Hex
    BY <2>12, U32HexKeepsIInv
  <2>13. CASE CallU32Dec
    BY <2>13, U32DecKeepsIInv
  <2>14. CASE ShowTime
    BY <2>14, ShowTimeKeepsIInv
  <2>15. CASE WriteReg
    BY <2>15, WriteKeepsIInv
  <2>16. CASE Operate
    BY <2>16, OperateKeepsIInv
  <2>17. CASE UNCHANGED vars
    <3>1. UNCHANGED <<regs, btnsw, todo, call, status, calls, asked, enabled>>
      BY <2>17 DEF vars
    <3> QED
      BY <3>1 DEF IInv, VarsOK, Begun, Idle
  <2> QED
    BY <2>1, <2>2, <2>3, <2>4, <2>5, <2>6, <2>7, <2>8, <2>9, <2>10, <2>11, <2>12, <2>13,
       <2>14, <2>15, <2>16, <2>17 DEF Next
<1> QED
  BY <1>1, <1>2, PTL DEF Spec

(* Type correctness: the functions of nexys4IO.c leave every field of      *)
(* every register within its bits.                                         *)
THEOREM NexysTypeCorrect == Spec => []TypeOK
<1>1. IInv => TypeOK
  <2> SUFFICES ASSUME IInv
               PROVE  TypeOK
    OBVIOUS
  <2>1. Typed(regs)
    BY DEF IInv, VarsOK
  <2>2. regs["LEDS"] \in 0..LEDS_MASK
    BY <2>1, RegistersAre, SMT DEF Typed, Values
  <2>3. \A led \in Leds : regs[Data[led]] \in Colours
    <3>1. regs["RGB1_DATA"] \in Colours /\ regs["RGB2_DATA"] \in Colours
      BY <2>1, RegistersAre, SMT DEF Typed, Values
    <3> QED
      BY <3>1, SMT DEF Leds, Data
  <2>4. \A led \in Leds : regs[Cntrl[led]] \subseteq CHEN_MASK \cup {6}
    <3>1. {0, 1, 2, 6} = CHEN_MASK \cup {6}
      BY SMT DEF CHEN_MASK
    <3> QED
      BY <2>1, <3>1, TypedAre, Zenon
  <2>5. ASSUME NEW bank \in Banks
        PROVE  /\ DOMAIN regs[bank].digit = 0..3
               /\ \A i \in 0..3 : regs[bank].digit[i] \in 0..CC_BLANK1
               /\ regs[bank].decpt \subseteq DECPTS_MASK
    <3>1. regs[bank] \in Panels
      BY <2>1, TypedAre
    <3> QED
      BY <3>1, Zenon DEF Panels, CC_BLANK1, DECPTS_MASK
  <2>6. btnsw.btns \subseteq Buttons /\ btnsw.sw \in Nat
    BY DEF IInv, VarsOK
  <2>7. \A i \in DOMAIN todo : todo[i].reg \in DOMAIN regs
    <3>1. \A i \in DOMAIN todo : todo[i] \in Entries
      BY DEF IInv, VarsOK, WritesOK
    <3>2. DOMAIN regs = Registers
      BY <2>1 DEF Typed
    <3> QED
      BY <3>1, <3>2, EntryHas
  <2>8. /\ status \in {"none", "success", "failure"} /\ calls \in 0..MaxCalls
        /\ asked.style \in {"none", "u16", "u16hi", "hex", "dec"}
        /\ \A led \in Leds : enabled[led] \subseteq CHEN_MASK
    BY DEF IInv, VarsOK, Styles
  <2> QED
    BY <2>2, <2>3, <2>4, <2>5, <2>6, <2>7, <2>8, Zenon DEF TypeOK, Colours
<1> QED
  BY <1>1, NexysInvariance, PTL

(* Between calls the digits spell the number that putU32Hex(), putU32Dec() *)
(* or, for SSEGLO, putU16Hex() was last given, with the leading zeros blank*)
(* as asked, and SSEGHI shows 0000 after putU16Hex() on it.                *)
THEOREM NumberCorrect == Spec => []NumberShown
<1>1. IInv => NumberShown
  BY AgreesWhenIdle DEF IInv, NumberShown, Idle, Agrees
<1> QED
  BY <1>1, NexysInvariance, PTL

(* Between calls the channels enabled are the ones that the program asked  *)
(* for, although setDutyCycle() stops and restarts them.                   *)
THEOREM EnablesCorrect == Spec => []EnablesKept
<1>1. IInv => EnablesKept
  BY AgreesWhenIdle DEF IInv, EnablesKept, Idle, Agrees
<1> QED
  BY <1>1, NexysInvariance, PTL

(* No step of a call changes a register, a digit or a decimal point that   *)
(* the call does not name.                                                 *)
THEOREM ChangesCorrect == Spec => OnlyWhatWasAsked
<1>1. ASSUME IInv, [Next]_vars, call.op # "none", regs' # regs
      PROVE  status = "success" /\ \A reg \in DOMAIN regs : Changes(call, reg, regs[reg], regs'[reg])
  <2>1. WriteReg
    <3>1. ~initialize
      BY <1>1 DEF initialize
    <3>2. ASSUME NEW op, NEW on, NEW digit, NEW writes, NEW sts, Begin(op, on, digit, writes, sts)
          PROVE  regs' = regs
      BY <3>2 DEF Begin
    <3>3. ~Operate /\ ~UNCHANGED vars
      BY <1>1 DEF Operate, vars
    <3>4. /\ ~CallLEDs
          /\ ~CallRGB_DATA
          /\ ~CallDutyCycle
          /\ ~CallCntrl
      <4>1. ~CallRGB_DATA /\ ~CallDutyCycle
        BY <1>1, <3>2, SMT DEF CallRGB_DATA, CallDutyCycle
      <4>2. ~CallLEDs /\ ~CallCntrl
        BY <1>1, <3>2, Zenon DEF CallLEDs, CallCntrl
      <4> QED
        BY <4>1, <4>2
    <3>5. ~CallSSEG_DATA /\ ~ShowButtons /\ ~CallDigit /\ ~CallDecPt
      BY <1>1, <3>2, Zenon DEF CallSSEG_DATA, ShowButtons, CallDigit, CallDecPt
    <3>6. ~CallAllDigits /\ ~CallU32Hex /\ ~CallU32Dec /\ ~ShowTime
      BY <1>1, <3>2, Zenon DEF CallAllDigits, CallU32Hex, CallU32Dec, ShowTime
    <3>7. ~CallU16Hex
      BY <1>1, <3>2, SMT DEF CallU16Hex
    <3> QED
      BY <1>1, <3>1, <3>3, <3>4, <3>5, <3>6, <3>7, Zenon DEF Next
  <2> DEFINE w == Head(todo)
  <2>2. todo # <<>> /\ regs' = [regs EXCEPT ![w.reg] = w.val]
    BY <2>1 DEF WriteReg, Idle
  <2>3. Typed(regs) /\ WritesOK(todo) /\ Lawful(call, regs, todo) /\ status = "success"
    BY <1>1, <2>2 DEF IInv, VarsOK, Begun, Idle
  <2>4. w \in Entries /\ Allowed(call, regs, w)
    <3>1. todo[1] \in Entries /\ Head(todo) = todo[1] /\ 1 \in 1..Len(todo)
      BY <2>2, <2>3, TailOfWrites, SMT
    <3> QED
      BY <2>3, <3>1 DEF Lawful
  <2> HIDE DEF w
  <2>5. /\ regs'[w.reg] = w.val /\ DOMAIN regs = Registers
        /\ \A r \in Registers : r # w.reg => regs'[r] = regs[r]
    BY <2>2, <2>3, <2>4, Rewritten DEF Typed
  <2>6. ASSUME NEW reg \in DOMAIN regs
        PROVE  Changes(call, reg, regs[reg], regs'[reg])
    <3>1. CASE reg = w.reg
      BY <2>4, <2>5, <3>1, Zenon DEF Allowed, Changes
    <3>2. CASE reg # w.reg
      BY <2>5, <3>2, Zenon DEF Changes
    <3> QED
      BY <3>1, <3>2
  <2> QED
    BY <2>3, <2>6
<1>2. IInv /\ [Next]_vars
          => [call.op # "none" =>
                  /\ status = "success"
                  /\ \A reg \in DOMAIN regs : Changes(call, reg, regs[reg], regs'[reg])]_regs
  BY <1>1
<1> QED
  BY <1>2, NexysInvariance, PTL DEF Spec, OnlyWhatWasAsked
=============================================================================
