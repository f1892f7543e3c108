---------------------------- MODULE XUartProofs ----------------------------
(***************************************************************************)
(* Proofs about XUartNs550: types, that every byte goes out and comes in   *)
(* once and in order, and that a message that is reported is sent.  All of *)
(* it as long as only the callback for sent data sends, which is also what *)
(* the run of the model assumes.                                           *)
(***************************************************************************)
EXTENDS XUartNs550, TLAPS, NaturalsInduction, WellFoundedInduction

(* The transmitter: nothing is in it but what the driver thinks it has     *)
(* handed over, the interrupt tells of an empty FIFO.                      *)
Transmitter ==
    /\ uart.send.next = Len(dev.shifter) + Len(dev.tx) + 1
    /\ Numbered(dev.shifter, 0) /\ Numbered(dev.tx, Len(dev.shifter))
    /\ Len(dev.tx) <= Depth(dev)
    /\ dev.thre => dev.tx = <<>>

(* The receiver: c bytes in the buffer b and those in the FIFO r are the   *)
(* bytes up to number p, in order.                                         *)
InOrder(b, c, r, p) ==
    /\ \A k \in 1..c : \A j \in 1..k - 1 : IsData(b[j]) /\ IsData(b[k]) => b[j] < b[k]
    /\ \A k \in 1..Len(r) : \A j \in 1..k - 1 : IsData(r[j]) /\ IsData(r[k]) => r[j] < r[k]
    /\ \A j \in 1..c, k \in 1..Len(r) : IsData(b[j]) /\ IsData(r[k]) => b[j] < r[k]
    /\ \A j \in 1..c : b[j] < p
    /\ \A k \in 1..Len(r) : r[k] < p
    /\ \A n \in 1..p - 1 : (\E j \in 1..c : b[j] = n) \/ (\E k \in 1..Len(r) : r[k] = n)
    /\ p > 0

Receiver ==
    /\ InOrder(uart.recv.data, InBuffer, dev.rx, dev.peer)
    /\ uart.recv.remaining <= Len(uart.recv.data)

(* Where the program is.                                                   *)
InSend == main.pc \in {"send", "sent", "enable", "again"}
InOptions == main.pc \in {"row", "fcr", "modify"} /\ main.row > 0
Saved == main.pc \in {"send", "sent", "enable", "again", "recv", "copy", "restore", "fcr"}

(* The message: what the program or the driver has counted as sent.        *)
SendInv ==
    /\ InSend =>
          /\ app.sending /\ event # "SENT_DATA"
          /\ main.count <= app.size /\ uart.send.next = app.start + main.count
          /\ main.pc # "send" => uart.send.remaining = app.size - main.count
    /\ ~InSend =>
          /\ uart.send.next + uart.send.remaining = NextStart
          /\ uart.send.remaining # 0 => app.sending
    /\ event = "SENT_DATA" =>
          /\ dev.tx = <<>> /\ uart.send.next = NextStart /\ ~InSend
          /\ "TX_EMPTY" \notin dev.ier /\ app.mode = "interrupt"

(* The transmitter's interrupt is only enabled, now or by what the program *)
(* has saved, while something is sent or the interrupt is about to come;   *)
(* and neither it nor the receiver's is without an interrupt mode.         *)
InterruptInv ==
    /\ "TX_EMPTY" \in dev.ier => app.sending \/ dev.thre
    /\ Saved /\ "TX_EMPTY" \in main.ier => app.sending \/ dev.tx = <<>>
    /\ InSend => "TX_EMPTY" \notin dev.ier /\ "TX_EMPTY" \notin main.ier
    /\ app.mode = "polled" /\ ~InOptions =>
          /\ "RX_DATA" \notin dev.ier /\ "TX_EMPTY" \notin dev.ier
          /\ Saved => "RX_DATA" \notin main.ier /\ "TX_EMPTY" \notin main.ier

(* Options are set while nothing is sent.                                  *)
OptionsInv ==
    InOptions =>
        /\ ~app.sending /\ dev.tx = <<>> /\ event # "SENT_DATA"
        /\ "TX_EMPTY" \notin dev.ier
        /\ main.row \in Rows(main.setting)
        /\ main.pc = "fcr" => Row[2] = "fcr" /\ main.ier = dev.ier
        /\ main.pc = "modify" => Row[2] \in {"fcr", "ier"} /\ main.value = dev[Row[2]]
        /\ main.setting /\ main.row > 3 => ("RX_DATA" \in dev.ier <=> "RX_DATA" \in main.options)
        /\ ~main.setting /\ app.mode = "polled" => "RX_DATA" \notin dev.ier

(* The other calls.                                                        *)
CallInv ==
    /\ main.pc = "row" => main.row > 0
    /\ main.pc = "modify" /\ main.row = 0 => main.value = dev.fcr
    /\ main.pc = "recv" => main.count \in 1..MaxRecv
    /\ main.pc = "copy" => dev.ier = {} /\ event = "none" /\ main.count <= uart.recv.remaining
    /\ ~uart.isReady => main.pc = "app" /\ app.mode = "polled" /\ dev.tx = <<>>

IInv == TypeOK /\ Transmitter /\ Receiver /\ SendInv /\ InterruptInv /\ OptionsInv /\ CallInv

-----------------------------------------------------------------------------
(* Numbers and sequences.                                                  *)

LEMMA Least ==
    ASSUME NEW T, T \subseteq Nat, T # {}
    PROVE  \E n \in T : \A m \in T : n <= m
<1>1. PICK n \in T : \A m \in T : ~ (<<m, n>> \in OpToRel(<, Nat))
    BY WFMin, NatLessThanWellFounded, Zenon
<1>2. \A m \in T : ~ (m < n)
    BY <1>1, Zenon DEF OpToRel
<1>3. QED
    BY <1>2

LEMMA EmptyIsZero ==
    ASSUME NEW S, NEW s \in Seq(S)
    PROVE  /\ Len(s) \in Nat
           /\ s = <<>> <=> Len(s) = 0
OBVIOUS

LEMMA TailEntries ==
    ASSUME NEW S, NEW s \in Seq(S), s # <<>>
    PROVE  /\ Tail(s) \in Seq(S) /\ Len(Tail(s)) = Len(s) - 1 /\ Len(s) \in Nat \ {0}
           /\ \A k \in 1..Len(s) - 1 : Tail(s)[k] = s[k + 1]
           /\ Head(s) = s[1] /\ Head(s) \in S
<1>1. Len(s) \in Nat /\ Len(s) # 0
    BY EmptyIsZero
<1>2. /\ Tail(s) \in Seq(S) /\ Len(Tail(s)) = Len(s) - 1
      /\ \A k \in 1..Len(Tail(s)) : Tail(s)[k] = s[k + 1]
    OBVIOUS
<1>3. Head(s) = s[1] /\ 1 \in 1..Len(s)
    BY <1>1
<1>4. QED
    BY <1>1, <1>2, <1>3

LEMMA AppendEntries ==
    ASSUME NEW S, NEW s \in Seq(S), NEW e \in S
    PROVE  /\ Append(s, e) \in Seq(S) /\ Len(Append(s, e)) = Len(s) + 1 /\ Len(s) \in Nat
           /\ \A k \in 1..Len(s) : Append(s, e)[k] = s[k]
           /\ Append(s, e)[Len(s) + 1] = e
OBVIOUS

LEMMA ConcatEntries ==
    ASSUME NEW S, NEW s \in Seq(S), NEW t \in Seq(S)
    PROVE  /\ s \o t \in Seq(S) /\ Len(s \o t) = Len(s) + Len(t)
           /\ \A k \in 1..Len(s) : (s \o t)[k] = s[k]
           /\ \A k \in 1..Len(t) : (s \o t)[Len(s) + k] = t[k]
OBVIOUS

LEMMA FunctionEntries ==
    ASSUME NEW S, NEW n \in Nat, NEW f \in [1..n -> S]
    PROVE  f \in Seq(S) /\ Len(f) = n
OBVIOUS

-----------------------------------------------------------------------------
(* What keeps the bytes in order.                                          *)

(* A byte goes from the FIFO to the buffer.                                *)
LEMMA StoreInOrder ==
    ASSUME NEW b, NEW c \in Nat, NEW r \in Seq(Entries), NEW p \in Nat, InOrder(b, c, r, p),
           r # <<>>, NEW d, \A k \in 1..c : d[k] = b[k] /\ b[k] \in Int, d[c + 1] = Head(r)
    PROVE  InOrder(d, c + 1, Tail(r), p)
<1> DEFINE t == Tail(r)
<1>1. /\ t \in Seq(Entries) /\ Len(t) = Len(r) - 1 /\ Len(r) \in Nat \ {0}
      /\ \A k \in 1..Len(r) - 1 : t[k] = r[k + 1]
      /\ Head(r) = r[1]
    BY TailEntries
<1>2. /\ \A k \in 1..Len(t) : k + 1 \in 1..Len(r) /\ t[k] = r[k + 1] /\ 1 \in 1..k
      /\ \A k \in 1..Len(r) : k = 1 \/ (k - 1 \in 1..Len(t) /\ t[k - 1] = r[k])
      /\ 1 \in 1..Len(r)
    BY <1>1
<1>3. \A k \in 1..c + 1 : k \in 1..c \/ k = c + 1
    OBVIOUS
<1>4. \A k \in 1..Len(t) : \A j \in 1..k - 1 : j + 1 \in 1..(k + 1) - 1 /\ j \in 1..Len(t)
    BY <1>1
<1>5. \A k \in 1..Len(t) : 1 \in 1..(k + 1) - 1
    BY <1>1
<1> HIDE DEF t
<1>6. \A k \in 1..c + 1 : \A j \in 1..k - 1 : IsData(d[j]) /\ IsData(d[k]) => d[j] < d[k]
    <2>1. ASSUME NEW k \in 1..c, NEW j \in 1..k - 1, IsData(d[j]), IsData(d[k])
          PROVE  d[j] < d[k]
        <3>1. j \in 1..c
            OBVIOUS
        <3>2. QED
            BY <2>1, <3>1 DEF InOrder
    <2>2. ASSUME NEW j \in 1..c, IsData(d[j]), IsData(d[c + 1])
          PROVE  d[j] < d[c + 1]
        BY <1>1, <1>2, <2>2 DEF InOrder
    <2>3. \A j \in 1..(c + 1) - 1 : j \in 1..c
        OBVIOUS
    <2>4. QED
        BY <1>3, <2>1, <2>2, <2>3
<1>7. \A k \in 1..Len(t) : \A j \in 1..k - 1 : IsData(t[j]) /\ IsData(t[k]) => t[j] < t[k]
    BY <1>2, <1>4 DEF InOrder
<1>8. \A j \in 1..c + 1, k \in 1..Len(t) : IsData(d[j]) /\ IsData(t[k]) => d[j] < t[k]
    <2>1. ASSUME NEW j \in 1..c, NEW k \in 1..Len(t), IsData(d[j]), IsData(t[k])
          PROVE  d[j] < t[k]
        BY <1>2, <2>1 DEF InOrder
    <2>2. ASSUME NEW k \in 1..Len(t), IsData(d[c + 1]), IsData(t[k])
          PROVE  d[c + 1] < t[k]
        BY <1>1, <1>2, <1>5, <2>2 DEF InOrder
    <2>3. QED
        BY <1>3, <2>1, <2>2
<1>9. \A j \in 1..c + 1 : d[j] < p
    BY <1>1, <1>2, <1>3 DEF InOrder
<1>10. \A k \in 1..Len(t) : t[k] < p
    BY <1>2 DEF InOrder
<1>11. ASSUME NEW n \in 1..p - 1
       PROVE  (\E j \in 1..c + 1 : d[j] = n) \/ (\E k \in 1..Len(t) : t[k] = n)
    <2>1. (\E j \in 1..c : b[j] = n) \/ (\E k \in 1..Len(r) : r[k] = n)
        BY DEF InOrder
    <2>2. \A j \in 1..c : j \in 1..c + 1
        OBVIOUS
    <2>3. c + 1 \in 1..c + 1
        OBVIOUS
    <2>4. QED
        BY <1>1, <1>2, <2>1, <2>2, <2>3
<1>12. p > 0
    BY DEF InOrder
<1>13. QED
    BY <1>6, <1>7, <1>8, <1>9, <1>10, <1>11, <1>12 DEF InOrder, t

(* What is no data leaves the FIFO.                                        *)
LEMMA DropInOrder ==
    ASSUME NEW b, NEW c \in Nat, NEW r \in Seq(Entries), NEW p \in Nat, InOrder(b, c, r, p),
           r # <<>>, Head(r) = Break
    PROVE  InOrder(b, c, Tail(r), p)
<1> DEFINE t == Tail(r)
<1>1. /\ t \in Seq(Entries) /\ Len(t) = Len(r) - 1 /\ Len(r) \in Nat \ {0}
      /\ \A k \in 1..Len(r) - 1 : t[k] = r[k + 1]
      /\ Head(r) = r[1]
    BY TailEntries
<1>2. /\ \A k \in 1..Len(t) : k + 1 \in 1..Len(r) /\ t[k] = r[k + 1]
      /\ \A k \in 1..Len(r) : k = 1 \/ (k - 1 \in 1..Len(t) /\ t[k - 1] = r[k])
    BY <1>1
<1>3. \A k \in 1..Len(t) : \A j \in 1..k - 1 : j + 1 \in 1..(k + 1) - 1 /\ j \in 1..Len(t)
    BY <1>1
<1>4. \A n \in 1..p - 1 : n # Break
    BY DEF Break
<1> HIDE DEF t
<1>5. \A k \in 1..Len(t) : \A j \in 1..k - 1 : IsData(t[j]) /\ IsData(t[k]) => t[j] < t[k]
    BY <1>2, <1>3 DEF InOrder
<1>6. \A j \in 1..c, k \in 1..Len(t) : IsData(b[j]) /\ IsData(t[k]) => b[j] < t[k]
    BY <1>2 DEF InOrder
<1>7. \A k \in 1..Len(t) : t[k] < p
    BY <1>2 DEF InOrder
<1>8. ASSUME NEW n \in 1..p - 1
      PROVE  (\E j \in 1..c : b[j] = n) \/ (\E k \in 1..Len(t) : t[k] = n)
    <2>1. (\E j \in 1..c : b[j] = n) \/ (\E k \in 1..Len(r) : r[k] = n)
        BY DEF InOrder
    <2>2. QED
        BY <1>1, <1>2, <1>4, <2>1
<1>9. QED
    BY <1>5, <1>6, <1>7, <1>8 DEF InOrder, t

(* A byte or a break comes in.                                             *)
LEMMA ArriveInOrder ==
    ASSUME NEW b, NEW c \in Nat, NEW r \in Seq(Entries), NEW p \in Nat, InOrder(b, c, r, p),
           \A j \in 1..c : b[j] \in Int
    PROVE  /\ InOrder(b, c, Append(r, p), p + 1)
           /\ InOrder(b, c, Append(r, Break), p)
<1> DEFINE t(e) == Append(r, e)
<1>1. p > 0 /\ p \in Entries /\ Break \in Entries /\ IsData(p) /\ ~IsData(Break) /\ Break < p
    BY DEF InOrder, Entries, IsData, Break, Nul
<1>2. \A e \in Entries :
        /\ Len(t(e)) = Len(r) + 1 /\ Len(r) \in Nat
        /\ \A k \in 1..Len(r) : t(e)[k] = r[k]
        /\ t(e)[Len(r) + 1] = e
    BY AppendEntries
<1> HIDE DEF t
<1>3. \A k \in 1..Len(r) + 1 : k \in 1..Len(r) \/ k = Len(r) + 1
    BY <1>2, <1>1
<1>4. \A k \in 1..Len(r) + 1 : \A j \in 1..k - 1 : j \in 1..Len(r)
    BY <1>2, <1>1
<1>5. \A k \in 1..Len(r) : k \in 1..Len(r) + 1
    BY <1>2, <1>1
<1>6. ASSUME NEW e \in Entries, NEW q \in Nat, (e = p /\ q = p + 1) \/ (e = Break /\ q = p)
      PROVE  InOrder(b, c, t(e), q)
    <2>1. /\ Len(t(e)) = Len(r) + 1 /\ Len(r) \in Nat
          /\ \A k \in 1..Len(r) : t(e)[k] = r[k]
          /\ t(e)[Len(r) + 1] = e
        BY <1>2
    <2>2. \A k \in 1..Len(t(e)) : \A j \in 1..k - 1 :
            IsData(t(e)[j]) /\ IsData(t(e)[k]) => t(e)[j] < t(e)[k]
        BY <1>1, <1>3, <1>4, <1>6, <2>1 DEF InOrder
    <2>3. \A j \in 1..c, k \in 1..Len(t(e)) : IsData(b[j]) /\ IsData(t(e)[k]) => b[j] < t(e)[k]
        BY <1>1, <1>3, <1>6, <2>1 DEF InOrder
    <2>4. \A j \in 1..c : b[j] < q
        <3>1. \A j \in 1..c : b[j] < p
            BY DEF InOrder
        <3>2. CASE q = p
            BY <3>1, <3>2
        <3>3. CASE q = p + 1
            BY <3>1, <3>3
        <3>4. QED
            BY <1>6, <3>2, <3>3
    <2>5. \A k \in 1..Len(t(e)) : t(e)[k] < q
        <3>1. \A k \in 1..Len(r) : r[k] < p /\ r[k] \in Int
            BY DEF InOrder, Entries, Break
        <3>2. e < q
            BY <1>1, <1>6
        <3>3. QED
            BY <1>3, <1>6, <2>1, <3>1, <3>2
    <2>6. ASSUME NEW n \in 1..q - 1
          PROVE  (\E j \in 1..c : b[j] = n) \/ (\E k \in 1..Len(t(e)) : t(e)[k] = n)
        <3>1. n \in 1..p - 1 \/ (n = p /\ e = p)
            BY <1>6
        <3>2. CASE n \in 1..p - 1
            BY <1>5, <2>1, <3>2 DEF InOrder
        <3>3. CASE n = p /\ e = p
            BY <2>1, <3>3
        <3>4. QED
            BY <3>1, <3>2, <3>3
    <2>7. q > 0
        BY <1>1, <1>6
    <2>8. QED
        BY <2>2, <2>3, <2>4, <2>5, <2>6, <2>7 DEF InOrder
<1>7. InOrder(b, c, t(p), p + 1)
    <2>1. p + 1 \in Nat
        OBVIOUS
    <2>2. QED
        BY <1>1, <1>6, <2>1
<1>8. InOrder(b, c, t(Break), p)
    BY <1>1, <1>6
<1>9. QED
    BY <1>7, <1>8 DEF t

(* Entries that are no data change into others that are none.              *)
LEMMA SameDataInOrder ==
    ASSUME NEW b, NEW c \in Nat, NEW r \in Seq(Entries), NEW p \in Nat, InOrder(b, c, r, p),
           NEW t \in Seq(Entries), Len(t) = Len(r),
           \A k \in 1..Len(r) : t[k] = r[k] \/ (~IsData(t[k]) /\ ~IsData(r[k]))
    PROVE  InOrder(b, c, t, p)
<1>1. p > 0 /\ Len(r) \in Nat
    BY DEF InOrder
<1>2. \A k \in 1..Len(r) : \A j \in 1..k - 1 : j \in 1..Len(r)
    BY <1>1
<1>3. \A n \in 1..p - 1 : IsData(n)
    BY DEF IsData, Nul
<1>4. \A k \in 1..Len(t) : \A j \in 1..k - 1 : IsData(t[j]) /\ IsData(t[k]) => t[j] < t[k]
    BY <1>2 DEF InOrder
<1>5. \A j \in 1..c, k \in 1..Len(t) : IsData(b[j]) /\ IsData(t[k]) => b[j] < t[k]
    BY DEF InOrder
<1>6. \A k \in 1..Len(t) : t[k] < p
    <2>1. \A k \in 1..Len(t) : t[k] \in Int
        BY DEF Entries, Break
    <2>2. \A k \in 1..Len(t) : ~IsData(t[k]) => t[k] < p
        BY <1>1, <2>1 DEF IsData, Nul
    <2>3. QED
        BY <2>2 DEF InOrder
<1>7. ASSUME NEW n \in 1..p - 1
      PROVE  (\E j \in 1..c : b[j] = n) \/ (\E k \in 1..Len(t) : t[k] = n)
    BY <1>3 DEF InOrder
<1>8. QED
    BY <1>1, <1>4, <1>5, <1>6, <1>7 DEF InOrder

(* The first byte that is not yet read.                                    *)
LEMMA NextNumberType ==
    ASSUME NEW d, d.rx \in Seq(Entries), d.peer \in Nat, d.peer > 0
    PROVE  /\ NextNumber(d) \in Nat \ {0} /\ NextNumber(d) <= d.peer
           /\ NextNumber(d) = d.peer \/ (\E k \in 1..Len(d.rx) : d.rx[k] = NextNumber(d))
           /\ \A k \in 1..Len(d.rx) : IsData(d.rx[k]) => NextNumber(d) <= d.rx[k]
<1> DEFINE T == Numbers(d.rx) \cup {d.peer}
<1>1. T \subseteq Nat \ {0} /\ d.peer \in T
    BY DEF Numbers, IsData, Nul, Entries, Break
<1>2. PICK n \in T : \A m \in T : n <= m
    BY <1>1, Least
<1>3. NextNumber(d) \in T /\ \A m \in T : NextNumber(d) <= m
    BY <1>2 DEF NextNumber
<1>4. \A k \in 1..Len(d.rx) : IsData(d.rx[k]) => d.rx[k] \in T
    BY DEF Numbers
<1>5. NextNumber(d) = d.peer \/ (\E k \in 1..Len(d.rx) : d.rx[k] = NextNumber(d))
    BY <1>3 DEF Numbers
<1> HIDE DEF T
<1>6. QED
    BY <1>1, <1>3, <1>4, <1>5

(* What is in the FIFO is thrown away.                                     *)
LEMMA FlushInOrder ==
    ASSUME NEW b, NEW c \in Nat, NEW d, d.rx \in Seq(Entries), d.peer \in Nat,
           \A j \in 1..c : b[j] \in Int, InOrder(b, c, d.rx, d.peer)
    PROVE  InOrder(b, c, <<>>, NextNumber(d))
<1> DEFINE n == NextNumber(d)
<1>1. /\ n \in Nat \ {0} /\ n <= d.peer
      /\ n = d.peer \/ (\E k \in 1..Len(d.rx) : d.rx[k] = n)
      /\ \A k \in 1..Len(d.rx) : IsData(d.rx[k]) => n <= d.rx[k]
    BY NextNumberType DEF InOrder
<1> HIDE DEF n
<1>2. Len(<<>>) = 0 /\ \A k \in 1..0 : FALSE
    OBVIOUS
<1>3. IsData(n)
    BY <1>1 DEF IsData, Nul
<1>4. \A j \in 1..c : b[j] < n
    <2>1. CASE n = d.peer
        BY <2>1 DEF InOrder
    <2>2. ASSUME NEW k \in 1..Len(d.rx), d.rx[k] = n
          PROVE  \A j \in 1..c : b[j] < n
        <3>1. \A j \in 1..c : IsData(b[j]) => b[j] < n
            BY <1>3, <2>2 DEF InOrder
        <3>2. \A j \in 1..c : ~IsData(b[j]) => b[j] < n
            BY <1>1 DEF IsData, Nul
        <3>3. QED
            BY <3>1, <3>2
    <2>3. QED
        BY <1>1, <2>1, <2>2
<1>5. ASSUME NEW m \in 1..n - 1
      PROVE  \E j \in 1..c : b[j] = m
    <2>1. m \in 1..d.peer - 1 /\ IsData(m) /\ ~(n <= m)
        BY <1>1 DEF IsData, Nul
    <2>2. (\E j \in 1..c : b[j] = m) \/ (\E k \in 1..Len(d.rx) : d.rx[k] = m)
        BY <2>1 DEF InOrder
    <2>3. QED
        BY <1>1, <2>1, <2>2
<1>6. \A k \in 1..c : \A j \in 1..k - 1 : IsData(b[j]) /\ IsData(b[k]) => b[j] < b[k]
    BY DEF InOrder
<1>7. QED
    BY <1>1, <1>2, <1>4, <1>5, <1>6 DEF InOrder, n

(* The buffer is a new one, and numbering starts anew.                     *)
LEMMA AnewInOrder ==
    ASSUME NEW b, NEW c \in Nat, NEW d, d.rx \in Seq(Entries), d.peer \in Nat,
           InOrder(b, c, d.rx, d.peer), NEW new, NEW r, NEW before, before = NextNumber(d) - 1,
           r = [k \in 1..Len(d.rx) |-> IF IsData(d.rx[k]) THEN d.rx[k] - before ELSE d.rx[k]]
    PROVE  /\ r \in Seq(Entries) /\ Len(r) = Len(d.rx) /\ d.peer - before \in Nat
           /\ InOrder(new, 0, r, d.peer - before)
<1>1. /\ before \in Nat /\ before < d.peer /\ d.peer > 0 /\ Len(d.rx) \in Nat
      /\ \A k \in 1..Len(d.rx) : IsData(d.rx[k]) => before < d.rx[k]
    <2>1. d.peer > 0
        BY DEF InOrder
    <2>2. \A k \in 1..Len(d.rx) : d.rx[k] \in Int
        BY DEF Entries, Break
    <2>3. QED
        BY <2>1, <2>2, NextNumberType
<1>2. \A k \in 1..Len(d.rx) : d.rx[k] \in Entries
    OBVIOUS
<1>3. \A e \in Entries : IsData(e) /\ before < e => e - before \in Nat /\ IsData(e - before)
    BY <1>1 DEF Entries, IsData, Nul, Break
<1>4. r \in [1..Len(d.rx) -> Entries]
    BY <1>1, <1>2, <1>3 DEF Entries
<1>5. r \in Seq(Entries) /\ Len(r) = Len(d.rx)
    BY <1>1, <1>4, FunctionEntries
<1>6. \A k \in 1..Len(r) :
        /\ IsData(r[k]) <=> IsData(d.rx[k])
        /\ IsData(r[k]) => r[k] = d.rx[k] - before
        /\ ~IsData(r[k]) => r[k] = d.rx[k]
        /\ r[k] \in Int /\ d.rx[k] \in Int
    BY <1>1, <1>2, <1>3, <1>5 DEF Entries, Break
<1>7. \A k \in 1..Len(r) : \A j \in 1..k - 1 : IsData(r[j]) /\ IsData(r[k]) => r[j] < r[k]
    <2>1. \A k \in 1..Len(r) : \A j \in 1..k - 1 : j \in 1..Len(r)
        BY <1>1, <1>5
    <2>2. \A k \in 1..Len(r) : \A j \in 1..k - 1 :
            IsData(d.rx[j]) /\ IsData(d.rx[k]) => d.rx[j] < d.rx[k]
        BY <1>5 DEF InOrder
    <2>3. ASSUME NEW k \in 1..Len(r), NEW j \in 1..k - 1, IsData(r[j]), IsData(r[k])
          PROVE  r[j] < r[k]
        <3>1. d.rx[j] < d.rx[k]
            BY <1>6, <2>1, <2>2, <2>3
        <3>2. r[j] = d.rx[j] - before /\ r[k] = d.rx[k] - before /\ d.rx[j] \in Int /\ d.rx[k] \in Int
            BY <1>6, <2>1, <2>3
        <3>3. QED
            BY <1>1, <3>1, <3>2
    <2>4. QED
        BY <2>3
<1>8. \A k \in 1..Len(r) : r[k] < d.peer - before
    <2>1. \A k \in 1..Len(r) : d.rx[k] < d.peer
        BY <1>5 DEF InOrder
    <2>2. \A k \in 1..Len(r) : ~IsData(r[k]) => r[k] <= 0
        BY <1>6 DEF IsData, Nul
    <2>3. ASSUME NEW k \in 1..Len(r)
          PROVE  r[k] < d.peer - before
        <3>1. CASE IsData(r[k])
            <4>1. r[k] = d.rx[k] - before /\ d.rx[k] < d.peer /\ d.rx[k] \in Int
                BY <1>6, <2>1, <3>1
            <4>2. QED
                BY <1>1, <4>1
        <3>2. CASE ~IsData(r[k])
            <4>1. r[k] <= 0 /\ r[k] \in Int
                BY <1>6, <2>2, <3>2
            <4>2. QED
                BY <1>1, <4>1
        <3>3. QED
            BY <3>1, <3>2
    <2>4. QED
        BY <2>3
<1>9. ASSUME NEW n \in 1..d.peer - before - 1
      PROVE  \E k \in 1..Len(r) : r[k] = n
    <2>1. n + before \in 1..d.peer - 1 /\ IsData(n + before) /\ ~(n + before < before + 1)
        BY <1>1 DEF IsData, Nul
    <2>2. (\E j \in 1..c : b[j] = n + before) \/ (\E k \in 1..Len(d.rx) : d.rx[k] = n + before)
        BY <2>1 DEF InOrder
    <2>3. ASSUME NEW j \in 1..c, b[j] = n + before
          PROVE  FALSE
        <3>1. NextNumber(d) = d.peer \/ (\E k \in 1..Len(d.rx) : d.rx[k] = NextNumber(d))
            BY <1>1, NextNumberType
        <3>2. NextNumber(d) = before + 1 /\ IsData(before + 1)
            <4>1. NextNumber(d) \in Nat
                BY <1>1, NextNumberType
            <4>2. QED
                BY <1>1, <4>1 DEF IsData, Nul
        <3>3. CASE NextNumber(d) = d.peer
            BY <1>1, <2>1, <3>2, <3>3
        <3>4. ASSUME NEW k \in 1..Len(d.rx), d.rx[k] = NextNumber(d)
              PROVE  FALSE
            <4>1. IsData(b[j]) /\ IsData(d.rx[k]) => b[j] < d.rx[k]
                BY DEF InOrder
            <4>2. QED
                BY <2>1, <2>3, <3>2, <3>4, <4>1
        <3>5. QED
            BY <3>1, <3>3, <3>4
    <2>4. QED
        BY <1>1, <1>5, <1>6, <2>1, <2>2, <2>3
<1>10. d.peer - before \in Nat /\ d.peer - before > 0
    BY <1>1
<1>11. \A k \in 1..0 : FALSE
    OBVIOUS
<1>12. QED
    BY <1>5, <1>7, <1>8, <1>9, <1>10, <1>11 DEF InOrder

-----------------------------------------------------------------------------
(* What the invariant says of the properties.                              *)

Uarts == [isReady : BOOLEAN, handler : {"stub", "application"}, lastErrors : BOOLEAN,
          baudRate : Nat, send : [next : Nat, remaining : 0..MaxBytes],
          recv : [data : Seq(Entries), remaining : 0..MaxRecv]]
Devs == [ier : SUBSET Ier, lcr : SUBSET (Lcr \ {"DLAB"}), mcr : SUBSET Mcr,
         fcr : SUBSET {"FIFOS_ENABLE"}, trigger : 1..FifoDepth, divisor : Nat,
         tx : Seq(Nat), shifter : Seq(Nat), thre : BOOLEAN,
         rx : Seq(Entries), overrun : BOOLEAN, peer : Nat, modem : BOOLEAN]
Mains == [pc : MainLabels, ier : SUBSET Ier, count : Nat, row : 0..Len(OptionsTable),
          value : SUBSET (Ier \cup {"FIFOS_ENABLE"}), options : OptionSets \cup {{}},
          setting : BOOLEAN]
Apps == [mode : {"polled", "interrupt"}, sending : BOOLEAN, start : Int, size : 0..MaxBytes]

UartOK(u) == u \in Uarts /\ Len(u.recv.data) <= MaxRecv
DevOK(d) == d \in Devs /\ Len(d.tx) <= FifoDepth /\ Len(d.rx) <= FifoDepth /\ Len(d.shifter) <= 1

LEMMA Typed ==
    TypeOK <=> UartOK(uart) /\ DevOK(dev) /\ main \in Mains /\ app \in Apps
               /\ event \in Events \cup Copying \cup {"none"}
BY DEF TypeOK, UartOK, DevOK, Uarts, Devs, Mains, Apps

LEMMA TypedNext ==
    ASSUME UartOK(uart'), DevOK(dev'), main' \in Mains, app' \in Apps,
           event' \in Events \cup Copying \cup {"none"}
    PROVE  TypeOK'
BY DEF TypeOK, UartOK, DevOK, Uarts, Devs, Mains, Apps

LEMMA Counts ==
    ASSUME NEW u, UartOK(u)
    PROVE  /\ Len(u.recv.data) \in Nat /\ u.recv.remaining \in Nat /\ Stored(u) \in Int
           /\ u.send.next \in Nat /\ u.send.remaining \in Nat
           /\ \A k \in 1..Len(u.recv.data) : u.recv.data[k] \in Entries /\ u.recv.data[k] \in Int
BY UartAssumption DEF UartOK, Uarts, Stored, Entries, Break

LEMMA DepthType ==
    ASSUME NEW d
    PROVE  Depth(d) \in Nat \ {0} /\ Depth(d) <= FifoDepth
BY UartAssumption DEF Depth

LEMMA BufferType ==
    ASSUME TypeOK, Receiver, CallInv
    PROVE  /\ InBuffer \in Nat /\ InBuffer <= Len(uart.recv.data) /\ Stored(uart) \in Nat
           /\ main.pc # "copy" => InBuffer = Stored(uart)
           /\ main.pc = "copy" => InBuffer = Stored(uart) + main.count
           /\ \A j \in 1..InBuffer : uart.recv.data[j] \in Int
<1>1. /\ Len(uart.recv.data) \in Nat /\ uart.recv.remaining \in Nat
      /\ \A k \in 1..Len(uart.recv.data) : uart.recv.data[k] \in Int
      /\ main.count \in Nat /\ uart.recv.remaining <= Len(uart.recv.data)
    BY Typed, Counts DEF Mains, Receiver
<1>2. main.pc = "copy" => main.count <= uart.recv.remaining
    BY DEF CallInv
<1>3. /\ InBuffer \in Nat /\ InBuffer <= Len(uart.recv.data) /\ Stored(uart) \in Nat
      /\ main.pc # "copy" => InBuffer = Stored(uart)
      /\ main.pc = "copy" => InBuffer = Stored(uart) + main.count
    <2>1. Stored(uart) = Len(uart.recv.data) - uart.recv.remaining
        BY DEF Stored
    <2>2. /\ main.pc # "copy" => InBuffer = Stored(uart) + 0
          /\ main.pc = "copy" => InBuffer = Stored(uart) + main.count
        BY DEF InBuffer
    <2> DEFINE l == Len(uart.recv.data)
               n == uart.recv.remaining
    <2>3. l \in Nat /\ n \in Nat /\ n <= l /\ Stored(uart) = l - n
        BY <1>1, <2>1
    <2> HIDE DEF l, n
    <2>4. Stored(uart) \in Nat /\ Stored(uart) <= l
        BY <2>3
    <2>5. CASE main.pc # "copy"
        BY <2>2, <2>3, <2>4, <2>5 DEF l
    <2>6. ASSUME main.pc = "copy"
          PROVE  InBuffer \in Nat /\ InBuffer <= l
        <3>1. main.count \in Nat /\ main.count <= n /\ InBuffer = Stored(uart) + main.count
            BY <1>1, <1>2, <2>2, <2>6 DEF n
        <3>2. QED
            BY <2>3, <2>4, <3>1
    <2>7. QED
        BY <2>2, <2>4, <2>5, <2>6 DEF l
<1>4. QED
    BY <1>1, <1>3

LEMMA TransmitsFromInvariant ==
    ASSUME TypeOK, Transmitter
    PROVE  TransmitsInOrder
<1> DEFINE s == dev.shifter
           t == dev.tx
<1>1. s \in Seq(Nat) /\ t \in Seq(Nat) /\ Numbered(s, 0) /\ Numbered(t, Len(s))
    BY Typed DEF DevOK, Devs, Transmitter
<1> HIDE DEF s, t
<1>2. /\ Len(s \o t) = Len(s) + Len(t) /\ Len(s) \in Nat /\ Len(t) \in Nat
      /\ \A i \in 1..Len(s) : (s \o t)[i] = s[i]
      /\ \A i \in 1..Len(t) : (s \o t)[Len(s) + i] = t[i]
    BY <1>1
<1>3. ASSUME NEW i \in 1..Len(s) + Len(t), i \notin 1..Len(s)
      PROVE  i - Len(s) \in 1..Len(t) /\ Len(s) + (i - Len(s)) = i
    <2>1. Len(s) \in Nat /\ Len(t) \in Nat
        BY <1>2
    <2>2. QED
        BY <1>3, <2>1
<1>4. ASSUME NEW i \in 1..Len(s) + Len(t)
      PROVE  (s \o t)[i] = 0 + i
    <2>1. CASE i \in 1..Len(s)
        BY <1>1, <1>2, <2>1 DEF Numbered
    <2>2. CASE i \notin 1..Len(s)
        BY <1>1, <1>2, <1>3, <2>2 DEF Numbered
    <2>3. QED
        BY <2>1, <2>2
<1>5. QED
    BY <1>2, <1>4 DEF TransmitsInOrder, Numbered, s, t

LEMMA ReceivesFromInvariant ==
    ASSUME TypeOK, Receiver, CallInv
    PROVE  ReceivesInOrder
<1> DEFINE b == uart.recv.data
           c == InBuffer
           s == SubSeq(b, 1, c)
           r == dev.rx
           p == dev.peer
<1>1. /\ c \in Nat /\ c <= Len(b) /\ b \in Seq(Entries) /\ r \in Seq(Entries) /\ p \in Nat
      /\ InOrder(b, c, r, p)
    BY Typed, BufferType DEF UartOK, Uarts, DevOK, Devs, Receiver
<1>2. s \in Seq(Entries) /\ Len(s) = c /\ \A k \in 1..c : s[k] = b[k]
    <2> HIDE DEF b, c
    <2>1. Len(b) \in Nat
        BY <1>1, EmptyIsZero
    <2>2. \A k \in 1..c : k \in 1..Len(b)
        BY <1>1, <2>1
    <2>3. QED
        BY <1>1, <2>1, <2>2
<1> HIDE DEF s
<1>3. /\ Len(s \o r) = c + Len(r) /\ Len(r) \in Nat
      /\ \A k \in 1..c : (s \o r)[k] = b[k] /\ b[k] \in Entries
      /\ \A k \in 1..Len(r) : (s \o r)[c + k] = r[k] /\ r[k] \in Entries
    <2>1. /\ Len(s \o r) = Len(s) + Len(r) /\ Len(r) \in Nat
          /\ \A k \in 1..Len(s) : (s \o r)[k] = s[k]
          /\ \A k \in 1..Len(r) : (s \o r)[Len(s) + k] = r[k]
        BY <1>1, <1>2
    <2>2. /\ \A k \in 1..c : s[k] \in Entries
          /\ \A k \in 1..Len(r) : r[k] \in Entries
        BY <1>1, <1>2
    <2>3. QED
        BY <1>2, <2>1, <2>2
<1> DEFINE t == s \o r
<1> HIDE DEF b, c, r, p, t
<1>4. ASSUME NEW k \in 1..Len(t)
      PROVE  k \in 1..c \/ (k - c \in 1..Len(r) /\ c + (k - c) = k)
    BY <1>1, <1>3 DEF t
<1>5. ASSUME NEW k \in 1..Len(t), NEW j \in 1..k - 1, IsData(t[j]), IsData(t[k])
      PROVE  t[j] < t[k]
    <2>1. j \in 1..Len(t)
        BY <1>1, <1>3 DEF t
    <2>2. CASE k \in 1..c
        <3>1. j \in 1..c
            BY <1>1, <2>2
        <3>2. QED
            BY <1>1, <1>3, <1>5, <2>2, <3>1 DEF InOrder, t
    <2>3. CASE k - c \in 1..Len(r) /\ c + (k - c) = k /\ j \in 1..c
        BY <1>1, <1>3, <1>5, <2>3 DEF InOrder, t
    <2>4. CASE /\ k - c \in 1..Len(r) /\ c + (k - c) = k
               /\ j - c \in 1..Len(r) /\ c + (j - c) = j
        <3>1. j - c \in 1..(k - c) - 1
            BY <1>1, <1>3, <2>4
        <3>2. t[k] = r[k - c] /\ t[j] = r[j - c]
            BY <1>3, <2>4 DEF t
        <3>3. QED
            BY <1>1, <1>5, <2>4, <3>1, <3>2 DEF InOrder
    <2>5. QED
        BY <1>4, <2>1, <2>2, <2>3, <2>4
<1>6. ASSUME NEW n \in Numbers(t)
      PROVE  n \in 1..p - 1
    <2>1. PICK k \in 1..Len(t) : t[k] = n /\ IsData(n)
        BY DEF Numbers
    <2>2. n \in Entries /\ n < p
        BY <1>1, <1>3, <1>4, <2>1 DEF InOrder, t
    <2>3. QED
        BY <1>1, <2>1, <2>2 DEF Entries, IsData, Nul, Break
<1>7. ASSUME NEW n \in 1..p - 1
      PROVE  n \in Numbers(t)
    <2>1. IsData(n)
        BY DEF IsData, Nul
    <2>2. (\E j \in 1..c : b[j] = n) \/ (\E k \in 1..Len(r) : r[k] = n)
        BY <1>1 DEF InOrder
    <2>3. (\A j \in 1..c : j \in 1..Len(t)) /\ \A k \in 1..Len(r) : c + k \in 1..Len(t)
        BY <1>1, <1>3 DEF t
    <2>4. \E k \in 1..Len(t) : t[k] = n
        BY <1>3, <2>2, <2>3 DEF t
    <2>5. QED
        BY <2>1, <2>4 DEF Numbers
<1>8. Numbers(t) = 1..p - 1
    BY <1>6, <1>7
<1>9. TakenIn = t /\ dev.peer = p
    BY DEF TakenIn, t, s, b, c, r, p
<1>10. QED
    BY <1>5, <1>8, <1>9 DEF ReceivesInOrder

-----------------------------------------------------------------------------
(* What the registers' operations do.                                      *)

SameOut(d, e) == e.tx = d.tx /\ e.shifter = d.shifter /\ e.fcr = d.fcr
SameIn(d, e) == e.rx = d.rx /\ e.peer = d.peer

LEMMA SetIerEffect ==
    ASSUME NEW d, DevOK(d), NEW bits \in SUBSET Ier, NEW e, e = SetIer(d, bits)
    PROVE  /\ DevOK(e) /\ SameOut(d, e) /\ SameIn(d, e) /\ e.ier = bits
           /\ e.thre <=> d.thre \/ ("TX_EMPTY" \in bits \ d.ier /\ d.tx = <<>>)
<1>1. d \in Devs
    BY DEF DevOK
<1>2. /\ e \in Devs /\ e.ier = bits
      /\ e.thre <=> d.thre \/ ("TX_EMPTY" \in bits \ d.ier /\ d.tx = <<>>)
    BY <1>1 DEF Devs, SetIer
<1>3. SameOut(d, e) /\ SameIn(d, e)
    BY <1>1 DEF Devs, SetIer, SameOut, SameIn
<1>4. QED
    BY <1>2, <1>3 DEF DevOK, SameOut, SameIn

LEMMA ReadLsrEffect ==
    ASSUME NEW d, DevOK(d), NEW e, e = ReadLsr(d)
    PROVE  /\ DevOK(e) /\ SameOut(d, e) /\ e.ier = d.ier /\ e.thre = d.thre /\ e.peer = d.peer
           /\ \A b : \A c \in Nat : InOrder(b, c, d.rx, d.peer) => InOrder(b, c, e.rx, e.peer)
<1> DEFINE r == [k \in 1..Len(d.rx) |-> IF k = 1 /\ d.rx[k] = Break THEN Nul ELSE d.rx[k]]
<1>1. d \in Devs /\ d.rx \in Seq(Entries) /\ Len(d.rx) \in Nat /\ d.peer \in Nat
    BY DEF DevOK, Devs
<1>2. /\ r \in [1..Len(d.rx) -> Entries]
      /\ \A k \in 1..Len(d.rx) : r[k] = d.rx[k] \/ (~IsData(r[k]) /\ ~IsData(d.rx[k]))
    BY <1>1 DEF Entries, Nul, Break, IsData
<1>3. e = [d EXCEPT !.overrun = FALSE, !.rx = r]
    BY <1>1 DEF ReadLsr, Devs
<1> HIDE DEF r
<1>4. r \in Seq(Entries) /\ Len(r) = Len(d.rx)
    BY <1>1, <1>2, FunctionEntries
<1>5. /\ e \in Devs /\ e.rx = r /\ e.peer = d.peer /\ e.ier = d.ier /\ e.thre = d.thre
      /\ SameOut(d, e)
    BY <1>1, <1>3, <1>4 DEF Devs, SameOut
<1>6. DevOK(e)
    BY <1>4, <1>5 DEF DevOK, SameOut
<1>7. \A b : \A c \in Nat : InOrder(b, c, d.rx, d.peer) => InOrder(b, c, r, d.peer)
    BY <1>1, <1>2, <1>4, SameDataInOrder
<1>8. QED
    BY <1>5, <1>6, <1>7

(* The FIFO control register is written with the FIFOs as they are, ...    *)
LEMMA WriteFcrSame ==
    ASSUME NEW d, DevOK(d), NEW bits, bits = d.fcr, NEW e, e = WriteFcr(d, bits)
    PROVE  /\ DevOK(e) /\ SameOut(d, e) /\ SameIn(d, e) /\ e.ier = d.ier /\ e.thre = d.thre
<1>1. d \in Devs /\ bits \subseteq {"FIFOS_ENABLE"}
    BY DEF DevOK, Devs
<1>2. /\ ("FIFOS_ENABLE" \in bits) = Fifos(d)
      /\ "RESET_RX" \notin bits /\ "RESET_TX" \notin bits /\ bits \cap {"FIFOS_ENABLE"} = d.fcr
    BY <1>1 DEF Fifos
<1>3. e = [d EXCEPT !.fcr = d.fcr, !.tx = d.tx, !.rx = d.rx, !.peer = d.peer]
    BY <1>1, <1>2 DEF WriteFcr, Devs
<1>4. /\ e \in Devs /\ e.ier = d.ier /\ e.thre = d.thre /\ SameOut(d, e) /\ SameIn(d, e)
    BY <1>1, <1>3 DEF Devs, SameOut, SameIn
<1>5. QED
    BY <1>4 DEF DevOK, SameOut, SameIn

(* ... or in any way, while nothing is sent.                               *)
LEMMA WriteFcrIdle ==
    ASSUME NEW d, DevOK(d), d.tx = <<>>, NEW bits, NEW e, e = WriteFcr(d, bits),
           NEW b, NEW c \in Nat, InOrder(b, c, d.rx, d.peer), \A j \in 1..c : b[j] \in Int
    PROVE  /\ DevOK(e) /\ e.tx = <<>> /\ e.shifter = d.shifter /\ e.ier = d.ier /\ e.thre = d.thre
           /\ InOrder(b, c, e.rx, e.peer)
<1> DEFINE flushed == ("FIFOS_ENABLE" \in bits) # Fifos(d) \/ "RESET_RX" \in bits
           r == IF flushed THEN <<>> ELSE d.rx
           p == IF flushed THEN NextNumber(d) ELSE d.peer
           f == bits \cap {"FIFOS_ENABLE"}
<1>1. d \in Devs /\ d.rx \in Seq(Entries) /\ d.peer \in Nat /\ d.peer > 0
    BY DEF DevOK, Devs, InOrder
<1>2. e = [d EXCEPT !.fcr = f, !.tx = <<>>, !.rx = r, !.peer = p]
    BY <1>1 DEF WriteFcr, Devs
<1>3. /\ r \in Seq(Entries) /\ Len(r) <= FifoDepth /\ p \in Nat /\ InOrder(b, c, r, p)
    <2>1. CASE flushed
        <3>1. r = <<>> /\ p = NextNumber(d)
            BY <2>1
        <3>2. Len(<<>>) = 0 /\ 0 <= FifoDepth /\ <<>> \in Seq(Entries)
            BY UartAssumption
        <3>3. QED
            BY <1>1, <3>1, <3>2, FlushInOrder, NextNumberType
    <2>2. CASE ~flushed
        <3>1. r = d.rx /\ p = d.peer
            BY <2>2
        <3>2. QED
            BY <1>1, <3>1 DEF DevOK
    <2>3. QED
        BY <2>1, <2>2
<1>4. f \in SUBSET {"FIFOS_ENABLE"} /\ <<>> \in Seq(Nat) /\ Len(<<>>) <= FifoDepth
    BY UartAssumption
<1> HIDE DEF r, p, f
<1>5. /\ e \in Devs /\ e.tx = <<>> /\ e.shifter = d.shifter /\ e.ier = d.ier /\ e.thre = d.thre
      /\ e.rx = r /\ e.peer = p
    BY <1>1, <1>2, <1>3, <1>4 DEF Devs
<1>6. QED
    BY <1>3, <1>4, <1>5 DEF DevOK

(* The loop takes an entry: a break goes, a byte is stored.                *)
LEMMA TakeEffect ==
    ASSUME NEW d, DevOK(d), d.rx # <<>>, NEW u, UartOK(u), NEW c \in Nat, c < Len(u.recv.data),
           InOrder(u.recv.data, c, d.rx, d.peer),
           NEW e, e = TakeDevice(d), NEW v, v = TakeDriver(u, d, c)
    PROVE  /\ DevOK(e) /\ SameOut(d, e) /\ e.ier = d.ier /\ e.thre = d.thre
           /\ UartOK(v) /\ v.send = u.send /\ v.isReady = u.isReady
           /\ v.recv.remaining = u.recv.remaining /\ Len(v.recv.data) = Len(u.recv.data)
           /\ InOrder(v.recv.data, IF Head(d.rx) = Break THEN c ELSE c + 1, e.rx, e.peer)
<1> DEFINE b == u.recv.data
           l == Len(u.recv.data)
           h == Head(d.rx)
           w == [k \in 1..l |-> IF k = c + 1 /\ h # Break THEN h ELSE b[k]]
<1>1. /\ d \in Devs /\ d.rx \in Seq(Entries) /\ d.peer \in Nat
      /\ u \in Uarts /\ u.recv.data \in Seq(Entries) /\ u.recv.remaining \in 0..MaxRecv
    BY DEF DevOK, Devs, UartOK, Uarts
<1>2. /\ Tail(d.rx) \in Seq(Entries) /\ Len(Tail(d.rx)) = Len(d.rx) - 1 /\ Len(d.rx) \in Nat
      /\ h \in Entries
    BY <1>1, TailEntries
<1>3. e = [d EXCEPT !.rx = Tail(d.rx), !.overrun = FALSE]
    BY <1>1 DEF TakeDevice, Devs
<1>4. /\ e \in Devs /\ e.rx = Tail(d.rx) /\ e.peer = d.peer /\ e.ier = d.ier /\ e.thre = d.thre
      /\ SameOut(d, e)
    BY <1>1, <1>2, <1>3 DEF Devs, SameOut
<1>5. Len(Tail(d.rx)) <= FifoDepth
    <2>1. Len(d.rx) <= FifoDepth /\ FifoDepth \in Nat
        BY UartAssumption DEF DevOK
    <2>2. QED
        BY <1>2, <2>1
<1>6. DevOK(e)
    BY <1>4, <1>5 DEF DevOK, SameOut
<1>7. /\ v.recv.data = w /\ v.recv.remaining = u.recv.remaining
      /\ v.send = u.send /\ v.isReady = u.isReady
    BY <1>1 DEF TakeDriver, Uarts
<1>8. l \in Nat /\ \A k \in 1..l : b[k] \in Entries /\ b[k] \in Int
    BY Counts
<1>9. w \in [1..l -> Entries]
    BY <1>2, <1>8
<1>10. w \in Seq(Entries) /\ Len(w) = l
    BY <1>8, <1>9, FunctionEntries
<1>11. UartOK(v)
    <2>1. v.handler = u.handler /\ v.lastErrors \in BOOLEAN /\ v.baudRate = u.baudRate
        BY <1>1 DEF TakeDriver, Uarts, LsrErrors, DevOK, Devs
    <2> HIDE DEF w, b, l
    <2>2. v = [isReady |-> v.isReady, handler |-> v.handler, lastErrors |-> v.lastErrors,
               baudRate |-> v.baudRate, send |-> v.send,
               recv |-> [data |-> v.recv.data, remaining |-> v.recv.remaining]]
        BY <1>1 DEF TakeDriver, Uarts
    <2>3. /\ u.isReady \in BOOLEAN /\ u.handler \in {"stub", "application"}
          /\ u.baudRate \in Nat /\ u.send \in [next : Nat, remaining : 0..MaxBytes]
        BY <1>1 DEF Uarts
    <2>4. v \in Uarts
        BY <1>1, <1>7, <1>10, <2>1, <2>2, <2>3 DEF Uarts
    <2>5. QED
        BY <1>7, <1>10, <2>4 DEF UartOK, l
<1>12. c + 1 \in 1..l /\ \A k \in 1..c : k \in 1..l /\ k # c + 1
    BY <1>8
<1>13. ASSUME h # Break
       PROVE  InOrder(w, c + 1, Tail(d.rx), d.peer)
    <2>1. w[c + 1] = h /\ \A k \in 1..c : w[k] = b[k] /\ b[k] \in Int
        BY <1>8, <1>12, <1>13
    <2> HIDE DEF w, l
    <2>2. QED
        BY <1>1, <2>1, StoreInOrder
<1>14. ASSUME h = Break
       PROVE  InOrder(w, c, Tail(d.rx), d.peer)
    <2>1. w = b
        BY <1>1, <1>14
    <2> HIDE DEF w, l
    <2>2. QED
        BY <1>1, <1>14, <2>1, DropInOrder
<1> HIDE DEF w
<1>15. QED
    BY <1>4, <1>6, <1>7, <1>10, <1>11, <1>13, <1>14

LEMMA AskEffect ==
    ASSUME NEW u, UartOK(u), NEW n \in 0..MaxRecv, NEW d, DevOK(d),
           NEW b, NEW c \in Nat, InOrder(b, c, d.rx, d.peer),
           NEW v, v = Ask(u, n), NEW e, e = Renumbered(d)
    PROVE  /\ UartOK(v) /\ v.send = u.send /\ v.isReady = u.isReady
           /\ v.recv.remaining = n /\ Len(v.recv.data) = n /\ Stored(v) = 0
           /\ DevOK(e) /\ SameOut(d, e) /\ e.ier = d.ier /\ e.thre = d.thre
           /\ InOrder(v.recv.data, 0, e.rx, e.peer)
<1> DEFINE w == [k \in 1..n |-> Nul]
           before == NextNumber(d) - 1
           r == [k \in 1..Len(d.rx) |-> IF IsData(d.rx[k]) THEN d.rx[k] - before ELSE d.rx[k]]
<1>1. u \in Uarts /\ d \in Devs /\ n \in Nat /\ n <= MaxRecv /\ d.rx \in Seq(Entries) /\ d.peer \in Nat
    BY UartAssumption DEF UartOK, DevOK, Devs
<1>2. w \in [1..n -> Entries]
    BY DEF Entries, Nul
<1>3. v = [u EXCEPT !.recv = [data |-> w, remaining |-> n]]
    BY DEF Ask
<1>4. e = [d EXCEPT !.rx = r, !.peer = d.peer - before]
    BY <1>1 DEF Renumbered, Devs
<1> HIDE DEF w
<1>5. w \in Seq(Entries) /\ Len(w) = n
    BY <1>1, <1>2, FunctionEntries
<1>6. /\ v \in Uarts /\ v.send = u.send /\ v.isReady = u.isReady
      /\ v.recv.remaining = n /\ v.recv.data = w
    <2> DEFINE new == [data |-> w, remaining |-> n]
    <2>1. new \in [data : Seq(Entries), remaining : 0..MaxRecv]
        BY <1>5
    <2>2. new.remaining = n /\ new.data = w
        OBVIOUS
    <2> HIDE DEF new
    <2>3. v \in Uarts /\ v.send = u.send /\ v.isReady = u.isReady /\ v.recv = new
        <3>1. v = [u EXCEPT !.recv = new]
            BY <1>3 DEF new
        <3>2. QED
            BY <1>1, <2>1, <3>1 DEF Uarts
    <2>4. QED
        BY <2>2, <2>3
<1>7. UartOK(v) /\ Stored(v) = 0
    BY <1>1, <1>5, <1>6 DEF UartOK, Stored
<1>8. /\ r \in Seq(Entries) /\ Len(r) = Len(d.rx) /\ d.peer - before \in Nat
      /\ InOrder(w, 0, r, d.peer - before)
    BY <1>1, AnewInOrder
<1> DEFINE p == d.peer - before
<1> HIDE DEF r, p
<1>9. /\ e \in Devs /\ SameOut(d, e) /\ e.ier = d.ier /\ e.thre = d.thre /\ e.rx = r /\ e.peer = p
    BY <1>1, <1>4, <1>8 DEF Devs, SameOut, p
<1>10. DevOK(e)
    BY <1>8, <1>9 DEF DevOK, SameOut
<1>11. QED
    BY <1>5, <1>6, <1>7, <1>8, <1>9, <1>10 DEF p

(* The bytes that follow are put behind those in the FIFO.                 *)
LEMMA WriteThrEffect ==
    ASSUME NEW d, DevOK(d), Numbered(d.tx, Len(d.shifter)), d.thre => d.tx = <<>>,
           NEW bytes \in Seq(Nat), Len(d.tx) + Len(bytes) <= Depth(d),
           \A k \in 1..Len(bytes) : bytes[k] = Len(d.shifter) + (Len(d.tx) + k),
           NEW e, e = WriteThr(d, bytes)
    PROVE  /\ DevOK(e) /\ SameIn(d, e) /\ e.ier = d.ier /\ e.shifter = d.shifter /\ e.fcr = d.fcr
           /\ Len(e.tx) = Len(d.tx) + Len(bytes) /\ Numbered(e.tx, Len(e.shifter))
           /\ e.thre => d.thre /\ e.tx = <<>>
<1> DEFINE s == d.tx \o bytes
           m == IF Len(s) < Depth(d) THEN Len(s) ELSE Depth(d)
           t == SubSeq(s, 1, m)
<1>1. /\ d \in Devs /\ d.tx \in Seq(Nat) /\ d.shifter \in Seq(Nat) /\ d.thre \in BOOLEAN
      /\ Len(d.tx) \in Nat /\ Len(d.shifter) \in Nat
    BY DEF DevOK, Devs
<1> DEFINE l == Len(d.tx)
           q == Len(d.shifter)
           n == Len(bytes)
<1>2. l \in Nat /\ q \in Nat /\ n \in Nat
    BY <1>1
<1>3. \A k \in 1..n : bytes[k] = q + (l + k)
    OBVIOUS
<1>4. e = [d EXCEPT !.tx = t, !.thre = d.thre /\ bytes = <<>>]
    BY <1>1 DEF WriteThr, Devs
<1> HIDE DEF l, q, n
<1>5. /\ s \in Seq(Nat) /\ Len(s) = l + n
      /\ \A k \in 1..l : s[k] = d.tx[k]
      /\ \A k \in 1..n : s[l + k] = bytes[k]
    BY <1>1, ConcatEntries DEF l, n
<1> HIDE DEF s
<1>6. Depth(d) \in Nat /\ Depth(d) <= FifoDepth /\ FifoDepth \in Nat /\ l + n <= Depth(d)
    BY DepthType, UartAssumption DEF l, n
<1>7. m = Len(s) /\ Len(s) \in Nat
    <2>1. Len(s) \in Nat /\ Len(s) <= Depth(d)
        BY <1>2, <1>5, <1>6
    <2>2. QED
        BY <1>6, <2>1
<1> HIDE DEF m
<1>8. t \in Seq(Nat) /\ Len(t) = Len(s) /\ \A k \in 1..Len(s) : t[k] = s[k]
    BY <1>5, <1>7
<1> HIDE DEF t
<1>9. Numbered(t, Len(d.shifter))
    <2>1. \A k \in 1..l : d.tx[k] = q + k
        BY DEF Numbered, l, q
    <2>2. ASSUME NEW k \in 1..l + n
          PROVE  s[k] = q + k
        <3>1. CASE k \in 1..l
            BY <1>5, <2>1, <3>1
        <3>2. CASE k \notin 1..l
            <4>1. k - l \in 1..n /\ l + (k - l) = k
                BY <1>2, <3>2
            <4>2. s[l + (k - l)] = q + (l + (k - l))
                BY <1>3, <1>5, <4>1
            <4>3. QED
                BY <4>1, <4>2
        <3>3. QED
            BY <3>1, <3>2
    <2>3. QED
        BY <1>5, <1>8, <2>2 DEF Numbered, q
<1>10. /\ e \in Devs /\ e.tx = t /\ e.shifter = d.shifter /\ e.fcr = d.fcr /\ e.ier = d.ier
       /\ SameIn(d, e)
       /\ e.thre <=> d.thre /\ bytes = <<>>
    BY <1>1, <1>4, <1>8 DEF Devs, SameIn
<1>11. e.thre => d.thre /\ t = <<>>
    <2>1. bytes = <<>> => n = 0
        BY EmptyIsZero DEF n
    <2>2. d.tx = <<>> => l = 0
        BY <1>1, EmptyIsZero DEF l
    <2>3. e.thre => Len(t) = 0
        BY <1>5, <1>8, <1>10, <2>1, <2>2
    <2>4. QED
        BY <1>8, <1>10, <2>3, EmptyIsZero
<1>12. DevOK(e)
    <2>1. Len(t) <= FifoDepth
        BY <1>2, <1>5, <1>6, <1>8
    <2>2. QED
        BY <1>10, <2>1 DEF DevOK, SameIn
<1>13. QED
    BY <1>5, <1>8, <1>9, <1>10, <1>11, <1>12 DEF l, n

(* Filling hands over what fits an empty FIFO.                             *)
InStep(u, d) ==
    /\ u.send.next = Len(d.shifter) + Len(d.tx) + 1
    /\ Numbered(d.shifter, 0) /\ Numbered(d.tx, Len(d.shifter))
    /\ Len(d.tx) <= Depth(d)
    /\ d.thre => d.tx = <<>>

LEMMA FillEffect ==
    ASSUME NEW u, UartOK(u), NEW d, DevOK(d), InStep(u, d),
           NEW e, e = FillDevice(u, d), NEW v, v = FillDriver(u, d)
    PROVE  /\ DevOK(e) /\ InStep(v, e) /\ e.ier = d.ier /\ e.fcr = d.fcr
           /\ e.thre => d.thre
           /\ \A b : \A c \in Nat : InOrder(b, c, d.rx, d.peer) => InOrder(b, c, e.rx, e.peer)
           /\ UartOK(v) /\ v.recv = u.recv /\ v.isReady = u.isReady
           /\ BytesToSend(u, d) \in Nat /\ BytesToSend(u, d) <= u.send.remaining
           /\ v.send.next = u.send.next + BytesToSend(u, d)
           /\ v.send.remaining = u.send.remaining - BytesToSend(u, d)
<1> DEFINE n == BytesToSend(u, d)
           f == ReadLsr(d)
           bytes == [k \in 1..n |-> u.send.next + k - 1]
<1>i. /\ u.send.next = Len(d.shifter) + Len(d.tx) + 1
      /\ Numbered(d.shifter, 0) /\ Numbered(d.tx, Len(d.shifter))
      /\ Len(d.tx) <= Depth(d)
      /\ d.thre => d.tx = <<>>
    BY DEF InStep
<1>1. /\ u \in Uarts /\ d \in Devs /\ d.tx \in Seq(Nat) /\ Len(d.tx) \in Nat
      /\ Len(d.shifter) \in Nat /\ u.send.remaining \in Nat /\ u.send.next \in Nat
      /\ FifoDepth \in Nat \ {0} /\ MaxBytes \in Nat
      /\ d.tx = <<>> <=> Len(d.tx) = 0
    BY Counts, UartAssumption, EmptyIsZero DEF DevOK, Devs, UartOK
<1>2. n \in Nat /\ n <= u.send.remaining /\ Len(d.tx) + n <= Depth(d)
    BY <1>i, <1>1 DEF BytesToSend, Depth
<1>3. /\ DevOK(f) /\ SameOut(d, f) /\ f.ier = d.ier /\ f.thre = d.thre
      /\ \A b : \A c \in Nat : InOrder(b, c, d.rx, d.peer) => InOrder(b, c, f.rx, f.peer)
    BY ReadLsrEffect
<1>4. e = WriteThr(f, bytes)
    BY DEF FillDevice
<1> HIDE DEF n, f
<1>5. /\ Numbered(f.tx, Len(f.shifter)) /\ Numbered(f.shifter, 0)
      /\ f.thre => f.tx = <<>>
      /\ Depth(f) = Depth(d) /\ Len(f.tx) + n <= Depth(f)
      /\ u.send.next = Len(f.shifter) + Len(f.tx) + 1
    BY <1>i, <1>2, <1>3 DEF SameOut, Depth, Fifos
<1>b. /\ bytes \in Seq(Nat) /\ Len(bytes) = n
      /\ \A k \in 1..n : bytes[k] = Len(f.shifter) + (Len(f.tx) + k)
    <2> DEFINE x == Len(f.tx)
               y == Len(f.shifter)
               z == u.send.next
    <2>1. x \in Nat /\ y \in Nat /\ z \in Nat /\ z = y + x + 1
        BY <1>1, <1>3, <1>5 DEF SameOut
    <2> HIDE DEF x, y, z
    <2>2. \A k \in 1..n : z + k - 1 = y + (x + k) /\ z + k - 1 \in Nat
        BY <1>2, <2>1
    <2>3. bytes \in [1..n -> Nat] /\ \A k \in 1..n : bytes[k] = y + (x + k)
        BY <2>2 DEF z
    <2>4. QED
        BY <1>2, <2>3, FunctionEntries DEF x, y
<1> HIDE DEF bytes
<1>6. /\ DevOK(e) /\ SameIn(f, e) /\ e.ier = f.ier /\ e.shifter = f.shifter /\ e.fcr = f.fcr
      /\ Len(e.tx) = Len(f.tx) + n /\ Numbered(e.tx, Len(e.shifter))
      /\ e.thre => f.thre /\ e.tx = <<>>
    <2>1. Len(f.tx) + Len(bytes) <= Depth(f)
        BY <1>5, <1>b
    <2>2. \A k \in 1..Len(bytes) : bytes[k] = Len(f.shifter) + (Len(f.tx) + k)
        BY <1>b
    <2>3. /\ DevOK(e) /\ SameIn(f, e) /\ e.ier = f.ier /\ e.shifter = f.shifter /\ e.fcr = f.fcr
          /\ Len(e.tx) = Len(f.tx) + Len(bytes) /\ Numbered(e.tx, Len(e.shifter))
          /\ e.thre => f.thre /\ e.tx = <<>>
        BY <1>3, <1>4, <1>5, <1>b, <2>1, <2>2, WriteThrEffect
    <2>4. QED
        BY <1>b, <2>3
<1>7. Depth(e) = Depth(f)
    BY <1>6 DEF Depth, Fifos
<1>8. /\ v.send.next = u.send.next + n /\ v.send.remaining = u.send.remaining - n
      /\ v.recv = u.recv /\ v.isReady = u.isReady
    BY <1>1 DEF FillDriver, Uarts, n
<1>9. UartOK(v)
    <2> DEFINE new == [next |-> u.send.next + n, remaining |-> u.send.remaining - n]
    <2>1. u.send.next + n \in Nat /\ u.send.remaining - n \in 0..MaxBytes
        <3>1. u.send.remaining \in 0..MaxBytes
            BY <1>1 DEF Uarts
        <3> DEFINE x == u.send.remaining
        <3>2. x \in 0..MaxBytes /\ n <= x
            BY <1>2, <3>1
        <3> HIDE DEF x
        <3>3. x - n \in 0..MaxBytes
            BY <1>1, <1>2, <3>2
        <3>4. u.send.next + n \in Nat
            <4> DEFINE z == u.send.next
            <4>1. z \in Nat
                BY <1>1
            <4> HIDE DEF z
            <4>2. z + n \in Nat
                BY <1>2, <4>1
            <4>3. QED
                BY <4>2 DEF z
        <3>5. QED
            BY <3>3, <3>4 DEF x
    <2>2. new \in [next : Nat, remaining : 0..MaxBytes]
        BY <2>1
    <2>3. v = [isReady |-> u.isReady, handler |-> u.handler, lastErrors |-> u.lastErrors,
               baudRate |-> u.baudRate, send |-> new, recv |-> u.recv]
        BY <1>1 DEF FillDriver, Uarts, n
    <2> HIDE DEF new
    <2>4. v \in Uarts
        BY <1>1, <2>2, <2>3 DEF Uarts
    <2>5. QED
        BY <1>8, <2>4 DEF UartOK
<1>10. v.send.next = Len(e.shifter) + Len(e.tx) + 1
    <2>1. Len(f.tx) = Len(d.tx) /\ Len(f.shifter) = Len(d.shifter)
        BY <1>3 DEF SameOut
    <2>2. Len(e.tx) = Len(d.tx) + n /\ Len(e.shifter) = Len(d.shifter)
        BY <1>6, <2>1
    <2> DEFINE x == Len(d.tx)
               y == Len(d.shifter)
    <2>3. x \in Nat /\ y \in Nat /\ v.send.next = y + x + 1 + n
        BY <1>i, <1>1, <1>8
    <2> HIDE DEF x, y
    <2>4. v.send.next = y + (x + n) + 1
        BY <1>2, <2>3
    <2>5. QED
        BY <2>2, <2>4 DEF x, y
<1>11. InStep(v, e)
    <2>1. Numbered(e.shifter, 0) /\ Numbered(e.tx, Len(e.shifter))
        BY <1>5, <1>6
    <2>2. Len(e.tx) <= Depth(e)
        BY <1>5, <1>6, <1>7
    <2>3. QED
        BY <1>6, <1>10, <2>1, <2>2 DEF InStep
<1>12. QED
    BY <1>2, <1>3, <1>6, <1>8, <1>9, <1>11 DEF n, SameOut, SameIn

LEMMA EnableTxEffect ==
    ASSUME NEW d, DevOK(d), NEW ier \in SUBSET Ier, NEW e, e = EnableTx(d, ier)
    PROVE  /\ DevOK(e) /\ SameOut(d, e) /\ SameIn(d, e)
           /\ e.ier = (IF "RX_DATA" \in ier THEN ier \cup {"TX_EMPTY"} ELSE d.ier)
           /\ e.thre => d.thre \/ d.tx = <<>>
           /\ "TX_EMPTY" \notin d.ier /\ "TX_EMPTY" \in e.ier /\ d.tx = <<>> => e.thre
           /\ d.thre => e.thre
<1>1. CASE "RX_DATA" \in ier
    <2>1. ier \cup {"TX_EMPTY"} \in SUBSET Ier
        BY DEF Ier
    <2>2. e = SetIer(d, ier \cup {"TX_EMPTY"})
        BY <1>1 DEF EnableTx
    <2>3. QED
        BY <1>1, <2>1, <2>2, SetIerEffect
<1>2. CASE "RX_DATA" \notin ier
    BY <1>2 DEF EnableTx, SameOut, SameIn
<1>3. QED
    BY <1>1, <1>2

-----------------------------------------------------------------------------
(* What every step does: it keeps the invariant, and it reports a message  *)
(* only when that is sent.                                                 *)

SentOK == event' = "SENT_DATA" /\ event # "SENT_DATA" => dev.tx = <<>> /\ uart.send.next = NextStart

StepCorrect == IInv' /\ SentOK

LEMMA TransmitterKept ==
    ASSUME Transmitter, SameOut(dev, dev'), uart'.send.next = uart.send.next,
           dev'.thre => dev.thre \/ dev.tx = <<>>
    PROVE  Transmitter'
BY DEF Transmitter, SameOut, Depth, Fifos, Numbered

LEMMA ReceiverKept ==
    ASSUME Receiver, SameIn(dev, dev'), uart'.recv = uart.recv, InBuffer' = InBuffer
    PROVE  Receiver'
BY DEF Receiver, SameIn

LEMMA BufferKept ==
    ASSUME uart'.recv = uart.recv, main'.pc # "copy", main.pc # "copy"
    PROVE  InBuffer' = InBuffer
BY DEF InBuffer, Stored

(* A step of the receiver or of the configuration, which the transmitter   *)
(* and the program do not notice.                                          *)
LEMMA SteadyStep ==
    ASSUME IInv, UNCHANGED <<main, app>>, UartOK(uart'), DevOK(dev'), SameOut(dev, dev'),
           dev'.ier = dev.ier, dev'.thre = dev.thre, uart'.send = uart.send,
           uart'.isReady = uart.isReady, Receiver',
           event' \in Events \cup Copying \cup {"none"},
           event' = "SENT_DATA" => event = "SENT_DATA",
           main.pc = "copy" => event' = "none" /\ uart'.recv.remaining = uart.recv.remaining
    PROVE  StepCorrect
<1>1. TypeOK'
    BY Typed, TypedNext DEF IInv
<1>2. Transmitter'
    BY TransmitterKept DEF IInv
<1>3. dev'.tx = dev.tx /\ dev'.fcr = dev.fcr
    BY DEF SameOut
<1>4. NextStart' = NextStart /\ (InSend' <=> InSend) /\ (InOptions' <=> InOptions) /\ (Saved' <=> Saved)
    BY DEF NextStart, InSend, InOptions, Saved
<1>5. SendInv'
    BY <1>3, <1>4 DEF IInv, SendInv
<1>6. InterruptInv'
    BY <1>3, <1>4 DEF IInv, InterruptInv
<1>7. OptionsInv'
    <2>1. InOptions /\ main.pc = "modify" => dev'[Row[2]] = dev[Row[2]]
        BY <1>3 DEF IInv, OptionsInv
    <2>2. Row' = Row
        BY DEF Row
    <2>3. QED
        BY <1>3, <1>4, <2>1, <2>2 DEF IInv, OptionsInv
<1>8. CallInv'
    BY <1>3 DEF IInv, CallInv
<1>9. SentOK
    BY DEF SentOK
<1>10. QED
    BY <1>1, <1>2, <1>5, <1>6, <1>7, <1>8, <1>9 DEF StepCorrect, IInv

(* The same, when no byte comes in or is read.                             *)
LEMMA StillStep ==
    ASSUME IInv, UNCHANGED <<main, app>>, UartOK(uart'), DevOK(dev'), SameOut(dev, dev'),
           dev'.ier = dev.ier, dev'.thre = dev.thre, uart'.send = uart.send,
           uart'.isReady = uart.isReady, uart'.recv = uart.recv,
           \A b : \A c \in Nat : InOrder(b, c, dev.rx, dev.peer) => InOrder(b, c, dev'.rx, dev'.peer),
           event' \in Events \cup Copying \cup {"none"},
           event' = "SENT_DATA" => event = "SENT_DATA",
           main.pc = "copy" => event' = "none"
    PROVE  StepCorrect
<1>1. InBuffer' = InBuffer /\ InBuffer \in Nat
    BY BufferType DEF IInv, InBuffer, Stored
<1>2. Receiver'
    BY <1>1 DEF IInv, Receiver
<1>3. QED
    BY <1>2, SteadyStep

-----------------------------------------------------------------------------
(* The steps that the transmitter does not notice.                         *)

LEMMA States ==
    ASSUME IInv
    PROVE  /\ UartOK(uart) /\ DevOK(dev) /\ uart \in Uarts /\ dev \in Devs
           /\ main \in Mains /\ app \in Apps /\ event \in Events \cup Copying \cup {"none"}
           /\ InOrder(uart.recv.data, InBuffer, dev.rx, dev.peer) /\ InBuffer \in Nat
           /\ InBuffer <= Len(uart.recv.data) /\ \A j \in 1..InBuffer : uart.recv.data[j] \in Int
BY Typed, BufferType DEF IInv, UartOK, DevOK, Receiver

LEMMA ArriveStep ==
    ASSUME IInv, NEW kind \in {"data", "break"}, Arrive(kind)
    PROVE  StepCorrect
<1> DEFINE full == Len(dev.rx) >= Depth(dev)
           entry == IF kind = "data" THEN dev.peer ELSE Break
           r == IF full THEN dev.rx ELSE Append(dev.rx, entry)
           p == IF kind = "data" /\ ~full THEN dev.peer + 1 ELSE dev.peer
<1>1. /\ DevOK(dev) /\ dev \in Devs /\ dev.rx \in Seq(Entries) /\ dev.peer \in Nat
      /\ Len(dev.rx) \in Nat
    BY States DEF Devs
<1>2. /\ dev' = [dev EXCEPT !.rx = r, !.peer = p, !.overrun = dev.overrun \/ full]
      /\ UNCHANGED <<uart, main, event, app>>
    BY <1>1 DEF Arrive, Devs
<1>3. entry \in Entries
    BY <1>1 DEF Entries
<1>4. /\ r \in Seq(Entries) /\ Len(r) <= FifoDepth /\ p \in Nat
      /\ InOrder(uart.recv.data, InBuffer, r, p)
    <2>1. CASE full
        <3>1. r = dev.rx /\ p = dev.peer
            BY <2>1
        <3>2. QED
            BY <1>1, <3>1, States DEF DevOK
    <2>2. CASE ~full
        <3>1. r = Append(dev.rx, entry)
            BY <2>2
        <3>2. r \in Seq(Entries) /\ Len(r) = Len(dev.rx) + 1
            BY <1>1, <1>3, <3>1, AppendEntries
        <3>3. Len(r) <= FifoDepth
            <4>1. Len(dev.rx) < Depth(dev) /\ Depth(dev) <= FifoDepth /\ Depth(dev) \in Nat /\ FifoDepth \in Nat
                BY <1>1, <2>2, DepthType, UartAssumption
            <4>2. QED
                BY <1>1, <3>2, <4>1
        <3>4. p \in Nat /\ InOrder(uart.recv.data, InBuffer, r, p)
            <4>1. /\ InOrder(uart.recv.data, InBuffer, Append(dev.rx, dev.peer), dev.peer + 1)
                  /\ InOrder(uart.recv.data, InBuffer, Append(dev.rx, Break), dev.peer)
                BY <1>1, States, ArriveInOrder
            <4>2. CASE kind = "data"
                BY <1>1, <2>2, <4>1, <4>2
            <4>3. CASE kind # "data"
                BY <1>1, <2>2, <4>1, <4>3
            <4>4. QED
                BY <4>2, <4>3
        <3>5. QED
            BY <3>2, <3>3, <3>4
    <2>3. QED
        BY <2>1, <2>2
<1> HIDE DEF r, p, full
<1>5. /\ dev' \in Devs /\ dev'.rx = r /\ dev'.peer = p /\ SameOut(dev, dev')
      /\ dev'.ier = dev.ier /\ dev'.thre = dev.thre
    BY <1>1, <1>2, <1>4 DEF Devs, SameOut
<1>6. DevOK(dev')
    BY <1>1, <1>4, <1>5 DEF DevOK, SameOut
<1>7. InBuffer' = InBuffer
    BY <1>2 DEF InBuffer
<1>8. Receiver'
    BY <1>2, <1>4, <1>5, <1>7 DEF IInv, Receiver
<1>9. main.pc = "copy" => event = "none"
    BY DEF IInv, CallInv
<1>10. QED
    BY <1>2, <1>5, <1>6, <1>8, <1>9, States, SteadyStep

LEMMA ModemInputStep ==
    ASSUME IInv, ModemInput
    PROVE  StepCorrect
<1>1. dev' = [dev EXCEPT !.modem = TRUE] /\ UNCHANGED <<uart, main, event, app>> /\ event = "none"
    BY DEF ModemInput, At, Quiet
<1>2. /\ dev' \in Devs /\ SameOut(dev, dev') /\ SameIn(dev, dev')
      /\ dev'.ier = dev.ier /\ dev'.thre = dev.thre
    BY <1>1, States DEF Devs, SameOut, SameIn
<1>3. DevOK(dev')
    BY <1>2, States DEF DevOK, SameOut, SameIn
<1>4. QED
    BY <1>1, <1>2, <1>3, States, StillStep DEF SameIn

LEMMA SetHandlerStep ==
    ASSUME IInv, SetHandler
    PROVE  StepCorrect
<1>1. /\ uart' = [uart EXCEPT !.handler = "application"] /\ UNCHANGED <<dev, main, event, app>>
      /\ event = "none"
    BY DEF SetHandler, Idle, At, Quiet
<1>2. /\ uart' \in Uarts /\ uart'.send = uart.send /\ uart'.recv = uart.recv
      /\ uart'.isReady = uart.isReady
    BY <1>1, States DEF Uarts
<1>3. UartOK(uart')
    BY <1>2, States DEF UartOK
<1>4. QED
    BY <1>1, <1>2, <1>3, States, StillStep DEF SameOut

(* The divisor of a rate.                                                  *)
LEMMA DivisorType ==
    ASSUME NEW baud \in BaudRates
    PROVE  baud \in Nat /\ Divisor(baud) \in Nat
<1> DEFINE b == baud * 16
           h == b \div 2
           c == InputClockHz
<1>1. baud \in Nat \ {0} /\ c \in Nat
    BY UartAssumption
<1>2. b \in Nat \ {0} /\ h \in Nat
    BY <1>1
<1>3. Divisor(baud) = (c + h) \div b
    BY DEF Divisor
<1> HIDE DEF b, h, c
<1>4. (c + h) \div b \in Nat
    BY <1>1, <1>2
<1>5. QED
    BY <1>1, <1>3, <1>4

LEMMA SetBaudRateEffect ==
    ASSUME NEW d, DevOK(d), NEW baud \in BaudRates, NEW e, e = SetBaudRate(d, baud)
    PROVE  /\ DevOK(e) /\ SameOut(d, e) /\ SameIn(d, e) /\ e.ier = d.ier /\ e.thre = d.thre
           /\ e.lcr = d.lcr
<1>1. d \in Devs /\ Divisor(baud) \in Nat
    BY DivisorType DEF DevOK
<1>2. /\ e \in Devs /\ SameOut(d, e) /\ SameIn(d, e) /\ e.ier = d.ier /\ e.thre = d.thre
      /\ e.lcr = d.lcr
    BY <1>1 DEF SetBaudRate, Devs, SameOut, SameIn
<1>3. QED
    BY <1>2 DEF DevOK, SameOut, SameIn

LEMMA SetLcrEffect ==
    ASSUME NEW d, DevOK(d), NEW bits \in SUBSET (Lcr \ {"DLAB"}), NEW e, e = [d EXCEPT !.lcr = bits]
    PROVE  DevOK(e) /\ SameOut(d, e) /\ SameIn(d, e) /\ e.ier = d.ier /\ e.thre = d.thre
<1>1. /\ e \in Devs /\ SameOut(d, e) /\ SameIn(d, e) /\ e.ier = d.ier /\ e.thre = d.thre
    BY DEF DevOK, Devs, SameOut, SameIn
<1>2. QED
    BY <1>1 DEF DevOK, SameOut, SameIn

LEMMA SetDataFormatStep ==
    ASSUME IInv, NEW baud \in BaudRates, NEW bits \in Formats, SetDataFormat(baud, bits)
    PROVE  StepCorrect
<1> DEFINE d == SetBaudRate(dev, baud)
           lcr == (d.lcr \cap {"SET_BREAK"}) \cup bits
<1>1. /\ uart' = [uart EXCEPT !.baudRate = baud] /\ UNCHANGED <<main, event, app>>
      /\ event = "none"
    BY DEF SetDataFormat, Idle, At, Quiet
<1>2. DevOK(d) /\ SameOut(dev, d) /\ SameIn(dev, d) /\ d.ier = dev.ier /\ d.thre = dev.thre
    BY States, SetBaudRateEffect
<1>3. dev' = [d EXCEPT !.lcr = lcr]
    <2>1. dev' = [d EXCEPT !.lcr = (@ \cap {"SET_BREAK"}) \cup bits]
        BY DEF SetDataFormat
    <2> HIDE DEF d
    <2>2. QED
        BY <1>2, <2>1 DEF DevOK, Devs
<1>4. lcr \in SUBSET (Lcr \ {"DLAB"})
    BY UartAssumption DEF Lcr
<1> HIDE DEF d, lcr
<1>5. DevOK(dev') /\ SameOut(d, dev') /\ SameIn(d, dev') /\ dev'.ier = d.ier /\ dev'.thre = d.thre
    BY <1>2, <1>3, <1>4, SetLcrEffect
<1>6. baud \in Nat
    BY DivisorType
<1>7. /\ uart' \in Uarts /\ uart'.send = uart.send /\ uart'.recv = uart.recv
      /\ uart'.isReady = uart.isReady
    BY <1>1, <1>6, States DEF Uarts
<1>8. UartOK(uart')
    BY <1>7, States DEF UartOK
<1>9. SameOut(dev, dev') /\ SameIn(dev, dev')
    BY <1>2, <1>5 DEF SameOut, SameIn
<1>10. QED
    BY <1>1, <1>2, <1>5, <1>7, <1>8, <1>9, States, StillStep DEF SameIn

LEMMA ChangeBaudStep ==
    ASSUME IInv, NEW baud \in BaudRates, ChangeBaud(baud)
    PROVE  StepCorrect
<1>1. dev' = SetBaudRate(dev, baud) /\ UNCHANGED <<uart, main, event, app>> /\ event = "none"
    BY DEF ChangeBaud, Idle, At, Quiet
<1>2. /\ DevOK(dev') /\ SameOut(dev, dev') /\ SameIn(dev, dev') /\ dev'.ier = dev.ier
      /\ dev'.thre = dev.thre
    BY <1>1, States, SetBaudRateEffect
<1>3. QED
    BY <1>1, <1>2, States, StillStep DEF SameIn

LEMMA GetLastErrorsStep ==
    ASSUME IInv, GetLastErrors
    PROVE  StepCorrect
<1>1. /\ uart' = [uart EXCEPT !.lastErrors = FALSE] /\ UNCHANGED <<dev, main, event, app>>
      /\ event = "none"
    BY DEF GetLastErrors, Idle, At, Quiet
<1>2. /\ uart' \in Uarts /\ uart'.send = uart.send /\ uart'.recv = uart.recv
      /\ uart'.isReady = uart.isReady
    BY <1>1, States DEF Uarts
<1>3. UartOK(uart')
    BY <1>2, States DEF UartOK
<1>4. QED
    BY <1>1, <1>2, <1>3, States, StillStep DEF SameOut

LEMMA IsSendingStep ==
    ASSUME IInv, IsSending
    PROVE  StepCorrect
<1>1. dev' = ReadLsr(dev) /\ UNCHANGED <<uart, main, event, app>> /\ event = "none"
    BY DEF IsSending, Idle, At, Quiet
<1>2. /\ DevOK(dev') /\ SameOut(dev, dev') /\ dev'.ier = dev.ier /\ dev'.thre = dev.thre
      /\ \A b : \A c \in Nat : InOrder(b, c, dev.rx, dev.peer) => InOrder(b, c, dev'.rx, dev'.peer)
    BY <1>1, States, ReadLsrEffect
<1>3. QED
    BY <1>1, <1>2, States, StillStep

LEMMA GetModemStatusStep ==
    ASSUME IInv, GetModemStatus
    PROVE  StepCorrect
<1>1. dev' = [dev EXCEPT !.modem = FALSE] /\ UNCHANGED <<uart, main, event, app>> /\ event = "none"
    BY DEF GetModemStatus, Idle, At, Quiet
<1>2. /\ dev' \in Devs /\ SameOut(dev, dev') /\ SameIn(dev, dev')
      /\ dev'.ier = dev.ier /\ dev'.thre = dev.thre
    BY <1>1, States DEF Devs, SameOut, SameIn
<1>3. DevOK(dev')
    BY <1>2, States DEF DevOK, SameOut, SameIn
<1>4. QED
    BY <1>1, <1>2, <1>3, States, StillStep DEF SameIn

-----------------------------------------------------------------------------
(* The handler, but for its transmitter.                                   *)

(* While the program copies, no interrupt is enabled.                      *)
LEMMA Masked ==
    ASSUME IInv, main.pc = "copy"
    PROVE  ~LineError /\ ~Received /\ ~TimedOut /\ ~Emptied /\ ~ModemChange /\ event = "none"
BY DEF IInv, CallInv, LineError, Received, TimedOut, Emptied, ModemChange

(* The errors are noted.                                                   *)
LEMMA NoteErrors ==
    ASSUME NEW u, UartOK(u), NEW d, DevOK(d), NEW v, v = [u EXCEPT !.lastErrors = @ \/ LsrErrors(d)]
    PROVE  UartOK(v) /\ v.send = u.send /\ v.recv = u.recv /\ v.isReady = u.isReady
<1>1. v \in Uarts /\ v.send = u.send /\ v.recv = u.recv /\ v.isReady = u.isReady
    BY DEF UartOK, Uarts, LsrErrors, DevOK, Devs
<1>2. QED
    BY <1>1 DEF UartOK

LEMMA ReceiveStatusStep ==
    ASSUME IInv, ReceiveStatus
    PROVE  StepCorrect
<1>1. event = "none" /\ LineError /\ UNCHANGED <<main, app>> /\ main.pc # "copy"
    BY Masked DEF ReceiveStatus, Handler
<1>2. CASE uart.recv.remaining # 0
    <2>1. event' = "status" /\ UNCHANGED <<uart, dev>>
        BY <1>2 DEF ReceiveStatus
    <2>2. QED
        BY <1>1, <2>1, States, StillStep DEF Copying, SameOut
<1>3. CASE uart.recv.remaining = 0
    <2>1. /\ uart' = [uart EXCEPT !.lastErrors = @ \/ LsrErrors(dev)]
          /\ dev' = ReadLsr(dev) /\ event' = "RECV_ERROR"
        BY <1>3 DEF ReceiveStatus
    <2>2. /\ DevOK(dev') /\ SameOut(dev, dev') /\ dev'.ier = dev.ier /\ dev'.thre = dev.thre
          /\ \A b : \A c \in Nat : InOrder(b, c, dev.rx, dev.peer) => InOrder(b, c, dev'.rx, dev'.peer)
        BY <2>1, States, ReadLsrEffect
    <2>3. /\ UartOK(uart') /\ uart'.send = uart.send /\ uart'.recv = uart.recv
          /\ uart'.isReady = uart.isReady
        BY <2>1, States, NoteErrors
    <2>4. QED
        BY <1>1, <2>1, <2>2, <2>3, States, StillStep DEF Events
<1>4. QED
    BY <1>2, <1>3

LEMMA ReceiveStep ==
    ASSUME IInv, ReceiveData \/ ReceiveTimeout
    PROVE  StepCorrect
<1>1. event' = "data" /\ UNCHANGED <<uart, dev, main, app>> /\ main.pc # "copy"
    BY Masked DEF ReceiveData, ReceiveTimeout, Receive
<1>2. QED
    BY <1>1, States, StillStep DEF Copying, SameOut

LEMMA ModemStatusStep ==
    ASSUME IInv, ModemStatus
    PROVE  StepCorrect
<1>1. /\ dev' = [dev EXCEPT !.modem = FALSE] /\ event' = "MODEM" /\ UNCHANGED <<uart, main, app>>
      /\ main.pc # "copy"
    BY Masked DEF ModemStatus
<1>2. /\ dev' \in Devs /\ SameOut(dev, dev') /\ SameIn(dev, dev')
      /\ dev'.ier = dev.ier /\ dev'.thre = dev.thre
    BY <1>1, States DEF Devs, SameOut, SameIn
<1>3. DevOK(dev')
    BY <1>2, States DEF DevOK, SameOut, SameIn
<1>4. QED
    BY <1>1, <1>2, <1>3, States, StillStep DEF SameIn, Events

LEMMA NoInterruptStep ==
    ASSUME IInv, NoInterrupt
    PROVE  StepCorrect
<1>1. /\ dev' = ReadLsr(dev) /\ uart' = [uart EXCEPT !.lastErrors = @ \/ LsrErrors(dev)]
      /\ UNCHANGED <<main, event, app>> /\ event = "none"
    BY DEF NoInterrupt, Handler
<1>2. /\ DevOK(dev') /\ SameOut(dev, dev') /\ dev'.ier = dev.ier /\ dev'.thre = dev.thre
      /\ \A b : \A c \in Nat : InOrder(b, c, dev.rx, dev.peer) => InOrder(b, c, dev'.rx, dev'.peer)
    BY <1>1, States, ReadLsrEffect
<1>3. /\ UartOK(uart') /\ uart'.send = uart.send /\ uart'.recv = uart.recv
      /\ uart'.isReady = uart.isReady
    BY <1>1, States, NoteErrors
<1>4. QED
    BY <1>1, <1>2, <1>3, States, StillStep

(* Outside the program's own loop the bytes in the buffer are counted by   *)
(* what remains.                                                           *)
LEMMA BufferOf ==
    ASSUME IInv, main.pc # "copy"
    PROVE  /\ Stored(uart) \in Nat /\ InBuffer = Stored(uart)
           /\ Stored(uart) = Len(uart.recv.data) - uart.recv.remaining
           /\ Len(uart.recv.data) \in Nat /\ uart.recv.remaining \in Nat
           /\ InOrder(uart.recv.data, Stored(uart), dev.rx, dev.peer)
<1>1. Stored(uart) \in Nat /\ InBuffer = Stored(uart)
    BY BufferType DEF IInv
<1>2. QED
    BY <1>1, States, Counts DEF Stored

LEMMA HandlerStoreStep ==
    ASSUME IInv, HandlerStore
    PROVE  StepCorrect
<1> DEFINE h == Head(dev.rx)
           c == Stored(uart)
           n == uart.recv.remaining
           m == IF h = Break THEN n ELSE n - 1
           v == TakeDriver(uart, dev, c)
<1>1. /\ event \in Copying /\ n > 0 /\ dev.rx # <<>> /\ dev' = TakeDevice(dev)
      /\ UNCHANGED <<main, event, app>>
    BY DEF HandlerStore
<1>2. main.pc # "copy" /\ event # "SENT_DATA"
    BY <1>1 DEF IInv, CallInv, Copying
<1>3. /\ c \in Nat /\ c = Len(uart.recv.data) - n /\ Len(uart.recv.data) \in Nat /\ n \in Nat
      /\ InOrder(uart.recv.data, c, dev.rx, dev.peer)
    BY <1>2, BufferOf
<1>4. c < Len(uart.recv.data)
    BY <1>1, <1>3
<1>5. /\ DevOK(dev') /\ SameOut(dev, dev') /\ dev'.ier = dev.ier /\ dev'.thre = dev.thre
      /\ UartOK(v) /\ v.send = uart.send /\ v.isReady = uart.isReady
      /\ v.recv.remaining = n /\ Len(v.recv.data) = Len(uart.recv.data)
      /\ InOrder(v.recv.data, IF h = Break THEN c ELSE c + 1, dev'.rx, dev'.peer)
    BY <1>1, <1>3, <1>4, States, TakeEffect
<1>6. uart' = [v EXCEPT !.recv.remaining = m]
    <2>1. uart' = [v EXCEPT !.recv.remaining = IF h = Break THEN @ ELSE @ - 1]
        BY DEF HandlerStore
    <2> HIDE DEF v, h
    <2>2. QED
        BY <1>5, <2>1 DEF UartOK, Uarts
<1>7. n \in 0..MaxRecv /\ m \in 0..MaxRecv /\ m \in Nat /\ m <= n
    <2>1. n \in 0..MaxRecv /\ MaxRecv \in Nat
        BY States, UartAssumption DEF Uarts
    <2> HIDE DEF n, h
    <2>2. QED
        BY <1>1, <2>1
<1> HIDE DEF v, m
<1>8. /\ UartOK(uart') /\ uart'.send = uart.send /\ uart'.isReady = uart.isReady
      /\ uart'.recv.data = v.recv.data /\ uart'.recv.remaining = m
    <2> DEFINE new == [data |-> v.recv.data, remaining |-> m]
    <2>1. v \in Uarts /\ Len(v.recv.data) <= MaxRecv
        BY <1>5 DEF UartOK
    <2>2. uart' = [v EXCEPT !.recv = new]
        BY <1>6, <2>1 DEF Uarts
    <2>3. /\ new \in [data : Seq(Entries), remaining : 0..MaxRecv]
          /\ new.data = v.recv.data /\ new.remaining = m
        BY <1>7, <2>1 DEF Uarts
    <2> HIDE DEF new
    <2>4. /\ uart' \in Uarts /\ uart'.recv = new /\ uart'.send = v.send
          /\ uart'.isReady = v.isReady
        BY <2>1, <2>2, <2>3 DEF Uarts
    <2>5. QED
        BY <1>5, <2>1, <2>3, <2>4 DEF UartOK
<1>9. InBuffer' = IF h = Break THEN c ELSE c + 1
    <2>1. InBuffer' = Len(uart'.recv.data) - uart'.recv.remaining + 0
        BY <1>1, <1>2 DEF InBuffer, Stored
    <2>2. InBuffer' = Len(uart.recv.data) - m + 0
        BY <1>5, <1>8, <2>1
    <2> DEFINE l == Len(uart.recv.data)
    <2>3. l \in Nat /\ c = l - n /\ InBuffer' = l - m + 0
        BY <1>3, <2>2
    <2> HIDE DEF l, n, c, h
    <2>4. QED
        BY <1>3, <1>7, <2>3 DEF m
<1>10. Receiver'
    <2>1. m <= Len(uart.recv.data)
        <3>1. n <= Len(uart.recv.data)
            BY DEF IInv, Receiver
        <3> HIDE DEF n
        <3>2. QED
            BY <1>3, <1>7, <3>1
    <2>2. QED
        BY <1>5, <1>8, <1>9, <2>1 DEF Receiver
<1>11. QED
    BY <1>1, <1>2, <1>5, <1>8, <1>10, States, SteadyStep

LEMMA EmptyDeviceEffect ==
    ASSUME NEW d, DevOK(d), NEW e, e = EmptyDevice(d)
    PROVE  DevOK(e) /\ SameOut(d, e) /\ SameIn(d, e) /\ e.ier = d.ier /\ e.thre = d.thre
<1>1. e \in Devs /\ SameOut(d, e) /\ SameIn(d, e) /\ e.ier = d.ier /\ e.thre = d.thre
    BY DEF DevOK, Devs, EmptyDevice, SameOut, SameIn
<1>2. QED
    BY <1>1 DEF DevOK, SameOut, SameIn

LEMMA HandlerStopStep ==
    ASSUME IInv, HandlerStop
    PROVE  StepCorrect
<1>1. /\ event \in Copying /\ UNCHANGED <<uart, main, app>>
      /\ dev' = dev \/ dev' = EmptyDevice(dev)
      /\ event' \in {"RECV_ERROR", "none", "RECV_DATA", "RECV_TIMEOUT"}
    BY DEF HandlerStop
<1>2. /\ DevOK(dev') /\ SameOut(dev, dev') /\ SameIn(dev, dev') /\ dev'.ier = dev.ier
      /\ dev'.thre = dev.thre
    <2>1. CASE dev' = dev
        BY <2>1, States DEF SameOut, SameIn
    <2>2. CASE dev' = EmptyDevice(dev)
        BY <2>2, States, EmptyDeviceEffect
    <2>3. QED
        BY <1>1, <2>1, <2>2
<1>3. main.pc # "copy" /\ event' # "SENT_DATA" /\ event' \in Events \cup Copying \cup {"none"}
    BY <1>1 DEF IInv, CallInv, Copying, Events
<1>4. QED
    BY <1>1, <1>2, <1>3, States, StillStep DEF SameIn

LEMMA CallbackRecvStep ==
    ASSUME IInv, NEW n \in 1..MaxRecv, CallbackRecv(n)
    PROVE  StepCorrect
<1>1. /\ event \in {"RECV_DATA", "RECV_TIMEOUT"} /\ event' = "callback"
      /\ dev' = Renumbered(dev) /\ uart' = Ask(uart, n) /\ UNCHANGED <<main, app>>
    BY DEF CallbackRecv
<1>2. main.pc # "copy"
    BY <1>1 DEF IInv, CallInv
<1>3. n \in 0..MaxRecv /\ n \in Nat
    BY UartAssumption
<1>4. /\ UartOK(uart') /\ uart'.send = uart.send /\ uart'.isReady = uart.isReady
      /\ uart'.recv.remaining = n /\ Len(uart'.recv.data) = n /\ Stored(uart') = 0
      /\ DevOK(dev') /\ SameOut(dev, dev') /\ dev'.ier = dev.ier /\ dev'.thre = dev.thre
      /\ InOrder(uart'.recv.data, 0, dev'.rx, dev'.peer)
    <2>1. /\ UartOK(uart) /\ DevOK(dev) /\ InBuffer \in Nat
          /\ InOrder(uart.recv.data, InBuffer, dev.rx, dev.peer)
        BY States
    <2>2. uart' = Ask(uart, n) /\ dev' = Renumbered(dev)
        BY <1>1
    <2>3. QED
        BY <1>3, <2>1, <2>2, AskEffect
<1>5. InBuffer' = 0
    <2>1. InBuffer' = Stored(uart') + 0
        BY <1>1, <1>2 DEF InBuffer, Stored
    <2>2. QED
        BY <1>4, <2>1
<1>6. Receiver'
    BY <1>3, <1>4, <1>5 DEF Receiver
<1>7. QED
    BY <1>1, <1>2, <1>4, <1>6, States, SteadyStep DEF Copying

-----------------------------------------------------------------------------
(* The device sends.                                                       *)

LEMMA LoadStep ==
    ASSUME IInv, Load
    PROVE  StepCorrect
<1> DEFINE t == Tail(dev.tx)
           l == Len(dev.tx)
           one == <<Head(dev.tx)>>
           thre == dev.thre \/ Len(dev.tx) = 1
<1>1. /\ dev.tx # <<>> /\ dev.shifter = <<>> /\ UNCHANGED <<uart, main, event, app>>
      /\ dev \in Devs /\ dev.tx \in Seq(Nat) /\ dev.thre \in BOOLEAN
    BY States DEF Load, Devs
<1>2. dev' = [dev EXCEPT !.shifter = one, !.tx = t, !.thre = thre]
    BY <1>1 DEF Load, Devs
<1>3. /\ t \in Seq(Nat) /\ Len(t) = l - 1 /\ l \in Nat \ {0}
      /\ \A k \in 1..l - 1 : t[k] = dev.tx[k + 1]
      /\ Head(dev.tx) = dev.tx[1] /\ Head(dev.tx) \in Nat
    BY <1>1, TailEntries
<1>4. one \in Seq(Nat) /\ Len(one) = 1 /\ one[1] = dev.tx[1]
    BY <1>3
<1>5. /\ uart.send.next = Len(dev.shifter) + l + 1 /\ Numbered(dev.tx, Len(dev.shifter))
      /\ l <= Depth(dev) /\ ~dev.thre
    BY <1>1 DEF IInv, Transmitter
<1>6. Len(dev.shifter) = 0
    BY <1>1
<1>7. l <= FifoDepth /\ FifoDepth \in Nat /\ Depth(dev) \in Nat
    BY States, DepthType, UartAssumption DEF DevOK
<1>8. \A k \in 1..l : dev.tx[k] = 0 + k
    BY <1>5, <1>6 DEF Numbered
<1> HIDE DEF t, l, one, thre
<1>9. /\ dev' \in Devs /\ dev'.tx = t /\ dev'.shifter = one /\ SameIn(dev, dev')
      /\ dev'.ier = dev.ier /\ dev'.fcr = dev.fcr /\ dev'.thre = thre
    BY <1>1, <1>2, <1>3, <1>4 DEF Devs, SameIn, thre
<1>10. DevOK(dev')
    <2>1. Len(t) <= FifoDepth
        BY <1>3, <1>7
    <2>2. Len(dev.rx) <= FifoDepth /\ Len(one) <= 1
        BY <1>4, States DEF DevOK
    <2>3. QED
        BY <1>9, <2>1, <2>2 DEF DevOK, SameIn
<1>11. TypeOK'
    BY <1>1, <1>10, States, TypedNext
<1>12. Transmitter'
    <2>1. uart'.send.next = Len(one) + Len(t) + 1
        BY <1>1, <1>3, <1>4, <1>5, <1>6
    <2>2. Numbered(one, 0)
        BY <1>3, <1>4, <1>8 DEF Numbered
    <2>3. Numbered(t, Len(one))
        <3>1. \A k \in 1..l - 1 : k + 1 \in 1..l /\ 0 + (k + 1) = 1 + k
            BY <1>3
        <3>2. \A k \in 1..Len(t) : t[k] = 1 + k
            BY <1>3, <1>8, <3>1
        <3>3. QED
            BY <1>4, <3>2 DEF Numbered
    <2>4. Len(t) <= Depth(dev) /\ Depth(dev') = Depth(dev)
        BY <1>3, <1>5, <1>7, <1>9 DEF Depth, Fifos
    <2>5. thre => t = <<>>
        <3>1. thre => Len(t) = 0
            BY <1>3, <1>5 DEF thre, l
        <3>2. QED
            BY <1>3, <3>1, EmptyIsZero
    <2>6. QED
        BY <1>9, <2>1, <2>2, <2>3, <2>4, <2>5 DEF Transmitter
<1>13. Receiver'
    BY <1>1, <1>9 DEF IInv, Receiver, SameIn, InBuffer, Stored
<1>14. NextStart' = NextStart /\ (InSend' <=> InSend) /\ (Saved' <=> Saved) /\ (InOptions' <=> InOptions)
    BY <1>1 DEF NextStart, InSend, Saved, InOptions
<1>15. event # "SENT_DATA" /\ ~InOptions
    BY <1>1 DEF IInv, SendInv, OptionsInv
<1>16. SendInv'
    BY <1>1, <1>14, <1>15 DEF IInv, SendInv
<1>17. InterruptInv'
    BY <1>1, <1>9, <1>14 DEF IInv, InterruptInv, thre
<1>18. OptionsInv'
    BY <1>14, <1>15 DEF OptionsInv
<1>19. CallInv'
    BY <1>1, <1>9 DEF IInv, CallInv
<1>20. QED
    BY <1>1, <1>11, <1>12, <1>13, <1>16, <1>17, <1>18, <1>19 DEF StepCorrect, SentOK, IInv

LEMMA ShiftOutStep ==
    ASSUME IInv, ShiftOut
    PROVE  StepCorrect
<1> DEFINE l == Len(dev.tx)
           t == [k \in 1..l |-> dev.tx[k] - 1]
           n == uart.send.next
           s == app.start
<1>1. /\ dev.shifter # <<>> /\ UNCHANGED <<main, event>>
      /\ dev \in Devs /\ dev.tx \in Seq(Nat) /\ dev.shifter \in Seq(Nat) /\ Len(dev.shifter) <= 1
      /\ uart \in Uarts /\ app \in Apps /\ l \in Nat
    BY States DEF ShiftOut, Devs, DevOK
<1>2. /\ dev' = [dev EXCEPT !.shifter = <<>>, !.tx = t]
      /\ app' = [app EXCEPT !.start = s - 1]
      /\ uart' = [uart EXCEPT !.send.next = n - 1]
    BY <1>1 DEF ShiftOut, Devs, Apps, Uarts
<1>3. Len(dev.shifter) = 1
    <2> DEFINE m == Len(dev.shifter)
    <2>1. m \in Nat /\ m # 0
        BY <1>1, EmptyIsZero
    <2>2. m <= 1
        BY <1>1
    <2> HIDE DEF m
    <2>3. m = 1
        BY <2>1, <2>2
    <2>4. QED
        BY <2>3 DEF m
<1>4. /\ n = Len(dev.shifter) + l + 1 /\ Numbered(dev.tx, Len(dev.shifter))
      /\ l <= Depth(dev) /\ (dev.thre => dev.tx = <<>>)
    BY DEF IInv, Transmitter
<1>5. /\ t \in [1..l -> Nat]
      /\ \A k \in 1..l : t[k] = k
    BY <1>3, <1>4 DEF Numbered
<1>6. s \in Int /\ app.size \in Nat /\ uart.send.remaining \in Nat
    BY <1>1, UartAssumption DEF Apps, Uarts
<1> HIDE DEF l, t, n, s
<1>7. t \in Seq(Nat) /\ Len(t) = l
    BY <1>1, <1>5, FunctionEntries
<1>8. n \in Nat /\ n - 1 \in Nat /\ n - 1 = 0 + l + 1
    BY <1>1, <1>3, <1>4
<1>9. /\ dev' \in Devs /\ dev'.tx = t /\ dev'.shifter = <<>> /\ SameIn(dev, dev')
      /\ dev'.ier = dev.ier /\ dev'.fcr = dev.fcr /\ dev'.thre = dev.thre
    <2>1. <<>> \in Seq(Nat)
        OBVIOUS
    <2>2. QED
        BY <1>1, <1>2, <1>7, <2>1 DEF Devs, SameIn
<1>10. DevOK(dev')
    <2>1. Len(t) <= FifoDepth /\ Len(<<>>) <= 1
        BY <1>7, States DEF DevOK, l
    <2>2. QED
        BY <1>9, <2>1, States DEF DevOK, SameIn
<1>11. /\ app' \in Apps /\ app'.start = s - 1 /\ app'.size = app.size
       /\ app'.sending = app.sending /\ app'.mode = app.mode
    <2>1. s - 1 \in Int
        BY <1>6
    <2>2. QED
        BY <1>1, <1>2, <2>1 DEF Apps
<1>12. /\ UartOK(uart') /\ uart'.send.next = n - 1 /\ uart'.send.remaining = uart.send.remaining
       /\ uart'.recv = uart.recv /\ uart'.isReady = uart.isReady
    <2> DEFINE new == [next |-> n - 1, remaining |-> uart.send.remaining]
    <2>1. /\ new \in [next : Nat, remaining : 0..MaxBytes]
          /\ new.next = n - 1 /\ new.remaining = uart.send.remaining
        BY <1>1, <1>8 DEF Uarts
    <2>2. uart' = [uart EXCEPT !.send = new]
        BY <1>1, <1>2 DEF Uarts
    <2> HIDE DEF new
    <2>3. uart' \in Uarts /\ uart'.send = new /\ uart'.recv = uart.recv /\ uart'.isReady = uart.isReady
        BY <1>1, <2>1, <2>2 DEF Uarts
    <2>4. QED
        BY <2>1, <2>3, States DEF UartOK
<1>13. TypeOK'
    BY <1>1, <1>10, <1>11, <1>12, States, TypedNext
<1>14. dev'.tx = <<>> <=> dev.tx = <<>>
    BY <1>1, <1>7, <1>9, EmptyIsZero DEF l
<1>15. Transmitter'
    <2>1. Len(dev'.shifter) = 0 /\ \A k \in 1..0 : FALSE
        BY <1>9
    <2>2. uart'.send.next = Len(dev'.shifter) + Len(dev'.tx) + 1
        BY <1>7, <1>8, <1>9, <1>12, <2>1
    <2>3. Numbered(dev'.shifter, 0)
        BY <2>1 DEF Numbered
    <2>4. Numbered(dev'.tx, Len(dev'.shifter))
        BY <1>5, <1>7, <1>9, <2>1 DEF Numbered
    <2>5. Len(dev'.tx) <= Depth(dev')
        BY <1>4, <1>7, <1>9 DEF Depth, Fifos
    <2>6. QED
        BY <1>4, <1>9, <1>14, <2>2, <2>3, <2>4, <2>5 DEF Transmitter
<1>16. Receiver'
    BY <1>1, <1>9, <1>12 DEF IInv, Receiver, SameIn, InBuffer, Stored
<1>17. NextStart = s + app.size /\ NextStart' = (s - 1) + app.size
    BY <1>11 DEF NextStart, s
<1>18. (InSend' <=> InSend) /\ (Saved' <=> Saved) /\ (InOptions' <=> InOptions) /\ Row' = Row
    BY <1>1 DEF InSend, Saved, InOptions, Row
<1>19. SendInv'
    <2>1. main.count \in Nat
        BY States DEF Mains
    <2>2. \A x \in Int : n = s + x <=> n - 1 = (s - 1) + x
        BY <1>6, <1>8
    <2>3. (n = s + main.count) <=> (n - 1 = (s - 1) + main.count)
        BY <2>1, <2>2
    <2>4. n = NextStart <=> n - 1 = NextStart'
        BY <1>6, <1>17, <2>2
    <2>5. (n + uart.send.remaining = NextStart) <=> ((n - 1) + uart.send.remaining = NextStart')
        BY <1>6, <1>8, <1>17
    <2>6. /\ InSend' =>
                /\ app'.sending /\ event' # "SENT_DATA"
                /\ main'.count <= app'.size /\ uart'.send.next = app'.start + main'.count
                /\ main'.pc # "send" => uart'.send.remaining = app'.size - main'.count
        BY <1>1, <1>11, <1>12, <1>18, <2>3 DEF IInv, SendInv, n, s
    <2>7. /\ ~InSend' =>
                /\ uart'.send.next + uart'.send.remaining = NextStart'
                /\ uart'.send.remaining # 0 => app'.sending
        BY <1>11, <1>12, <1>18, <2>5 DEF IInv, SendInv, n
    <2>8. /\ event' = "SENT_DATA" =>
                /\ dev'.tx = <<>> /\ uart'.send.next = NextStart' /\ ~InSend'
                /\ "TX_EMPTY" \notin dev'.ier /\ app'.mode = "interrupt"
        BY <1>1, <1>9, <1>11, <1>12, <1>14, <1>18, <2>4 DEF IInv, SendInv, n
    <2>9. QED
        BY <2>6, <2>7, <2>8 DEF SendInv
<1>20. InterruptInv'
    BY <1>1, <1>9, <1>11, <1>14, <1>18 DEF IInv, InterruptInv
<1>21. OptionsInv'
    <2>1. InOptions /\ main.pc = "modify" => dev'[Row[2]] = dev[Row[2]]
        BY <1>9 DEF IInv, OptionsInv
    <2>2. QED
        BY <1>1, <1>9, <1>11, <1>14, <1>18, <2>1 DEF IInv, OptionsInv
<1>22. CallInv'
    BY <1>1, <1>9, <1>11, <1>12, <1>14 DEF IInv, CallInv
<1>23. QED
    BY <1>1, <1>13, <1>15, <1>16, <1>19, <1>20, <1>21, <1>22 DEF StepCorrect, SentOK, IInv

-----------------------------------------------------------------------------
(* The program's steps.                                                    *)

(* What is left to show of them: nothing goes into or out of the           *)
(* transmitter.                                                            *)
LEMMA ProgramStep ==
    ASSUME IInv, UartOK(uart'), DevOK(dev'), main' \in Mains, app' \in Apps, event' = event,
           SameOut(dev, dev'), uart'.send.next = uart.send.next,
           dev'.thre => dev.thre \/ dev.tx = <<>>,
           Receiver', SendInv', InterruptInv', OptionsInv', CallInv'
    PROVE  StepCorrect
<1>1. TypeOK'
    BY States, TypedNext
<1>2. Transmitter'
    BY TransmitterKept DEF IInv
<1>3. SentOK
    BY DEF SentOK
<1>4. QED
    BY <1>1, <1>2, <1>3 DEF StepCorrect, IInv

(* The same, when it only goes on in its call.                             *)
LEMMA CallStep ==
    ASSUME IInv, UNCHANGED <<uart, dev, event>>, main' \in Mains, app' \in Apps,
           main.pc # "copy", main'.pc # "copy",
           SendInv', InterruptInv', OptionsInv', CallInv'
    PROVE  StepCorrect
<1>1. SameOut(dev, dev') /\ SameIn(dev, dev')
    BY DEF SameOut, SameIn
<1>2. InBuffer' = InBuffer
    BY BufferKept
<1>3. Receiver'
    BY <1>1, <1>2, ReceiverKept DEF IInv
<1>4. QED
    BY <1>1, <1>3, States, ProgramStep

(* No interrupt is pending when the program goes on: that of the           *)
(* transmitter is enabled only while something is sent.                    *)
LEMMA AtLabel ==
    ASSUME IInv, NEW label, At(label)
    PROVE  /\ event = "none" /\ main.pc = label
           /\ "TX_EMPTY" \in dev.ier => app.sending
BY DEF At, Quiet, Pending, Emptied, IInv, InterruptInv

LEMMA AtRest ==
    ASSUME IInv, Idle
    PROVE  /\ event = "none" /\ main.pc = "app" /\ uart.isReady
           /\ ~InSend /\ ~InOptions /\ ~Saved
           /\ "TX_EMPTY" \in dev.ier => app.sending
           /\ app.mode = "polled" => "RX_DATA" \notin dev.ier /\ "TX_EMPTY" \notin dev.ier
           /\ uart.send.next + uart.send.remaining = NextStart
           /\ uart.send.remaining # 0 => app.sending
<1>1. /\ event = "none" /\ main.pc = "app" /\ uart.isReady
      /\ "TX_EMPTY" \in dev.ier => app.sending
    BY AtLabel DEF Idle
<1>2. ~InSend /\ ~InOptions /\ ~Saved
    BY <1>1 DEF InSend, InOptions, Saved
<1>3. QED
    BY <1>1, <1>2 DEF IInv, SendInv, InterruptInv

LEMMA TableLength == Len(OptionsTable) = 12
BY DEF OptionsTable

LEMMA NoCallType == NoCall \in Mains
BY TableLength DEF NoCall, Mains, MainLabels

LEMMA NextStartType ==
    ASSUME IInv
    PROVE  /\ NextStart \in Int /\ app.start \in Int /\ app.size \in Nat /\ main.count \in Nat
           /\ uart.send.next \in Nat /\ uart.send.remaining \in Nat
<1>1. app.start \in Int /\ app.size \in Nat /\ main.count \in Nat
    BY States, UartAssumption DEF Apps, Mains
<1>2. QED
    BY <1>1, States, Counts DEF NextStart

LEMMA SendBeginStep ==
    ASSUME IInv, NEW n \in 1..MaxBytes, SendBegin(n)
    PROVE  StepCorrect
<1>1. /\ ~app.sending /\ UNCHANGED <<uart, dev, event>>
      /\ event = "none" /\ main.pc = "app" /\ uart.isReady /\ "TX_EMPTY" \notin dev.ier
      /\ app.mode = "polled" => "RX_DATA" \notin dev.ier
      /\ uart.send.next + uart.send.remaining = NextStart /\ uart.send.remaining = 0
    BY AtRest DEF SendBegin
<1>2. /\ app' = [app EXCEPT !.sending = TRUE, !.start = NextStart, !.size = n]
      /\ main' = [main EXCEPT !.pc = "send", !.ier = dev.ier, !.count = 0]
    BY DEF SendBegin
<1>3. n \in 0..MaxBytes /\ n \in Nat
    BY UartAssumption
<1>4. /\ app' \in Apps /\ app'.sending /\ app'.start = NextStart /\ app'.size = n
      /\ app'.mode = app.mode
    BY <1>2, <1>3, States, NextStartType DEF Apps
<1>5. /\ main' \in Mains /\ main'.pc = "send" /\ main'.ier = dev.ier /\ main'.count = 0
    BY <1>2, States DEF Mains, MainLabels, Devs
<1>6. InSend' /\ ~InOptions'
    BY <1>5 DEF InSend, InOptions
<1>7. SendInv'
    <2>1. uart.send.next = NextStart + 0 /\ 0 <= n
        BY <1>1, <1>3, NextStartType
    <2>2. QED
        BY <1>1, <1>4, <1>5, <1>6, <2>1 DEF SendInv
<1>8. InterruptInv'
    BY <1>1, <1>4, <1>5 DEF InterruptInv
<1>9. OptionsInv'
    BY <1>6 DEF OptionsInv
<1>10. CallInv'
    BY <1>1, <1>5 DEF CallInv
<1>11. QED
    BY <1>1, <1>4, <1>5, <1>7, <1>8, <1>9, <1>10, CallStep

(* Inside XUartNs550_Send().                                               *)
LEMMA Sending ==
    ASSUME IInv, NEW label \in {"send", "sent", "enable", "again"}, At(label)
    PROVE  /\ event = "none" /\ main.pc = label /\ InSend /\ ~InOptions /\ Saved
           /\ app.sending /\ uart.isReady
           /\ main.count <= app.size /\ uart.send.next = app.start + main.count
           /\ label # "send" => uart.send.remaining = app.size - main.count
           /\ "TX_EMPTY" \notin dev.ier /\ "TX_EMPTY" \notin main.ier
           /\ app.mode = "polled" => "RX_DATA" \notin dev.ier /\ "RX_DATA" \notin main.ier
<1>1. event = "none" /\ main.pc = label
    BY AtLabel
<1>2. InSend /\ ~InOptions /\ Saved
    BY <1>1 DEF InSend, InOptions, Saved
<1>3. QED
    BY <1>1, <1>2 DEF IInv, SendInv, InterruptInv, CallInv

LEMMA SendReadIerStep ==
    ASSUME IInv, SendReadIer
    PROVE  StepCorrect
<1>1. /\ UNCHANGED <<uart, dev, event, app>>
      /\ main' = [main EXCEPT !.pc = "enable", !.ier = dev.ier]
    BY DEF SendReadIer
<1>2. /\ main' \in Mains /\ main'.pc = "enable" /\ main'.ier = dev.ier
      /\ main'.count = main.count
    BY <1>1, States DEF Mains, MainLabels, Devs
<1>3. /\ event = "none" /\ main.pc = "sent" /\ InSend /\ ~InOptions
      /\ app.sending /\ uart.isReady
      /\ main.count <= app.size /\ uart.send.next = app.start + main.count
      /\ uart.send.remaining = app.size - main.count
      /\ "TX_EMPTY" \notin dev.ier
      /\ app.mode = "polled" => "RX_DATA" \notin dev.ier
    BY Sending DEF SendReadIer
<1>4. InSend' /\ ~InOptions'
    BY <1>2 DEF InSend, InOptions
<1>5. SendInv'
    BY <1>1, <1>2, <1>3, <1>4 DEF SendInv
<1>6. InterruptInv'
    BY <1>1, <1>2, <1>3 DEF InterruptInv
<1>7. OptionsInv'
    BY <1>4 DEF OptionsInv
<1>8. CallInv'
    BY <1>1, <1>2, <1>3 DEF CallInv
<1>9. QED
    BY <1>1, <1>2, <1>3, <1>5, <1>6, <1>7, <1>8, States, CallStep

LEMMA SendAgainStep ==
    ASSUME IInv, SendAgain
    PROVE  StepCorrect
<1>1. /\ UNCHANGED <<uart, dev, event, app>>
      /\ main' = [main EXCEPT !.pc = "send", !.ier = dev.ier]
    BY DEF SendAgain
<1>2. /\ main' \in Mains /\ main'.pc = "send" /\ main'.ier = dev.ier
      /\ main'.count = main.count
    BY <1>1, States DEF Mains, MainLabels, Devs
<1>3. /\ event = "none" /\ main.pc = "again" /\ InSend /\ ~InOptions
      /\ app.sending /\ uart.isReady
      /\ main.count <= app.size /\ uart.send.next = app.start + main.count
      /\ "TX_EMPTY" \notin dev.ier
      /\ app.mode = "polled" => "RX_DATA" \notin dev.ier
    BY Sending DEF SendAgain
<1>4. InSend' /\ ~InOptions'
    BY <1>2 DEF InSend, InOptions
<1>5. SendInv'
    BY <1>1, <1>2, <1>3, <1>4 DEF SendInv
<1>6. InterruptInv'
    BY <1>1, <1>2, <1>3 DEF InterruptInv
<1>7. OptionsInv'
    BY <1>4 DEF OptionsInv
<1>8. CallInv'
    BY <1>1, <1>2, <1>3 DEF CallInv
<1>9. QED
    BY <1>1, <1>2, <1>3, <1>5, <1>6, <1>7, <1>8, States, CallStep

(* The driver is asked to send n bytes from the place that comes next.     *)
LEMMA AskedToSend ==
    ASSUME NEW u, UartOK(u), NEW start \in Nat, NEW n \in 0..MaxBytes,
           NEW v, v = [u EXCEPT !.send = [next |-> start, remaining |-> n]]
    PROVE  /\ UartOK(v) /\ v.send.next = start /\ v.send.remaining = n
           /\ v.recv = u.recv /\ v.isReady = u.isReady
<1> DEFINE new == [next |-> start, remaining |-> n]
<1>1. /\ new \in [next : Nat, remaining : 0..MaxBytes] /\ new.next = start /\ new.remaining = n
      /\ v = [u EXCEPT !.send = new]
    OBVIOUS
<1> HIDE DEF new
<1>2. v \in Uarts /\ v.send = new /\ v.recv = u.recv /\ v.isReady = u.isReady
    BY <1>1 DEF UartOK, Uarts
<1>3. QED
    BY <1>1, <1>2 DEF UartOK

LEMMA SendFillStep ==
    ASSUME IInv, SendFill
    PROVE  StepCorrect
<1> DEFINE left == app.size - main.count
           first == app.start + main.count
           asked == [uart EXCEPT !.send = [next |-> first, remaining |-> left]]
           d == SetIer(dev, main.ier \ {"TX_EMPTY"})
           n == BytesToSend(asked, d)
<1>1. /\ uart' = FillDriver(asked, d) /\ dev' = FillDevice(asked, d) /\ UNCHANGED <<event, app>>
      /\ main' = [main EXCEPT !.pc = "sent", !.count = @ + n]
    BY DEF SendFill
<1>2. /\ event = "none" /\ main.pc = "send" /\ InSend /\ ~InOptions
      /\ app.sending /\ uart.isReady
      /\ main.count <= app.size /\ uart.send.next = first
      /\ "TX_EMPTY" \notin dev.ier /\ "TX_EMPTY" \notin main.ier
      /\ app.mode = "polled" => "RX_DATA" \notin dev.ier /\ "RX_DATA" \notin main.ier
    BY Sending DEF SendFill
<1>3. /\ app.size \in 0..MaxBytes /\ app.size \in Nat /\ main.count \in Nat /\ app.start \in Int
      /\ first \in Nat /\ main.ier \in SUBSET Ier
    BY <1>2, States, NextStartType DEF Apps, Mains
<1>4. left \in 0..MaxBytes /\ left \in Nat
    <2>1. MaxBytes \in Nat
        BY UartAssumption
    <2> DEFINE x == app.size
               y == main.count
    <2>2. x \in 0..MaxBytes /\ y \in Nat /\ y <= x
        BY <1>2, <1>3
    <2> HIDE DEF x, y
    <2>3. x - y \in 0..MaxBytes /\ x - y \in Nat
        BY <2>1, <2>2
    <2>4. QED
        BY <2>3 DEF x, y
<1> HIDE DEF first, left
<1>5. /\ UartOK(asked) /\ asked.send.next = first /\ asked.send.remaining = left
      /\ asked.recv = uart.recv /\ asked.isReady = uart.isReady
    BY <1>3, <1>4, States, AskedToSend
<1> HIDE DEF asked
<1>6. main.ier \ {"TX_EMPTY"} = main.ier
    BY <1>2
<1>7. /\ DevOK(d) /\ SameOut(dev, d) /\ SameIn(dev, d) /\ d.ier = main.ier
      /\ d.thre <=> dev.thre
    <2>1. DevOK(dev)
        BY States
    <2>2. main.ier \ {"TX_EMPTY"} \in SUBSET Ier
        BY <1>3
    <2>3. /\ DevOK(d) /\ SameOut(dev, d) /\ SameIn(dev, d) /\ d.ier = main.ier \ {"TX_EMPTY"}
          /\ d.thre <=> dev.thre \/ ("TX_EMPTY" \in (main.ier \ {"TX_EMPTY"}) \ dev.ier /\ dev.tx = <<>>)
        BY <2>1, <2>2, SetIerEffect
    <2> HIDE DEF d
    <2>4. QED
        BY <1>6, <2>3
<1> HIDE DEF d
<1>8. InStep(asked, d)
    BY <1>2, <1>5, <1>7 DEF IInv, Transmitter, InStep, SameOut, Depth, Fifos
<1>9. /\ DevOK(dev') /\ InStep(uart', dev') /\ dev'.ier = d.ier
      /\ dev'.thre => d.thre
      /\ \A b : \A c \in Nat : InOrder(b, c, d.rx, d.peer) => InOrder(b, c, dev'.rx, dev'.peer)
      /\ UartOK(uart') /\ uart'.recv = uart.recv /\ uart'.isReady
      /\ n \in Nat /\ n <= left
      /\ uart'.send.next = first + n /\ uart'.send.remaining = left - n
    <2>1. uart' = FillDriver(asked, d) /\ dev' = FillDevice(asked, d)
        BY <1>1
    <2>2. /\ DevOK(dev') /\ InStep(uart', dev') /\ dev'.ier = d.ier
          /\ dev'.thre => d.thre
          /\ \A b : \A c \in Nat : InOrder(b, c, d.rx, d.peer) => InOrder(b, c, dev'.rx, dev'.peer)
          /\ UartOK(uart') /\ uart'.recv = asked.recv /\ uart'.isReady = asked.isReady
          /\ n \in Nat /\ n <= asked.send.remaining
          /\ uart'.send.next = asked.send.next + n
          /\ uart'.send.remaining = asked.send.remaining - n
        BY <1>5, <1>7, <1>8, <2>1, FillEffect
    <2>3. QED
        BY <1>2, <1>5, <2>2
<1> HIDE DEF n
<1>10. /\ main' \in Mains /\ main'.pc = "sent" /\ main'.ier = main.ier
       /\ main'.count = main.count + n
    <2>1. main.count + n \in Nat
        BY <1>3, <1>9
    <2>2. main' = [main EXCEPT !.pc = "sent", !.count = main.count + n]
        BY <1>1, States DEF Mains
    <2>3. QED
        BY <2>1, <2>2, States DEF Mains, MainLabels
<1>11. InSend' /\ ~InOptions'
    BY <1>10 DEF InSend, InOptions
<1>12. TypeOK'
    BY <1>1, <1>9, <1>10, States, TypedNext
<1>13. Transmitter'
    BY <1>9 DEF Transmitter, InStep
<1>14. Receiver'
    <2>1. InBuffer' = InBuffer /\ InBuffer \in Nat
        BY <1>2, <1>9, <1>10, BufferKept, States
    <2>2. InOrder(uart.recv.data, InBuffer, d.rx, d.peer)
        BY <1>7, States DEF SameIn
    <2>3. InOrder(uart.recv.data, InBuffer, dev'.rx, dev'.peer)
        BY <1>9, <2>1, <2>2
    <2>4. QED
        BY <1>9, <2>1, <2>3 DEF IInv, Receiver
<1>15. SendInv'
    <2> DEFINE x == app.size
               y == main.count
               z == app.start
    <2>1. x \in Nat /\ y \in Nat /\ z \in Int /\ left = x - y /\ first = z + y
        BY <1>3 DEF left, first
    <2> HIDE DEF x, y, z
    <2>2. y + n <= x /\ first + n = z + (y + n) /\ left - n = x - (y + n)
        BY <1>4, <1>9, <2>1
    <2>3. /\ main'.count <= app.size /\ uart'.send.next = app.start + main'.count
          /\ uart'.send.remaining = app.size - main'.count
        BY <1>9, <1>10, <2>2 DEF x, y, z
    <2>4. QED
        BY <1>1, <1>2, <1>11, <2>3 DEF SendInv
<1>16. InterruptInv'
    BY <1>1, <1>2, <1>7, <1>9, <1>10 DEF InterruptInv
<1>17. OptionsInv'
    BY <1>11 DEF OptionsInv
<1>18. CallInv'
    BY <1>9, <1>10 DEF CallInv
<1>19. QED
    BY <1>1, <1>2, <1>12, <1>13, <1>14, <1>15, <1>16, <1>17, <1>18 DEF StepCorrect, SentOK, IInv

LEMMA SendEnableStep ==
    ASSUME IInv, SendEnable
    PROVE  StepCorrect
<1> DEFINE done == app.mode = "polled" /\ main.count = app.size
<1>1. /\ dev' = EnableTx(dev, main.ier) /\ UNCHANGED <<uart, event>>
      /\ app' = IF done THEN Sent ELSE app
      /\ main' = IF done \/ app.mode = "interrupt" THEN NoCall ELSE [main EXCEPT !.pc = "again"]
    BY DEF SendEnable
<1>2. /\ event = "none" /\ main.pc = "enable" /\ InSend /\ ~InOptions
      /\ app.sending /\ uart.isReady
      /\ main.count <= app.size /\ uart.send.next = app.start + main.count
      /\ uart.send.remaining = app.size - main.count
      /\ "TX_EMPTY" \notin dev.ier /\ "TX_EMPTY" \notin main.ier
      /\ app.mode = "polled" => "RX_DATA" \notin dev.ier /\ "RX_DATA" \notin main.ier
    BY Sending DEF SendEnable
<1>3. main.ier \in SUBSET Ier /\ app.mode \in {"polled", "interrupt"}
    BY States DEF Mains, Apps
<1>4. /\ DevOK(dev') /\ SameOut(dev, dev') /\ SameIn(dev, dev')
      /\ dev'.ier = (IF "RX_DATA" \in main.ier THEN main.ier \cup {"TX_EMPTY"} ELSE dev.ier)
      /\ dev'.thre => dev.thre \/ dev.tx = <<>>
    <2>1. DevOK(dev) /\ dev' = EnableTx(dev, main.ier)
        BY <1>1, States
    <2>2. QED
        BY <1>3, <2>1, EnableTxEffect
<1>5. InBuffer' = InBuffer /\ main'.pc # "copy"
    <2>1. main'.pc # "copy"
        BY <1>1, States DEF NoCall, Mains
    <2>2. QED
        BY <1>1, <1>2, <2>1, BufferKept
<1>6. Receiver'
    BY <1>1, <1>4, <1>5, ReceiverKept DEF IInv
<1>7. main' \in Mains
    BY <1>1, States, NoCallType DEF Mains, MainLabels
<1>8. CASE done
    <2>1. /\ app' = [app EXCEPT !.sending = FALSE, !.start = NextStart, !.size = 0]
          /\ main' = NoCall /\ app.mode = "polled" /\ main.count = app.size
        BY <1>1, <1>8 DEF Sent
    <2>2. /\ app' \in Apps /\ app'.start = NextStart /\ app'.size = 0 /\ app'.mode = "polled"
        <3>1. 0 \in 0..MaxBytes
            BY UartAssumption
        <3>2. NextStart \in Int /\ app \in Apps
            BY States, NextStartType
        <3>3. QED
            BY <2>1, <3>1, <3>2 DEF Apps
    <2>3. ~InSend' /\ ~InOptions' /\ ~Saved' /\ main'.pc = "app" /\ dev'.ier = dev.ier
        BY <1>2, <1>4, <2>1 DEF NoCall, InSend, InOptions, Saved
    <2>4. SendInv'
        <3>1. uart.send.remaining = 0 /\ uart.send.next = NextStart
            BY <1>2, <2>1, NextStartType DEF NextStart
        <3>2. NextStart' = NextStart + 0
            BY <2>2 DEF NextStart
        <3>3. QED
            BY <1>1, <1>2, <2>3, <3>1, <3>2 DEF SendInv
    <2>5. InterruptInv'
        BY <1>2, <2>1, <2>3 DEF InterruptInv
    <2>6. OptionsInv'
        BY <2>3 DEF OptionsInv
    <2>7. CallInv'
        BY <1>1, <1>2, <2>3 DEF CallInv
    <2>8. QED
        BY <1>1, <1>4, <1>6, <1>7, <2>2, <2>4, <2>5, <2>6, <2>7, States, ProgramStep
<1>9. CASE ~done /\ app.mode = "interrupt"
    <2>1. app' = app /\ main' = NoCall
        BY <1>1, <1>9
    <2>2. ~InSend' /\ ~InOptions' /\ ~Saved' /\ main'.pc = "app"
        BY <2>1 DEF NoCall, InSend, InOptions, Saved
    <2>3. SendInv'
        <3>1. NextStart' = app.start + app.size
            BY <2>1 DEF NextStart
        <3>2. uart.send.next + uart.send.remaining = app.start + app.size
            BY <1>2, NextStartType
        <3>3. QED
            BY <1>1, <1>2, <2>1, <2>2, <3>1, <3>2 DEF SendInv
    <2>4. InterruptInv'
        BY <1>2, <1>9, <2>1, <2>2 DEF InterruptInv
    <2>5. OptionsInv'
        BY <2>2 DEF OptionsInv
    <2>6. CallInv'
        BY <1>1, <1>2, <2>2 DEF CallInv
    <2>7. QED
        BY <1>1, <1>4, <1>6, <1>7, <2>1, <2>3, <2>4, <2>5, <2>6, States, ProgramStep
<1>10. CASE ~done /\ app.mode = "polled"
    <2>1. app' = app /\ main' = [main EXCEPT !.pc = "again"]
        BY <1>1, <1>10
    <2>2. /\ main'.pc = "again" /\ main'.count = main.count /\ main'.ier = main.ier
          /\ InSend' /\ ~InOptions' /\ dev'.ier = dev.ier
        BY <1>2, <1>4, <1>10, <2>1, States DEF Mains, InSend, InOptions
    <2>3. SendInv'
        BY <1>1, <1>2, <2>1, <2>2 DEF SendInv
    <2>4. InterruptInv'
        BY <1>2, <2>1, <2>2 DEF InterruptInv
    <2>5. OptionsInv'
        BY <2>2 DEF OptionsInv
    <2>6. CallInv'
        BY <1>1, <1>2, <2>2 DEF CallInv
    <2>7. QED
        BY <1>1, <1>4, <1>6, <1>7, <2>1, <2>3, <2>4, <2>5, <2>6, States, ProgramStep
<1>11. QED
    BY <1>3, <1>8, <1>9, <1>10

-----------------------------------------------------------------------------
(* XUartNs550_Recv() from the program.                                     *)

(* The parts of the invariant that a step outside of sending and setting   *)
(* options need not argue.                                                 *)
LEMMA OtherCalls ==
    ASSUME IInv, ~InSend, ~InOptions, ~InSend', ~InOptions', UNCHANGED <<app, event>>, event = "none",
           uart'.send = uart.send
    PROVE  SendInv' /\ OptionsInv'
<1>1. NextStart' = NextStart
    BY DEF NextStart
<1>2. SendInv'
    BY <1>1 DEF IInv, SendInv
<1>3. QED
    BY <1>2 DEF OptionsInv

LEMMA RecvBeginStep ==
    ASSUME IInv, NEW n \in 1..MaxRecv, RecvBegin(n)
    PROVE  StepCorrect
<1>1. /\ UNCHANGED <<uart, dev, event, app>>
      /\ main' = [main EXCEPT !.pc = "recv", !.ier = dev.ier, !.count = n]
    BY DEF RecvBegin
<1>2. /\ event = "none" /\ main.pc = "app" /\ uart.isReady /\ ~InSend /\ ~InOptions
      /\ "TX_EMPTY" \in dev.ier => app.sending
      /\ app.mode = "polled" => "RX_DATA" \notin dev.ier /\ "TX_EMPTY" \notin dev.ier
    BY AtRest DEF RecvBegin
<1>3. n \in Nat
    BY UartAssumption
<1>4. /\ main' \in Mains /\ main'.pc = "recv" /\ main'.ier = dev.ier
      /\ main'.count = n
    BY <1>1, <1>3, States DEF Mains, MainLabels, Devs
<1>5. ~InSend' /\ ~InOptions'
    BY <1>4 DEF InSend, InOptions
<1>6. SendInv' /\ OptionsInv'
    BY <1>1, <1>2, <1>5, OtherCalls
<1>7. InterruptInv'
    BY <1>1, <1>2, <1>4, <1>5 DEF InterruptInv
<1>8. CallInv'
    BY <1>1, <1>2, <1>4 DEF CallInv
<1>9. QED
    BY <1>1, <1>2, <1>4, <1>6, <1>7, <1>8, States, CallStep

LEMMA RecvMaskStep ==
    ASSUME IInv, RecvMask
    PROVE  StepCorrect
<1> DEFINE d == Renumbered(dev)
           n == main.count
<1>1. /\ dev' = SetIer(d, {}) /\ uart' = Ask(uart, n) /\ UNCHANGED <<event, app>>
      /\ main' = [main EXCEPT !.pc = "copy", !.count = 0]
    BY DEF RecvMask
<1>2. event = "none" /\ main.pc = "recv"
    BY AtLabel DEF RecvMask
<1>3. n \in 0..MaxRecv /\ n \in Nat /\ uart.isReady /\ ~InSend /\ ~InOptions /\ Saved
    BY <1>2, UartAssumption DEF IInv, CallInv, InSend, InOptions, Saved
<1>4. /\ UartOK(uart') /\ uart'.send = uart.send /\ uart'.isReady = uart.isReady
      /\ uart'.recv.remaining = n /\ Len(uart'.recv.data) = n /\ Stored(uart') = 0
      /\ DevOK(d) /\ SameOut(dev, d) /\ d.ier = dev.ier /\ d.thre = dev.thre
      /\ InOrder(uart'.recv.data, 0, d.rx, d.peer)
    <2>1. /\ UartOK(uart) /\ DevOK(dev) /\ InBuffer \in Nat
          /\ InOrder(uart.recv.data, InBuffer, dev.rx, dev.peer)
        BY States
    <2>2. uart' = Ask(uart, n) /\ d = Renumbered(dev) /\ n \in 0..MaxRecv
        BY <1>1, <1>3
    <2> HIDE DEF d, n
    <2>3. QED
        BY <2>1, <2>2, AskEffect
<1> HIDE DEF d
<1>5. /\ DevOK(dev') /\ SameOut(d, dev') /\ SameIn(d, dev') /\ dev'.ier = {}
      /\ dev'.thre <=> d.thre
    <2>1. {} \in SUBSET Ier
        OBVIOUS
    <2>2. /\ DevOK(dev') /\ SameOut(d, dev') /\ SameIn(d, dev') /\ dev'.ier = {}
          /\ dev'.thre <=> d.thre \/ ("TX_EMPTY" \in {} \ d.ier /\ d.tx = <<>>)
        BY <1>1, <1>4, <2>1, SetIerEffect
    <2>3. QED
        BY <2>2
<1>6. /\ main' \in Mains /\ main'.pc = "copy" /\ main'.count = 0
      /\ main'.ier = main.ier
    BY <1>1, States DEF Mains, MainLabels
<1>7. InBuffer' = 0
    <2>1. InBuffer' = Stored(uart') + 0
        BY <1>6 DEF InBuffer, Stored
    <2>2. QED
        BY <1>4, <2>1
<1>8. Receiver'
    BY <1>3, <1>4, <1>5, <1>7 DEF Receiver, SameIn
<1>9. ~InSend' /\ ~InOptions' /\ Saved'
    BY <1>6 DEF InSend, InOptions, Saved
<1>10. SendInv' /\ OptionsInv'
    BY <1>1, <1>2, <1>3, <1>4, <1>9, OtherCalls
<1>11. SameOut(dev, dev')
    BY <1>4, <1>5 DEF SameOut
<1>12. InterruptInv'
    BY <1>1, <1>3, <1>5, <1>6, <1>9, <1>11 DEF IInv, InterruptInv, SameOut
<1>13. CallInv'
    BY <1>1, <1>2, <1>3, <1>4, <1>5, <1>6 DEF CallInv
<1>14. QED
    BY <1>1, <1>4, <1>5, <1>6, <1>8, <1>10, <1>11, <1>12, <1>13, States, ProgramStep

(* In the program's loop.                                                  *)
LEMMA CopyLoop ==
    ASSUME IInv, main.pc = "copy"
    PROVE  /\ InBuffer = Stored(uart) + main.count
           /\ Stored(uart) = Len(uart.recv.data) - uart.recv.remaining
           /\ main.count <= uart.recv.remaining /\ uart.recv.remaining <= Len(uart.recv.data)
           /\ Len(uart.recv.data) \in Nat /\ uart.recv.remaining \in Nat /\ main.count \in Nat
           /\ dev.ier = {} /\ event = "none" /\ uart.isReady
           /\ ~InSend /\ ~InOptions /\ Saved
<1>1. InBuffer = Stored(uart) + main.count
    BY BufferType DEF IInv
<1>2. /\ Len(uart.recv.data) \in Nat /\ uart.recv.remaining \in Nat /\ main.count \in Nat
    BY States, Counts DEF Mains
<1>3. QED
    BY <1>1, <1>2 DEF IInv, CallInv, Receiver, Stored, InSend, InOptions, Saved

LEMMA RecvStoreStep ==
    ASSUME IInv, RecvStore
    PROVE  StepCorrect
<1> DEFINE h == Head(dev.rx)
           c == main.count
           b == InBuffer
           m == IF h = Break THEN c ELSE c + 1
           r == uart.recv.remaining
           l == Len(uart.recv.data)
<1>1. /\ c < r /\ dev.rx # <<>> /\ dev' = TakeDevice(dev)
      /\ uart' = TakeDriver(uart, dev, Stored(uart) + c) /\ UNCHANGED <<event, app>>
    BY DEF RecvStore
<1>2. event = "none" /\ main.pc = "copy"
    BY AtLabel DEF RecvStore
<1>3. /\ b = Stored(uart) + c /\ Stored(uart) = l - r /\ r <= l
      /\ l \in Nat /\ r \in Nat /\ c \in Nat /\ b \in Nat
      /\ dev.ier = {} /\ uart.isReady /\ ~InSend /\ ~InOptions /\ Saved
    BY <1>2, CopyLoop, States
<1>4. main' = [main EXCEPT !.count = m]
    BY States DEF RecvStore, Mains
<1>5. b < l /\ m \in Nat /\ m <= r
    <2> HIDE DEF h, c, b, r, l
    <2>1. b = l - r + c
        BY <1>3
    <2>2. QED
        BY <1>1, <1>3, <2>1
<1>6. /\ DevOK(dev') /\ SameOut(dev, dev') /\ dev'.ier = dev.ier /\ dev'.thre = dev.thre
      /\ UartOK(uart') /\ uart'.send = uart.send /\ uart'.isReady = uart.isReady
      /\ uart'.recv.remaining = r /\ Len(uart'.recv.data) = l
      /\ InOrder(uart'.recv.data, IF h = Break THEN b ELSE b + 1, dev'.rx, dev'.peer)
    <2>1. /\ UartOK(uart) /\ DevOK(dev) /\ b \in Nat /\ b < Len(uart.recv.data)
          /\ InOrder(uart.recv.data, b, dev.rx, dev.peer)
        BY <1>3, <1>5, States
    <2>2. dev.rx # <<>> /\ dev' = TakeDevice(dev) /\ uart' = TakeDriver(uart, dev, b)
        BY <1>1, <1>3
    <2> HIDE DEF b
    <2>3. QED
        BY <2>1, <2>2, TakeEffect
<1>7. main' \in Mains /\ main'.pc = "copy" /\ main'.count = m /\ main'.ier = main.ier
    BY <1>2, <1>4, <1>5, States DEF Mains
<1>8. InBuffer' = IF h = Break THEN b ELSE b + 1
    <2>1. InBuffer' = l - r + m
        BY <1>6, <1>7 DEF InBuffer, Stored
    <2> HIDE DEF h, c, b, r, l
    <2>2. b = l - r + c
        BY <1>3
    <2>3. QED
        BY <1>3, <2>1, <2>2
<1>9. Receiver'
    BY <1>3, <1>6, <1>8 DEF Receiver
<1>10. ~InSend' /\ ~InOptions' /\ Saved'
    BY <1>7 DEF InSend, InOptions, Saved
<1>11. SendInv' /\ OptionsInv'
    BY <1>1, <1>2, <1>3, <1>6, <1>10, OtherCalls
<1>12. InterruptInv'
    BY <1>1, <1>3, <1>6, <1>7, <1>10 DEF IInv, InterruptInv, SameOut
<1>13. CallInv'
    BY <1>1, <1>2, <1>3, <1>5, <1>6, <1>7 DEF CallInv
<1>14. QED
    BY <1>1, <1>6, <1>7, <1>9, <1>11, <1>12, <1>13, States, ProgramStep

LEMMA RecvStopStep ==
    ASSUME IInv, RecvStop
    PROVE  StepCorrect
<1> DEFINE c == main.count
           r == uart.recv.remaining
           l == Len(uart.recv.data)
<1>1. /\ dev' = dev \/ dev' = EmptyDevice(dev)
      /\ uart' = [uart EXCEPT !.recv.remaining = r - c]
      /\ main' = [main EXCEPT !.pc = "restore", !.count = 0] /\ UNCHANGED <<event, app>>
    BY States DEF RecvStop, Uarts
<1>2. event = "none" /\ main.pc = "copy"
    BY AtLabel DEF RecvStop
<1>3. /\ InBuffer = Stored(uart) + c /\ Stored(uart) = l - r /\ c <= r /\ r <= l
      /\ l \in Nat /\ r \in Nat /\ c \in Nat
      /\ dev.ier = {} /\ uart.isReady /\ ~InSend /\ ~InOptions /\ Saved
    BY <1>2, CopyLoop
<1>4. /\ DevOK(dev') /\ SameOut(dev, dev') /\ SameIn(dev, dev') /\ dev'.ier = dev.ier
      /\ dev'.thre = dev.thre
    <2>1. CASE dev' = dev
        BY <2>1, States DEF SameOut, SameIn
    <2>2. CASE dev' = EmptyDevice(dev)
        BY <2>2, States, EmptyDeviceEffect
    <2>3. QED
        BY <1>1, <2>1, <2>2
<1>5. r - c \in 0..MaxRecv /\ r - c \in Nat /\ r - c <= l
    <2>1. r \in 0..MaxRecv /\ MaxRecv \in Nat
        BY States, UartAssumption DEF Uarts
    <2> HIDE DEF r, c, l
    <2>2. QED
        BY <1>3, <2>1
<1>6. /\ UartOK(uart') /\ uart'.send = uart.send /\ uart'.isReady = uart.isReady
      /\ uart'.recv.data = uart.recv.data /\ uart'.recv.remaining = r - c
    <2> DEFINE new == [data |-> uart.recv.data, remaining |-> r - c]
    <2>1. uart \in Uarts /\ Len(uart.recv.data) <= MaxRecv
        BY States DEF UartOK
    <2>2. uart' = [uart EXCEPT !.recv = new]
        BY <1>1, <2>1 DEF Uarts
    <2>3. /\ new \in [data : Seq(Entries), remaining : 0..MaxRecv]
          /\ new.data = uart.recv.data /\ new.remaining = r - c
        BY <1>5, <2>1 DEF Uarts
    <2> HIDE DEF new
    <2>4. /\ uart' \in Uarts /\ uart'.recv = new /\ uart'.send = uart.send
          /\ uart'.isReady = uart.isReady
        BY <2>1, <2>2, <2>3 DEF Uarts
    <2>5. QED
        BY <2>1, <2>3, <2>4 DEF UartOK
<1>7. main' \in Mains /\ main'.pc = "restore" /\ main'.ier = main.ier
    BY <1>1, States DEF Mains, MainLabels
<1>8. InBuffer' = InBuffer
    <2>1. InBuffer' = l - (r - c) + 0
        BY <1>6, <1>7 DEF InBuffer, Stored
    <2> HIDE DEF c, r, l
    <2>2. InBuffer = l - r + c
        BY <1>3
    <2>3. QED
        BY <1>3, <2>1, <2>2
<1>9. Receiver'
    BY <1>4, <1>5, <1>6, <1>8 DEF IInv, Receiver, SameIn
<1>10. ~InSend' /\ ~InOptions' /\ Saved'
    BY <1>7 DEF InSend, InOptions, Saved
<1>11. SendInv' /\ OptionsInv'
    BY <1>1, <1>2, <1>3, <1>6, <1>10, OtherCalls
<1>12. InterruptInv'
    BY <1>1, <1>3, <1>4, <1>7, <1>10 DEF IInv, InterruptInv, SameOut
<1>13. CallInv'
    BY <1>1, <1>3, <1>6, <1>7 DEF CallInv
<1>14. QED
    BY <1>1, <1>4, <1>6, <1>7, <1>9, <1>11, <1>12, <1>13, States, ProgramStep

LEMMA RecvRestoreStep ==
    ASSUME IInv, RecvRestore
    PROVE  StepCorrect
<1>1. /\ dev' = SetIer(dev, main.ier) /\ main' = NoCall /\ UNCHANGED <<uart, event, app>>
    BY DEF RecvRestore
<1>2. event = "none" /\ main.pc = "restore"
    BY AtLabel DEF RecvRestore
<1>3. uart.isReady /\ ~InSend /\ ~InOptions /\ Saved
    BY <1>2 DEF IInv, CallInv, InSend, InOptions, Saved
<1>4. /\ DevOK(dev') /\ SameOut(dev, dev') /\ SameIn(dev, dev') /\ dev'.ier = main.ier
      /\ dev'.thre <=> dev.thre \/ ("TX_EMPTY" \in main.ier \ dev.ier /\ dev.tx = <<>>)
    <2>1. DevOK(dev) /\ main.ier \in SUBSET Ier
        BY States DEF Mains
    <2>2. QED
        BY <1>1, <2>1, SetIerEffect
<1>5. main' \in Mains /\ main'.pc = "app"
    BY <1>1, NoCallType DEF NoCall
<1>6. ~InSend' /\ ~InOptions' /\ ~Saved'
    BY <1>5 DEF InSend, InOptions, Saved
<1>7. SendInv' /\ OptionsInv'
    BY <1>1, <1>2, <1>3, <1>6, OtherCalls
<1>8. InterruptInv'
    BY <1>1, <1>3, <1>4, <1>6 DEF IInv, InterruptInv
<1>9. CallInv'
    BY <1>1, <1>3, <1>5 DEF CallInv
<1>10. Receiver'
    <2>1. InBuffer' = InBuffer
        BY <1>1, <1>2, <1>5, BufferKept
    <2>2. QED
        BY <1>1, <1>4, <2>1, ReceiverKept DEF IInv
<1>11. QED
    BY <1>1, <1>4, <1>5, <1>7, <1>8, <1>9, <1>10, States, ProgramStep

-----------------------------------------------------------------------------
(* The trigger level of the receive FIFO, and the initialisation.          *)

LEMMA ThresholdBeginStep ==
    ASSUME IInv, NEW setting \in BOOLEAN, ThresholdBegin(setting)
    PROVE  StepCorrect
<1>1. /\ UNCHANGED <<uart, dev, event, app>>
      /\ main' = [main EXCEPT !.pc = "fcr", !.row = 0, !.ier = dev.ier, !.setting = setting]
    BY DEF ThresholdBegin
<1>2. /\ event = "none" /\ main.pc = "app" /\ uart.isReady /\ ~InSend /\ ~InOptions
      /\ "TX_EMPTY" \in dev.ier => app.sending
      /\ app.mode = "polled" => "RX_DATA" \notin dev.ier /\ "TX_EMPTY" \notin dev.ier
    BY AtRest DEF ThresholdBegin
<1>3. 0 \in 0..Len(OptionsTable)
    BY TableLength
<1>4. /\ main' \in Mains /\ main'.pc = "fcr" /\ main'.ier = dev.ier /\ main'.row = 0
    BY <1>1, <1>3, States DEF Mains, MainLabels, Devs
<1>5. ~InSend' /\ ~InOptions'
    BY <1>4 DEF InSend, InOptions
<1>6. SendInv' /\ OptionsInv'
    BY <1>1, <1>2, <1>5, OtherCalls
<1>7. InterruptInv'
    BY <1>1, <1>2, <1>4, <1>5 DEF InterruptInv
<1>8. CallInv'
    BY <1>1, <1>2, <1>4 DEF CallInv
<1>9. QED
    BY <1>1, <1>2, <1>4, <1>6, <1>7, <1>8, States, CallStep

LEMMA GetFifoThresholdStep ==
    ASSUME IInv, GetFifoThreshold
    PROVE  StepCorrect
<1>1. /\ UNCHANGED <<uart, dev, event, app>> /\ main' = NoCall /\ main.row = 0
    BY DEF GetFifoThreshold
<1>2. event = "none" /\ main.pc = "modify"
    BY AtLabel DEF GetFifoThreshold
<1>3. uart.isReady /\ ~InSend /\ ~InOptions
    BY <1>1, <1>2 DEF IInv, CallInv, InSend, InOptions
<1>4. main' \in Mains /\ main'.pc = "app"
    BY <1>1, NoCallType DEF NoCall
<1>5. ~InSend' /\ ~InOptions' /\ ~Saved'
    BY <1>4 DEF InSend, InOptions, Saved
<1>6. SendInv' /\ OptionsInv'
    BY <1>1, <1>2, <1>3, <1>5, OtherCalls
<1>7. InterruptInv'
    BY <1>1, <1>3, <1>5 DEF IInv, InterruptInv
<1>8. CallInv'
    BY <1>1, <1>3, <1>4 DEF CallInv
<1>9. QED
    BY <1>1, <1>2, <1>4, <1>6, <1>7, <1>8, States, CallStep

LEMMA SetTriggerEffect ==
    ASSUME NEW d, DevOK(d), NEW level \in 1..FifoDepth, NEW e, e = [d EXCEPT !.trigger = level]
    PROVE  DevOK(e) /\ SameOut(d, e) /\ SameIn(d, e) /\ e.ier = d.ier /\ e.thre = d.thre
<1>1. e \in Devs /\ SameOut(d, e) /\ SameIn(d, e) /\ e.ier = d.ier /\ e.thre = d.thre
    BY DEF DevOK, Devs, SameOut, SameIn
<1>2. QED
    BY <1>1 DEF DevOK, SameOut, SameIn

LEMMA SetFifoThresholdStep ==
    ASSUME IInv, NEW level \in Thresholds, SetFifoThreshold(level)
    PROVE  StepCorrect
<1> DEFINE d == WriteFcr(dev, main.value)
<1>1. /\ UNCHANGED <<uart, event, app>> /\ main' = NoCall /\ main.row = 0
      /\ dev' = IF "FIFOS_ENABLE" \in main.value THEN [d EXCEPT !.trigger = level] ELSE dev
    BY DEF SetFifoThreshold
<1>2. event = "none" /\ main.pc = "modify"
    BY AtLabel DEF SetFifoThreshold
<1>3. uart.isReady /\ ~InSend /\ ~InOptions /\ main.value = dev.fcr
    BY <1>1, <1>2 DEF IInv, CallInv, InSend, InOptions
<1>4. DevOK(d) /\ SameOut(dev, d) /\ SameIn(dev, d) /\ d.ier = dev.ier /\ d.thre = dev.thre
    BY <1>3, States, WriteFcrSame
<1>5. level \in 1..FifoDepth
    BY UartAssumption
<1> HIDE DEF d
<1>6. /\ DevOK(dev') /\ SameOut(dev, dev') /\ SameIn(dev, dev') /\ dev'.ier = dev.ier
      /\ dev'.thre = dev.thre
    <2>1. CASE dev' = dev
        BY <2>1, States DEF SameOut, SameIn
    <2>2. CASE dev' = [d EXCEPT !.trigger = level]
        <3>1. /\ DevOK(dev') /\ SameOut(d, dev') /\ SameIn(d, dev') /\ dev'.ier = d.ier
              /\ dev'.thre = d.thre
            BY <1>4, <1>5, <2>2, SetTriggerEffect
        <3>2. QED
            BY <1>4, <3>1 DEF SameOut, SameIn
    <2>3. QED
        BY <1>1, <2>1, <2>2
<1>7. main' \in Mains /\ main'.pc = "app"
    BY <1>1, NoCallType DEF NoCall
<1>8. ~InSend' /\ ~InOptions' /\ ~Saved'
    BY <1>7 DEF InSend, InOptions, Saved
<1>9. SendInv' /\ OptionsInv'
    BY <1>1, <1>2, <1>3, <1>8, OtherCalls
<1>10. InterruptInv'
    BY <1>1, <1>3, <1>6, <1>8 DEF IInv, InterruptInv
<1>11. CallInv'
    BY <1>1, <1>3, <1>7 DEF CallInv
<1>12. Receiver'
    <2>1. InBuffer' = InBuffer
        BY <1>1, <1>2, <1>7, BufferKept
    <2>2. QED
        BY <1>1, <1>6, <2>1, ReceiverKept DEF IInv
<1>13. QED
    BY <1>1, <1>6, <1>7, <1>9, <1>10, <1>11, <1>12, States, ProgramStep

LEMMA UARTInitStep ==
    ASSUME IInv, UARTInit
    PROVE  StepCorrect
<1>1. PICK baud \in BaudRates :
         /\ CfgInitialize(baud)
         /\ dev' = [SetBaudRate(WriteFcr(dev, {"FIFOS_ENABLE"}), baud) EXCEPT !.lcr = {}]
    BY DEF UARTInit
<1> DEFINE f == WriteFcr(dev, {"FIFOS_ENABLE"})
           d == SetBaudRate(f, baud)
<1>2. /\ UNCHANGED <<main, event, app>> /\ event = "none" /\ main.pc = "app" /\ ~uart.isReady
    BY AtLabel DEF UARTInit
<1>3. app.mode = "polled" /\ dev.tx = <<>> /\ ~InSend /\ ~InOptions /\ ~Saved
    BY <1>2 DEF IInv, CallInv, InSend, InOptions, Saved
<1>4. /\ DevOK(f) /\ f.tx = <<>> /\ f.shifter = dev.shifter /\ f.ier = dev.ier
      /\ f.thre = dev.thre /\ InOrder(uart.recv.data, InBuffer, f.rx, f.peer)
    <2>1. /\ DevOK(dev) /\ InOrder(uart.recv.data, InBuffer, dev.rx, dev.peer) /\ InBuffer \in Nat
          /\ \A j \in 1..InBuffer : uart.recv.data[j] \in Int
        BY States
    <2> DEFINE b == uart.recv.data
               c == InBuffer
               bits == {"FIFOS_ENABLE"}
    <2> HIDE DEF b, c, bits
    <2>2. /\ DevOK(dev) /\ InOrder(b, c, dev.rx, dev.peer) /\ c \in Nat
          /\ \A j \in 1..c : b[j] \in Int
          /\ f = WriteFcr(dev, bits)
        BY <2>1 DEF b, c, bits
    <2> HIDE DEF f
    <2>3. /\ DevOK(f) /\ f.tx = <<>> /\ f.shifter = dev.shifter /\ f.ier = dev.ier
          /\ f.thre = dev.thre /\ InOrder(b, c, f.rx, f.peer)
        BY <1>3, <2>2, WriteFcrIdle
    <2>4. QED
        BY <2>3 DEF b, c
<1> HIDE DEF f
<1>5. DevOK(d) /\ SameOut(f, d) /\ SameIn(f, d) /\ d.ier = f.ier /\ d.thre = f.thre
    BY <1>4, SetBaudRateEffect
<1>6. dev' = [d EXCEPT !.lcr = {}]
    BY <1>1 DEF f
<1> HIDE DEF d
<1>7. DevOK(dev') /\ SameOut(d, dev') /\ SameIn(d, dev') /\ dev'.ier = d.ier /\ dev'.thre = d.thre
    <2>1. {} \in SUBSET (Lcr \ {"DLAB"})
        OBVIOUS
    <2>2. QED
        BY <1>5, <1>6, <2>1, SetLcrEffect
<1>8. /\ dev'.tx = <<>> /\ dev'.shifter = dev.shifter /\ dev'.ier = dev.ier /\ dev'.thre = dev.thre
      /\ InOrder(uart.recv.data, InBuffer, dev'.rx, dev'.peer)
    BY <1>4, <1>5, <1>7 DEF SameOut, SameIn
<1>9. /\ uart' \in Uarts /\ uart'.isReady /\ uart'.send = uart.send /\ uart'.recv = uart.recv
    <2>1. uart' = [uart EXCEPT !.isReady = TRUE, !.handler = "stub", !.baudRate = baud]
        BY <1>1 DEF CfgInitialize
    <2>2. baud \in Nat
        BY DivisorType
    <2>3. QED
        BY <2>1, <2>2, States DEF Uarts
<1>10. UartOK(uart')
    BY <1>9, States DEF UartOK
<1>11. TypeOK'
    BY <1>2, <1>7, <1>10, States, TypedNext
<1>12. Transmitter'
    <2>1. Len(dev.tx) = 0 /\ Len(dev'.tx) = 0 /\ Depth(dev') \in Nat
        BY <1>3, <1>8, DepthType
    <2>2. QED
        BY <1>3, <1>8, <1>9, <2>1 DEF IInv, Transmitter
<1>13. Receiver'
    BY <1>2, <1>8, <1>9 DEF IInv, Receiver, InBuffer, Stored
<1>14. ~InSend' /\ ~InOptions' /\ ~Saved'
    BY <1>2, <1>3 DEF InSend, InOptions, Saved
<1>15. SendInv' /\ OptionsInv'
    BY <1>2, <1>3, <1>9, <1>14, OtherCalls
<1>16. InterruptInv'
    BY <1>2, <1>3, <1>8, <1>14 DEF IInv, InterruptInv
<1>17. CallInv'
    BY <1>2, <1>9 DEF CallInv
<1>18. QED
    BY <1>2, <1>11, <1>12, <1>13, <1>15, <1>16, <1>17 DEF StepCorrect, SentOK, IInv

-----------------------------------------------------------------------------
(* Options.                                                                *)

LEMMA Table ==
    ASSUME NEW k \in 1..12
    PROVE  /\ OptionsTable[k][2] \in {"lcr", "mcr", "ier", "fcr"}
           /\ OptionsTable[k][2] = "lcr" => OptionsTable[k][1] \in Lcr \ {"DLAB"}
           /\ OptionsTable[k][2] = "mcr" => OptionsTable[k][1] \in Mcr
           /\ OptionsTable[k][2] = "ier" => OptionsTable[k][1] \in Ier \ {"TX_EMPTY"}
           /\ k = 3 <=> OptionsTable[k][1] = "RX_DATA"
           /\ k = 3 => OptionsTable[k][2] = "ier"
<1>1. \/ k = 1 \/ k = 2 \/ k = 3 \/ k = 4 \/ k = 5 \/ k = 6
      \/ k = 7 \/ k = 8 \/ k = 9 \/ k = 10 \/ k = 11 \/ k = 12
    OBVIOUS
<1>2. QED
    BY <1>1 DEF OptionsTable, Lcr, Mcr, Ier

LEMMA RowsType ==
    ASSUME NEW setting \in BOOLEAN
    PROVE  /\ Rows(setting) \subseteq 1..12 /\ Rows(setting) # {}
           /\ setting => Rows(setting) = 1..12
           /\ ~setting => \A k \in Rows(setting) : OptionsTable[k][2] = "fcr"
<1>1. 5 \in Rows(setting)
    <2>1. OptionsTable[5][2] = "fcr" /\ 5 \in 1..Len(OptionsTable)
        BY TableLength DEF OptionsTable
    <2>2. QED
        BY <2>1 DEF Rows
<1>2. QED
    BY <1>1, TableLength DEF Rows

LEMMA FirstRowIsLeast ==
    ASSUME NEW rows, rows \subseteq 1..12, rows # {}
    PROVE  FirstRow(rows) \in rows /\ \A j \in rows : FirstRow(rows) <= j
<1>1. rows \subseteq Nat
    OBVIOUS
<1>2. PICK n \in rows : \A j \in rows : n <= j
    BY <1>1, Least
<1>3. QED
    BY <1>2 DEF FirstRow

(* A row is done: the next one comes, or the call ends.                    *)
LEMMA RowDoneStep ==
    ASSUME IInv, InOptions, event = "none", RowDone, UNCHANGED <<uart, event>>,
           DevOK(dev'), Transmitter', Receiver', dev'.tx = <<>>, "TX_EMPTY" \notin dev'.ier,
           main.setting /\ main.row = 3 => ("RX_DATA" \in dev'.ier <=> "RX_DATA" \in main.options),
           ~(main.setting /\ main.row = 3) => ("RX_DATA" \in dev'.ier <=> "RX_DATA" \in dev.ier)
    PROVE  StepCorrect
<1> DEFINE rows == {k \in Rows(main.setting) : k > main.row}
           r == FirstRow(rows)
           interrupts == main.setting /\ "RX_DATA" \in main.options
<1>1. /\ main \in Mains /\ main.setting \in BOOLEAN /\ main.row \in Rows(main.setting)
      /\ app \in Apps /\ main.pc \in {"row", "fcr", "modify"}
    BY States DEF IInv, OptionsInv, InOptions, Mains
<1>2. main.row \in 1..12
    BY <1>1, RowsType
<1>b. main.setting => Rows(main.setting) = 1..12
    <2> DEFINE s == main.setting
    <2>1. s \in BOOLEAN
        BY <1>1
    <2> HIDE DEF s
    <2>2. s => Rows(s) = 1..12
        BY <2>1, RowsType
    <2>3. QED
        BY <2>2 DEF s
<1>3. ~app.sending /\ uart.isReady /\ ~InSend
    BY <1>1 DEF IInv, OptionsInv, CallInv, InSend
<1>4. ASSUME main.setting, main.row >= 3
      PROVE  "RX_DATA" \in dev'.ier <=> "RX_DATA" \in main.options
    <2>1. CASE main.row = 3
        BY <1>4, <2>1
    <2>2. CASE main.row # 3
        <3>1. main.row > 3
            BY <1>2, <1>4, <2>2
        <3>2. QED
            BY <1>4, <2>2, <3>1 DEF IInv, OptionsInv
    <2>3. QED
        BY <2>1, <2>2
<1>5. ~main.setting /\ app.mode = "polled" => "RX_DATA" \notin dev'.ier
    BY DEF IInv, OptionsInv
<1>6. SentOK
    BY DEF SentOK
<1>7. CASE rows # {}
    <2>1. app' = app /\ main' = [main EXCEPT !.pc = "row", !.row = r, !.value = {}]
        BY <1>7 DEF RowDone
    <2>2. rows \subseteq 1..12
        BY <1>1, RowsType
    <2>3. r \in rows /\ \A j \in rows : r <= j
        BY <1>7, <2>2, FirstRowIsLeast
    <2>4. r \in Rows(main.setting) /\ r > main.row /\ r \in 1..12
        BY <2>2, <2>3
    <2>5. main.setting /\ r > 3 => main.row >= 3
        <3>1. ASSUME main.setting, main.row < 3
              PROVE  r <= 3
            <4>1. 3 \in Rows(main.setting)
                <5>1. Rows(main.setting) = 1..12
                    BY <1>b, <3>1, Zenon
                <5>2. QED
                    BY <5>1
            <4>2. QED
                BY <2>3, <3>1, <4>1
        <3>2. QED
            BY <1>2, <2>4, <3>1
    <2> HIDE DEF r, rows
    <2>6. /\ main' \in Mains /\ main'.pc = "row" /\ main'.row = r
          /\ main'.setting = main.setting /\ main'.options = main.options
        <3>1. r \in 0..Len(OptionsTable)
            BY <2>4, TableLength
        <3>2. QED
            BY <1>1, <2>1, <3>1 DEF Mains, MainLabels
    <2>7. InOptions' /\ ~InSend' /\ ~Saved'
        <3>1. r > 0
            BY <2>4
        <3>2. QED
            BY <2>6, <3>1 DEF InOptions, InSend, Saved
    <2>8. SendInv'
        BY <1>3, <2>1, <2>7 DEF IInv, SendInv, NextStart
    <2>9. InterruptInv'
        BY <2>7 DEF InterruptInv
    <2>10. OptionsInv'
        BY <1>3, <1>4, <1>5, <2>1, <2>4, <2>5, <2>6 DEF OptionsInv
    <2>11. CallInv'
        BY <1>3, <2>4, <2>6 DEF CallInv
    <2>12. TypeOK'
        BY <2>1, <2>6, States, TypedNext
    <2>13. QED
        BY <1>6, <2>8, <2>9, <2>10, <2>11, <2>12 DEF StepCorrect, IInv
<1>8. CASE rows = {}
    <2>1. /\ main' = NoCall
          /\ app' = IF main.setting
                       THEN [app EXCEPT !.mode = IF interrupts THEN "interrupt" ELSE "polled"]
                       ELSE app
        BY <1>8 DEF RowDone
    <2>2. main' \in Mains /\ main'.pc = "app"
        BY <2>1, NoCallType DEF NoCall
    <2>3. /\ app' \in Apps /\ app'.sending = app.sending /\ app'.start = app.start
          /\ app'.size = app.size
        BY <1>1, <2>1 DEF Apps
    <2>4. ~InOptions' /\ ~InSend' /\ ~Saved'
        BY <2>2 DEF InOptions, InSend, Saved
    <2>5. app'.mode = "polled" => "RX_DATA" \notin dev'.ier
        <3>1. CASE main.setting
            <4>1. main.row = 12
                <5>1. main.row < 12 => 12 \in rows
                    <6>1. Rows(main.setting) = 1..12
                        BY <1>b, <3>1, Zenon
                    <6>2. QED
                        BY <1>2, <6>1
                <5>2. QED
                    BY <1>2, <1>8, <5>1
            <4>2. "RX_DATA" \in dev'.ier <=> "RX_DATA" \in main.options
                BY <1>4, <3>1, <4>1
            <4>3. app'.mode = IF interrupts THEN "interrupt" ELSE "polled"
                BY <1>1, <2>1, <3>1 DEF Apps
            <4>4. QED
                BY <3>1, <4>2, <4>3
        <3>2. CASE ~main.setting
            BY <1>5, <2>1, <3>2
        <3>3. QED
            BY <1>1, <3>1, <3>2
    <2>6. SendInv'
        <3>1. NextStart' = NextStart
            BY <2>3 DEF NextStart
        <3>2. QED
            BY <1>3, <2>3, <2>4, <3>1 DEF IInv, SendInv
    <2>7. InterruptInv'
        BY <2>4, <2>5 DEF InterruptInv
    <2>8. OptionsInv'
        BY <2>4 DEF OptionsInv
    <2>9. CallInv'
        BY <1>3, <2>2 DEF CallInv
    <2>10. TypeOK'
        BY <2>2, <2>3, States, TypedNext
    <2>11. QED
        BY <1>6, <2>6, <2>7, <2>8, <2>9, <2>10 DEF StepCorrect, IInv
<1>9. QED
    BY <1>7, <1>8

LEMMA OptionsBeginStep ==
    ASSUME IInv, NEW options \in OptionSets, NEW setting \in BOOLEAN, OptionsBegin(options, setting)
    PROVE  StepCorrect
<1> DEFINE r == FirstRow(Rows(setting))
<1>1. /\ UNCHANGED <<uart, dev, event, app>>
      /\ main' = [main EXCEPT !.pc = "row", !.row = r, !.options = options, !.setting = setting]
      /\ ~app.sending /\ dev.tx = <<>>
    BY DEF OptionsBegin
<1>2. /\ event = "none" /\ main.pc = "app" /\ uart.isReady /\ ~InSend /\ ~InOptions
      /\ "TX_EMPTY" \notin dev.ier
      /\ app.mode = "polled" => "RX_DATA" \notin dev.ier
    BY <1>1, AtRest DEF OptionsBegin
<1>3. /\ r \in Rows(setting) /\ r \in 1..12 /\ (setting => r <= 3)
    <2>1. Rows(setting) \subseteq 1..12 /\ Rows(setting) # {} /\ (setting => 3 \in Rows(setting))
        BY RowsType
    <2>2. QED
        BY <2>1, FirstRowIsLeast
<1> HIDE DEF r
<1>4. /\ main' \in Mains /\ main'.pc = "row" /\ main'.row = r
      /\ main'.setting = setting
    <2>1. r \in 0..Len(OptionsTable)
        BY <1>3, TableLength
    <2>2. QED
        BY <1>1, <2>1, States DEF Mains, MainLabels
<1>5. InOptions' /\ ~InSend' /\ ~Saved'
    <2>1. r > 0
        BY <1>3
    <2>2. QED
        BY <1>4, <2>1 DEF InOptions, InSend, Saved
<1>6. SendInv'
    BY <1>1, <1>2, <1>5 DEF IInv, SendInv, NextStart
<1>7. InterruptInv'
    BY <1>1, <1>2, <1>5 DEF InterruptInv
<1>8. OptionsInv'
    <2>1. ~(setting /\ r > 3)
        BY <1>3
    <2>2. QED
        BY <1>1, <1>2, <1>3, <1>4, <2>1 DEF OptionsInv
<1>9. CallInv'
    BY <1>1, <1>2, <1>3, <1>4 DEF CallInv
<1>10. QED
    BY <1>1, <1>2, <1>4, <1>6, <1>7, <1>8, <1>9, States, CallStep

(* Between the accesses of a row.                                          *)
LEMMA InRow ==
    ASSUME IInv, InOptions
    PROVE  /\ main.row \in 1..12 /\ main.setting \in BOOLEAN /\ uart.isReady
           /\ ~app.sending /\ dev.tx = <<>> /\ ~InSend /\ "TX_EMPTY" \notin dev.ier
           /\ main.pc # "copy" /\ Row = OptionsTable[main.row]
<1>1. /\ main.setting \in BOOLEAN /\ main.row \in Rows(main.setting)
      /\ main.pc \in {"row", "fcr", "modify"}
    BY States DEF Mains, IInv, OptionsInv, InOptions
<1>2. main.row \in 1..12
    BY <1>1, RowsType
<1>3. QED
    BY <1>1, <1>2 DEF IInv, OptionsInv, CallInv, InSend, Row

LEMMA RowDoneNext ==
    ASSUME IInv, RowDone
    PROVE  main'.pc # "copy"
<1> DEFINE rows == {k \in Rows(main.setting) : k > main.row}
           r == FirstRow(rows)
<1>1. main' = [main EXCEPT !.pc = "row", !.row = r, !.value = {}] \/ main' = NoCall
    <2>1. CASE rows # {}
        BY <2>1 DEF RowDone
    <2>2. CASE rows = {}
        BY <2>2 DEF RowDone
    <2>3. QED
        BY <2>1, <2>2
<1> HIDE DEF r
<1>2. main' = [main EXCEPT !.pc = "row", !.row = r, !.value = {}] => main'.pc = "row"
    BY States DEF Mains
<1>3. main' = NoCall => main'.pc = "app"
    BY DEF NoCall
<1>4. QED
    BY <1>1, <1>2, <1>3

LEMMA WithOptionType ==
    ASSUME NEW S, Row[1] \in S, NEW bits \in SUBSET S
    PROVE  WithOption(bits) \in SUBSET S
BY DEF WithOption

LEMMA SetRowStep ==
    ASSUME IInv, SetRow
    PROVE  StepCorrect
<1> DEFINE reg == Row[2]
           bits == WithOption(dev[reg])
<1>1. /\ event = "none" /\ main.pc = "row" /\ reg \in {"lcr", "mcr"} /\ RowDone
      /\ UNCHANGED <<uart, event>> /\ dev' = WriteReg(dev, reg, bits)
    BY AtLabel DEF SetRow, ReadReg
<1>2. InOptions
    BY <1>1 DEF InOptions, IInv, CallInv
<1>3. /\ main.row \in 1..12 /\ dev.tx = <<>> /\ "TX_EMPTY" \notin dev.ier
      /\ Row = OptionsTable[main.row]
    BY <1>2, InRow
<1>4. dev' = [dev EXCEPT ![reg] = bits]
    BY <1>1 DEF WriteReg
<1>5. DevOK(dev') /\ SameOut(dev, dev') /\ SameIn(dev, dev') /\ dev'.ier = dev.ier /\ dev'.thre = dev.thre
    <2>1. CASE reg = "lcr"
        <3>1. Row[1] \in Lcr \ {"DLAB"} /\ dev.lcr \in SUBSET (Lcr \ {"DLAB"})
            BY <1>3, <2>1, Table, States DEF Devs
        <3>2. bits \in SUBSET (Lcr \ {"DLAB"})
            BY <2>1, <3>1, WithOptionType
        <3> HIDE DEF bits
        <3>3. dev' = [dev EXCEPT !.lcr = bits]
            BY <1>4, <2>1
        <3>4. QED
            BY <3>2, <3>3, States, SetLcrEffect
    <2>2. CASE reg = "mcr"
        <3>1. Row[1] \in Mcr /\ dev.mcr \in SUBSET Mcr
            BY <1>3, <2>2, Table, States DEF Devs
        <3>2. bits \in SUBSET Mcr
            BY <2>2, <3>1, WithOptionType
        <3> HIDE DEF bits
        <3>3. dev' = [dev EXCEPT !.mcr = bits]
            BY <1>4, <2>2
        <3>4. /\ dev' \in Devs /\ SameOut(dev, dev') /\ SameIn(dev, dev') /\ dev'.ier = dev.ier
              /\ dev'.thre = dev.thre
            BY <3>2, <3>3, States DEF Devs, SameOut, SameIn
        <3>5. QED
            BY <3>4, States DEF DevOK, SameOut, SameIn
    <2>3. QED
        BY <1>1, <2>1, <2>2
<1>6. Transmitter'
    BY <1>1, <1>5, TransmitterKept DEF IInv
<1>7. main'.pc # "copy"
    BY <1>1, RowDoneNext
<1>8. Receiver'
    <2>1. InBuffer' = InBuffer
        BY <1>1, <1>7, BufferKept
    <2>2. QED
        BY <1>1, <1>5, <2>1, ReceiverKept DEF IInv
<1>9. main.row # 3
    BY <1>1, <1>3, Table
<1>10. dev'.tx = <<>>
    BY <1>3, <1>5 DEF SameOut
<1>11. QED
    BY <1>1, <1>2, <1>3, <1>5, <1>6, <1>8, <1>9, <1>10, RowDoneStep

LEMMA ReadRowStep ==
    ASSUME IInv, ReadRow
    PROVE  StepCorrect
<1>1. /\ event = "none" /\ main.pc = "row" /\ Row[2] \in {"ier", "fcr"}
      /\ UNCHANGED <<uart, dev, event, app>>
      /\ main' = IF Row[2] = "fcr" THEN [main EXCEPT !.pc = "fcr", !.ier = dev.ier]
                 ELSE [main EXCEPT !.pc = "modify", !.value = dev.ier]
    BY AtLabel DEF ReadRow
<1>2. InOptions
    BY <1>1 DEF InOptions, IInv, CallInv
<1>3. /\ main.row \in 1..12 /\ uart.isReady /\ "TX_EMPTY" \notin dev.ier /\ ~InSend /\ ~app.sending
    BY <1>2, InRow
<1>4. dev.ier \in SUBSET Ier /\ dev.ier \in SUBSET (Ier \cup {"FIFOS_ENABLE"})
    BY States DEF Devs
<1>5. /\ main' \in Mains /\ main'.row = main.row /\ main'.setting = main.setting
      /\ main'.options = main.options
      /\ \/ Row[2] = "fcr" /\ main'.pc = "fcr" /\ main'.ier = dev.ier
         \/ Row[2] = "ier" /\ main'.pc = "modify" /\ main'.value = dev.ier
    BY <1>1, <1>4, States DEF Mains, MainLabels
<1>6. main.row > 0 /\ main.row # 0
    BY <1>3
<1>7. InOptions' /\ ~InSend' /\ Row' = Row
    BY <1>5, <1>6 DEF InOptions, InSend, Row
<1>8. SendInv'
    BY <1>1, <1>3, <1>7 DEF IInv, SendInv, NextStart
<1>9. InterruptInv'
    BY <1>1, <1>3, <1>5, <1>7 DEF InterruptInv, Saved
<1>10. OptionsInv'
    BY <1>1, <1>2, <1>5, <1>7 DEF IInv, OptionsInv
<1>11. CallInv'
    BY <1>1, <1>3, <1>5, <1>6 DEF CallInv
<1>12. QED
    BY <1>1, <1>5, <1>8, <1>9, <1>10, <1>11, States, CallStep

LEMMA ReadFcrRegisterStep ==
    ASSUME IInv, ReadFcrRegister
    PROVE  StepCorrect
<1> DEFINE d == SetIer(dev, {})
<1>1. /\ event = "none" /\ main.pc = "fcr" /\ dev' = SetIer(d, main.ier)
      /\ UNCHANGED <<uart, event, app>>
      /\ main' = [main EXCEPT !.pc = "modify", !.ier = {}, !.value = dev.fcr]
    BY AtLabel DEF ReadFcrRegister, ReadReg
<1>2. /\ DevOK(d) /\ SameOut(dev, d) /\ SameIn(dev, d) /\ d.ier = {} /\ d.thre = dev.thre
    <2>1. {} \in SUBSET Ier /\ DevOK(dev) /\ dev.thre \in BOOLEAN
        BY States DEF Devs
    <2>2. /\ DevOK(d) /\ SameOut(dev, d) /\ SameIn(dev, d) /\ d.ier = {}
          /\ d.thre <=> dev.thre \/ ("TX_EMPTY" \in {} \ dev.ier /\ dev.tx = <<>>)
        BY <2>1, SetIerEffect
    <2> HIDE DEF d
    <2>3. d.thre \in BOOLEAN
        BY <2>2 DEF DevOK, Devs
    <2>4. QED
        BY <2>1, <2>2, <2>3
<1> HIDE DEF d
<1>3. /\ DevOK(dev') /\ SameOut(d, dev') /\ SameIn(d, dev') /\ dev'.ier = main.ier
      /\ dev'.thre <=> d.thre \/ ("TX_EMPTY" \in main.ier \ d.ier /\ d.tx = <<>>)
    <2>1. main.ier \in SUBSET Ier
        BY States DEF Mains
    <2>2. QED
        BY <1>1, <1>2, <2>1, SetIerEffect
<1>4. /\ SameOut(dev, dev') /\ SameIn(dev, dev') /\ dev'.fcr = dev.fcr /\ dev'.tx = dev.tx
      /\ dev'.thre <=> dev.thre \/ ("TX_EMPTY" \in main.ier /\ dev.tx = <<>>)
    BY <1>2, <1>3 DEF SameOut, SameIn
<1>5. /\ main' \in Mains /\ main'.pc = "modify" /\ main'.value = dev.fcr /\ main'.row = main.row
      /\ main'.setting = main.setting /\ main'.options = main.options
    <2>1. dev.fcr \in SUBSET (Ier \cup {"FIFOS_ENABLE"}) /\ {} \in SUBSET Ier
        BY States DEF Devs
    <2>2. QED
        BY <1>1, <2>1, States DEF Mains, MainLabels
<1>6. uart.isReady /\ ~InSend /\ ~InSend' /\ Saved /\ ~Saved'
    BY <1>1, <1>5 DEF IInv, CallInv, InSend, Saved
<1>7. (InOptions' <=> InOptions) /\ Row' = Row
    BY <1>1, <1>5 DEF InOptions, Row
<1>8. SendInv'
    BY <1>1, <1>6 DEF IInv, SendInv, NextStart
<1>9. InterruptInv'
    BY <1>1, <1>3, <1>4, <1>6, <1>7 DEF IInv, InterruptInv
<1>10. OptionsInv'
    <2>1. ASSUME InOptions
          PROVE  Row[2] = "fcr" /\ main.ier = dev.ier
        BY <1>1, <2>1 DEF IInv, OptionsInv
    <2>2. InOptions => main'.value = dev'[Row[2]]
        BY <1>4, <1>5, <2>1
    <2>3. QED
        BY <1>1, <1>3, <1>4, <1>5, <1>7, <2>1, <2>2 DEF IInv, OptionsInv
<1>11. CallInv'
    BY <1>1, <1>4, <1>5, <1>6 DEF CallInv
<1>12. Receiver'
    <2>1. InBuffer' = InBuffer
        BY <1>1, <1>5, BufferKept
    <2>2. QED
        BY <1>1, <1>4, <2>1, ReceiverKept DEF IInv
<1>13. QED
    BY <1>1, <1>3, <1>4, <1>5, <1>8, <1>9, <1>10, <1>11, <1>12, States, ProgramStep

LEMMA WriteRowStep ==
    ASSUME IInv, WriteRow
    PROVE  StepCorrect
<1> DEFINE reg == Row[2]
           bits == WithOption(main.value)
<1>1. /\ event = "none" /\ main.pc = "modify" /\ main.row > 0 /\ RowDone /\ UNCHANGED <<uart, event>>
      /\ dev' = IF main.setting THEN WriteReg(dev, reg, bits) ELSE dev
    BY AtLabel DEF WriteRow
<1>2. InOptions
    BY <1>1 DEF InOptions
<1>3. /\ main.row \in 1..12 /\ dev.tx = <<>> /\ "TX_EMPTY" \notin dev.ier
      /\ Row = OptionsTable[main.row] /\ reg \in {"fcr", "ier"} /\ main.value = dev[reg]
      /\ main.pc # "copy"
    BY <1>1, <1>2, InRow DEF IInv, OptionsInv
<1>4. main'.pc # "copy"
    BY <1>1, RowDoneNext
<1>5. InBuffer' = InBuffer
    BY <1>1, <1>3, <1>4, BufferKept
<1>6. CASE ~main.setting
    <2>1. dev' = dev
        BY <1>1, <1>6
    <2>2. SameOut(dev, dev') /\ SameIn(dev, dev')
        BY <2>1 DEF SameOut, SameIn
    <2>3. Transmitter' /\ Receiver'
        BY <1>1, <1>5, <2>1, <2>2, TransmitterKept, ReceiverKept DEF IInv
    <2>4. QED
        BY <1>1, <1>2, <1>3, <1>6, <2>1, <2>3, States, RowDoneStep
<1>7. CASE main.setting /\ reg = "ier"
    <2>1. dev' = SetIer(dev, bits) /\ main.value = dev.ier
        BY <1>1, <1>3, <1>7 DEF WriteReg
    <2>2. Row[1] \in Ier \ {"TX_EMPTY"} /\ dev.ier \in SUBSET (Ier \ {"TX_EMPTY"})
        BY <1>3, <1>7, Table, States DEF Devs
    <2>3. bits \in SUBSET (Ier \ {"TX_EMPTY"})
        BY <2>1, <2>2, WithOptionType
    <2>4. /\ main.row = 3 => ("RX_DATA" \in bits <=> "RX_DATA" \in main.options)
          /\ main.row # 3 => ("RX_DATA" \in bits <=> "RX_DATA" \in dev.ier)
        BY <1>3, <2>1, Table DEF WithOption
    <2> HIDE DEF bits
    <2>5. /\ DevOK(dev') /\ SameOut(dev, dev') /\ SameIn(dev, dev') /\ dev'.ier = bits
          /\ dev'.thre <=> dev.thre \/ ("TX_EMPTY" \in bits \ dev.ier /\ dev.tx = <<>>)
        <3>1. bits \in SUBSET Ier /\ DevOK(dev)
            BY <2>3, States
        <3>2. QED
            BY <2>1, <3>1, SetIerEffect
    <2>6. dev'.tx = <<>>
        BY <1>3, <2>5 DEF SameOut
    <2>7. Transmitter' /\ Receiver'
        BY <1>1, <1>5, <2>5, TransmitterKept, ReceiverKept DEF IInv
    <2>8. QED
        BY <1>1, <1>2, <1>7, <2>3, <2>4, <2>5, <2>6, <2>7, RowDoneStep
<1>8. CASE main.setting /\ reg = "fcr"
    <2>1. dev' = WriteFcr(dev, bits) /\ main.row # 3
        BY <1>1, <1>3, <1>8, Table DEF WriteReg
    <2> HIDE DEF bits
    <2>2. /\ DevOK(dev') /\ dev'.tx = <<>> /\ dev'.shifter = dev.shifter /\ dev'.ier = dev.ier
          /\ dev'.thre = dev.thre
          /\ InOrder(uart.recv.data, InBuffer, dev'.rx, dev'.peer)
        <3> DEFINE b == uart.recv.data
                   c == InBuffer
        <3>1. /\ DevOK(dev) /\ InOrder(b, c, dev.rx, dev.peer) /\ c \in Nat
              /\ \A j \in 1..c : b[j] \in Int
            BY States
        <3> HIDE DEF b, c
        <3>2. /\ DevOK(dev') /\ dev'.tx = <<>> /\ dev'.shifter = dev.shifter /\ dev'.ier = dev.ier
              /\ dev'.thre = dev.thre
              /\ InOrder(b, c, dev'.rx, dev'.peer)
            BY <1>3, <2>1, <3>1, WriteFcrIdle
        <3>3. QED
            BY <3>2 DEF b, c
    <2>3. Transmitter'
        <3>1. Len(dev.tx) = 0 /\ Len(dev'.tx) = 0 /\ Depth(dev') \in Nat
            BY <1>3, <2>2, DepthType
        <3>2. uart' = uart /\ dev.tx = <<>>
            BY <1>1, <1>3
        <3>3. QED
            BY <2>2, <3>1, <3>2 DEF IInv, Transmitter
    <2>4. Receiver'
        BY <1>1, <1>5, <2>2 DEF IInv, Receiver
    <2>5. QED
        BY <1>1, <1>2, <1>3, <2>1, <2>2, <2>3, <2>4, RowDoneStep
<1>9. QED
    BY <1>3, <1>6, <1>7, <1>8

-----------------------------------------------------------------------------
(* The handler's transmitter, and the callbacks.                           *)

LEMMA SendDataStep ==
    ASSUME IInv, SendData
    PROVE  StepCorrect
<1> DEFINE d == [dev EXCEPT !.thre = FALSE]
<1>1. /\ event = "none" /\ "TX_EMPTY" \in dev.ier /\ dev.thre /\ UNCHANGED <<main, app>>
      /\ IF uart.send.remaining = 0
           THEN dev' = SetIer(d, d.ier \ {"TX_EMPTY"}) /\ event' = "SENT_DATA" /\ uart' = uart
           ELSE /\ uart' = FillDriver(uart, d) /\ dev' = EnableTx(FillDevice(uart, d), d.ier)
                /\ event' = event
    BY DEF SendData, Handler, Emptied
<1>2. /\ dev.tx = <<>> /\ ~InSend /\ ~InOptions /\ main.pc # "copy" /\ app.mode = "interrupt"
      /\ uart.isReady
    <2>1. dev.tx = <<>> /\ ~InSend /\ ~InOptions
        BY <1>1 DEF IInv, Transmitter, InterruptInv, OptionsInv
    <2>2. main.pc # "copy"
        BY <1>1 DEF IInv, CallInv
    <2>3. app.mode = "interrupt"
        BY <1>1, <2>1, States DEF IInv, InterruptInv, Apps
    <2>4. uart.isReady
        BY <2>3 DEF IInv, CallInv
    <2>5. QED
        BY <2>1, <2>2, <2>3, <2>4
<1>3. /\ DevOK(d) /\ SameOut(dev, d) /\ SameIn(dev, d) /\ d.ier = dev.ier /\ ~d.thre
    <2>1. d \in Devs /\ SameOut(dev, d) /\ SameIn(dev, d) /\ d.ier = dev.ier /\ d.thre = FALSE
        BY States DEF Devs, SameOut, SameIn
    <2>2. QED
        BY <2>1, States DEF DevOK, SameOut, SameIn
<1> HIDE DEF d
<1>4. (InSend' <=> InSend) /\ (InOptions' <=> InOptions) /\ (Saved' <=> Saved) /\ NextStart' = NextStart
    BY <1>1 DEF InSend, InOptions, Saved, NextStart
<1>5. OptionsInv'
    BY <1>2, <1>4 DEF OptionsInv
<1>6. uart.send.next + uart.send.remaining = NextStart /\ (uart.send.remaining # 0 => app.sending)
    BY <1>2 DEF IInv, SendInv
<1>7. CASE uart.send.remaining = 0
    <2>1. /\ dev' = SetIer(d, d.ier \ {"TX_EMPTY"}) /\ event' = "SENT_DATA" /\ uart' = uart
        BY <1>1, <1>7
    <2>2. d.ier \ {"TX_EMPTY"} \in SUBSET Ier
        BY <1>3 DEF DevOK, Devs
    <2>3. /\ DevOK(dev') /\ SameOut(d, dev') /\ SameIn(d, dev') /\ dev'.ier = d.ier \ {"TX_EMPTY"}
          /\ dev'.thre <=> d.thre \/ ("TX_EMPTY" \in (d.ier \ {"TX_EMPTY"}) \ d.ier /\ d.tx = <<>>)
        BY <1>3, <2>1, <2>2, SetIerEffect
    <2>4. /\ SameOut(dev, dev') /\ SameIn(dev, dev') /\ ~dev'.thre /\ dev'.tx = <<>>
          /\ dev'.ier = dev.ier \ {"TX_EMPTY"} /\ dev'.fcr = dev.fcr
        BY <1>2, <1>3, <2>3 DEF SameOut, SameIn
    <2>5. uart.send.next = NextStart
        BY <1>6, <1>7, NextStartType
    <2>6. TypeOK'
        BY <1>1, <2>1, <2>3, States, TypedNext DEF Events
    <2>7. Transmitter'
        BY <2>1, <2>4, TransmitterKept DEF IInv
    <2>8. Receiver'
        <3>1. InBuffer' = InBuffer
            BY <1>1, <1>2, <2>1, BufferKept
        <3>2. QED
            BY <2>1, <2>4, <3>1, ReceiverKept DEF IInv
    <2>9. SendInv'
        BY <1>1, <1>2, <1>4, <1>6, <1>7, <2>1, <2>4, <2>5 DEF SendInv
    <2>10. InterruptInv'
        BY <1>1, <1>2, <1>4, <2>4 DEF InterruptInv
    <2>11. CallInv'
        BY <1>1, <1>2, <2>1, <2>4 DEF IInv, CallInv
    <2>12. SentOK
        BY <1>2, <2>5 DEF SentOK
    <2>13. QED
        BY <1>5, <2>6, <2>7, <2>8, <2>9, <2>10, <2>11, <2>12 DEF StepCorrect, IInv
<1>8. CASE uart.send.remaining # 0
    <2> DEFINE e == FillDevice(uart, d)
               n == BytesToSend(uart, d)
    <2>1. uart' = FillDriver(uart, d) /\ dev' = EnableTx(e, d.ier) /\ event' = event
        BY <1>1, <1>8
    <2>2. InStep(uart, d)
        BY <1>3 DEF IInv, Transmitter, InStep, SameOut, Depth, Fifos
    <2>3. /\ DevOK(e) /\ InStep(uart', e) /\ e.ier = d.ier /\ e.fcr = d.fcr
          /\ e.thre => d.thre
          /\ \A b : \A c \in Nat : InOrder(b, c, d.rx, d.peer) => InOrder(b, c, e.rx, e.peer)
          /\ UartOK(uart') /\ uart'.recv = uart.recv /\ uart'.isReady = uart.isReady
          /\ n \in Nat /\ n <= uart.send.remaining
          /\ uart'.send.next = uart.send.next + n
          /\ uart'.send.remaining = uart.send.remaining - n
        <3>1. e = FillDevice(uart, d) /\ uart' = FillDriver(uart, d)
            BY <2>1
        <3> HIDE DEF e
        <3>2. QED
            BY <1>3, <2>2, <3>1, States, FillEffect
    <2> HIDE DEF e, n
    <2>4. d.ier \in SUBSET Ier /\ "TX_EMPTY" \in d.ier
        BY <1>1, <1>3 DEF DevOK, Devs
    <2>5. /\ DevOK(dev') /\ SameOut(e, dev') /\ SameIn(e, dev')
          /\ dev'.ier = (IF "RX_DATA" \in d.ier THEN d.ier \cup {"TX_EMPTY"} ELSE e.ier)
          /\ dev'.thre => e.thre \/ e.tx = <<>>
        <3>1. DevOK(e) /\ dev' = EnableTx(e, d.ier)
            BY <2>1, <2>3
        <3>2. /\ DevOK(dev') /\ SameOut(e, dev') /\ SameIn(e, dev')
              /\ dev'.ier = (IF "RX_DATA" \in d.ier THEN d.ier \cup {"TX_EMPTY"} ELSE e.ier)
              /\ dev'.thre => e.thre \/ e.tx = <<>>
            BY <2>4, <3>1, EnableTxEffect
        <3>3. QED
            BY <3>2
    <2>6. dev'.ier = dev.ier /\ dev'.fcr = dev.fcr
        <3>1. d.ier \cup {"TX_EMPTY"} = d.ier
            BY <2>4
        <3>2. QED
            BY <1>3, <2>3, <2>5, <3>1 DEF SameOut
    <2>7. app.sending
        BY <1>6, <1>8
    <2>8. TypeOK'
        BY <1>1, <2>1, <2>3, <2>5, States, TypedNext
    <2>9. Transmitter'
        <3>1. e.thre => e.tx = <<>>
            BY <2>3 DEF InStep
        <3>2. QED
            BY <2>3, <2>5, <3>1 DEF Transmitter, InStep, SameOut, Depth, Fifos
    <2>10. Receiver'
        <3>1. InBuffer' = InBuffer /\ InBuffer \in Nat
            BY <1>1, <1>2, <2>3, BufferKept, States
        <3>2. InOrder(uart.recv.data, InBuffer, d.rx, d.peer)
            BY <1>3, States DEF SameIn
        <3>3. InOrder(uart.recv.data, InBuffer, e.rx, e.peer)
            BY <2>3, <3>1, <3>2
        <3>4. QED
            BY <2>3, <2>5, <3>1, <3>3 DEF IInv, Receiver, SameIn
    <2>11. SendInv'
        <3> DEFINE x == uart.send.next
                   y == uart.send.remaining
        <3>1. x \in Nat /\ y \in Nat /\ x + y = NextStart
            BY <1>6, NextStartType
        <3> HIDE DEF x, y
        <3>2. (x + n) + (y - n) = NextStart
            BY <2>3, <3>1
        <3>3. uart'.send.next + uart'.send.remaining = NextStart
            BY <2>3, <3>2 DEF x, y
        <3>4. QED
            BY <1>1, <1>2, <1>4, <2>1, <2>7, <3>3 DEF SendInv
    <2>12. InterruptInv'
        BY <1>1, <1>2, <1>4, <2>7 DEF InterruptInv
    <2>13. CallInv'
        BY <1>1, <1>2, <2>3, <2>6 DEF IInv, CallInv
    <2>14. SentOK
        BY <1>1, <2>1 DEF SentOK
    <2>15. QED
        BY <1>5, <2>8, <2>9, <2>10, <2>11, <2>12, <2>13, <2>14 DEF StepCorrect, IInv
<1>9. QED
    BY <1>7, <1>8

LEMMA CallbackReturnsStep ==
    ASSUME IInv, CallbackReturns
    PROVE  StepCorrect
<1>1. /\ event \in Events /\ event' = "none" /\ UNCHANGED <<uart, dev, main>>
      /\ app' = IF event = "SENT_DATA" THEN Sent ELSE app
    BY DEF CallbackReturns
<1>2. main.pc # "copy"
    BY <1>1 DEF IInv, CallInv, Events
<1>3. SameOut(dev, dev') /\ SameIn(dev, dev') /\ dev'.thre = dev.thre
    BY <1>1 DEF SameOut, SameIn
<1>4. Transmitter'
    BY <1>1, <1>3, TransmitterKept DEF IInv
<1>5. Receiver'
    <2>1. InBuffer' = InBuffer
        BY <1>1, <1>2, BufferKept
    <2>2. QED
        BY <1>1, <1>3, <2>1, ReceiverKept DEF IInv
<1>6. (InSend' <=> InSend) /\ (InOptions' <=> InOptions) /\ (Saved' <=> Saved) /\ Row' = Row
    BY <1>1 DEF InSend, InOptions, Saved, Row
<1>7. SentOK
    BY <1>1 DEF SentOK
<1>8. CASE event = "SENT_DATA"
    <2>1. app' = [app EXCEPT !.sending = FALSE, !.start = NextStart, !.size = 0]
        BY <1>1, <1>8 DEF Sent
    <2>2. /\ dev.tx = <<>> /\ uart.send.next = NextStart /\ ~InSend /\ "TX_EMPTY" \notin dev.ier
          /\ app.mode = "interrupt" /\ ~InOptions
          /\ uart.send.next + uart.send.remaining = NextStart
        BY <1>8 DEF IInv, SendInv, OptionsInv
    <2>3. uart.send.remaining = 0
        BY <2>2, NextStartType
    <2>4. /\ app' \in Apps /\ app'.start = NextStart /\ app'.size = 0 /\ app'.mode = app.mode
        <3>1. 0 \in 0..MaxBytes /\ NextStart \in Int /\ app \in Apps
            BY UartAssumption, States, NextStartType
        <3>2. QED
            BY <2>1, <3>1 DEF Apps
    <2>5. NextStart' = NextStart
        <3>1. NextStart' = NextStart + 0
            BY <2>4 DEF NextStart
        <3>2. QED
            BY <3>1, NextStartType
    <2>6. SendInv'
        BY <1>1, <1>6, <2>2, <2>3, <2>5 DEF SendInv
    <2>7. InterruptInv'
        BY <1>1, <1>6, <2>2, <2>4 DEF InterruptInv
    <2>8. OptionsInv'
        BY <1>6, <2>2 DEF OptionsInv
    <2>9. CallInv'
        BY <1>1, <2>2 DEF IInv, CallInv
    <2>10. TypeOK'
        BY <1>1, <2>4, States, TypedNext
    <2>11. QED
        BY <1>4, <1>5, <1>7, <2>6, <2>7, <2>8, <2>9, <2>10 DEF StepCorrect, IInv
<1>9. CASE event # "SENT_DATA"
    <2>1. UNCHANGED app
        BY <1>1, <1>9
    <2>2. QED
        BY <1>1, <1>2, <1>3, <2>1, States, StillStep DEF SameIn
<1>10. QED
    BY <1>8, <1>9

LEMMA CallbackSendStep ==
    ASSUME ~SendFromReceive, IInv, NEW n \in 1..MaxBytes, CallbackSend(n)
    PROVE  StepCorrect
<1> DEFINE asked == [uart EXCEPT !.send = [next |-> NextStart, remaining |-> n]]
           d == SetIer(dev, dev.ier \ {"TX_EMPTY"})
           e == FillDevice(asked, d)
           k == BytesToSend(asked, d)
<1>1. /\ event = "SENT_DATA" /\ event' = "none" /\ UNCHANGED main
      /\ uart' = FillDriver(asked, dev) /\ dev' = EnableTx(e, e.ier)
      /\ app' = [app EXCEPT !.sending = TRUE, !.start = NextStart, !.size = n]
    BY DEF CallbackSend, SendInHandler
<1>2. /\ dev.tx = <<>> /\ uart.send.next = NextStart /\ ~InSend /\ "TX_EMPTY" \notin dev.ier
      /\ app.mode = "interrupt" /\ ~InOptions /\ main.pc # "copy" /\ uart.isReady
    BY <1>1 DEF IInv, SendInv, OptionsInv, CallInv
<1>3. n \in 0..MaxBytes /\ n \in Nat /\ NextStart \in Nat
    BY <1>2, NextStartType, UartAssumption
<1>4. /\ UartOK(asked) /\ asked.send.next = NextStart /\ asked.send.remaining = n
      /\ asked.recv = uart.recv /\ asked.isReady = uart.isReady
    BY <1>3, States, AskedToSend
<1> HIDE DEF asked
<1>5. dev.ier \ {"TX_EMPTY"} = dev.ier
    BY <1>2
<1>6. /\ DevOK(d) /\ SameOut(dev, d) /\ SameIn(dev, d) /\ d.ier = dev.ier
      /\ d.thre <=> dev.thre
    <2>1. DevOK(dev) /\ dev.ier \ {"TX_EMPTY"} \in SUBSET Ier
        BY States DEF Devs
    <2>2. /\ DevOK(d) /\ SameOut(dev, d) /\ SameIn(dev, d) /\ d.ier = dev.ier \ {"TX_EMPTY"}
          /\ d.thre <=> dev.thre \/ ("TX_EMPTY" \in (dev.ier \ {"TX_EMPTY"}) \ dev.ier /\ dev.tx = <<>>)
        BY <2>1, SetIerEffect
    <2> HIDE DEF d
    <2>3. QED
        BY <1>5, <2>2
<1>7. uart' = FillDriver(asked, d)
    <2> HIDE DEF d
    <2>1. d.tx = dev.tx /\ d.shifter = dev.shifter /\ d.fcr = dev.fcr
        BY <1>6 DEF SameOut
    <2>2. BytesToSend(asked, d) = BytesToSend(asked, dev)
        BY <2>1 DEF BytesToSend, Fifos
    <2>3. QED
        BY <1>1, <2>2 DEF FillDriver
<1> HIDE DEF d
<1>8. InStep(asked, d)
    BY <1>2, <1>4, <1>6 DEF IInv, Transmitter, InStep, SameOut, Depth, Fifos
<1>9. /\ DevOK(e) /\ InStep(uart', e) /\ e.ier = d.ier /\ e.fcr = d.fcr
      /\ e.thre => d.thre
      /\ \A b : \A c \in Nat : InOrder(b, c, d.rx, d.peer) => InOrder(b, c, e.rx, e.peer)
      /\ UartOK(uart') /\ uart'.recv = asked.recv /\ uart'.isReady = asked.isReady
      /\ k \in Nat /\ k <= asked.send.remaining
      /\ uart'.send.next = asked.send.next + k
      /\ uart'.send.remaining = asked.send.remaining - k
    <2>1. e = FillDevice(asked, d) /\ UartOK(asked) /\ DevOK(d)
        BY <1>4, <1>6
    <2>2. uart' = FillDriver(asked, d)
        BY <1>7
    <2> HIDE DEF e
    <2>3. QED
        BY <1>8, <2>1, <2>2, FillEffect
<1> HIDE DEF e, k
<1>10. e.ier \in SUBSET Ier
    BY <1>9 DEF DevOK, Devs
<1>11. /\ DevOK(dev') /\ SameOut(e, dev') /\ SameIn(e, dev')
       /\ dev'.thre => e.thre \/ e.tx = <<>>
    BY <1>1, <1>9, <1>10, EnableTxEffect
<1>12. dev'.fcr = dev.fcr
    BY <1>6, <1>9, <1>11 DEF SameOut
<1>13. /\ app' \in Apps /\ app'.sending /\ app'.start = NextStart /\ app'.size = n
       /\ app'.mode = app.mode
    <2>1. app \in Apps /\ NextStart \in Int
        BY <1>3, States
    <2>2. app' = [app EXCEPT !.sending = TRUE, !.start = NextStart, !.size = n]
        BY <1>1
    <2>3. QED
        BY <1>3, <2>1, <2>2 DEF Apps
<1>14. (InSend' <=> InSend) /\ (InOptions' <=> InOptions) /\ (Saved' <=> Saved)
    BY <1>1 DEF InSend, InOptions, Saved
<1>15. TypeOK'
    BY <1>1, <1>9, <1>11, <1>13, States, TypedNext
<1>16. Transmitter'
    <2>1. e.thre => e.tx = <<>>
        BY <1>9 DEF InStep
    <2>2. QED
        BY <1>9, <1>11, <2>1 DEF Transmitter, InStep, SameOut, Depth, Fifos
<1>17. Receiver'
    <2>1. InBuffer' = InBuffer /\ InBuffer \in Nat
        BY <1>1, <1>2, <1>4, <1>9, BufferKept, States
    <2>2. InOrder(uart.recv.data, InBuffer, d.rx, d.peer)
        BY <1>6, States DEF SameIn
    <2>3. InOrder(uart.recv.data, InBuffer, e.rx, e.peer)
        BY <1>9, <2>1, <2>2
    <2>4. QED
        BY <1>4, <1>9, <1>11, <2>1, <2>3 DEF IInv, Receiver, SameIn
<1>18. SendInv'
    <2>1. NextStart' = NextStart + n
        BY <1>13 DEF NextStart
    <2> DEFINE x == NextStart
    <2>2. x \in Nat /\ uart'.send.next = x + k /\ uart'.send.remaining = n - k
        BY <1>3, <1>4, <1>9
    <2> HIDE DEF x
    <2>3. uart'.send.next + uart'.send.remaining = x + n
        BY <1>3, <1>9, <2>2
    <2>4. QED
        BY <1>1, <1>2, <1>13, <1>14, <2>1, <2>3 DEF SendInv, x
<1>19. InterruptInv'
    BY <1>2, <1>13, <1>14 DEF InterruptInv
<1>20. OptionsInv'
    BY <1>2, <1>14 DEF OptionsInv
<1>21. CallInv'
    BY <1>1, <1>2, <1>4, <1>9, <1>12 DEF IInv, CallInv
<1>22. SentOK
    BY <1>1 DEF SentOK
<1>23. QED
    BY <1>15, <1>16, <1>17, <1>18, <1>19, <1>20, <1>21, <1>22 DEF StepCorrect, IInv

-----------------------------------------------------------------------------
(* The theorems.                                                           *)

LEMMA InitCorrect ==
    ASSUME Init
    PROVE  IInv
<1>1. /\ uart = [isReady |-> FALSE, handler |-> "stub", lastErrors |-> FALSE, baudRate |-> 0,
                 send |-> [next |-> 1, remaining |-> 0], recv |-> [data |-> <<>>, remaining |-> 0]]
      /\ dev = [ier |-> {}, lcr |-> {}, mcr |-> {}, fcr |-> {}, trigger |-> FifoDepth, divisor |-> 0,
                tx |-> <<>>, shifter |-> <<>>, thre |-> FALSE,
                rx |-> <<>>, overrun |-> FALSE, peer |-> 1, modem |-> FALSE]
      /\ main = NoCall /\ event = "none"
      /\ app = [mode |-> "polled", sending |-> FALSE, start |-> 1, size |-> 0]
    BY DEF Init
<1>2. /\ 0 \in 0..MaxBytes /\ 0 \in 0..MaxRecv /\ FifoDepth \in 1..FifoDepth /\ FifoDepth \in Nat
      /\ 0 <= MaxRecv /\ 0 <= FifoDepth
    BY UartAssumption
<1>3. <<>> \in Seq(Entries) /\ <<>> \in Seq(Nat) /\ Len(<<>>) = 0 /\ \A k \in 1..0 : FALSE
    OBVIOUS
<1>4. UartOK(uart)
    BY <1>1, <1>2, <1>3 DEF UartOK, Uarts
<1>5. DevOK(dev)
    BY <1>1, <1>2, <1>3 DEF DevOK, Devs
<1>6. main \in Mains /\ main.pc = "app"
    BY <1>1, NoCallType DEF NoCall
<1>7. app \in Apps
    BY <1>1, <1>2 DEF Apps
<1>8. TypeOK
    BY <1>1, <1>4, <1>5, <1>6, <1>7, Typed
<1>9. Transmitter
    <2>1. Depth(dev) \in Nat /\ uart.send.next = 0 + 0 + 1
        BY <1>1, DepthType
    <2>2. QED
        BY <1>1, <1>3, <2>1 DEF Transmitter, Numbered
<1>10. Receiver
    <2>1. InBuffer = 0
        BY <1>1, <1>3, <1>6 DEF InBuffer, Stored
    <2>2. InOrder(<<>>, 0, <<>>, 1)
        BY <1>3 DEF InOrder
    <2>3. QED
        BY <1>1, <1>3, <2>1, <2>2 DEF Receiver
<1>11. ~InSend /\ ~InOptions /\ ~Saved
    BY <1>6 DEF InSend, InOptions, Saved
<1>12. SendInv
    <2>1. NextStart = 1 + 0 /\ uart.send.next + uart.send.remaining = 1 + 0
        BY <1>1 DEF NextStart
    <2>2. QED
        BY <1>1, <1>11, <2>1 DEF SendInv
<1>13. InterruptInv
    BY <1>1, <1>11 DEF InterruptInv
<1>14. OptionsInv
    BY <1>11 DEF OptionsInv
<1>15. CallInv
    BY <1>1, <1>6 DEF CallInv
<1>16. QED
    BY <1>8, <1>9, <1>10, <1>12, <1>13, <1>14, <1>15 DEF IInv

LEMMA CallsStep ==
    ASSUME IInv, Calls
    PROVE  StepCorrect
<1>1. CASE UARTInit \/ SetHandler
    BY <1>1, UARTInitStep, SetHandlerStep
<1>2. ASSUME NEW baud \in BaudRates, NEW bits \in Formats, SetDataFormat(baud, bits)
      PROVE  StepCorrect
    BY <1>2, SetDataFormatStep
<1>3. ASSUME NEW baud \in BaudRates, ChangeBaud(baud)
      PROVE  StepCorrect
    BY <1>3, ChangeBaudStep
<1>4. ASSUME NEW n \in 1..MaxBytes, SendBegin(n)
      PROVE  StepCorrect
    BY <1>4, SendBeginStep
<1>5. ASSUME NEW n \in 1..MaxRecv, RecvBegin(n)
      PROVE  StepCorrect
    BY <1>5, RecvBeginStep
<1>6. ASSUME NEW o \in OptionSets, NEW setting \in BOOLEAN, OptionsBegin(o, setting)
      PROVE  StepCorrect
    BY <1>6, OptionsBeginStep
<1>7. ASSUME NEW setting \in BOOLEAN, ThresholdBegin(setting)
      PROVE  StepCorrect
    BY <1>7, ThresholdBeginStep
<1>8. CASE GetLastErrors \/ IsSending \/ GetModemStatus
    BY <1>8, GetLastErrorsStep, IsSendingStep, GetModemStatusStep
<1>9. QED
    BY <1>1, <1>2, <1>3, <1>4, <1>5, <1>6, <1>7, <1>8 DEF Calls

LEMMA ProgramSteps ==
    ASSUME IInv, Program
    PROVE  StepCorrect
<1>1. CASE SendFill \/ SendReadIer \/ SendEnable \/ SendAgain
    BY <1>1, SendFillStep, SendReadIerStep, SendEnableStep, SendAgainStep
<1>2. CASE RecvMask \/ RecvStore \/ RecvStop \/ RecvRestore
    BY <1>2, RecvMaskStep, RecvStoreStep, RecvStopStep, RecvRestoreStep
<1>3. CASE SetRow \/ ReadRow \/ ReadFcrRegister \/ WriteRow
    BY <1>3, SetRowStep, ReadRowStep, ReadFcrRegisterStep, WriteRowStep
<1>4. CASE GetFifoThreshold
    BY <1>4, GetFifoThresholdStep
<1>5. ASSUME NEW level \in Thresholds, SetFifoThreshold(level)
      PROVE  StepCorrect
    BY <1>5, SetFifoThresholdStep
<1>6. QED
    BY <1>1, <1>2, <1>3, <1>4, <1>5 DEF Program

LEMMA HandlerSteps ==
    ASSUME IInv, InterruptHandler
    PROVE  StepCorrect
BY ReceiveStatusStep, ReceiveStep, SendDataStep, ModemStatusStep, NoInterruptStep,
   HandlerStoreStep, HandlerStopStep DEF InterruptHandler

LEMMA CallbackSteps ==
    ASSUME ~SendFromReceive, IInv, Callback
    PROVE  StepCorrect
<1>1. ASSUME NEW n \in 1..MaxRecv, CallbackRecv(n)
      PROVE  StepCorrect
    BY <1>1, CallbackRecvStep
<1>2. ASSUME NEW n \in 1..MaxBytes, CallbackSend(n)
      PROVE  StepCorrect
    BY <1>2, CallbackSendStep
<1>3. QED
    BY <1>1, <1>2, CallbackReturnsStep DEF Callback

LEMMA NextCorrect ==
    ASSUME ~SendFromReceive, IInv, [Next]_vars
    PROVE  StepCorrect
<1>1. CASE UNCHANGED vars
    <2>1. UNCHANGED <<uart, dev, main, event, app>>
        BY <1>1 DEF vars
    <2>2. SameOut(dev, dev') /\ (main.pc = "copy" => event = "none")
        BY <2>1 DEF SameOut, IInv, CallInv
    <2>3. QED
        BY <2>1, <2>2, States, StillStep
<1>2. CASE Load \/ ShiftOut \/ ModemInput
    BY <1>2, LoadStep, ShiftOutStep, ModemInputStep
<1>3. ASSUME NEW kind \in {"data", "break"}, Arrive(kind)
      PROVE  StepCorrect
    BY <1>3, ArriveStep
<1>4. CASE Calls \/ Program \/ InterruptHandler \/ Callback
    BY <1>4, CallsStep, ProgramSteps, HandlerSteps, CallbackSteps
<1>5. QED
    BY <1>1, <1>2, <1>3, <1>4 DEF Next

(* While only the callback for sent data sends: the program, the handler   *)
(* and the callbacks of xuartns550*.c keep the transmitter, the receiver,  *)
(* the message and the interrupt enables in step, whichever way they       *)
(* interrupt each other.                                                   *)
THEOREM UartInvariance ==
    ASSUME ~SendFromReceive
    PROVE  Spec => []IInv
<1>1. Init => IInv
    BY InitCorrect
<1>2. IInv /\ [Next]_vars => IInv'
    BY NextCorrect DEF StepCorrect
<1>3. QED
    BY <1>1, <1>2, PTL DEF Spec

(* Every register, count and buffer of the driver and of its device stays  *)
(* in range: no FIFO holds more than it can, and no buffer is overrun.     *)
THEOREM UartTypeCorrect ==
    ASSUME ~SendFromReceive
    PROVE  Spec => []TypeOK
<1>1. IInv => TypeOK
    BY DEF IInv
<1>2. QED
    BY <1>1, UartInvariance, PTL

(* XUartNs550_Send() in the program, in the handler and in the callback    *)
(* hands every byte of every message to the device once and in order.      *)
THEOREM TransmitsCorrect ==
    ASSUME ~SendFromReceive
    PROVE  Spec => []TransmitsInOrder
<1>1. IInv => TransmitsInOrder
    BY TransmitsFromInvariant DEF IInv
<1>2. QED
    BY <1>1, UartInvariance, PTL

(* Every byte that the device has taken in is in the receive buffer or in  *)
(* the FIFO, once and in order, while XUartNs550_ReceiveBuffer() copies in *)
(* the program or in the handler.                                          *)
THEOREM ReceivesCorrect ==
    ASSUME ~SendFromReceive
    PROVE  Spec => []ReceivesInOrder
<1>1. IInv => ReceivesInOrder
    BY ReceivesFromInvariant DEF IInv
<1>2. QED
    BY <1>1, UartInvariance, PTL

(* SendDataHandler() reports a message only when all of it is handed over  *)
(* and the transmitter's FIFO is empty.                                    *)
THEOREM SentCorrect ==
    ASSUME ~SendFromReceive
    PROVE  Spec => SentIsSent
<1>1. IInv /\ [Next]_vars =>
          [event' = "SENT_DATA" /\ event # "SENT_DATA" =>
               dev.tx = <<>> /\ uart.send.next = NextStart]_vars
    BY NextCorrect DEF StepCorrect, SentOK
<1>2. QED
    BY <1>1, UartInvariance, PTL DEF Spec, SentIsSent
=============================================================================
