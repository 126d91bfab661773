----------------------------- MODULE DeviceProofs -----------------------------
(***************************************************************************)
(* Proofs about the devices behind IOC2, for every behaviour of Ioc2's     *)
(* Spec, whatever interrupt handlers, ticks, host input and program do in  *)
(* between.                                                                *)
(***************************************************************************)
EXTENDS Ioc2, TLAPS, SequenceTheorems, WellFoundedInduction

-----------------------------------------------------------------------------
(* Division                                                                *)

\* Quotient and remainder.
LEMMA DivMod ==
  ASSUME NEW a \in Int, NEW m \in Nat \ {0}
  PROVE  \E q \in Int, r \in 0 .. m - 1 : a \div m = q /\ a % m = r /\ a = m * q + r
<1>1. PICK q \in Int : q = a \div m
  OBVIOUS
<1>2. PICK r \in 0 .. m - 1 : r = a % m
  OBVIOUS
<1>3. a = m * q + r
  BY <1>1, <1>2
<1>. QED BY <1>1, <1>2, <1>3

\* They are determined by that.
LEMMA ModUnique ==
  ASSUME NEW q \in Int, NEW m \in Nat \ {0}, NEW r \in 0 .. m - 1
  PROVE  (m * q + r) % m = r /\ (m * q + r) \div m = q
<1>0. PICK a \in Int : a = m * q + r
  OBVIOUS
<1>1. PICK d \in Int, e \in 0 .. m - 1 : a \div m = d /\ a % m = e /\ a = m * d + e
  BY DivMod
<1>2. m * (q - d) = e - r
  BY <1>0, <1>1
<1>3. q = d
  <2>1. CASE q >= d + 1
    <3>1. m * (q - d) >= m
      BY <2>1, <1>1
    <3>. QED BY <3>1, <1>2, <1>1
  <2>2. CASE q <= d - 1
    <3>1. m * (q - d) <= -m
      BY <2>2, <1>1
    <3>. QED BY <3>1, <1>2, <1>1
  <2>. QED BY <2>1, <2>2, <1>1
<1>. QED BY <1>0, <1>1, <1>2, <1>3

\* A position of the ring that is at most one turn away.
LEMMA RingAt ==
  ASSUME NEW m \in Nat \ {0}, NEW a \in 0 .. 2 * m - 1
  PROVE  a % m = IF a < m THEN a ELSE a - m
<1>1. CASE a < m
  BY <1>1, ModUnique, m * 0 + a = a
<1>2. CASE a >= m
  <2>1. m * 1 + (a - m) = a /\ a - m \in 0 .. m - 1
    BY <1>2
  <2>. QED BY <2>1, <1>2, ModUnique
<1>. QED BY <1>1, <1>2
-----------------------------------------------------------------------------
(* Concatenation                                                           *)

\* Concatenation as an operator of its own, which the provers take whole.
Cat(x, y) == x \o y

LEMMA CatType == \A S : \A x, y \in Seq(S) : Cat(x, y) \in Seq(S)
  BY DEF Cat

LEMMA CatAssoc == \A S : \A x, y, z \in Seq(S) : Cat(x, Cat(y, z)) = Cat(Cat(x, y), z)
  BY ConcatAssociative DEF Cat

LEMMA Regroup ==
  ASSUME NEW S, NEW A \in Seq(S), NEW B \in Seq(S), NEW C \in Seq(S), NEW D \in Seq(S)
  PROVE  Cat(Cat(A, B), Cat(C, D)) = Cat(Cat(A, Cat(B, C)), D)
<1>1. Cat(A, B) \in Seq(S)
  BY CatType
<1>2. Cat(Cat(A, B), Cat(C, D)) = Cat(Cat(Cat(A, B), C), D)
  BY <1>1, CatAssoc
<1>. QED BY <1>2, CatAssoc

-----------------------------------------------------------------------------
(* The console's input                                                     *)

LEMMA SlotAt ==
  \A a \in Int : 0 <= a /\ a < RxFifo + RxFifo =>
    /\ a % RxFifo = IF a < RxFifo THEN a ELSE a - RxFifo
    /\ a % RxFifo \in 0 .. RxFifo - 1
<1> SUFFICES ASSUME NEW a \in Int, 0 <= a, a < RxFifo + RxFifo
             PROVE  /\ a % RxFifo = IF a < RxFifo THEN a ELSE a - RxFifo
                    /\ a % RxFifo \in 0 .. RxFifo - 1
  OBVIOUS
<1>1. RxFifo \in Nat \ {0} /\ a \in 0 .. 2 * RxFifo - 1
  BY SccAssumption
<1>2. a % RxFifo = IF a < RxFifo THEN a ELSE a - RxFifo
  BY <1>1, RingAt
<1>. QED BY <1>1, <1>2

SccFields == {"ptr", "wr1", "tx_busy", "drain", "tx_ip",
              "rx_fifo", "rx_wptr", "rx_rptr", "rx_count", "poll"}

\* The characters in a controller's ring, oldest first.
RingOf(s) == [i \in 1 .. s.rx_count |-> s.rx_fifo[(s.rx_rptr + i - 1) % RxFifo]]

\* A controller whose ring is in order.
RingOk(s) ==
  /\ s = [f \in SccFields |-> s[f]]
  /\ s.rx_count \in 0 .. RxFifo
  /\ s.rx_rptr \in 0 .. RxFifo - 1
  /\ s.rx_wptr = (s.rx_rptr + s.rx_count) % RxFifo
  /\ s.rx_fifo = [k \in 0 .. RxFifo - 1 |-> s.rx_fifo[k]]
  /\ RingOf(s) \in Seq(Chars)

\* The inductive invariant.
SccInv ==
  /\ RingOk(scc)
  /\ got \in Seq(Chars)
  /\ stdin \in Seq(Chars)
  /\ typed = got \o RingOf(scc) \o stdin

SameRing(s, t) ==
  /\ t = [f \in SccFields |-> t[f]]
  /\ t.rx_fifo = s.rx_fifo
  /\ t.rx_wptr = s.rx_wptr
  /\ t.rx_rptr = s.rx_rptr
  /\ t.rx_count = s.rx_count

LEMMA SameRingIs ==
  ASSUME NEW s, RingOk(s), NEW t, SameRing(s, t)
  PROVE  RingOk(t) /\ RingOf(t) = RingOf(s)
  BY DEF RingOk, SameRing, RingOf

\* Nothing but a data read and the poll touches the ring.
LEMMA CtrlReadSame ==
  ASSUME NEW s, RingOk(s), NEW ch
  PROVE  SameRing(s, CtrlRead(s, ch))
  BY DEF RingOk, SameRing, CtrlRead, SccFields

LEMMA DataWriteSame ==
  ASSUME NEW s, RingOk(s), NEW ch
  PROVE  SameRing(s, DataWrite(s, ch))
  BY DEF RingOk, SameRing, DataWrite, SccFields

LEMMA CtrlWriteSame ==
  ASSUME NEW s, RingOk(s), NEW ch, NEW b
  PROVE  SameRing(s, CtrlWrite(s, ch, b))
  BY DEF RingOk, SameRing, CtrlWrite, SccFields

LEMMA DrainedSame ==
  ASSUME NEW s, RingOk(s)
  PROVE  SameRing(s, Drained(s))
  BY DEF RingOk, SameRing, Drained, SccFields

\* A data read takes the oldest character of the ring.
LEMMA DataReadTakes ==
  ASSUME NEW s, RingOk(s)
  PROVE  /\ RingOk(DataRead(s))
         /\ DataReadValue(s) \in Seq(Chars)
         /\ RingOf(s) = DataReadValue(s) \o RingOf(DataRead(s))
<1>1. CASE ~(s.rx_count > 0)
  <2>1. DataRead(s) = s /\ DataReadValue(s) = <<>>
    BY <1>1 DEF DataRead, DataReadValue
  <2>2. RingOf(s) \in Seq(Chars)
    BY DEF RingOk
  <2>. QED BY <2>1, <2>2
<1>2. CASE s.rx_count > 0
  <2>1. PICK t : t = DataRead(s)
    OBVIOUS
  <2>2. /\ t = [f \in SccFields |-> t[f]]
        /\ t.rx_count = s.rx_count - 1 /\ t.rx_rptr = (s.rx_rptr + 1) % RxFifo
        /\ t.rx_wptr = s.rx_wptr /\ t.rx_fifo = s.rx_fifo
    BY <1>2, <2>1 DEF DataRead, RingOk, SccFields
  <2>a. PICK r \in Nat, n \in Nat : r = s.rx_rptr /\ n = s.rx_count /\ r < RxFifo /\ n <= RxFifo
    <3>1. s.rx_count \in 0 .. RxFifo /\ s.rx_rptr \in 0 .. RxFifo - 1
      BY DEF RingOk
    <3>. QED BY <3>1, SccAssumption
  <2>b. /\ (r + 1) % RxFifo = IF r + 1 < RxFifo THEN r + 1 ELSE r + 1 - RxFifo
        /\ (r + 1) % RxFifo \in 0 .. RxFifo - 1
    <3>1. r + 1 \in Int /\ 0 <= r + 1 /\ r + 1 < RxFifo + RxFifo
      BY <2>a, SccAssumption
    <3>. QED BY <3>1, SlotAt, SccAssumption
  <2>3. PICK v \in Nat : v = t.rx_rptr /\ v = (IF r + 1 < RxFifo THEN r + 1 ELSE r + 1 - RxFifo)
    BY <2>a, <2>b, <2>2
  <2>4. r < RxFifo /\ n <= RxFifo /\ n >= 1 /\ v < RxFifo
    BY <1>2, <2>a, <2>3, SccAssumption
  <2>5. \A i \in 1 .. n - 1 : (v + i - 1) % RxFifo = (r + (i + 1) - 1) % RxFifo
    BY <2>3, <2>4, SccAssumption, SlotAt
  <2>6. (v + (n - 1)) % RxFifo = (r + n) % RxFifo
    BY <2>3, <2>4, SccAssumption, SlotAt
  <2>7. (r + 1 - 1) % RxFifo = r
    BY <2>3, <2>4, SccAssumption, SlotAt
  <2>. DEFINE R == RingOf(s)
  <2>8. R \in Seq(Chars) /\ Len(R) = n /\ \A i \in 1 .. n : R[i] = s.rx_fifo[(r + i - 1) % RxFifo]
    BY <2>a DEF RingOf, RingOk
  <2>9. DataReadValue(s) = <<R[1]>>
    BY <2>8, <2>7, <2>4, <2>a, <1>2 DEF DataReadValue
  <2>10. RingOf(t) = [i \in 1 .. n - 1 |-> R[i + 1]]
    <3>1. t.rx_count = n - 1 /\ t.rx_rptr = v /\ t.rx_fifo = s.rx_fifo
      BY <2>2, <2>a, <2>3
    <3>2. \A i \in 1 .. n - 1 : R[i + 1] = s.rx_fifo[(r + (i + 1) - 1) % RxFifo]
      <4>1. \A i \in 1 .. n - 1 : i + 1 \in 1 .. n
        BY <2>4
      <4>. HIDE DEF R
      <4>. QED BY <4>1, <2>8
    <3>3. \A i \in 1 .. n - 1 : s.rx_fifo[(v + i - 1) % RxFifo] = R[i + 1]
      BY <3>2, <2>5
    <3>. HIDE DEF R
    <3>. QED BY <3>1, <3>3 DEF RingOf
  <2>11. RingOf(t) \in Seq(Chars)
    BY <2>10, <2>8, <2>4
  <2>12. R = <<R[1]>> \o RingOf(t)
    BY <2>10, <2>8, <2>4
  <2>13. RingOk(t)
    <3>1. t.rx_wptr = (t.rx_rptr + t.rx_count) % RxFifo
      <4>1. s.rx_wptr = (s.rx_rptr + s.rx_count) % RxFifo
        BY DEF RingOk
      <4>. QED BY <4>1, <2>2, <2>a, <2>3, <2>6
    <3>2. t.rx_count \in 0 .. RxFifo /\ t.rx_rptr \in 0 .. RxFifo - 1
      BY <2>2, <2>a, <2>3, <2>4, SccAssumption
    <3>3. t.rx_fifo = [k \in 0 .. RxFifo - 1 |-> t.rx_fifo[k]]
      BY <2>2 DEF RingOk
    <3>. QED BY <3>1, <3>2, <3>3, <2>2, <2>11 DEF RingOk
  <2>. QED BY <2>1, <2>8, <2>9, <2>12, <2>13, <2>4
<1>. QED BY <1>1, <1>2 DEF RingOk

\* The places of the ring are different, and the write pointer walks over
\* them from behind the last character.
LEMMA Places ==
  ASSUME NEW r \in 0 .. RxFifo - 1
  PROVE  /\ \A x \in 0 .. RxFifo - 1 : (r + x) % RxFifo \in 0 .. RxFifo - 1
         /\ \A x, y \in 0 .. RxFifo - 1 : (r + x) % RxFifo = (r + y) % RxFifo => x = y
         /\ \A c \in 0 .. RxFifo : \A i \in 1 .. RxFifo - c :
              (((r + c) % RxFifo) + i - 1) % RxFifo = (r + (c + i - 1)) % RxFifo
         /\ \A c \in 0 .. RxFifo : \A n \in 0 .. RxFifo - c :
              (((r + c) % RxFifo) + n) % RxFifo = (r + (c + n)) % RxFifo
<1>1. RxFifo \in Nat /\ RxFifo > 0
  BY SccAssumption
<1>2. \A x \in 0 .. RxFifo : r + x \in Int /\ 0 <= r + x /\ r + x < RxFifo + RxFifo
  BY <1>1
<1>3. \A x \in 0 .. RxFifo : /\ (r + x) % RxFifo = IF r + x < RxFifo THEN r + x ELSE r + x - RxFifo
                             /\ (r + x) % RxFifo \in 0 .. RxFifo - 1
  BY <1>1, <1>2, SlotAt
<1>4. \A x, y \in 0 .. RxFifo - 1 : (r + x) % RxFifo = (r + y) % RxFifo => x = y
  BY <1>1, <1>3
<1>5. ASSUME NEW c \in 0 .. RxFifo, NEW m \in 0 .. RxFifo - c
      PROVE  (((r + c) % RxFifo) + m) % RxFifo = (r + (c + m)) % RxFifo
  <2>1. PICK w \in 0 .. RxFifo - 1 : /\ w = (r + c) % RxFifo
                                     /\ w = IF r + c < RxFifo THEN r + c ELSE r + c - RxFifo
    BY <1>1, <1>3
  <2>2. w + m \in Int /\ 0 <= w + m /\ w + m < RxFifo + RxFifo
    BY <1>1, <2>1
  <2>3. (w + m) % RxFifo = IF w + m < RxFifo THEN w + m ELSE w + m - RxFifo
    BY <1>1, <2>2, SlotAt
  <2>4. c + m \in 0 .. RxFifo
    BY <1>1
  <2>5. (r + (c + m)) % RxFifo = IF r + (c + m) < RxFifo THEN r + (c + m) ELSE r + (c + m) - RxFifo
    BY <1>3, <2>4
  <2>6. (w + m) % RxFifo = (r + (c + m)) % RxFifo
    BY <1>1, <2>1, <2>3, <2>5
  <2>. QED BY <2>1, <2>6
<1>6. \A c \in 0 .. RxFifo : \A i \in 1 .. RxFifo - c :
         (((r + c) % RxFifo) + i - 1) % RxFifo = (r + (c + i - 1)) % RxFifo
  <2> SUFFICES ASSUME NEW c \in 0 .. RxFifo, NEW i \in 1 .. RxFifo - c
               PROVE  (((r + c) % RxFifo) + i - 1) % RxFifo = (r + (c + i - 1)) % RxFifo
    OBVIOUS
  <2>1. i - 1 \in 0 .. RxFifo - c /\ c + (i - 1) = c + i - 1
    BY <1>1
  <2>2. ((r + c) % RxFifo) + (i - 1) = ((r + c) % RxFifo) + i - 1
    BY <1>1, <1>3
  <2>3. (((r + c) % RxFifo) + (i - 1)) % RxFifo = (r + (c + (i - 1))) % RxFifo
    BY <1>5, <2>1
  <2>. QED BY <2>1, <2>2, <2>3
<1>. QED BY <1>1, <1>3, <1>4, <1>5, <1>6

Polled(s) == Smaller(RxFifo - s.rx_count, Len(stdin))

\* The poll appends to the ring what it takes from the host.
LEMMA PollAppends ==
  ASSUME NEW s, RingOk(s), stdin \in Seq(Chars)
  PROVE  /\ Polled(s) \in 0 .. Len(stdin)
         /\ RingOk(rx_poll(s))
         /\ rx_poll(s).rx_count = s.rx_count + Polled(s)
         /\ RingOf(rx_poll(s)) = RingOf(s) \o SubSeq(stdin, 1, Polled(s))
<1>1. PICK r \in Nat, c \in Nat : r = s.rx_rptr /\ c = s.rx_count /\ r < RxFifo /\ c <= RxFifo
  <2>1. s.rx_count \in 0 .. RxFifo /\ s.rx_rptr \in 0 .. RxFifo - 1
    BY DEF RingOk
  <2>. QED BY <2>1, SccAssumption
<1>2. PICK n \in Nat : n = Polled(s) /\ n <= Len(stdin) /\ n <= RxFifo - c
  BY <1>1, SccAssumption DEF Polled, Smaller
<1>. DEFINE P(x) == (r + x) % RxFifo
            Slot(i) == (s.rx_wptr + i - 1) % RxFifo
            G == [k \in DOMAIN s.rx_fifo |->
                   IF \E i \in 1 .. n : Slot(i) = k
                     THEN stdin[CHOOSE i \in 1 .. n : Slot(i) = k]
                     ELSE s.rx_fifo[k]]
<1>3. PICK t : t = rx_poll(s)
  OBVIOUS
<1>4. /\ t = [f \in SccFields |-> t[f]]
      /\ t.rx_fifo = G /\ t.rx_wptr = (s.rx_wptr + n) % RxFifo
      /\ t.rx_count = c + n /\ t.rx_rptr = r
  <2>1. /\ t.rx_wptr = (s.rx_wptr + n) % RxFifo /\ t.rx_count = c + n /\ t.rx_rptr = r
        /\ t = [f \in SccFields |-> t[f]]
    BY <1>1, <1>2, <1>3 DEF RingOk, SccFields, rx_poll, Polled
  <2>2. t.rx_fifo = G
    BY <1>1, <1>2, <1>3 DEF RingOk, SccFields, rx_poll, Polled
  <2>. QED BY <2>1, <2>2
<1>5. r \in 0 .. RxFifo - 1 /\ c \in 0 .. RxFifo /\ n \in 0 .. RxFifo - c
  BY <1>1, <1>2, SccAssumption
<1>6. DOMAIN s.rx_fifo = 0 .. RxFifo - 1 /\ s.rx_wptr = (r + c) % RxFifo
  BY <1>1 DEF RingOk
<1>7. \A i \in 1 .. n : Slot(i) = P(c + i - 1)
  <2>1. \A i \in 1 .. n : i \in 1 .. RxFifo - c
    BY <1>5, SccAssumption
  <2>2. \A i \in 1 .. n : (((r + c) % RxFifo) + i - 1) % RxFifo = (r + (c + i - 1)) % RxFifo
    BY <2>1, <1>5, Places
  <2>. QED BY <2>2, <1>6
<1>8. \A x \in 0 .. RxFifo - 1 : P(x) \in DOMAIN s.rx_fifo
  BY <1>5, <1>6, Places
<1>9. \A x, y \in 0 .. RxFifo - 1 : P(x) = P(y) => x = y
  BY <1>5, Places
<1>. HIDE DEF P, Slot
<1>10. \A j \in 1 .. c : G[P(j - 1)] = s.rx_fifo[P(j - 1)]
  <2> SUFFICES ASSUME NEW j \in 1 .. c PROVE G[P(j - 1)] = s.rx_fifo[P(j - 1)]
    OBVIOUS
  <2>1. j - 1 \in 0 .. RxFifo - 1 /\ P(j - 1) \in DOMAIN s.rx_fifo
    BY <1>5, <1>8, SccAssumption
  <2>2. ASSUME NEW i \in 1 .. n, Slot(i) = P(j - 1) PROVE FALSE
    <3>1. c + i - 1 \in 0 .. RxFifo - 1 /\ c + i - 1 # j - 1
      BY <1>5, SccAssumption
    <3>. QED BY <3>1, <2>1, <2>2, <1>7, <1>9
  <2>. QED BY <2>1, <2>2
<1>11. \A i \in 1 .. n : G[P(c + i - 1)] = stdin[i]
  <2> SUFFICES ASSUME NEW i \in 1 .. n PROVE G[P(c + i - 1)] = stdin[i]
    OBVIOUS
  <2>1. \A k \in 1 .. n : c + k - 1 \in 0 .. RxFifo - 1
    BY <1>5, SccAssumption
  <2>2. Slot(i) = P(c + i - 1) /\ P(c + i - 1) \in DOMAIN s.rx_fifo
    BY <2>1, <1>7, <1>8
  <2>3. \A k \in 1 .. n : Slot(k) = P(c + i - 1) => k = i
    <3> SUFFICES ASSUME NEW k \in 1 .. n, Slot(k) = P(c + i - 1) PROVE k = i
      OBVIOUS
    <3>1. c + k - 1 = c + i - 1
      BY <2>1, <1>7, <1>9
    <3>. QED BY <3>1, <1>5
  <2>4. (CHOOSE k \in 1 .. n : Slot(k) = P(c + i - 1)) = i
    BY <2>2, <2>3
  <2>. QED BY <2>2, <2>4
<1>. HIDE DEF G
<1>12. \A j \in 1 .. c + n : t.rx_fifo[(t.rx_rptr + j - 1) % RxFifo]
                              = IF j <= c THEN RingOf(s)[j] ELSE stdin[j - c]
  <2> SUFFICES ASSUME NEW j \in 1 .. c + n
               PROVE  t.rx_fifo[(r + j - 1) % RxFifo] = IF j <= c THEN RingOf(s)[j] ELSE stdin[j - c]
    BY <1>4
  <2>1. (r + j - 1) % RxFifo = P(j - 1)
    BY <1>5, r + (j - 1) = r + j - 1 DEF P
  <2>2. CASE j <= c
    <3>1. j \in 1 .. c
      BY <2>2, <1>5
    <3>2. RingOf(s)[j] = s.rx_fifo[(r + j - 1) % RxFifo]
      BY <3>1, <1>1 DEF RingOf
    <3>. QED BY <2>1, <2>2, <3>1, <3>2, <1>10, <1>4
  <2>3. CASE ~(j <= c)
    <3>1. j - c \in 1 .. n /\ c + (j - c) - 1 = j - 1
      BY <2>3, <1>5
    <3>. QED BY <2>1, <2>3, <3>1, <1>11, <1>4
  <2>. QED BY <2>2, <2>3
<1>13. RingOf(s) \in Seq(Chars) /\ Len(RingOf(s)) = c
  BY <1>1 DEF RingOk, RingOf
<1>14. /\ SubSeq(stdin, 1, n) \in Seq(Chars) /\ Len(SubSeq(stdin, 1, n)) = n
       /\ \A i \in 1 .. n : SubSeq(stdin, 1, n)[i] = stdin[i]
  BY <1>2
<1>15. RingOf(t) = RingOf(s) \o SubSeq(stdin, 1, n)
  <2>1. PICK A \in Seq(Chars) : A = RingOf(s) /\ Len(A) = c
    BY <1>13
  <2>2. PICK B \in Seq(Chars) : B = SubSeq(stdin, 1, n) /\ Len(B) = n /\ \A i \in 1 .. n : B[i] = stdin[i]
    BY <1>14
  <2>3. RingOf(t) = [j \in 1 .. c + n |-> IF j <= c THEN A[j] ELSE stdin[j - c]]
    BY <2>1, <1>12, <1>4 DEF RingOf
  <2>4. \A j \in 1 .. c + n : ~(j <= c) => j - c \in 1 .. n
    BY <1>5
  <2>5. RingOf(t) = [j \in 1 .. c + n |-> IF j <= c THEN A[j] ELSE B[j - c]]
    BY <2>2, <2>3, <2>4
  <2>6. A \o B = [j \in 1 .. c + n |-> IF j <= c THEN A[j] ELSE B[j - c]]
    BY <2>1, <2>2
  <2>. QED BY <2>1, <2>2, <2>5, <2>6
<1>16. RingOk(t)
  <2>1. RingOf(t) \in Seq(Chars)
    BY <1>13, <1>14, <1>15
  <2>2. t.rx_wptr = (t.rx_rptr + t.rx_count) % RxFifo
    BY <1>4, <1>5, <1>6, Places
  <2>3. t.rx_fifo = [k \in 0 .. RxFifo - 1 |-> t.rx_fifo[k]]
    BY <1>4, <1>6 DEF G
  <2>4. t.rx_count \in 0 .. RxFifo /\ t.rx_rptr \in 0 .. RxFifo - 1
    BY <1>4, <1>5, SccAssumption
  <2>. QED BY <2>1, <2>2, <2>3, <2>4, <1>4 DEF RingOk
<1>17. n \in 0 .. Len(stdin)
  BY <1>2
<1>. QED BY <1>1, <1>2, <1>3, <1>4, <1>15, <1>16, <1>17

LEMMA RingIs == Ring = RingOf(scc)
  BY DEF Ring, RingOf

LEMMA SccInitially == SccInit => SccInv
<1> SUFFICES ASSUME SccInit PROVE SccInv
  OBVIOUS
<1>1. /\ scc = [f \in SccFields |-> scc[f]]
      /\ scc.rx_count = 0 /\ scc.rx_rptr = 0 /\ scc.rx_wptr = 0
      /\ scc.rx_fifo = [i \in 0 .. RxFifo - 1 |-> NoChar]
      /\ stdin = <<>> /\ typed = <<>> /\ got = <<>>
  BY DEF SccInit, SccFields
<1>2. RingOf(scc) = <<>>
  BY <1>1 DEF RingOf
<1>3. 0 % RxFifo = 0
  <2>1. 0 \in Int /\ 0 < RxFifo /\ 0 < RxFifo + RxFifo
    BY SccAssumption
  <2>. QED BY <2>1, SlotAt, SccAssumption
<1>4. scc.rx_wptr = (scc.rx_rptr + scc.rx_count) % RxFifo
  BY <1>1, <1>3
<1>5. scc.rx_count \in 0 .. RxFifo /\ scc.rx_rptr \in 0 .. RxFifo - 1
  BY <1>1, SccAssumption
<1>6. scc.rx_fifo = [k \in 0 .. RxFifo - 1 |-> scc.rx_fifo[k]]
  BY <1>1
<1>7. RingOf(scc) \in Seq(Chars)
  BY <1>2
<1>8. RingOk(scc)
  BY <1>1, <1>4, <1>5, <1>6, <1>7 DEF RingOk
<1>9. typed = got \o RingOf(scc) \o stdin
  BY <1>1, <1>2
<1>. QED BY <1>1, <1>8, <1>9 DEF SccInv

\* A step that leaves the ring alone.
LEMMA SccSame ==
  ASSUME SccInv, SameRing(scc, scc'), UNCHANGED <<stdin, typed, got>>
  PROVE  SccInv'
<1>1. RingOk(scc') /\ RingOf(scc') = RingOf(scc)
  BY SameRingIs DEF SccInv
<1>. QED BY <1>1 DEF SccInv, RingOk, RingOf

\* A step that takes the oldest character of the ring.
LEMMA SccTakes ==
  ASSUME SccInv, NEW s, SameRing(scc, s),
         scc' = DataRead(s), got' = got \o DataReadValue(s), UNCHANGED <<stdin, typed>>
  PROVE  SccInv'
<1>1. RingOk(s) /\ RingOf(s) = RingOf(scc)
  BY SameRingIs DEF SccInv
<1>2. PICK A \in Seq(Chars) : A = got
  BY DEF SccInv
<1>3. PICK B \in Seq(Chars) : B = DataReadValue(s)
  BY <1>1, DataReadTakes
<1>4. PICK C \in Seq(Chars) : C = RingOf(scc') /\ RingOf(scc) = B \o C
  BY <1>1, <1>3, DataReadTakes DEF RingOk
<1>5. A \o (B \o C) = (A \o B) \o C
  BY ConcatAssociative
<1>6. got' = A \o B /\ got' \in Seq(Chars)
  BY <1>2, <1>3
<1>7. typed' = got' \o RingOf(scc') \o stdin'
  BY <1>2, <1>4, <1>5, <1>6 DEF SccInv
<1>8. RingOk(scc')
  BY <1>1, DataReadTakes
<1>. QED BY <1>6, <1>7, <1>8 DEF SccInv, RingOk, RingOf

LEMMA SccTypes ==
  ASSUME SccInv, NEW c \in Chars, HostType(c)
  PROVE  SccInv'
<1>1. PICK A \in Seq(Chars) : A = got \o RingOf(scc)
  BY ConcatProperties DEF SccInv, RingOk
<1>2. PICK B \in Seq(Chars) : B = stdin
  BY DEF SccInv
<1>3. Append(A \o B, c) = A \o Append(B, c) /\ Append(B, c) \in Seq(Chars)
  <2>1. Append(B, c) = B \o <<c>> /\ <<c>> \in Seq(Chars) /\ Append(B, c) \in Seq(Chars)
    BY AppendIsConcat
  <2>2. A \o B \in Seq(Chars)
    BY ConcatProperties
  <2>3. Append(A \o B, c) = (A \o B) \o <<c>>
    BY <2>2, AppendIsConcat
  <2>. QED BY <2>1, <2>3, ConcatAssociative
<1>4. typed' = got' \o RingOf(scc') \o stdin' /\ stdin' \in Seq(Chars)
  BY <1>1, <1>2, <1>3 DEF HostType, SccInv
<1>. QED BY <1>4 DEF HostType, SccInv, RingOk, RingOf

LEMMA SccTicks ==
  ASSUME SccInv, tick
  PROVE  SccInv'
<1>1. CASE ~(scc.poll <= 1)
  <2>1. PICK s : s = [scc EXCEPT !.poll = @ - 1]
    OBVIOUS
  <2>2. SameRing(scc, s)
    BY <2>1 DEF SameRing, SccInv, RingOk, SccFields
  <2>3. scc' = Drained(s) /\ stdin' = SubSeq(stdin, s.rx_count - scc.rx_count + 1, Len(stdin))
        /\ UNCHANGED <<typed, got>>
    BY <1>1, <2>1 DEF tick
  <2>4. SameRing(scc, scc')
    <3>1. RingOk(s)
      BY <2>2, SameRingIs DEF SccInv
    <3>. QED BY <3>1, <2>2, <2>3, DrainedSame DEF SameRing
  <2>5. stdin' = stdin
    <3>1. s.rx_count - scc.rx_count + 1 = 1
      BY <2>2, SccAssumption DEF SameRing, SccInv, RingOk
    <3>. QED BY <3>1, <2>3, SubSeqFull DEF SccInv
  <2>. QED BY <2>3, <2>4, <2>5, SccSame
<1>2. CASE scc.poll <= 1
  <2>1. PICK s : s = rx_poll(scc)
    OBVIOUS
  <2>2. /\ scc' = Drained(s) /\ stdin' = SubSeq(stdin, s.rx_count - scc.rx_count + 1, Len(stdin))
        /\ UNCHANGED <<typed, got>>
    BY <1>2, <2>1 DEF tick
  <2>3. PICK n \in Nat : /\ n <= Len(stdin) /\ RingOk(s)
                         /\ s.rx_count = scc.rx_count + n
                         /\ RingOf(s) = RingOf(scc) \o SubSeq(stdin, 1, n)
    <3>1. Polled(scc) \in Nat /\ Polled(scc) <= Len(stdin)
      BY PollAppends DEF SccInv
    <3>. QED BY <3>1, <2>1, PollAppends DEF SccInv
  <2>4. RingOk(scc') /\ RingOf(scc') = RingOf(s)
    BY <2>2, <2>3, DrainedSame, SameRingIs
  <2>5. stdin' = SubSeq(stdin, n + 1, Len(stdin))
    <3>1. scc.rx_count \in Nat
      BY SccAssumption DEF SccInv, RingOk
    <3>2. s.rx_count - scc.rx_count + 1 = n + 1
      BY <3>1, <2>3
    <3>. QED BY <3>2, <2>2
  <2>6. PICK A \in Seq(Chars), B \in Seq(Chars) : A = got /\ B = RingOf(scc)
    BY DEF SccInv, RingOk
  <2>7. PICK C \in Seq(Chars), D \in Seq(Chars) :
          C = SubSeq(stdin, 1, n) /\ D = SubSeq(stdin, n + 1, Len(stdin)) /\ stdin = C \o D
    <3>1. stdin \in Seq(Chars) /\ Len(stdin) \in Nat
      BY DEF SccInv
    <3>2. SubSeq(stdin, 1, n) \o SubSeq(stdin, n + 1, Len(stdin)) = stdin
      <4>1. /\ 1 \in 1 .. Len(stdin) + 1 /\ n \in 1 - 1 .. Len(stdin)
            /\ Len(stdin) \in n .. Len(stdin)
        BY <3>1, <2>3
      <4>2. SubSeq(stdin, 1, n) \o SubSeq(stdin, n + 1, Len(stdin)) = SubSeq(stdin, 1, Len(stdin))
        BY <4>1, <3>1, ConcatAdjacentSubSeq
      <4>. QED BY <4>2, <3>1, SubSeqFull
    <3>3. SubSeq(stdin, 1, n) \in Seq(Chars) /\ SubSeq(stdin, n + 1, Len(stdin)) \in Seq(Chars)
      BY <3>1, <2>3
    <3>. QED BY <3>2, <3>3
  <2>8. Cat(Cat(A, B), Cat(C, D)) = Cat(Cat(A, Cat(B, C)), D)
    BY Regroup
  <2>9. typed' = got' \o RingOf(scc') \o stdin'
    BY <2>2, <2>3, <2>4, <2>5, <2>6, <2>7, <2>8 DEF SccInv, Cat
  <2>10. stdin' \in Seq(Chars)
    BY <2>5, <2>7
  <2>. QED BY <2>2, <2>4, <2>9, <2>10 DEF SccInv, RingOk, RingOf
<1>. QED BY <1>1, <1>2

\* The program's accesses and the interrupt handler.
SccStep ==
  \/ \E c \in Chars : HostType(c)
  \/ tick
  \/ ReadData
  \/ \E ch \in Chan : ReadCtrl(ch) \/ WriteData(ch)
  \/ \E ch \in Chan, b \in SccBytes : WriteCtrl(ch, b)
  \/ SccServe

LEMMA SccStepKeeps == SccInv /\ SccStep => SccInv'
<1> SUFFICES ASSUME SccInv, SccStep PROVE SccInv'
  OBVIOUS
<1>0. RingOk(scc)
  BY DEF SccInv
<1>1. CASE \E c \in Chars : HostType(c)
  BY <1>1, SccTypes
<1>2. CASE tick
  BY <1>2, SccTicks
<1>3. CASE ReadData
  <2>1. SameRing(scc, scc)
    BY <1>0 DEF RingOk, SameRing
  <2>. QED BY <1>3, <2>1, SccTakes DEF ReadData
<1>4. CASE \E ch \in Chan : ReadCtrl(ch) \/ WriteData(ch)
  <2>1. SameRing(scc, scc') /\ UNCHANGED <<stdin, typed, got>>
    BY <1>0, <1>4, CtrlReadSame, DataWriteSame DEF ReadCtrl, WriteData
  <2>. QED BY <2>1, SccSame
<1>5. CASE \E ch \in Chan, b \in SccBytes : WriteCtrl(ch, b)
  <2>1. SameRing(scc, scc') /\ UNCHANGED <<stdin, typed, got>>
    BY <1>0, <1>5, CtrlWriteSame DEF WriteCtrl
  <2>. QED BY <2>1, SccSame
<1>6. CASE SccServe
  <2>1. PICK u : u = CtrlRead(scc, 1) /\ SameRing(scc, u) /\ RingOk(u)
    BY <1>0, CtrlReadSame, SameRingIs
  <2>2. PICK v : v = CtrlWrite(u, 1, 3) /\ SameRing(u, v) /\ RingOk(v)
    BY <2>1, CtrlWriteSame, SameRingIs
  <2>3. PICK s : s = CtrlRead(v, 1) /\ SameRing(v, s) /\ RingOk(s)
    BY <2>2, CtrlReadSame, SameRingIs
  <2>4. SameRing(scc, s)
    BY <2>1, <2>2, <2>3 DEF SameRing
  <2>5. s = CtrlRead(SccSync, 1)
    BY <2>1, <2>2, <2>3 DEF SccSync
  <2>6. PICK c \in RR3 : /\ IF c[1] = "Rx"
                              THEN scc' = DataRead(s) /\ got' = got \o DataReadValue(s)
                              ELSE scc' = CtrlWrite(CtrlRead(s, c[2]), c[2], 40) /\ UNCHANGED got
                         /\ UNCHANGED <<stdin, typed>>
    BY <1>6, <2>5 DEF SccServe
  <2>7. CASE c[1] = "Rx"
    BY <2>4, <2>6, <2>7, SccTakes
  <2>8. CASE c[1] # "Rx"
    <3>1. PICK w : w = CtrlRead(s, c[2]) /\ SameRing(s, w) /\ RingOk(w)
      BY <2>3, CtrlReadSame, SameRingIs
    <3>2. SameRing(w, scc') /\ UNCHANGED <<stdin, typed, got>>
      BY <2>6, <2>8, <3>1, CtrlWriteSame
    <3>3. SameRing(scc, scc')
      BY <2>4, <3>1, <3>2 DEF SameRing
    <3>. QED BY <3>2, <3>3, SccSame
  <2>. QED BY <2>7, <2>8
<1>. QED BY <1>1, <1>2, <1>3, <1>4, <1>5, <1>6 DEF SccStep

\* Every step of the machine leaves the controller alone or is one of its own.
LEMMA SccAlone == [Next]_vars => SccStep \/ UNCHANGED sccVars
  BY DEF Next, vars, ServeIP2, ServeIP3, ServeMapped, ClearLevel, SerialTick, VRetrace, NetPoll, Outside,
         RxDriver, TxDriver, TxQueue, TimerOp, Program1, MaskWrite, SerialOp, KeyboardOp, EnetOp, Raise, SccStep

LEMMA SccKeeps == SccInv /\ [Next]_vars => SccInv'
<1>1. SccInv /\ UNCHANGED sccVars => SccInv'
  BY DEF SccInv, sccVars, RingOk, RingOf
<1>. QED BY <1>1, SccAlone, SccStepKeeps

LEMMA SccShows == SccInv => ConsoleInOrder
  BY RingIs DEF SccInv, RingOk, ConsoleInOrder

\* The serial receive path: for every ring size and poll interval, what the
\* guest has read, what the ring holds and what waits on stdin are what was
\* typed, whatever reads, polls, interrupts and other devices do.
THEOREM ConsoleIsInOrder == Spec => []ConsoleInOrder
<1>1. Init => SccInv
  BY SccInitially DEF Init
<1>. QED BY <1>1, SccKeeps, SccShows, PTL DEF Spec
-----------------------------------------------------------------------------
(* The calibration of timer 2                                              *)

\* Comparing a quotient is comparing with a multiple.
LEMMA DivAtLeast ==
  ASSUME NEW e \in Int, NEW m \in Nat \ {0}, NEW k \in Int
  PROVE  e \div m >= k <=> e >= k * m
<1>1. PICK q \in Int, r \in 0 .. m - 1 : e \div m = q /\ e % m = r /\ e = m * q + r
  BY DivMod
<1>2. ASSUME q >= k PROVE e >= k * m
  <2>1. m * (q - k) >= 0
    BY <1>2
  <2>2. m * (q - k) = m * q - k * m
    OBVIOUS
  <2>. QED BY <1>1, <2>1, <2>2
<1>3. ASSUME ~(q >= k) PROVE ~(e >= k * m)
  <2>1. m * (k - 1 - q) >= 0
    BY <1>3
  <2>2. m * (k - 1 - q) = k * m - m - m * q
    OBVIOUS
  <2>. QED BY <1>1, <2>1, <2>2
<1>. QED BY <1>1, <1>2, <1>3

LEMMA CountModBig == CountMod \in Nat /\ CountMod > 4
<1>1. PICK b \in Nat, t \in Nat : b = Base /\ t = T2_RATIO /\ b >= 2 /\ t >= 1
  BY I8254Assumption
<1>2. b * b >= 4
  BY <1>1
<1>3. b * b * t >= b * b
  BY <1>1, <1>2
<1>. QED BY <1>1, <1>2, <1>3, I8254Assumption

\* Count that has passed between two of its values.
Passed(a, b) == (b - a) % CountMod

\* The value of the counter, and the Count it takes to bring its high byte to 0.
ValueAt(l, e) == IF e \div T2_RATIO >= l THEN 0 ELSE l - e \div T2_RATIO
Needed(l) == IF l < Base THEN 0 ELSE (l - (Base - 1)) * T2_RATIO

LEMMA PassedIs ==
  \A a, b \in 0 .. CountMod - 1 :
     /\ Passed(a, b) = IF b >= a THEN b - a ELSE b - a + CountMod
     /\ Passed(a, b) \in 0 .. CountMod - 1
<1> SUFFICES ASSUME NEW a \in 0 .. CountMod - 1, NEW b \in 0 .. CountMod - 1
             PROVE  /\ Passed(a, b) = IF b >= a THEN b - a ELSE b - a + CountMod
                    /\ Passed(a, b) \in 0 .. CountMod - 1
  OBVIOUS
<1>1. CountMod \in Nat \ {0}
  BY I8254Assumption
<1>2. CASE b >= a
  <2>1. CountMod * 0 + (b - a) = b - a /\ b - a \in 0 .. CountMod - 1
    BY <1>1, <1>2
  <2>2. (CountMod * 0 + (b - a)) % CountMod = b - a
    BY <1>1, <2>1, ModUnique
  <2>. QED BY <1>1, <1>2, <2>1, <2>2 DEF Passed
<1>3. CASE b < a
  <2>1. CountMod * (-1) + (b - a + CountMod) = b - a /\ b - a + CountMod \in 0 .. CountMod - 1
    BY <1>1, <1>3
  <2>2. (CountMod * (-1) + (b - a + CountMod)) % CountMod = b - a + CountMod
    BY <1>1, <2>1, ModUnique
  <2>. QED BY <1>1, <1>3, <2>1, <2>2 DEF Passed
<1>. QED BY <1>2, <1>3

\* Count a few instructions later.
LEMMA LaterIs ==
  \A a \in 0 .. CountMod - 1 : \A k \in 0 .. 3 :
    /\ (a + k) % CountMod = IF a + k < CountMod THEN a + k ELSE a + k - CountMod
    /\ (a + k) % CountMod \in 0 .. CountMod - 1
<1> SUFFICES ASSUME NEW a \in 0 .. CountMod - 1, NEW k \in 0 .. 3
             PROVE  /\ (a + k) % CountMod = IF a + k < CountMod THEN a + k ELSE a + k - CountMod
                    /\ (a + k) % CountMod \in 0 .. CountMod - 1
  OBVIOUS
<1>1. CountMod \in Nat \ {0} /\ a + k \in 0 .. 2 * CountMod - 1
  BY CountModBig
<1>2. PICK x \in 0 .. 2 * CountMod - 1 : x = a + k
  BY <1>1
<1>3. x % CountMod = IF x < CountMod THEN x ELSE x - CountMod
  BY <1>1, RingAt
<1>. QED BY <1>1, <1>2, <1>3, CountModBig

LEMMA OneLater ==
  ASSUME NEW a \in 0 .. CountMod - 1
  PROVE  /\ (((a + 1) % CountMod) + 1) % CountMod = (a + 2) % CountMod
         /\ (((a + 2) % CountMod) + 1) % CountMod = (a + 3) % CountMod
<1>0. 1 \in 0 .. 3 /\ 2 \in 0 .. 3 /\ 3 \in 0 .. 3
  OBVIOUS
<1>1. PICK b \in 0 .. CountMod - 1 : b = (a + 1) % CountMod
                                     /\ b = IF a + 1 < CountMod THEN a + 1 ELSE a + 1 - CountMod
  BY <1>0, LaterIs, CountModBig
<1>2. PICK c \in 0 .. CountMod - 1 : c = (a + 2) % CountMod
                                     /\ c = IF a + 2 < CountMod THEN a + 2 ELSE a + 2 - CountMod
  BY <1>0, LaterIs, CountModBig
<1>3. (b + 1) % CountMod = IF b + 1 < CountMod THEN b + 1 ELSE b + 1 - CountMod
  BY <1>0, LaterIs, CountModBig
<1>4. (c + 1) % CountMod = IF c + 1 < CountMod THEN c + 1 ELSE c + 1 - CountMod
  BY <1>0, LaterIs, CountModBig
<1>5. (a + 3) % CountMod = IF a + 3 < CountMod THEN a + 3 ELSE a + 3 - CountMod
  BY <1>0, LaterIs, CountModBig
<1>6. (b + 1) % CountMod = (a + 2) % CountMod
  BY <1>1, <1>2, <1>3, CountModBig
<1>7. (c + 1) % CountMod = (a + 3) % CountMod
  BY <1>2, <1>4, <1>5, CountModBig
<1>. QED BY <1>1, <1>2, <1>6, <1>7

LEMMA PassedMore ==
  ASSUME NEW a \in 0 .. CountMod - 1, NEW b \in 0 .. CountMod - 1, NEW k \in 0 .. 3,
         Passed(a, b) + k < CountMod
  PROVE  Passed(a, (b + k) % CountMod) = Passed(a, b) + k
<1>1. PICK c \in 0 .. CountMod - 1 : c = (b + k) % CountMod
                                     /\ c = IF b + k < CountMod THEN b + k ELSE b + k - CountMod
  BY LaterIs
<1>2. Passed(a, c) = IF c >= a THEN c - a ELSE c - a + CountMod
  BY PassedIs
<1>3. Passed(a, b) = IF b >= a THEN b - a ELSE b - a + CountMod
  BY PassedIs
<1>. QED BY <1>1, <1>2, <1>3, CountModBig

\* The high byte of the value is 0 exactly when what is needed has passed.
LEMMA HighByte ==
  ASSUME NEW l \in 0 .. Base * Base - 1, NEW e \in Nat
  PROVE  /\ Needed(l) \in Nat /\ Needed(l) + 2 < CountMod
         /\ ValueAt(l, e) \in Nat
         /\ ValueAt(l, e) \div Base = 0 <=> e >= Needed(l)
<1>1. PICK b \in Nat, t \in Nat : b = Base /\ t = T2_RATIO /\ b >= 2 /\ t >= 1
  BY I8254Assumption
<1>2. PICK d \in Int : d = e \div t
  BY <1>1
<1>3. \A k \in Int : d >= k <=> e >= k * t
  BY <1>1, <1>2, DivAtLeast
<1>4. d >= 0
  BY <1>1, <1>3
<1>5. PICK v \in Int : v = ValueAt(l, e)
  BY <1>1, <1>2 DEF ValueAt
<1>6. v = IF d >= l THEN 0 ELSE l - d
  BY <1>1, <1>2, <1>5 DEF ValueAt
<1>7. l \in Int /\ v >= 0
  BY <1>1, <1>6
<1>8. v \div b >= 1 <=> v >= 1 * b
  BY <1>1, DivAtLeast
<1>9. v \div b >= 0
  <2>1. v \div b >= 0 <=> v >= 0 * b
    BY <1>1, DivAtLeast
  <2>. QED BY <2>1, <1>1, <1>7
<1>10. v \div b = 0 <=> v < b
  <2>1. v \div b \in Int
    BY <1>1
  <2>. QED BY <2>1, <1>1, <1>8, <1>9
<1>11. v < b <=> e >= Needed(l)
  <2>1. CASE l < b
    <3>1. Needed(l) = 0
      BY <2>1, <1>1 DEF Needed
    <3>. QED BY <3>1, <2>1, <1>1, <1>4, <1>6, <1>7
  <2>2. CASE l >= b
    <3>1. Needed(l) = (l - (b - 1)) * t
      BY <2>2, <1>1, <1>7 DEF Needed
    <3>2. d >= l - (b - 1) <=> e >= (l - (b - 1)) * t
      BY <1>1, <1>3, <1>7
    <3>3. v < b <=> d >= l - (b - 1)
      BY <2>2, <1>1, <1>6, <1>7
    <3>. QED BY <3>1, <3>2, <3>3
  <2>. QED BY <2>1, <2>2, <1>1, <1>7
<1>12. Needed(l) \in Nat /\ Needed(l) + 2 < CountMod
  <2>1. CASE l < b
    BY <2>1, <1>1, CountModBig DEF Needed
  <2>2. CASE l >= b
    <3>1. Needed(l) = (l - (b - 1)) * t
      BY <2>2, <1>1, <1>7 DEF Needed
    <3>2. PICK x \in Nat : x = l - (b - 1)
      BY <2>2, <1>1, <1>7
    <3>3. x <= b * b - b /\ b * b \in Nat
      BY <1>1, <3>2
    <3>4. x * t <= (b * b - b) * t
      BY <1>1, <3>3
    <3>5. (b * b - b) * t = b * b * t - b * t
      BY <1>1
    <3>6. b * t >= 2
      BY <1>1
    <3>7. b * b * t < CountMod
      BY <1>1, I8254Assumption
    <3>8. x * t \in Nat
      BY <1>1, <3>2
    <3>. QED BY <3>1, <3>2, <3>4, <3>5, <3>6, <3>7, <3>8, <1>1, CountModBig
  <2>. QED BY <2>1, <2>2, <1>1, <1>7
<1>. QED BY <1>1, <1>5, <1>7, <1>10, <1>11, <1>12

\* The inductive invariant: what each place of the loop knows of the bytes
\* written, of the latch, and of the Count that has passed since the start.
T2Shape ==
  /\ t2 = [f \in {"load", "at", "latch", "wr", "rd", "loading"} |-> t2[f]]
  /\ cal = [f \in {"pc", "load", "start", "end", "low"} |-> cal[f]]
  /\ t2.load \in Int
  /\ count \in 0 .. CountMod - 1
  /\ cal.load \in 0 .. Base * Base - 1
  /\ cal.start \in 0 .. CountMod - 1
  /\ cal.end \in 0 .. CountMod - 1

Counting == t2.load = cal.load /\ t2.at = cal.start

\* The latch holds the value at "end", which was k instructions ago.
Latched(k) ==
  /\ t2.latch = ValueAt(cal.load, Passed(cal.start, cal.end))
  /\ Passed(cal.start, cal.end) <= Needed(cal.load) + 2
  /\ count = (cal.end + k) % CountMod

T2Place ==
  CASE cal.pc = "idle" -> TRUE
    [] cal.pc = "low" -> t2.loading /\ t2.wr = 0
    [] cal.pc = "high" -> t2.loading /\ t2.wr = 1 /\ t2.load % Base = cal.load % Base
    [] cal.pc = "latch" -> Counting /\ Passed(cal.start, count) <= Needed(cal.load) + 2
    [] cal.pc = "readlow" -> Counting /\ Latched(1) /\ t2.rd = 0
    [] cal.pc = "readhigh" -> Counting /\ Latched(2) /\ t2.rd = 1
    [] cal.pc = "done" -> Needed(cal.load) <= Passed(cal.start, cal.end)
                            /\ Passed(cal.start, cal.end) <= Needed(cal.load) + 2
    [] OTHER -> FALSE

T2Inv == T2Shape /\ T2Place

LEMMA T2Initially == T2Init => T2Inv
<1> SUFFICES ASSUME T2Init PROVE T2Inv
  OBVIOUS
<1>1. Base * Base - 1 >= 0
  <2>1. PICK b \in Nat : b = Base /\ b >= 2
    BY I8254Assumption
  <2>2. b * b >= 1
    BY <2>1
  <2>. QED BY <2>1, <2>2
<1>2. 0 \in 0 .. CountMod - 1 /\ 0 \in 0 .. Base * Base - 1 /\ count \in 0 .. CountMod - 1
  BY <1>1, I8254Assumption DEF T2Init
<1>. QED BY <1>2 DEF T2Init, T2Inv, T2Shape, T2Place

\* The two bytes written are the reload value.
LEMMA BytesJoin ==
  ASSUME NEW b \in Nat \ {0}, NEW l \in Int, NEW x \in Int
  PROVE  \E low, high, rest \in Int :
           /\ l % b = low /\ l \div b = high /\ x \div b = rest
           /\ (rest * b + low) % b = low
           /\ rest * b + low \in Int
           /\ low + high * b = l
<1>1. PICK q \in Int, r \in 0 .. b - 1 : l \div b = q /\ l % b = r /\ l = b * q + r
  BY DivMod
<1>2. PICK y \in Int : y = x \div b
  OBVIOUS
<1>3. (b * y + r) % b = r
  BY ModUnique
<1>4. y * b + r = b * y + r /\ y * b + r \in Int /\ r + q * b = l
  BY <1>1
<1>5. (y * b + r) % b = r
  BY <1>3, <1>4
<1>6. r \in Int
  OBVIOUS
<1>. WITNESS r \in Int, q \in Int, y \in Int
<1>7. l % b = r /\ l \div b = q /\ x \div b = y
  BY <1>1, <1>2
<1>. QED BY <1>4, <1>5, <1>7, Zenon

LEMMA CalibrateKeeps == T2Inv /\ Calibrate => T2Inv'
<1> SUFFICES ASSUME T2Inv, Calibrate PROVE T2Inv'
  OBVIOUS
<1>0. /\ T2Shape /\ T2Place /\ count' = (count + 1) % CountMod
      /\ count' \in 0 .. CountMod - 1
  <2>1. count' = (count + 1) % CountMod /\ T2Shape
    BY DEF Calibrate, T2Tick, T2Inv
  <2>2. 1 \in 0 .. 3
    OBVIOUS
  <2>. QED BY <2>1, <2>2, LaterIs DEF T2Inv, T2Shape
<1>b. Base \in Nat \ {0} /\ 0 # 1 /\ cal.load \in Int
  BY <1>0, I8254Assumption DEF T2Shape
<1>1. CASE /\ cal.pc = "idle"
           /\ \E l \in Loads : cal' = [cal EXCEPT !.pc = "low", !.load = l]
           /\ t2' = ProgramT2(t2)
  <2>1. cal'.load \in 0 .. Base * Base - 1
    BY <1>0, <1>1, I8254Assumption DEF T2Shape
  <2>2. T2Shape'
    BY <1>0, <1>1, <2>1 DEF T2Shape, ProgramT2
  <2>3. cal'.pc = "low" /\ t2'.loading /\ t2'.wr = 0
    BY <1>0, <1>1 DEF T2Shape, ProgramT2
  <2>. QED BY <2>2, <2>3 DEF T2Inv, T2Place
<1>2. CASE /\ cal.pc = "low"
           /\ t2' = Tcnt2Write(t2, cal.load % Base)
           /\ cal' = [cal EXCEPT !.pc = "high"]
  <2>1. t2.loading /\ t2.wr = 0
    BY <1>0, <1>2 DEF T2Place
  <2>2. PICK low, high, rest \in Int :
          /\ cal.load % Base = low /\ cal.load \div Base = high /\ t2.load \div Base = rest
          /\ (rest * Base + low) % Base = low
          /\ rest * Base + low \in Int
    BY <1>0, <1>b, BytesJoin DEF T2Shape
  <2>3. t2' = [t2 EXCEPT !.load = rest * Base + low, !.wr = 1]
    BY <1>2, <2>1, <2>2 DEF Tcnt2Write
  <2>4. /\ cal'.pc = "high" /\ cal'.load = cal.load /\ t2'.loading /\ t2'.wr = 1
        /\ t2'.load = rest * Base + low
    BY <1>0, <1>2, <2>1, <2>3 DEF T2Shape
  <2>6. t2'.load % Base = cal'.load % Base
    BY <2>2, <2>4
  <2>5. T2Shape'
    BY <1>0, <1>2, <2>2, <2>3, <2>4 DEF T2Shape
  <2>. QED BY <2>4, <2>5, <2>6 DEF T2Inv, T2Place
<1>3. CASE /\ cal.pc = "high"
           /\ t2' = Tcnt2Write(t2, cal.load \div Base)
           /\ cal' = [cal EXCEPT !.pc = "latch", !.start = count]
  <2>1. t2.loading /\ t2.wr = 1 /\ t2.load % Base = cal.load % Base
    BY <1>0, <1>3 DEF T2Place
  <2>2. t2' = [t2 EXCEPT !.load = (t2.load % Base) + (cal.load \div Base) * Base, !.wr = 0,
                         !.loading = FALSE, !.at = count]
    BY <1>3, <2>1 DEF Tcnt2Write
  <2>3. /\ cal'.pc = "latch" /\ cal'.load = cal.load /\ cal'.start = count /\ t2'.at = count
        /\ t2'.load = (t2.load % Base) + (cal.load \div Base) * Base
    BY <1>0, <1>3, <2>2 DEF T2Shape
  <2>4. t2'.load = cal.load
    <3>1. PICK low, high, rest \in Int :
            cal.load % Base = low /\ cal.load \div Base = high /\ low + high * Base = cal.load
      BY <1>0, <1>b, BytesJoin DEF T2Shape
    <3>. QED BY <2>1, <2>3, <3>1
  <2>5. T2Shape'
    BY <1>0, <1>3, <2>2, <2>4, <1>b DEF T2Shape
  <2>6. Passed(count, count') <= Needed(cal.load) + 2
    <3>1. Passed(count, count) = 0
      BY <1>0, PassedIs, CountModBig DEF T2Shape
    <3>2. 1 \in 0 .. 3 /\ 0 + 1 < CountMod
      BY CountModBig
    <3>3. Passed(count, count') = 0 + 1
      BY <1>0, <3>1, <3>2, PassedMore DEF T2Shape
    <3>4. Needed(cal.load) \in Nat
      BY <1>0, HighByte DEF T2Shape
    <3>. QED BY <3>3, <3>4
  <2>7. Counting' /\ Passed(cal'.start, count') <= Needed(cal'.load) + 2
    BY <2>3, <2>4, <2>6 DEF Counting
  <2>8. cal'.pc = "latch"
    BY <2>3
  <2>. QED BY <2>5, <2>7, <2>8 DEF T2Inv, T2Place
<1>4. CASE /\ cal.pc = "latch"
           /\ t2' = Latch(t2)
           /\ cal' = [cal EXCEPT !.pc = "readlow", !.end = count]
  <2>1. Counting /\ Passed(cal.start, count) <= Needed(cal.load) + 2
    BY <1>0, <1>4 DEF T2Place
  <2>2. t2_value = ValueAt(cal.load, Passed(cal.start, count))
    BY <2>1 DEF t2_value, ValueAt, Passed, Counting
  <2>3. /\ cal'.pc = "readlow" /\ cal'.load = cal.load /\ cal'.start = cal.start /\ cal'.end = count
        /\ t2'.load = t2.load /\ t2'.at = t2.at /\ t2'.latch = t2_value /\ t2'.rd = 0
    BY <1>0, <1>4 DEF T2Shape, Latch
  <2>4. T2Shape'
    BY <1>0, <1>4 DEF T2Shape, Latch
  <2>5. Counting' /\ Latched(1)'
    BY <2>1, <2>2, <2>3, <1>0 DEF Counting, Latched
  <2>. QED BY <2>3, <2>4, <2>5 DEF T2Inv, T2Place
<1>5. CASE /\ cal.pc = "readlow"
           /\ t2' = Tcnt2Read(t2)
           /\ cal' = [cal EXCEPT !.pc = "readhigh", !.low = Tcnt2Value(t2)]
  <2>1. Counting /\ Latched(1) /\ t2.rd = 0
    BY <1>0, <1>5 DEF T2Place
  <2>2. /\ cal'.pc = "readhigh" /\ cal'.load = cal.load /\ cal'.start = cal.start /\ cal'.end = cal.end
        /\ t2'.load = t2.load /\ t2'.at = t2.at /\ t2'.latch = t2.latch /\ t2'.rd = 1
    BY <1>0, <1>5, <2>1 DEF T2Shape, Tcnt2Read
  <2>3. T2Shape'
    BY <1>0, <1>5 DEF T2Shape, Tcnt2Read
  <2>4. count' = (cal.end + 2) % CountMod
    BY <1>0, <2>1, OneLater DEF Latched, T2Shape
  <2>5. Counting' /\ Latched(2)'
    BY <2>1, <2>2, <2>4 DEF Counting, Latched
  <2>. QED BY <2>2, <2>3, <2>5 DEF T2Inv, T2Place
<1>6. CASE /\ cal.pc = "readhigh"
           /\ t2' = Tcnt2Read(t2)
           /\ cal' = [cal EXCEPT !.pc = IF Tcnt2Value(t2) = 0 THEN "done" ELSE "latch"]
  <2>1. Counting /\ Latched(2) /\ t2.rd = 1
    BY <1>0, <1>6 DEF T2Place
  <2>2. /\ cal'.load = cal.load /\ cal'.start = cal.start /\ cal'.end = cal.end
        /\ t2'.load = t2.load /\ t2'.at = t2.at
    BY <1>0, <1>6 DEF T2Shape, Tcnt2Read
  <2>3. T2Shape'
    BY <1>0, <1>6 DEF T2Shape, Tcnt2Read
  <2>4. Tcnt2Value(t2) = t2.latch \div Base
    BY <2>1 DEF Tcnt2Value
  <2>5. PICK e \in Nat : e = Passed(cal.start, cal.end) /\ e \in 0 .. CountMod - 1
    BY <1>0, PassedIs, CountModBig DEF T2Shape
  <2>6. Tcnt2Value(t2) = 0 <=> e >= Needed(cal.load)
    BY <2>1, <2>4, <2>5, <1>0, HighByte DEF Latched, T2Shape
  <2>7. CASE Tcnt2Value(t2) = 0
    <3>1. cal'.pc = "done"
      BY <1>0, <1>6, <2>7 DEF T2Shape
    <3>2. Needed(cal.load) <= e /\ e <= Needed(cal.load) + 2
      BY <2>1, <2>5, <2>6, <2>7 DEF Latched
    <3>3. Needed(cal'.load) <= Passed(cal'.start, cal'.end)
             /\ Passed(cal'.start, cal'.end) <= Needed(cal'.load) + 2
      BY <3>2, <2>2, <2>5
    <3>. QED BY <3>1, <3>3, <2>3 DEF T2Inv, T2Place
  <2>8. CASE Tcnt2Value(t2) # 0
    <3>1. cal'.pc = "latch"
      BY <1>0, <1>6, <2>8 DEF T2Shape
    <3>2. Needed(cal.load) \in Nat /\ Needed(cal.load) + 2 < CountMod
      BY <1>0, HighByte DEF T2Shape
    <3>3. e + 3 <= Needed(cal.load) + 2 /\ e + 3 < CountMod /\ 3 \in 0 .. 3
      BY <3>2, <2>5, <2>6, <2>8, CountModBig
    <3>4. count' = (cal.end + 3) % CountMod
      BY <1>0, <2>1, OneLater DEF Latched, T2Shape
    <3>5. Passed(cal.start, count') = e + 3
      BY <3>3, <3>4, <2>5, <1>0, PassedMore DEF T2Shape
    <3>6. Passed(cal'.start, count') <= Needed(cal'.load) + 2
      BY <3>3, <3>5, <2>2
    <3>7. Counting'
      BY <2>1, <2>2 DEF Counting
    <3>. QED BY <3>1, <3>6, <3>7, <2>3 DEF T2Inv, T2Place
  <2>. QED BY <2>7, <2>8
<1>7. CASE /\ cal.pc = "done"
           /\ UNCHANGED t2
           /\ cal' = [cal EXCEPT !.pc = "idle"]
  <2>1. T2Shape' /\ cal'.pc = "idle"
    BY <1>0, <1>7 DEF T2Shape
  <2>. QED BY <2>1 DEF T2Inv, T2Place
<1>. QED BY <1>1, <1>2, <1>3, <1>4, <1>5, <1>6, <1>7 DEF Calibrate

LEMMA T2Alone == [Next]_vars => Calibrate \/ UNCHANGED t2Vars
  BY DEF Next, vars, ServeIP2, ServeIP3, ServeMapped, ClearLevel, SerialTick, VRetrace, NetPoll, Outside,
         RxDriver, TxDriver, TxQueue, TimerOp, Program1, MaskWrite, SerialOp, KeyboardOp, EnetOp, Raise

LEMMA T2Keeps == T2Inv /\ [Next]_vars => T2Inv'
<1>1. T2Inv /\ UNCHANGED t2Vars => T2Inv'
  BY DEF T2Inv, t2Vars, T2Shape, T2Place, Counting, Latched
<1>. QED BY <1>1, T2Alone, CalibrateKeeps

LEMMA T2Shows == T2Inv => CalibrationExact
<1> SUFFICES ASSUME T2Inv, cal.pc = "done"
             PROVE  /\ (cal.end - cal.start) % CountMod >= Needed(cal.load)
                    /\ (cal.end - cal.start) % CountMod <= Needed(cal.load) + 3
  BY DEF CalibrationExact, Needed, Turn
<1>1. /\ Needed(cal.load) <= Passed(cal.start, cal.end)
      /\ Passed(cal.start, cal.end) <= Needed(cal.load) + 2
  BY DEF T2Inv, T2Place
<1>2. Needed(cal.load) \in Nat /\ Passed(cal.start, cal.end) \in Int
  <2>1. Needed(cal.load) \in Nat
    BY HighByte DEF T2Inv, T2Shape
  <2>2. Passed(cal.start, cal.end) \in Int
    BY PassedIs, CountModBig DEF T2Inv, T2Shape
  <2>. QED BY <2>1, <2>2
<1>3. PICK n \in Nat, p \in Int : n = Needed(cal.load) /\ p = Passed(cal.start, cal.end)
  BY <1>2
<1>. QED BY <1>1, <1>3 DEF Passed

\* The timer: for every byte size, ratio and reload value the Count that the
\* calibration loop measures is exact up to one turn of the loop, wherever
\* Count wraps and whatever the counter was programmed to before.
THEOREM CalibrationIsExact == Spec => []CalibrationExact
<1>1. Init => T2Inv
  BY T2Initially DEF Init
<1>. QED BY <1>1, T2Keeps, T2Shows, PTL DEF Spec
-----------------------------------------------------------------------------
(* Induction over Nat, for a set of numbers: the library states it for an   *)
(* operator, which the provers do not instantiate.                          *)

LEMMA Least ==
  ASSUME NEW U \in SUBSET Nat, U # {}
  PROVE  \E x \in U : \A y \in U : x <= y
<1> DEFINE R == {ss \in Nat \X Nat : ss[1] < ss[2]}
<1>1. IsWellFoundedOn(R, Nat)
  BY NatLessThanWellFounded, Zenon DEF OpToRel
<1>2. \A y, x \in Nat : y < x => <<y, x>> \in R
  OBVIOUS
<1> HIDE DEF R
<1>3. \E x \in U : \A y \in U : ~(<<y, x>> \in R)
  BY <1>1, WFMin
<1>4. PICK x \in U : \A y \in U : ~(<<y, x>> \in R)
  BY <1>3
<1>5. ASSUME NEW y \in U PROVE x <= y
  <2>1. ~(y < x)
    BY <1>2, <1>4
  <2>2. x \in Nat /\ y \in Nat
    OBVIOUS
  <2>. QED BY <2>1, <2>2
<1>. QED BY <1>4, <1>5

LEMMA NatSetInduction ==
  ASSUME NEW U, 0 \in U, \A n \in Nat : n \in U => n + 1 \in U
  PROVE  Nat \subseteq U
<1> SUFFICES ASSUME NEW V, V = Nat \ U, V # {} PROVE FALSE
  OBVIOUS
<1>1. PICK x \in V : \A y \in V : x <= y
  BY Least
<1>2. x # 0 /\ x - 1 \in Nat /\ x - 1 \notin V
  BY <1>1
<1>. QED BY <1>1, <1>2
-----------------------------------------------------------------------------
(* Flattening                                                              *)

\* The first n parts of s, joined one by one.
Joins(f, s, n) == f = [i \in 1 .. n |-> IF i = 1 THEN s[i] ELSE f[i - 1] \o s[i]]

LEMMA JoinsExist == ASSUME NEW s PROVE \A n \in Nat : \E f : Joins(f, s, n)
<1> DEFINE U == {n \in Nat : \E f : Joins(f, s, n)}
<1>1. 0 \in U
  <2> DEFINE f == [i \in 1 .. 0 |-> s[i]]
  <2>1. Joins(f, s, 0)
    BY DEF Joins
  <2>. QED BY <2>1
<1>2. ASSUME NEW n \in Nat, n \in U PROVE n + 1 \in U
  <2>1. PICK f : Joins(f, s, n)
    BY <1>2
  <2> DEFINE g == [i \in 1 .. n + 1 |-> IF i \in 1 .. n THEN f[i]
                                        ELSE IF i = 1 THEN s[i] ELSE f[i - 1] \o s[i]]
  <2>2. \A i \in 1 .. n : f[i] = IF i = 1 THEN s[i] ELSE f[i - 1] \o s[i]
    BY <2>1 DEF Joins
  <2>3. \A i \in 1 .. n + 1 : i # 1 => i - 1 \in 1 .. n /\ i - 1 \in 1 .. n + 1
    OBVIOUS
  <2>4. \A i \in 1 .. n + 1 : g[i] = IF i = 1 THEN s[i] ELSE g[i - 1] \o s[i]
    <3>1. \A i \in 1 .. n + 1 : g[i] = IF i = 1 THEN s[i] ELSE f[i - 1] \o s[i]
      BY <2>2
    <3>2. \A i \in 1 .. n : g[i] = f[i]
      BY <2>3
    <3>. HIDE DEF g
    <3>. QED BY <3>1, <3>2, <2>3
  <2>5. g = [i \in 1 .. n + 1 |-> g[i]]
    OBVIOUS
  <2> HIDE DEF g
  <2>6. Joins(g, s, n + 1)
    BY <2>4, <2>5 DEF Joins
  <2>. QED BY <2>6
<1> HIDE DEF U
<1>3. Nat \subseteq U
  BY <1>1, <1>2, NatSetInduction
<1>. QED BY <1>3 DEF U

LEMMA JoinsAt ==
  ASSUME NEW n \in Nat, NEW f, NEW s, Joins(f, s, n)
  PROVE  \A i \in 1 .. n : f[i] = IF i = 1 THEN s[1] ELSE Cat(f[i - 1], s[i])
  BY DEF Joins, Cat

\* Sequences that begin alike are joined alike.
LEMMA JoinsAgree ==
  ASSUME NEW n \in Nat, NEW m \in Nat, n <= m, NEW f, NEW g, NEW s, NEW t,
         Joins(f, s, n), Joins(g, t, m), \A i \in 1 .. n : s[i] = t[i]
  PROVE  \A i \in 1 .. n : f[i] = g[i]
<1> DEFINE U == {k \in Nat : \A i \in 1 .. n : i <= k => f[i] = g[i]}
<1>1. 0 \in U
  OBVIOUS
<1>2. ASSUME NEW k \in Nat, k \in U PROVE k + 1 \in U
  <2>1. ASSUME NEW i \in 1 .. n, i = k + 1 PROVE f[i] = g[i]
    <3>1. f[i] = IF i = 1 THEN s[1] ELSE Cat(f[i - 1], s[i])
      BY JoinsAt
    <3>2. g[i] = IF i = 1 THEN t[1] ELSE Cat(g[i - 1], t[i])
      <4>1. i \in 1 .. m
        OBVIOUS
      <4>. QED BY <4>1, JoinsAt
    <3>3. i # 1 => i - 1 \in 1 .. n /\ i - 1 <= k
      BY <2>1
    <3>4. i # 1 => f[i - 1] = g[i - 1]
      BY <3>3, <1>2
    <3>5. 1 \in 1 .. n
      OBVIOUS
    <3>. QED BY <3>1, <3>2, <3>4, <3>5
  <2>2. \A i \in 1 .. n : i <= k + 1 => i <= k \/ i = k + 1
    OBVIOUS
  <2>. QED BY <2>1, <2>2, <1>2
<1> HIDE DEF U
<1>3. Nat \subseteq U
  BY <1>1, <1>2, NatSetInduction
<1>. QED BY <1>3 DEF U

LEMMA FlattenIs ==
  ASSUME NEW s, Len(s) \in Nat
  PROVE  IF Len(s) = 0 THEN FlattenSeq(s) = s
         ELSE \E f : Joins(f, s, Len(s)) /\ FlattenSeq(s) = f[Len(s)]
<1>1. CASE Len(s) = 0
  BY <1>1 DEF FlattenSeq
<1>2. CASE Len(s) # 0
  <2>1. \E f : Joins(f, s, Len(s))
    BY JoinsExist
  <2>. QED BY <2>1, <1>2 DEF FlattenSeq, Joins
<1>. QED BY <1>1, <1>2

LEMMA FlattenNone == FlattenSeq(<<>>) = <<>>
  BY FlattenIs

\* A part more at the end.
LEMMA FlattenAppend ==
  ASSUME NEW S, NEW s \in Seq(Seq(S)), NEW x \in Seq(S)
  PROVE  FlattenSeq(Append(s, x)) = Cat(FlattenSeq(s), x)
<1>0. PICK n \in Nat, t \in Seq(Seq(S)) : n = Len(s) /\ t = Append(s, x)
  <2>1. Len(s) \in Nat /\ Append(s, x) \in Seq(Seq(S))
    OBVIOUS
  <2>. QED BY <2>1
<1>1. n \in Nat /\ Len(t) = n + 1 /\ t[n + 1] = x /\ \A i \in 1 .. n : t[i] = s[i]
  BY <1>0
<1>2. PICK g : Joins(g, t, n + 1) /\ FlattenSeq(t) = g[n + 1]
  <2>1. Len(t) \in Nat /\ Len(t) # 0
    BY <1>1
  <2>. QED BY <1>1, <2>1, FlattenIs
<1>3. g[n + 1] = IF n + 1 = 1 THEN t[1] ELSE Cat(g[n + 1 - 1], t[n + 1])
  <2>1. n + 1 \in 1 .. n + 1 /\ n + 1 \in Nat
    BY <1>1
  <2>2. \A i \in 1 .. n + 1 : g[i] = IF i = 1 THEN t[1] ELSE Cat(g[i - 1], t[i])
    BY <2>1, <1>2, JoinsAt
  <2>. QED BY <2>1, <2>2
<1>4. CASE n = 0
  <2>1. s = <<>>
    BY <1>0, <1>4, EmptySeq
  <2>2. Cat(FlattenSeq(s), x) = x
    BY <2>1, FlattenNone DEF Cat
  <2>. QED BY <2>2, <1>0, <1>1, <1>2, <1>3, <1>4
<1>5. CASE n # 0
  <2>1. PICK f : Joins(f, s, n) /\ FlattenSeq(s) = f[n]
    BY <1>0, <1>5, FlattenIs
  <2>2. f[n] = g[n]
    <3>1. n \in 1 .. n /\ n + 1 \in Nat /\ n <= n + 1
      BY <1>1, <1>5
    <3>2. \A i \in 1 .. n : f[i] = g[i]
      <4>1. Joins(f, s, n) /\ Joins(g, t, n + 1) /\ \A i \in 1 .. n : s[i] = t[i]
        BY <1>1, <1>2, <2>1
      <4>2. PICK m \in Nat : m = n + 1
        OBVIOUS
      <4>3. Joins(g, t, m) /\ n <= m
        BY <4>1, <4>2
      <4>. HIDE DEF Joins
      <4>. QED BY <4>1, <4>3, JoinsAgree
    <3>. QED BY <3>1, <3>2
  <2>3. n + 1 # 1 /\ n + 1 - 1 = n
    BY <1>1, <1>5
  <2>. QED BY <1>0, <1>1, <1>2, <1>3, <2>1, <2>2, <2>3
<1>. QED BY <1>4, <1>5

\* What holds of the empty sequence and after every Append holds of all.
LEMMA AppendInduction ==
  ASSUME NEW T, NEW U, <<>> \in U, \A s \in Seq(T) : \A x \in T : s \in U => Append(s, x) \in U
  PROVE  Seq(T) \subseteq U
<1> DEFINE V == {n \in Nat : \A s \in Seq(T) : Len(s) = n => s \in U}
<1>1. 0 \in V
  OBVIOUS
<1>2. ASSUME NEW n \in Nat, n \in V PROVE n + 1 \in V
  <2>1. ASSUME NEW s \in Seq(T), Len(s) = n + 1 PROVE s \in U
    <3>1. s = Append(Front(s), Last(s)) /\ Front(s) \in Seq(T) /\ Last(s) \in T /\ Len(Front(s)) = n
      <4>1. s # <<>>
        BY <2>1
      <4>. QED BY <2>1, <4>1 DEF Front, Last
    <3>. QED BY <3>1, <1>2
  <2>. QED BY <2>1
<1> HIDE DEF V
<1>3. Nat \subseteq V
  BY <1>1, <1>2, NatSetInduction
<1>. QED BY <1>3 DEF V

LEMMA FlattenType ==
  ASSUME NEW S
  PROVE  \A s \in Seq(Seq(S)) : FlattenSeq(s) \in Seq(S)
<1> DEFINE U == {s \in Seq(Seq(S)) : FlattenSeq(s) \in Seq(S)}
<1>1. <<>> \in U
  <2>1. <<>> \in Seq(Seq(S)) /\ <<>> \in Seq(S)
    OBVIOUS
  <2>. QED BY <2>1, FlattenNone
<1>2. ASSUME NEW s \in Seq(Seq(S)), NEW x \in Seq(S), s \in U PROVE Append(s, x) \in U
  BY <1>2, FlattenAppend, CatType
<1> HIDE DEF U
<1>3. Seq(Seq(S)) \subseteq U
  BY <1>1, <1>2, AppendInduction
<1>. QED BY <1>3 DEF U

LEMMA FlattenCat ==
  ASSUME NEW S, NEW a \in Seq(Seq(S))
  PROVE  \A b \in Seq(Seq(S)) : FlattenSeq(a \o b) = Cat(FlattenSeq(a), FlattenSeq(b))
<1> DEFINE U == {b \in Seq(Seq(S)) : FlattenSeq(a \o b) = Cat(FlattenSeq(a), FlattenSeq(b))}
<1>1. <<>> \in U
  <2>1. a \o <<>> = a
    OBVIOUS
  <2>2. Cat(FlattenSeq(a), <<>>) = FlattenSeq(a)
    BY FlattenType DEF Cat
  <2>. QED BY <2>1, <2>2, FlattenNone
<1>2. ASSUME NEW b \in Seq(Seq(S)), NEW x \in Seq(S), b \in U PROVE Append(b, x) \in U
  <2>1. a \o Append(b, x) = Append(a \o b, x) /\ a \o b \in Seq(Seq(S))
    OBVIOUS
  <2>2. FlattenSeq(Append(a \o b, x)) = Cat(Cat(FlattenSeq(a), FlattenSeq(b)), x)
    BY <1>2, <2>1, FlattenAppend
  <2>3. Cat(Cat(FlattenSeq(a), FlattenSeq(b)), x) = Cat(FlattenSeq(a), Cat(FlattenSeq(b), x))
    BY CatAssoc, FlattenType
  <2>4. FlattenSeq(Append(b, x)) = Cat(FlattenSeq(b), x)
    BY FlattenAppend
  <2>5. Append(b, x) \in Seq(Seq(S))
    OBVIOUS
  <2>6. FlattenSeq(a \o Append(b, x)) = Cat(FlattenSeq(a), FlattenSeq(Append(b, x)))
    BY <2>1, <2>2, <2>3, <2>4
  <2>. QED BY <2>5, <2>6
<1> HIDE DEF U
<1>3. Seq(Seq(S)) \subseteq U
  BY <1>1, <1>2, AppendInduction
<1>. QED BY <1>3 DEF U

LEMMA FlattenOne ==
  ASSUME NEW S, NEW x \in Seq(S)
  PROVE  FlattenSeq(<<x>>) = x
<1>1. FlattenSeq(Append(<<>>, x)) = Cat(<<>>, x)
  <2>1. <<>> \in Seq(Seq(S))
    OBVIOUS
  <2>. QED BY <2>1, FlattenAppend, FlattenNone
<1>2. Append(<<>>, x) = <<x>> /\ Cat(<<>>, x) = x
  BY DEF Cat
<1>. QED BY <1>1, <1>2

\* The first part, and the others.
LEMMA FlattenHead ==
  ASSUME NEW S, NEW s \in Seq(Seq(S)), s # <<>>
  PROVE  FlattenSeq(s) = Cat(Head(s), FlattenSeq(Tail(s)))
<1>1. s = <<Head(s)>> \o Tail(s) /\ Head(s) \in Seq(S) /\ Tail(s) \in Seq(Seq(S)) /\ <<Head(s)>> \in Seq(Seq(S))
  OBVIOUS
<1>2. FlattenSeq(<<Head(s)>> \o Tail(s)) = Cat(FlattenSeq(<<Head(s)>>), FlattenSeq(Tail(s)))
  BY <1>1, FlattenCat
<1>. QED BY <1>1, <1>2, FlattenOne
-----------------------------------------------------------------------------
(* Folds                                                                   *)

LEMMA MaxOf ==
  ASSUME NEW n \in Nat, NEW s \in SUBSET (1 .. n + 1)
  PROVE  /\ n + 1 \in s => Max(s) = n + 1 /\ s \ {Max(s)} \in SUBSET (1 .. n)
         /\ n + 1 \notin s => s \in SUBSET (1 .. n)
<1>1. ASSUME n + 1 \in s PROVE Max(s) = n + 1
  <2>1. \A y \in s : n + 1 >= y
    OBVIOUS
  <2>2. \A x \in s : (\A y \in s : x >= y) => x = n + 1
    BY <1>1
  <2>. QED BY <1>1, <2>1, <2>2 DEF Max
<1>2. s \ {n + 1} \in SUBSET (1 .. n)
  OBVIOUS
<1>3. ASSUME n + 1 \notin s PROVE s \in SUBSET (1 .. n)
  BY <1>2, <1>3
<1>. QED BY <1>1, <1>2, <1>3

LEMMA MaxIn ==
  \A n \in Nat : \A s \in SUBSET (1 .. n) : s # {} => Max(s) \in s
<1> DEFINE U == {n \in Nat : \A s \in SUBSET (1 .. n) : s # {} => Max(s) \in s}
<1>1. 0 \in U
  <2>1. \A s \in SUBSET (1 .. 0) : s = {}
    OBVIOUS
  <2>. QED BY <2>1
<1>2. ASSUME NEW n \in Nat, n \in U PROVE n + 1 \in U
  <2>1. ASSUME NEW s \in SUBSET (1 .. n + 1), s # {} PROVE Max(s) \in s
    BY <1>2, <2>1, MaxOf
  <2>. QED BY <2>1
<1> HIDE DEF U
<1>3. Nat \subseteq U
  BY <1>1, <1>2, NatSetInduction
<1>. QED BY <1>3 DEF U

\* The runs of the lines of the script.
ScriptFold(it, h, q, n) ==
  it = [s \in SUBSET (1 .. n) |-> IF s = {} THEN h ELSE NextLine(it[s \ {Max(s)}], q[Max(s)])]

LEMMA ScriptFoldExists ==
  ASSUME NEW h, NEW q PROVE \A n \in Nat : \E it : ScriptFold(it, h, q, n)
<1> DEFINE U == {n \in Nat : \E it : ScriptFold(it, h, q, n)}
<1>1. 0 \in U
  <2> DEFINE it == [s \in SUBSET (1 .. 0) |-> h]
  <2>1. \A s \in SUBSET (1 .. 0) : s = {}
    OBVIOUS
  <2>2. ScriptFold(it, h, q, 0)
    BY <2>1 DEF ScriptFold
  <2>. QED BY <2>2
<1>2. ASSUME NEW n \in Nat, n \in U PROVE n + 1 \in U
  <2>1. PICK it : ScriptFold(it, h, q, n)
    BY <1>2
  <2> DEFINE g == [s \in SUBSET (1 .. n + 1) |->
                     IF n + 1 \in s THEN NextLine(it[s \ {n + 1}], q[n + 1]) ELSE it[s]]
  <2>2. \A s \in SUBSET (1 .. n) : s \in SUBSET (1 .. n + 1) /\ n + 1 \notin s /\ g[s] = it[s]
    OBVIOUS
  <2>3. \A s \in SUBSET (1 .. n) : s # {} => Max(s) \in s /\ s \ {Max(s)} \in SUBSET (1 .. n)
    BY MaxIn
  <2>4. \A s \in SUBSET (1 .. n) : it[s] = IF s = {} THEN h ELSE NextLine(it[s \ {Max(s)}], q[Max(s)])
    BY <2>1 DEF ScriptFold
  <2>5. ASSUME NEW s \in SUBSET (1 .. n + 1), n + 1 \in s
        PROVE  g[s] = NextLine(g[s \ {Max(s)}], q[Max(s)])
    <3>1. Max(s) = n + 1 /\ s \ {Max(s)} \in SUBSET (1 .. n)
      BY <2>5, MaxOf
    <3>2. g[s] = NextLine(it[s \ {n + 1}], q[n + 1])
      BY <2>5
    <3>3. g[s \ {n + 1}] = it[s \ {n + 1}]
      BY <3>1, <2>2
    <3>. HIDE DEF g
    <3>. QED BY <3>1, <3>2, <3>3
  <2>6. ASSUME NEW s \in SUBSET (1 .. n), s # {}
        PROVE  g[s] = NextLine(g[s \ {Max(s)}], q[Max(s)])
    <3>1. g[s] = it[s] /\ g[s \ {Max(s)}] = it[s \ {Max(s)}]
      BY <2>2, <2>3, <2>6
    <3>. HIDE DEF g
    <3>. QED BY <3>1, <2>4, <2>6
  <2>7. g[{}] = h
    <3>1. {} \in SUBSET (1 .. n)
      OBVIOUS
    <3>2. g[{}] = it[{}] /\ it[{}] = h
      BY <3>1, <2>2, <2>4
    <3>. QED BY <3>2
  <2>8. \A s \in SUBSET (1 .. n + 1) : n + 1 \in s \/ s \in SUBSET (1 .. n)
    BY MaxOf
  <2>9. g = [s \in SUBSET (1 .. n + 1) |-> g[s]]
    OBVIOUS
  <2>. HIDE DEF g
  <2>10. \A s \in SUBSET (1 .. n + 1) : g[s] = IF s = {} THEN h ELSE NextLine(g[s \ {Max(s)}], q[Max(s)])
    BY <2>5, <2>6, <2>7, <2>8
  <2>11. ScriptFold(g, h, q, n + 1)
    BY <2>9, <2>10 DEF ScriptFold
  <2>. QED BY <2>11
<1> HIDE DEF U
<1>3. Nat \subseteq U
  BY <1>1, <1>2, NatSetInduction
<1>. QED BY <1>3 DEF U

ScriptWalked(w, h, q, n) ==
  /\ w[0] = h
  /\ \A i \in 0 .. n - 1 : w[i + 1] = NextLine(w[i], q[i + 1])
  /\ FoldLeft(NextLine, h, q) = w[n]

LEMMA ScriptWalk ==
  ASSUME NEW h, NEW q, NEW n, n \in Nat, DOMAIN q = 1 .. n
  PROVE  \E w : ScriptWalked(w, h, q, n)
<1>1. PICK it : ScriptFold(it, h, q, n) /\ FoldLeft(NextLine, h, q) = it[1 .. n]
  <2>1. \E it : ScriptFold(it, h, q, n)
    BY ScriptFoldExists
  <2>. QED BY <2>1 DEF ScriptFold, FoldLeft, MapThenFoldSet
<1> DEFINE w == [i \in 0 .. n |-> it[1 .. i]]
<1>2. \A s \in SUBSET (1 .. n) : it[s] = IF s = {} THEN h ELSE NextLine(it[s \ {Max(s)}], q[Max(s)])
  BY <1>1 DEF ScriptFold
<1>3. w[0] = h
  <2>1. 1 .. 0 = {} /\ {} \in SUBSET (1 .. n)
    OBVIOUS
  <2>2. w[0] = it[1 .. 0]
    OBVIOUS
  <2>. HIDE DEF w
  <2>. QED BY <2>1, <2>2, <1>2
<1>4. ASSUME NEW i \in 0 .. n - 1 PROVE w[i + 1] = NextLine(w[i], q[i + 1])
  <2>1. PICK s : s = 1 .. i + 1
    OBVIOUS
  <2>2. i \in Nat /\ s \in SUBSET (1 .. i + 1) /\ i + 1 \in s /\ s \in SUBSET (1 .. n)
    BY <2>1
  <2>3. Max(s) = i + 1
    BY <2>2, MaxOf
  <2>4. s \ {i + 1} = 1 .. i
    BY <2>1
  <2>5. it[s] = NextLine(it[1 .. i], q[i + 1])
    BY <1>2, <2>2, <2>3, <2>4
  <2>6. w[i + 1] = it[s] /\ w[i] = it[1 .. i]
    BY <2>1
  <2>. HIDE DEF w
  <2>. QED BY <2>5, <2>6
<1>5. w[n] = it[1 .. n]
  OBVIOUS
<1>. HIDE DEF w
<1>. QED BY <1>1, <1>3, <1>4, <1>5 DEF ScriptWalked

\* The characters of a text.
TypeFold(it, h, q, n) ==
  it = [s \in SUBSET (1 .. n) |-> IF s = {} THEN h ELSE type_char(it[s \ {Max(s)}], q[Max(s)])]

LEMMA TypeFoldExists ==
  ASSUME NEW h, NEW q PROVE \A n \in Nat : \E it : TypeFold(it, h, q, n)
<1> DEFINE U == {n \in Nat : \E it : TypeFold(it, h, q, n)}
<1>1. 0 \in U
  <2> DEFINE it == [s \in SUBSET (1 .. 0) |-> h]
  <2>1. \A s \in SUBSET (1 .. 0) : s = {}
    OBVIOUS
  <2>2. TypeFold(it, h, q, 0)
    BY <2>1 DEF TypeFold
  <2>. QED BY <2>2
<1>2. ASSUME NEW n \in Nat, n \in U PROVE n + 1 \in U
  <2>1. PICK it : TypeFold(it, h, q, n)
    BY <1>2
  <2> DEFINE g == [s \in SUBSET (1 .. n + 1) |->
                     IF n + 1 \in s THEN type_char(it[s \ {n + 1}], q[n + 1]) ELSE it[s]]
  <2>2. \A s \in SUBSET (1 .. n) : s \in SUBSET (1 .. n + 1) /\ n + 1 \notin s /\ g[s] = it[s]
    OBVIOUS
  <2>3. \A s \in SUBSET (1 .. n) : s # {} => Max(s) \in s /\ s \ {Max(s)} \in SUBSET (1 .. n)
    BY MaxIn
  <2>4. \A s \in SUBSET (1 .. n) : it[s] = IF s = {} THEN h ELSE type_char(it[s \ {Max(s)}], q[Max(s)])
    BY <2>1 DEF TypeFold
  <2>5. ASSUME NEW s \in SUBSET (1 .. n + 1), n + 1 \in s
        PROVE  g[s] = type_char(g[s \ {Max(s)}], q[Max(s)])
    <3>1. Max(s) = n + 1 /\ s \ {Max(s)} \in SUBSET (1 .. n)
      BY <2>5, MaxOf
    <3>2. g[s] = type_char(it[s \ {n + 1}], q[n + 1])
      BY <2>5
    <3>3. g[s \ {n + 1}] = it[s \ {n + 1}]
      BY <3>1, <2>2
    <3>. HIDE DEF g
    <3>. QED BY <3>1, <3>2, <3>3
  <2>6. ASSUME NEW s \in SUBSET (1 .. n), s # {}
        PROVE  g[s] = type_char(g[s \ {Max(s)}], q[Max(s)])
    <3>1. g[s] = it[s] /\ g[s \ {Max(s)}] = it[s \ {Max(s)}]
      BY <2>2, <2>3, <2>6
    <3>. HIDE DEF g
    <3>. QED BY <3>1, <2>4, <2>6
  <2>7. g[{}] = h
    <3>1. {} \in SUBSET (1 .. n)
      OBVIOUS
    <3>2. g[{}] = it[{}] /\ it[{}] = h
      BY <3>1, <2>2, <2>4
    <3>. QED BY <3>2
  <2>8. \A s \in SUBSET (1 .. n + 1) : n + 1 \in s \/ s \in SUBSET (1 .. n)
    BY MaxOf
  <2>9. g = [s \in SUBSET (1 .. n + 1) |-> g[s]]
    OBVIOUS
  <2>. HIDE DEF g
  <2>10. \A s \in SUBSET (1 .. n + 1) : g[s] = IF s = {} THEN h ELSE type_char(g[s \ {Max(s)}], q[Max(s)])
    BY <2>5, <2>6, <2>7, <2>8
  <2>11. TypeFold(g, h, q, n + 1)
    BY <2>9, <2>10 DEF TypeFold
  <2>. QED BY <2>11
<1> HIDE DEF U
<1>3. Nat \subseteq U
  BY <1>1, <1>2, NatSetInduction
<1>. QED BY <1>3 DEF U

TypeWalked(w, h, q, n) ==
  /\ w[0] = h
  /\ \A i \in 0 .. n - 1 : w[i + 1] = type_char(w[i], q[i + 1])
  /\ FoldLeft(type_char, h, q) = w[n]

LEMMA TypeWalk ==
  ASSUME NEW h, NEW q, NEW n, n \in Nat, DOMAIN q = 1 .. n
  PROVE  \E w : TypeWalked(w, h, q, n)
<1>1. PICK it : TypeFold(it, h, q, n) /\ FoldLeft(type_char, h, q) = it[1 .. n]
  <2>1. \E it : TypeFold(it, h, q, n)
    BY TypeFoldExists
  <2>. QED BY <2>1 DEF TypeFold, FoldLeft, MapThenFoldSet
<1> DEFINE w == [i \in 0 .. n |-> it[1 .. i]]
<1>2. \A s \in SUBSET (1 .. n) : it[s] = IF s = {} THEN h ELSE type_char(it[s \ {Max(s)}], q[Max(s)])
  BY <1>1 DEF TypeFold
<1>3. w[0] = h
  <2>1. 1 .. 0 = {} /\ {} \in SUBSET (1 .. n)
    OBVIOUS
  <2>2. w[0] = it[1 .. 0]
    OBVIOUS
  <2>. HIDE DEF w
  <2>. QED BY <2>1, <2>2, <1>2
<1>4. ASSUME NEW i \in 0 .. n - 1 PROVE w[i + 1] = type_char(w[i], q[i + 1])
  <2>1. PICK s : s = 1 .. i + 1
    OBVIOUS
  <2>2. i \in Nat /\ s \in SUBSET (1 .. i + 1) /\ i + 1 \in s /\ s \in SUBSET (1 .. n)
    BY <2>1
  <2>3. Max(s) = i + 1
    BY <2>2, MaxOf
  <2>4. s \ {i + 1} = 1 .. i
    BY <2>1
  <2>5. it[s] = type_char(it[1 .. i], q[i + 1])
    BY <1>2, <2>2, <2>3, <2>4
  <2>6. w[i + 1] = it[s] /\ w[i] = it[1 .. i]
    BY <2>1
  <2>. HIDE DEF w
  <2>. QED BY <2>5, <2>6
<1>5. w[n] = it[1 .. n]
  OBVIOUS
<1>. HIDE DEF w
<1>. QED BY <1>1, <1>3, <1>4, <1>5 DEF TypeWalked

\* The packets of a motion.
MoveFold(it, h, q, l, n) ==
  it = [s \in SUBSET (1 .. n) |-> IF s = {} THEN h ELSE MoveStep(it[s \ {Max(s)}], q[Max(s)], l)]

LEMMA MoveFoldExists ==
  ASSUME NEW h, NEW q, NEW l PROVE \A n \in Nat : \E it : MoveFold(it, h, q, l, n)
<1> DEFINE U == {n \in Nat : \E it : MoveFold(it, h, q, l, n)}
<1>1. 0 \in U
  <2> DEFINE it == [s \in SUBSET (1 .. 0) |-> h]
  <2>1. \A s \in SUBSET (1 .. 0) : s = {}
    OBVIOUS
  <2>2. MoveFold(it, h, q, l, 0)
    BY <2>1 DEF MoveFold
  <2>. QED BY <2>2
<1>2. ASSUME NEW n \in Nat, n \in U PROVE n + 1 \in U
  <2>1. PICK it : MoveFold(it, h, q, l, n)
    BY <1>2
  <2> DEFINE g == [s \in SUBSET (1 .. n + 1) |->
                     IF n + 1 \in s THEN MoveStep(it[s \ {n + 1}], q[n + 1], l) ELSE it[s]]
  <2>2. \A s \in SUBSET (1 .. n) : s \in SUBSET (1 .. n + 1) /\ n + 1 \notin s /\ g[s] = it[s]
    OBVIOUS
  <2>3. \A s \in SUBSET (1 .. n) : s # {} => Max(s) \in s /\ s \ {Max(s)} \in SUBSET (1 .. n)
    BY MaxIn
  <2>4. \A s \in SUBSET (1 .. n) : it[s] = IF s = {} THEN h ELSE MoveStep(it[s \ {Max(s)}], q[Max(s)], l)
    BY <2>1 DEF MoveFold
  <2>5. ASSUME NEW s \in SUBSET (1 .. n + 1), n + 1 \in s
        PROVE  g[s] = MoveStep(g[s \ {Max(s)}], q[Max(s)], l)
    <3>1. Max(s) = n + 1 /\ s \ {Max(s)} \in SUBSET (1 .. n)
      BY <2>5, MaxOf
    <3>2. g[s] = MoveStep(it[s \ {n + 1}], q[n + 1], l)
      BY <2>5
    <3>3. g[s \ {n + 1}] = it[s \ {n + 1}]
      BY <3>1, <2>2
    <3>. HIDE DEF g
    <3>. QED BY <3>1, <3>2, <3>3
  <2>6. ASSUME NEW s \in SUBSET (1 .. n), s # {}
        PROVE  g[s] = MoveStep(g[s \ {Max(s)}], q[Max(s)], l)
    <3>1. g[s] = it[s] /\ g[s \ {Max(s)}] = it[s \ {Max(s)}]
      BY <2>2, <2>3, <2>6
    <3>. HIDE DEF g
    <3>. QED BY <3>1, <2>4, <2>6
  <2>7. g[{}] = h
    <3>1. {} \in SUBSET (1 .. n)
      OBVIOUS
    <3>2. g[{}] = it[{}] /\ it[{}] = h
      BY <3>1, <2>2, <2>4
    <3>. QED BY <3>2
  <2>8. \A s \in SUBSET (1 .. n + 1) : n + 1 \in s \/ s \in SUBSET (1 .. n)
    BY MaxOf
  <2>9. g = [s \in SUBSET (1 .. n + 1) |-> g[s]]
    OBVIOUS
  <2>. HIDE DEF g
  <2>10. \A s \in SUBSET (1 .. n + 1) : g[s] = IF s = {} THEN h ELSE MoveStep(g[s \ {Max(s)}], q[Max(s)], l)
    BY <2>5, <2>6, <2>7, <2>8
  <2>11. MoveFold(g, h, q, l, n + 1)
    BY <2>9, <2>10 DEF MoveFold
  <2>. QED BY <2>11
<1> HIDE DEF U
<1>3. Nat \subseteq U
  BY <1>1, <1>2, NatSetInduction
<1>. QED BY <1>3 DEF U

MoveWalked(w, h, q, l, n) ==
  /\ w[0] = h
  /\ \A i \in 0 .. n - 1 : w[i + 1] = MoveStep(w[i], q[i + 1], l)
  /\ FoldLeft(LAMBDA a, i : MoveStep(a, i, l), h, q) = w[n]

LEMMA MoveWalk ==
  ASSUME NEW h, NEW q, NEW l, NEW n, n \in Nat, DOMAIN q = 1 .. n
  PROVE  \E w : MoveWalked(w, h, q, l, n)
<1>1. PICK it : MoveFold(it, h, q, l, n) /\ FoldLeft(LAMBDA a, i : MoveStep(a, i, l), h, q) = it[1 .. n]
  <2>1. \E it : MoveFold(it, h, q, l, n)
    BY MoveFoldExists
  <2>. QED BY <2>1 DEF MoveFold, FoldLeft, MapThenFoldSet
<1> DEFINE w == [i \in 0 .. n |-> it[1 .. i]]
<1>2. \A s \in SUBSET (1 .. n) : it[s] = IF s = {} THEN h ELSE MoveStep(it[s \ {Max(s)}], q[Max(s)], l)
  BY <1>1 DEF MoveFold
<1>3. w[0] = h
  <2>1. 1 .. 0 = {} /\ {} \in SUBSET (1 .. n)
    OBVIOUS
  <2>2. w[0] = it[1 .. 0]
    OBVIOUS
  <2>. HIDE DEF w
  <2>. QED BY <2>1, <2>2, <1>2
<1>4. ASSUME NEW i \in 0 .. n - 1 PROVE w[i + 1] = MoveStep(w[i], q[i + 1], l)
  <2>1. PICK s : s = 1 .. i + 1
    OBVIOUS
  <2>2. i \in Nat /\ s \in SUBSET (1 .. i + 1) /\ i + 1 \in s /\ s \in SUBSET (1 .. n)
    BY <2>1
  <2>3. Max(s) = i + 1
    BY <2>2, MaxOf
  <2>4. s \ {i + 1} = 1 .. i
    BY <2>1
  <2>5. it[s] = MoveStep(it[1 .. i], q[i + 1], l)
    BY <1>2, <2>2, <2>3, <2>4
  <2>6. w[i + 1] = it[s] /\ w[i] = it[1 .. i]
    BY <2>1
  <2>. HIDE DEF w
  <2>. QED BY <2>5, <2>6
<1>5. w[n] = it[1 .. n]
  OBVIOUS
<1>. HIDE DEF w
<1>. QED BY <1>1, <1>3, <1>4, <1>5 DEF MoveWalked
-----------------------------------------------------------------------------
(* Bytes of a queue: those that report events, and their values             *)

LEMMA CatIs ==
  ASSUME NEW S, NEW A \in Seq(S), NEW B \in Seq(S), NEW C \in Seq(S), Len(C) = Len(A) + Len(B),
         \A i \in 1 .. Len(A) + Len(B) : C[i] = IF i <= Len(A) THEN A[i] ELSE B[i - Len(A)]
  PROVE  C = Cat(A, B)
<1>0. A \o B \in Seq(S)
  OBVIOUS
<1>1. PICK D \in Seq(S) : D = A \o B
  BY <1>0
<1>2. Len(D) = Len(A) + Len(B) /\ \A i \in 1 .. Len(A) + Len(B) : D[i] = IF i <= Len(A) THEN A[i] ELSE B[i - Len(A)]
  BY <1>1
<1>3. \A i \in 1 .. Len(D) : D[i] = C[i]
  BY <1>2
<1>4. D = C
  BY <1>2, <1>3
<1>. QED BY <1>1, <1>4 DEF Cat

EventPart(b) == IF b.event THEN <<b>> ELSE <<>>
EventParts(q) == [i \in DOMAIN q |-> IF q[i].event THEN <<q[i]>> ELSE <<>>]

LEMMA EventPartsType ==
  ASSUME NEW S, NEW q \in Seq(S)
  PROVE  EventParts(q) \in Seq(Seq(S)) /\ Len(EventParts(q)) = Len(q)
<1>1. \A i \in 1 .. Len(q) : (IF q[i].event THEN <<q[i]>> ELSE <<>>) \in Seq(S)
  OBVIOUS
<1>2. EventParts(q) = [i \in 1 .. Len(q) |-> IF q[i].event THEN <<q[i]>> ELSE <<>>]
  BY DEF EventParts
<1>3. PICK n \in Nat : n = Len(q)
  OBVIOUS
<1>4. PICK g : g = EventParts(q)
  OBVIOUS
<1>5. g = [i \in 1 .. n |-> g[i]] /\ \A i \in 1 .. n : g[i] \in Seq(S)
  BY <1>1, <1>2, <1>3, <1>4
<1>6. g \in Seq(Seq(S)) /\ Len(g) = n
  BY <1>5
<1>. QED BY <1>3, <1>4, <1>6

LEMMA EventsType ==
  ASSUME NEW S
  PROVE  \A q \in Seq(S) : EventsOf(q) \in Seq(S)
<1> SUFFICES ASSUME NEW q \in Seq(S) PROVE EventsOf(q) \in Seq(S)
  OBVIOUS
<1>1. EventsOf(q) = FlattenSeq(EventParts(q))
  BY DEF EventsOf, EventParts
<1>. QED BY <1>1, EventPartsType, FlattenType

LEMMA EventsNone == EventsOf(<<>>) = <<>>
<1>1. EventParts(<<>>) = <<>>
  BY DEF EventParts
<1>. QED BY <1>1, FlattenNone DEF EventsOf, EventParts

LEMMA EventsCat ==
  ASSUME NEW S, NEW a \in Seq(S), NEW b \in Seq(S)
  PROVE  EventsOf(a \o b) = Cat(EventsOf(a), EventsOf(b))
<1>1. EventParts(a \o b) = EventParts(a) \o EventParts(b)
  <2>1. \A i \in 1 .. Len(a) + Len(b) :
          (a \o b)[i] = IF i <= Len(a) THEN a[i] ELSE b[i - Len(a)]
    OBVIOUS
  <2>2. DOMAIN (a \o b) = 1 .. Len(a) + Len(b)
    OBVIOUS
  <2>3. \A i \in 1 .. Len(a) + Len(b) :
          EventParts(a \o b)[i] = IF i <= Len(a) THEN EventParts(a)[i] ELSE EventParts(b)[i - Len(a)]
    <3>1. \A i \in 1 .. Len(a) + Len(b) :
            /\ i <= Len(a) => i \in DOMAIN a
            /\ ~(i <= Len(a)) => i - Len(a) \in DOMAIN b
      OBVIOUS
    <3>. QED BY <2>1, <2>2, <3>1 DEF EventParts
  <2>4. EventParts(a) \in Seq(Seq(S)) /\ EventParts(b) \in Seq(Seq(S)) /\ EventParts(a \o b) \in Seq(Seq(S))
        /\ Len(EventParts(a)) = Len(a) /\ Len(EventParts(b)) = Len(b)
        /\ Len(EventParts(a \o b)) = Len(a) + Len(b)
    <3>1. a \o b \in Seq(S) /\ Len(a \o b) = Len(a) + Len(b)
      OBVIOUS
    <3>. QED BY <3>1, EventPartsType
  <2>5. PICK A, B \in Seq(Seq(S)), C \in Seq(Seq(S)) :
          A = EventParts(a) /\ B = EventParts(b) /\ C = EventParts(a \o b) /\ A \in Seq(Seq(S))
    BY <2>4
  <2>6. /\ Len(A) = Len(a) /\ Len(B) = Len(b) /\ Len(C) = Len(A) + Len(B)
        /\ \A i \in 1 .. Len(A) + Len(B) : C[i] = IF i <= Len(A) THEN A[i] ELSE B[i - Len(A)]
    BY <2>3, <2>4, <2>5
  <2>7. C = A \o B
    BY <2>5, <2>6, CatIs DEF Cat
  <2>. QED BY <2>5, <2>7
<1>2. EventParts(a) \in Seq(Seq(S)) /\ EventParts(b) \in Seq(Seq(S))
  BY EventPartsType
<1>3. FlattenSeq(EventParts(a) \o EventParts(b)) = Cat(FlattenSeq(EventParts(a)), FlattenSeq(EventParts(b)))
  BY <1>2, FlattenCat
<1>4. \A q : EventsOf(q) = FlattenSeq(EventParts(q))
  BY DEF EventsOf, EventParts
<1>. QED BY <1>1, <1>3, <1>4

LEMMA EventsOne ==
  ASSUME NEW S, NEW b \in S
  PROVE  EventsOf(<<b>>) = EventPart(b)
<1>1. EventParts(<<b>>) = <<EventPart(b)>>
  BY DEF EventParts, EventPart
<1>2. EventPart(b) \in Seq(S)
  BY DEF EventPart
<1>3. FlattenSeq(<<EventPart(b)>>) = EventPart(b)
  BY <1>2, FlattenOne
<1>. QED BY <1>1, <1>3 DEF EventsOf, EventParts

LEMMA EventsAppend ==
  ASSUME NEW S, NEW q \in Seq(S), NEW b \in S
  PROVE  EventsOf(Append(q, b)) = Cat(EventsOf(q), EventPart(b))
<1>1. Append(q, b) = q \o <<b>> /\ <<b>> \in Seq(S)
  OBVIOUS
<1>. QED BY <1>1, EventsCat, EventsOne

LEMMA EventsAll ==
  ASSUME NEW S, \A b \in S : b.event
  PROVE  \A q \in Seq(S) : EventsOf(q) = q
<1> DEFINE U == {q \in Seq(S) : EventsOf(q) = q}
<1>1. <<>> \in U
  BY EventsNone
<1>2. ASSUME NEW q \in Seq(S), NEW b \in S, q \in U PROVE Append(q, b) \in U
  <2>1. EventsOf(Append(q, b)) = Cat(q, <<b>>)
    BY <1>2, EventsAppend DEF EventPart
  <2>2. Cat(q, <<b>>) = Append(q, b) /\ Append(q, b) \in Seq(S)
    BY DEF Cat
  <2>. QED BY <2>1, <2>2
<1> HIDE DEF U
<1>3. Seq(S) \subseteq U
  BY <1>1, <1>2, AppendInduction
<1>. QED BY <1>3 DEF U

LEMMA EventsOfReplies ==
  ASSUME NEW S, \A b \in S : ~b.event
  PROVE  \A q \in Seq(S) : EventsOf(q) = <<>>
<1> DEFINE U == {q \in Seq(S) : EventsOf(q) = <<>>}
<1>1. <<>> \in U
  BY EventsNone
<1>2. ASSUME NEW q \in Seq(S), NEW b \in S, q \in U PROVE Append(q, b) \in U
  <2>1. EventsOf(Append(q, b)) = Cat(<<>>, <<>>)
    BY <1>2, EventsAppend DEF EventPart
  <2>2. Cat(<<>>, <<>>) = <<>> /\ Append(q, b) \in Seq(S)
    BY DEF Cat
  <2>. QED BY <2>1, <2>2
<1> HIDE DEF U
<1>3. Seq(S) \subseteq U
  BY <1>1, <1>2, AppendInduction
<1>. QED BY <1>3 DEF U

LEMMA ValsType ==
  ASSUME NEW S, NEW V, \A b \in S : b.val \in V, NEW q \in Seq(S)
  PROVE  Vals(q) \in Seq(V) /\ Len(Vals(q)) = Len(q)
  BY DEF Vals

LEMMA ValsCat ==
  ASSUME NEW S, NEW V, \A b \in S : b.val \in V, NEW a \in Seq(S), NEW b \in Seq(S)
  PROVE  Vals(a \o b) = Cat(Vals(a), Vals(b))
<1>1. a \o b \in Seq(S) /\ Len(a \o b) = Len(a) + Len(b) /\ DOMAIN (a \o b) = 1 .. Len(a) + Len(b)
      /\ \A i \in 1 .. Len(a) + Len(b) : (a \o b)[i] = IF i <= Len(a) THEN a[i] ELSE b[i - Len(a)]
  OBVIOUS
<1>2. PICK A \in Seq(V), B \in Seq(V), C \in Seq(V) : A = Vals(a) /\ B = Vals(b) /\ C = Vals(a \o b)
  BY <1>1, ValsType
<1>3. Len(A) = Len(a) /\ Len(B) = Len(b) /\ Len(C) = Len(A) + Len(B)
  BY <1>1, <1>2, ValsType
<1>4. \A i \in 1 .. Len(a) + Len(b) :
        /\ i <= Len(a) => i \in DOMAIN a
        /\ ~(i <= Len(a)) => i - Len(a) \in DOMAIN b
  OBVIOUS
<1>5. \A i \in 1 .. Len(a) + Len(b) : C[i] = IF i <= Len(a) THEN A[i] ELSE B[i - Len(a)]
  BY <1>1, <1>2, <1>4 DEF Vals
<1>6. C = A \o B
  BY <1>3, <1>5, CatIs DEF Cat
<1>. QED BY <1>2, <1>6 DEF Cat
-----------------------------------------------------------------------------
(* The keyboard's bytes                                                    *)

ScanCodes == {"e0", "f0", "s1", "s1 up", "s2", "s3"}
Replies == {"ccb", "ack", "bat", "id", "echo", "set", "test", "written", "none", "status"}
KbdVal == [scan : ScanCodes] \cup [reply : Replies]
KeyEvents == [event : {TRUE}, left : Int, val : [scan : ScanCodes]]
KbdReplies == [event : {FALSE}, left : Int, val : [reply : Replies]]
KbdByte == KeyEvents \cup KbdReplies

Ps2Fields == {"ccb", "pending_cmd", "obf", "aux_obf", "out", "kbd_q", "aux_q", "kbd_pending",
              "kbd_enabled", "scan_set", "aux_pending", "aux_enabled"}
HostFields == {"kbd", "aux", "buttons", "events", "icnt", "script_pc", "wait", "keys", "head", "pos"}

\* A controller, and what it holds of the keyboard, oldest first.
Controller(p) ==
  /\ p = [f \in Ps2Fields |-> p[f]]
  /\ p.kbd_q \in Seq(KbdByte)
  /\ p.obf \in BOOLEAN /\ p.aux_obf \in BOOLEAN
  /\ p.obf /\ ~p.aux_obf => p.out \in KbdByte
OutByte(p) == IF p.obf /\ ~p.aux_obf THEN <<p.out>> ELSE <<>>
KbdStream(p) == OutByte(p) \o p.kbd_q
Settled(p) == ~p.obf => ~KbdReady(p) /\ ~AuxReady(p)

\* The key strokes among bytes.
Strokes(q) == Vals(EventsOf(q))

\* The host's side: the strokes X are in the controller, the others are here.
HostHas(h, X) ==
  /\ h = [f \in HostFields |-> h[f]]
  /\ h.kbd \in Seq(Seq(KeyEvents))
  /\ h.keys = Cat(X, Vals(FlattenSeq(h.kbd)))

\* The inductive invariant.
KbdInv ==
  /\ Controller(ps2)
  /\ Settled(ps2)
  /\ HostHas(host, Strokes(KbdStream(ps2)))

LEMMA KbdSets ==
  /\ \A b \in KbdByte : b.val \in KbdVal
  /\ \A b \in KeyEvents : b.event /\ b.val \in KbdVal
  /\ \A b \in KbdReplies : ~b.event /\ b.val \in KbdVal
  /\ \A q \in Seq(KeyEvents) : q \in Seq(KbdByte)
  /\ \A q \in Seq(KbdReplies) : q \in Seq(KbdByte)
<1>1. \A b \in KeyEvents : b.event /\ b.val \in KbdVal
  BY DEF KeyEvents, KbdVal
<1>2. \A b \in KbdReplies : ~b.event /\ b.val \in KbdVal
  BY DEF KbdReplies, KbdVal
<1>3. KeyEvents \subseteq KbdByte /\ KbdReplies \subseteq KbdByte
  BY DEF KbdByte
<1>4. \A b \in KbdByte : b \in KeyEvents \/ b \in KbdReplies
  BY DEF KbdByte
<1>. QED BY <1>1, <1>2, <1>3, <1>4

LEMMA StrokesType ==
  \A q \in Seq(KbdByte) : Strokes(q) \in Seq(KbdVal)
  BY KbdSets, EventsType, ValsType DEF Strokes

LEMMA StrokesCat ==
  ASSUME NEW a \in Seq(KbdByte), NEW b \in Seq(KbdByte)
  PROVE  Strokes(a \o b) = Cat(Strokes(a), Strokes(b))
<1>1. EventsOf(a \o b) = EventsOf(a) \o EventsOf(b)
  BY EventsCat DEF Cat
<1>2. PICK A \in Seq(KbdByte), B \in Seq(KbdByte) : A = EventsOf(a) /\ B = EventsOf(b)
  BY EventsType
<1>3. Vals(A \o B) = Cat(Vals(A), Vals(B))
  BY ValsCat, KbdSets
<1>. QED BY <1>1, <1>2, <1>3 DEF Strokes

LEMMA NoStrokes ==
  /\ \A r \in Seq(KbdReplies) : Strokes(r) = <<>>
  /\ Strokes(<<>>) = <<>>
<1>1. Vals(<<>>) = <<>>
  BY DEF Vals
<1>2. \A r \in Seq(KbdReplies) : EventsOf(r) = <<>>
  BY KbdSets, EventsOfReplies
<1>. QED BY <1>1, <1>2, EventsNone DEF Strokes

LEMMA AllStrokes == \A q \in Seq(KeyEvents) : Strokes(q) = Vals(q)
<1>1. \A q \in Seq(KeyEvents) : EventsOf(q) = q
  BY KbdSets, EventsAll
<1>. QED BY <1>1 DEF Strokes

LEMMA CatNone == \A S : \A q \in Seq(S) : Cat(q, <<>>) = q /\ Cat(<<>>, q) = q
  BY DEF Cat

LEMMA StreamType ==
  ASSUME NEW p, Controller(p)
  PROVE  KbdStream(p) \in Seq(KbdByte) /\ OutByte(p) \in Seq(KbdByte)
  BY DEF KbdStream, OutByte, Controller

\* refill() moves a byte, and leaves none behind for an empty buffer.
LEMMA RefillKeeps ==
  ASSUME NEW p, Controller(p)
  PROVE  Controller(refill(p)) /\ Settled(refill(p)) /\ KbdStream(refill(p)) = KbdStream(p)
<1>1. CASE p.obf
  BY <1>1 DEF refill, Settled
<1>2. CASE ~p.obf /\ KbdReady(p)
  <2>1. PICK q : q = refill(p)
    OBVIOUS
  <2>2. /\ q = [f \in Ps2Fields |-> q[f]] /\ q.out = Head(p.kbd_q) /\ q.kbd_q = Tail(p.kbd_q)
        /\ q.obf = TRUE /\ q.aux_obf = FALSE
    BY <1>2, <2>1 DEF refill, Controller, Ps2Fields
  <2>3. p.kbd_q \in Seq(KbdByte) /\ p.kbd_q # <<>>
    BY <1>2 DEF Controller, KbdReady
  <2>4. Head(p.kbd_q) \in KbdByte /\ Tail(p.kbd_q) \in Seq(KbdByte) /\ p.kbd_q = <<Head(p.kbd_q)>> \o Tail(p.kbd_q)
    BY <2>3
  <2>5. Controller(q) /\ Settled(q)
    BY <2>2, <2>4 DEF Controller, Settled
  <2>6. KbdStream(q) = KbdStream(p)
    <3>1. OutByte(p) = <<>> /\ OutByte(q) = <<Head(p.kbd_q)>>
      BY <1>2, <2>2 DEF OutByte
    <3>2. KbdStream(p) = p.kbd_q
      BY <2>3, <3>1 DEF KbdStream
    <3>. QED BY <2>2, <2>4, <3>1, <3>2 DEF KbdStream
  <2>. QED BY <2>1, <2>5, <2>6
<1>3. CASE ~p.obf /\ ~KbdReady(p) /\ AuxReady(p)
  <2>1. PICK q : q = refill(p)
    OBVIOUS
  <2>2. /\ q = [f \in Ps2Fields |-> q[f]] /\ q.kbd_q = p.kbd_q /\ q.obf = TRUE /\ q.aux_obf = TRUE
    BY <1>3, <2>1 DEF refill, Controller, Ps2Fields
  <2>3. Controller(q) /\ Settled(q)
    BY <2>2 DEF Controller, Settled
  <2>4. KbdStream(q) = KbdStream(p)
    BY <1>3, <2>2 DEF KbdStream, OutByte
  <2>. QED BY <2>1, <2>3, <2>4
<1>4. CASE ~p.obf /\ ~KbdReady(p) /\ ~AuxReady(p)
  BY <1>4 DEF refill, Settled
<1>. QED BY <1>1, <1>2, <1>3, <1>4

\* Commands leave the bytes there are in their order, and add replies.
Keeps(p, q) ==
  /\ q = [f \in Ps2Fields |-> q[f]]
  /\ q.obf = p.obf /\ q.aux_obf = p.aux_obf /\ q.out = p.out
Answers(p, q) ==
  /\ Keeps(p, q)
  /\ \/ q.kbd_q = p.kbd_q
     \/ \E r \in Seq(KbdReplies) : q.kbd_q = p.kbd_q \o r \/ q.kbd_q = r \o p.kbd_q

LEMMA AnswersKeep ==
  ASSUME NEW p, NEW q, Controller(p), Answers(p, q)
  PROVE  Controller(q) /\ Strokes(KbdStream(q)) = Strokes(KbdStream(p))
<1>0. p.kbd_q \in Seq(KbdByte) /\ OutByte(p) \in Seq(KbdByte) /\ OutByte(q) = OutByte(p)
  BY StreamType DEF Controller, Answers, Keeps, OutByte
<1>1. PICK A \in Seq(KbdByte), B \in Seq(KbdByte) : A = OutByte(p) /\ B = p.kbd_q
  BY <1>0
<1>2. Strokes(KbdStream(p)) = Cat(Strokes(A), Strokes(B))
  BY <1>1, StrokesCat DEF KbdStream
<1>3. CASE q.kbd_q = p.kbd_q
  BY <1>0, <1>3 DEF Answers, Keeps, Controller, KbdStream
<1>4. ASSUME NEW r \in Seq(KbdReplies), q.kbd_q = p.kbd_q \o r \/ q.kbd_q = r \o p.kbd_q
      PROVE  Controller(q) /\ Strokes(KbdStream(q)) = Strokes(KbdStream(p))
  <2>1. r \in Seq(KbdByte) /\ Strokes(r) = <<>>
    BY KbdSets, NoStrokes
  <2>2. PICK Q \in Seq(KbdByte) : Q = q.kbd_q
    <3>1. p.kbd_q \o r \in Seq(KbdByte) /\ r \o p.kbd_q \in Seq(KbdByte)
      BY <1>0, <2>1
    <3>. QED BY <3>1, <1>4
  <2>3. Strokes(Q) = Strokes(B)
    <3>1. Strokes(B \o r) = Cat(Strokes(B), <<>>) /\ Strokes(r \o B) = Cat(<<>>, Strokes(B))
      BY <2>1, StrokesCat
    <3>2. Strokes(B) \in Seq(KbdVal)
      BY StrokesType
    <3>. QED BY <3>1, <3>2, <1>1, <1>4, <2>2, CatNone
  <2>4. Strokes(KbdStream(q)) = Cat(Strokes(A), Strokes(Q))
    BY <1>0, <1>1, <2>2, StrokesCat DEF KbdStream
  <2>5. Controller(q)
    BY <2>2 DEF Controller, Answers, Keeps
  <2>. QED BY <1>2, <2>3, <2>4, <2>5
<1>. QED BY <1>3, <1>4 DEF Answers

LEMMA ReplyIs ==
  ASSUME NEW vals \in Seq(Replies)
  PROVE  Reply(vals) \in Seq(KbdReplies)
<1>1. PICK n \in Nat : n = Len(vals) /\ DOMAIN vals = 1 .. n
  OBVIOUS
<1>2. PICK w : w = [i \in 1 .. n |-> [reply |-> vals[i]]]
  OBVIOUS
<1>3. Len(w) = n /\ \A i \in 1 .. n : w[i] \in [reply : Replies]
  BY <1>1, <1>2
<1>4. Reply(vals) = [i \in 1 .. n |-> [event |-> FALSE, left |-> n - i, val |-> w[i]]]
  BY <1>1, <1>2, <1>3 DEF Reply, Bytes
<1>5. \A i \in 1 .. n : [event |-> FALSE, left |-> n - i, val |-> w[i]] \in KbdReplies
  BY <1>3 DEF KbdReplies
<1>. QED BY <1>4, <1>5

LEMMA PutAnswers ==
  ASSUME NEW p, NEW q, Keeps(p, q), q.kbd_q = p.kbd_q, NEW d, NEW vals \in Seq(Replies)
  PROVE  Answers(p, Put(q, d, vals))
<1>1. Reply(vals) \in Seq(KbdReplies)
  BY ReplyIs
<1>2. CASE d = "kbd"
  <2>1. PICK t : t = Put(q, d, vals)
    OBVIOUS
  <2>2. Keeps(p, t) /\ t.kbd_q = p.kbd_q \o Reply(vals)
    BY <1>2, <2>1 DEF Put, Keeps, Ps2Fields
  <2>. QED BY <1>1, <2>1, <2>2 DEF Answers
<1>3. CASE d # "kbd"
  <2>1. PICK t : t = Put(q, d, vals)
    OBVIOUS
  <2>2. Keeps(p, t) /\ t.kbd_q = p.kbd_q
    BY <1>3, <2>1 DEF Put, Keeps, Ps2Fields
  <2>. QED BY <2>1, <2>2 DEF Answers
<1>. QED BY <1>2, <1>3

LEMMA CtlAnswers ==
  ASSUME NEW p, Controller(p), NEW v
  PROVE  Answers(p, ctl_cmd(p, v))
<1>0. Keeps(p, p) /\ p.kbd_q = p.kbd_q
  BY DEF Keeps, Controller
<1>1. CASE v = 32
  <2>1. PICK t : t = ctl_cmd(p, v)
    OBVIOUS
  <2>2. t = [p EXCEPT !.kbd_q = Reply(<<"ccb">>) \o @]
    BY <1>1, <2>1 DEF ctl_cmd
  <2>3. Keeps(p, t) /\ t.kbd_q = Reply(<<"ccb">>) \o p.kbd_q
    BY <2>2 DEF Keeps, Controller, Ps2Fields
  <2>4. <<"ccb">> \in Seq(Replies)
    BY DEF Replies
  <2>5. Reply(<<"ccb">>) \in Seq(KbdReplies)
    BY <2>4, ReplyIs
  <2>. QED BY <2>1, <2>3, <2>5 DEF Answers
<1>2. CASE v \in {169, 170, 171, 192, 208}
  <2>1. <<"test">> \in Seq(Replies)
    BY DEF Replies
  <2>2. Answers(p, Put(p, "kbd", <<"test">>))
    BY <1>0, <2>1, PutAnswers
  <2>3. ctl_cmd(p, v) = Put(p, "kbd", <<"test">>)
    BY <1>2 DEF ctl_cmd
  <2>. QED BY <2>2, <2>3
<1>3. CASE v # 32 /\ v \notin {169, 170, 171, 192, 208}
  <2>1. PICK t : t = ctl_cmd(p, v)
    OBVIOUS
  <2>2. \/ t = p
        \/ t = [p EXCEPT !.pending_cmd = v]
        \/ t = [p EXCEPT !.ccb = @ \cup {"AUX_OFF"}]
        \/ t = [p EXCEPT !.ccb = @ \ {"AUX_OFF"}]
        \/ t = [p EXCEPT !.ccb = @ \cup {"KBD_OFF"}]
        \/ t = [p EXCEPT !.ccb = @ \ {"KBD_OFF"}]
    BY <1>3, <2>1 DEF ctl_cmd
  <2>3. Keeps(p, t) /\ t.kbd_q = p.kbd_q
    BY <2>2 DEF Keeps, Controller, Ps2Fields
  <2>. QED BY <2>1, <2>3 DEF Answers
<1>. QED BY <1>1, <1>2, <1>3

LEMMA ReplySeqs ==
  /\ <<"ack">> \in Seq(Replies) /\ <<"ack", "set">> \in Seq(Replies) /\ <<"ack", "bat">> \in Seq(Replies)
  /\ <<"ack", "id">> \in Seq(Replies) /\ <<"ack", "id", "id">> \in Seq(Replies) /\ <<"echo">> \in Seq(Replies)
  /\ <<"ack", "bat", "id">> \in Seq(Replies) /\ <<"ack", "status", "status", "status">> \in Seq(Replies)
  /\ <<"written">> \in Seq(Replies)
<1>1. {"ack", "set", "bat", "id", "echo", "status", "written"} \subseteq Replies
  BY DEF Replies
<1>. QED BY <1>1

LEMMA KbdCmdAnswers ==
  ASSUME NEW p, NEW q, Controller(p), Keeps(p, q), q.kbd_q = p.kbd_q, NEW v
  PROVE  Answers(p, kbd_cmd(q, v))
<1>1. CASE q.kbd_pending # 0 /\ v < 237
  <2>1. PICK t, u : /\ t = [q EXCEPT !.kbd_pending = IF q.kbd_pending \in ListCmds THEN q.kbd_pending ELSE 0]
                    /\ u = [t EXCEPT !.scan_set = IF q.kbd_pending = 240 THEN v ELSE @]
    OBVIOUS
  <2>2. Keeps(p, t) /\ t.kbd_q = p.kbd_q
    BY <2>1 DEF Keeps, Ps2Fields
  <2>3. Keeps(p, u) /\ u.kbd_q = p.kbd_q
    BY <2>1, <2>2 DEF Keeps, Ps2Fields
  <2>4. PICK z : z = [t EXCEPT !.kbd_pending = 0]
    OBVIOUS
  <2>5. Keeps(p, z) /\ z.kbd_q = p.kbd_q
    BY <2>4, <2>2 DEF Keeps, Ps2Fields
  <2>6. kbd_cmd(q, v) = Put(z, "kbd", <<"ack", "set">>) \/ kbd_cmd(q, v) = Put(u, "kbd", <<"ack">>)
    BY <1>1, <2>1, <2>4 DEF kbd_cmd, KbdArg
  <2>. QED BY <2>3, <2>5, <2>6, PutAnswers, ReplySeqs
<1>2. CASE ~(q.kbd_pending # 0 /\ v < 237)
  <2>1. PICK t : t = [q EXCEPT !.kbd_pending = IF v \in ArgCmds THEN v ELSE 0]
    OBVIOUS
  <2>2. Keeps(p, t) /\ t.kbd_q = p.kbd_q
    BY <2>1 DEF Keeps, Ps2Fields
  <2>3. PICK u : /\ Keeps(p, u) /\ u.kbd_q = p.kbd_q
                 /\ \/ kbd_cmd(q, v) = Put(u, "kbd", <<"ack", "bat">>)
                    \/ kbd_cmd(q, v) = Put(u, "kbd", <<"ack", "id", "id">>)
                    \/ kbd_cmd(q, v) = Put(u, "kbd", <<"echo">>)
                    \/ kbd_cmd(q, v) = Put(u, "kbd", <<"ack">>)
    <3>0. kbd_cmd(q, v) = KbdNew(q, v)
      BY <1>2 DEF kbd_cmd
    <3>1. CASE v = 255
      <4>1. PICK u : u = [t EXCEPT !.scan_set = 2, !.kbd_enabled = TRUE]
        OBVIOUS
      <4>2. Keeps(p, u) /\ u.kbd_q = p.kbd_q
        BY <4>1, <2>2 DEF Keeps, Ps2Fields
      <4>3. KbdNew(q, v) = Put(u, "kbd", <<"ack", "bat">>)
        BY <3>1, <2>1, <4>1 DEF KbdNew
      <4>. QED BY <3>0, <4>2, <4>3
    <3>2. CASE v \in {244, 246}
      <4>1. PICK u : u = [t EXCEPT !.kbd_enabled = TRUE]
        OBVIOUS
      <4>2. Keeps(p, u) /\ u.kbd_q = p.kbd_q
        BY <4>1, <2>2 DEF Keeps, Ps2Fields
      <4>3. KbdNew(q, v) = Put(u, "kbd", <<"ack">>)
        BY <3>2, <2>1, <4>1 DEF KbdNew
      <4>. QED BY <3>0, <4>2, <4>3
    <3>3. CASE v = 245
      <4>1. PICK u : u = [t EXCEPT !.kbd_enabled = FALSE]
        OBVIOUS
      <4>2. Keeps(p, u) /\ u.kbd_q = p.kbd_q
        BY <4>1, <2>2 DEF Keeps, Ps2Fields
      <4>3. KbdNew(q, v) = Put(u, "kbd", <<"ack">>)
        BY <3>3, <2>1, <4>1 DEF KbdNew
      <4>. QED BY <3>0, <4>2, <4>3
    <3>4. CASE v \notin {255, 244, 246, 245}
      <4>1. CASE v = 242
        <5>1. KbdNew(q, v) = Put(t, "kbd", <<"ack", "id", "id">>)
          BY <4>1, <2>1 DEF KbdNew
        <5>. QED BY <3>0, <2>2, <5>1
      <4>2. CASE v = 238
        <5>1. KbdNew(q, v) = Put(t, "kbd", <<"echo">>)
          BY <4>2, <2>1 DEF KbdNew
        <5>. QED BY <3>0, <2>2, <5>1
      <4>3. CASE v \notin {242, 238}
        <5>1. KbdNew(q, v) = Put(t, "kbd", <<"ack">>)
          BY <3>4, <4>3, <2>1 DEF KbdNew
        <5>. QED BY <3>0, <2>2, <5>1
      <4>. QED BY <4>1, <4>2, <4>3
    <3>. QED BY <3>1, <3>2, <3>3, <3>4
  <2>. QED BY <2>3, PutAnswers, ReplySeqs
<1>. QED BY <1>1, <1>2

LEMMA AuxCmdAnswers ==
  ASSUME NEW p, NEW q, Controller(p), Keeps(p, q), q.kbd_q = p.kbd_q, NEW v
  PROVE  Answers(p, aux_cmd(q, v))
<1>1. PICK z, t, u, w : /\ z = [q EXCEPT !.aux_pending = 0] /\ t = [q EXCEPT !.aux_enabled = FALSE]
                        /\ u = [q EXCEPT !.aux_pending = v] /\ w = [q EXCEPT !.aux_enabled = TRUE]
  OBVIOUS
<1>2. \A x \in {q, z, t, u, w} : Keeps(p, x) /\ x.kbd_q = p.kbd_q
  BY <1>1 DEF Keeps, Ps2Fields
<1>3. \E x \in {q, z, t, u, w} :
        \/ aux_cmd(q, v) = Put(x, "aux", <<"ack">>)
        \/ aux_cmd(q, v) = Put(x, "aux", <<"ack", "bat", "id">>)
        \/ aux_cmd(q, v) = Put(x, "aux", <<"ack", "id">>)
        \/ aux_cmd(q, v) = Put(x, "aux", <<"ack", "status", "status", "status">>)
  <2>1. CASE q.aux_pending # 0
    BY <1>1, <2>1 DEF aux_cmd
  <2>2. CASE ~(q.aux_pending # 0)
    <3>1. CASE v = 255 \/ v \in {245, 246}
      BY <1>1, <2>2, <3>1 DEF aux_cmd
    <3>2. CASE v \in {243, 232} \/ v = 244
      BY <1>1, <2>2, <3>2 DEF aux_cmd
    <3>3. CASE v \notin {255, 245, 246, 243, 232, 244}
      BY <1>1, <2>2, <3>3 DEF aux_cmd
    <3>. QED BY <3>1, <3>2, <3>3
  <2>. QED BY <2>1, <2>2
<1>. QED BY <1>2, <1>3, PutAnswers, ReplySeqs

LEMMA RoutedAnswers ==
  ASSUME NEW p, Controller(p), NEW v
  PROVE  Answers(p, Routed(p, v))
<1>1. PICK q, c : q = [p EXCEPT !.pending_cmd = 0] /\ c = [q EXCEPT !.ccb = CcbOf(v)]
  OBVIOUS
<1>2. Keeps(p, q) /\ q.kbd_q = p.kbd_q
  BY <1>1 DEF Keeps, Controller, Ps2Fields
<1>3. Keeps(p, c) /\ c.kbd_q = p.kbd_q
  BY <1>1, <1>2 DEF Keeps, Controller, Ps2Fields
<1>4. \/ Routed(p, v) = c \/ Routed(p, v) = q
      \/ Routed(p, v) = Put(q, "kbd", <<"written">>) \/ Routed(p, v) = Put(q, "aux", <<"written">>)
      \/ Routed(p, v) = aux_cmd(q, v) \/ Routed(p, v) = kbd_cmd(q, v)
  BY <1>1 DEF Routed
<1>5. Answers(p, c) /\ Answers(p, q)
  BY <1>2, <1>3 DEF Answers
<1>6. Answers(p, Put(q, "kbd", <<"written">>)) /\ Answers(p, Put(q, "aux", <<"written">>))
  BY <1>2, PutAnswers, ReplySeqs
<1>7. Answers(p, aux_cmd(q, v)) /\ Answers(p, kbd_cmd(q, v))
  BY <1>2, AuxCmdAnswers, KbdCmdAnswers
<1>. QED BY <1>4, <1>5, <1>6, <1>7

\* A write to either port.
LEMMA WriteKeeps ==
  ASSUME KbdInv, NEW q, Answers(ps2, q), ps2' = refill(q), UNCHANGED host
  PROVE  KbdInv'
<1>1. Controller(q) /\ Strokes(KbdStream(q)) = Strokes(KbdStream(ps2))
  BY AnswersKeep DEF KbdInv
<1>2. Controller(refill(q)) /\ Settled(refill(q)) /\ KbdStream(refill(q)) = KbdStream(q)
  BY <1>1, RefillKeeps
<1>3. HostHas(host, Strokes(KbdStream(refill(q))))
  BY <1>1, <1>2 DEF KbdInv
<1>. QED BY <1>2, <1>3 DEF KbdInv, Controller, Settled, HostHas, KbdStream, OutByte, Strokes

\* A read takes the byte in the output buffer.
LEMMA ReadKeeps ==
  ASSUME KbdInv, ReadKbd
  PROVE  KbdInv'
<1>1. PICK q : q = [ps2 EXCEPT !.obf = FALSE, !.aux_obf = FALSE]
  OBVIOUS
<1>2. /\ q = [f \in Ps2Fields |-> q[f]] /\ q.obf = FALSE /\ q.aux_obf = FALSE /\ q.kbd_q = ps2.kbd_q
      /\ ps2.kbd_q \in Seq(KbdByte)
  BY <1>1 DEF KbdInv, Controller, Ps2Fields
<1>3. Controller(q) /\ KbdStream(q) = ps2.kbd_q
  <2>1. Controller(q) /\ OutByte(q) = <<>>
    BY <1>2 DEF Controller, OutByte
  <2>2. <<>> \o ps2.kbd_q = ps2.kbd_q
    BY <1>2
  <2>. QED BY <1>2, <2>1, <2>2 DEF KbdStream
<1>4. ps2' = refill(q) /\ host' = Taken(ps2, host)
  BY <1>1 DEF ReadKbd
<1>5. Controller(refill(q)) /\ Settled(refill(q)) /\ KbdStream(refill(q)) = ps2.kbd_q
  BY <1>3, RefillKeeps
<1>6. PICK A \in Seq(KbdByte), B \in Seq(KbdByte) :
        A = OutByte(ps2) /\ B = ps2.kbd_q /\ KbdStream(ps2) = A \o B
  BY <1>2, StreamType DEF KbdStream, KbdInv
<1>7. Strokes(KbdStream(ps2)) = Cat(Strokes(A), Strokes(B))
  BY <1>6, StrokesCat
<1>8. PICK C \in Seq(KbdVal), D \in Seq(KbdVal), F \in Seq(KbdVal) :
        C = Strokes(A) /\ D = Strokes(B) /\ F = Vals(FlattenSeq(host.kbd))
  <2>1. host.kbd \in Seq(Seq(KeyEvents))
    BY DEF KbdInv, HostHas
  <2>2. FlattenSeq(host.kbd) \in Seq(KeyEvents)
    BY <2>1, FlattenType
  <2>3. Vals(FlattenSeq(host.kbd)) \in Seq(KbdVal)
    BY <2>2, KbdSets, ValsType
  <2>. QED BY <2>3, StrokesType
<1>9. host.keys = Cat(Cat(C, D), F) /\ host = [f \in HostFields |-> host[f]]
  BY <1>7, <1>8 DEF KbdInv, HostHas
<1>10. CASE ~ps2.obf \/ ~ps2.out.event \/ ps2.aux_obf
  <2>1. host' = [f \in HostFields |-> host'[f]] /\ host'.kbd = host.kbd /\ host'.keys = host.keys
    <3>1. CASE ~ps2.obf \/ ~ps2.out.event
      BY <3>1, <1>4, <1>9 DEF Taken
    <3>2. CASE ps2.obf /\ ps2.out.event /\ ps2.aux_obf
      <4>1. \E a, b : host' = [host EXCEPT !.head = a] \/ host' = [host EXCEPT !.head = a, !.pos = b]
        BY <3>2, <1>4 DEF Taken
      <4>. QED BY <4>1, <1>9 DEF HostFields
    <3>. QED BY <3>1, <3>2, <1>10
  <2>2. C = <<>>
    <3>1. A = <<>> \/ (A = <<ps2.out>> /\ ps2.out \in KbdByte /\ ~ps2.out.event)
      BY <1>10, <1>6 DEF OutByte, KbdInv, Controller
    <3>2. ASSUME ps2.out \in KbdByte, ~ps2.out.event PROVE Strokes(<<ps2.out>>) = <<>>
      <4>1. ps2.out \in KbdReplies
        BY <3>2, KbdSets DEF KbdByte
      <4>2. <<ps2.out>> \in Seq(KbdReplies)
        BY <4>1
      <4>. QED BY <4>2, NoStrokes
    <3>. QED BY <3>1, <3>2, <1>8, NoStrokes
  <2>3. host.keys = Cat(D, F)
    BY <2>2, <1>9, CatNone
  <2>4. HostHas(host, D)
    BY <2>3, <1>8 DEF HostHas, KbdInv
  <2>. QED BY <2>1, <2>4, <1>4, <1>5, <1>6, <1>8 DEF KbdInv, Controller, Settled, HostHas, KbdStream, OutByte, Strokes
<1>11. CASE ps2.obf /\ ps2.out.event /\ ~ps2.aux_obf
  <2>1. A = <<ps2.out>> /\ ps2.out \in KbdByte
    BY <1>11, <1>6 DEF OutByte, KbdInv, Controller
  <2>2. ps2.out \in KeyEvents
    BY <1>11, <2>1, KbdSets DEF KbdByte
  <2>3. C = <<ps2.out.val>> /\ ps2.out.val \in KbdVal
    <3>1. <<ps2.out>> \in Seq(KeyEvents)
      BY <2>2
    <3>2. Vals(<<ps2.out>>) = <<ps2.out.val>>
      BY DEF Vals
    <3>. QED BY <3>1, <3>2, <2>1, <2>2, <1>8, AllStrokes, KbdSets
  <2>4. Tail(Cat(Cat(C, D), F)) = Cat(D, F)
    <3>1. Cat(Cat(C, D), F) = Cat(C, Cat(D, F)) /\ Cat(D, F) \in Seq(KbdVal)
      BY CatAssoc, CatType
    <3>2. PICK G \in Seq(KbdVal), e \in KbdVal : G = Cat(D, F) /\ C = <<e>>
      BY <3>1, <2>3
    <3>3. Tail(<<e>> \o G) = G
      OBVIOUS
    <3>. QED BY <3>1, <3>2, <3>3 DEF Cat
  <2>5. host' = [host EXCEPT !.keys = Tail(@)]
    BY <1>4, <1>11 DEF Taken
  <2>6. host' = [f \in HostFields |-> host'[f]] /\ host'.kbd = host.kbd /\ host'.keys = Cat(D, F)
    BY <2>4, <2>5, <1>9 DEF HostFields
  <2>7. host'.kbd \in Seq(Seq(KeyEvents))
    BY <2>6 DEF KbdInv, HostHas
  <2>. QED BY <2>6, <2>7, <1>4, <1>5, <1>6, <1>8 DEF KbdInv, Controller, Settled, HostHas, KbdStream, OutByte, Strokes
<1>12. ps2.obf \in BOOLEAN /\ ps2.aux_obf \in BOOLEAN
  BY DEF KbdInv, Controller
<1>. QED BY <1>10, <1>11, <1>12

\* A key event joins the host's queue with its strokes.
LEMMA KeyBytesType ==
  ASSUME NEW k, NEW down
  PROVE  KeyBytes(k, down) \in Seq(ScanCodes)
<1>1. \A e \in ScanCodes : <<e>> \in Seq(ScanCodes)
  OBVIOUS
<1>2. \A a, b \in Seq(ScanCodes) : a \o b \in Seq(ScanCodes)
  OBVIOUS
<1>3. <<>> \in Seq(ScanCodes)
  OBVIOUS
<1>4. {"e0", "f0", "s1", "s1 up", "s2", "s3"} \subseteq ScanCodes
  BY DEF ScanCodes
<1>5. PICK ext \in Seq(ScanCodes), brk \in Seq(ScanCodes) :
        ext = (IF k \in ExtKeys THEN <<"e0">> ELSE <<>>) /\ brk = (IF down THEN <<>> ELSE <<"f0">>)
  BY <1>1, <1>3, <1>4
<1>6. PICK one \in Seq(ScanCodes) : one = <<IF down THEN "s1" ELSE "s1 up">>
  BY <1>1, <1>4
<1>7. PICK s2 \in Seq(ScanCodes), s3 \in Seq(ScanCodes) : s2 = <<"s2">> /\ s3 = <<"s3">>
  BY <1>1, <1>4
<1>8. PICK xlate : xlate = ("XLATE" \in ps2.ccb /\ ps2.scan_set = 2)
  OBVIOUS
<1>9. KeyBytes(k, down) = CASE ps2.scan_set = 3 /\ ~xlate -> brk \o s3
                            [] xlate \/ ps2.scan_set = 1 -> ext \o one
                            [] OTHER -> ext \o brk \o s2
  BY <1>5, <1>6, <1>7, <1>8 DEF KeyBytes
<1>10. brk \o s3 \in Seq(ScanCodes) /\ ext \o one \in Seq(ScanCodes) /\ ext \o brk \o s2 \in Seq(ScanCodes)
  <2>1. ext \o brk \in Seq(ScanCodes)
    BY <1>2
  <2>. QED BY <1>2, <2>1
<1>11. PICK b3, e1, e2 : b3 = brk \o s3 /\ e1 = ext \o one /\ e2 = ext \o brk \o s2
  OBVIOUS
<1>12. KeyBytes(k, down) = b3 \/ KeyBytes(k, down) = e1 \/ KeyBytes(k, down) = e2
  <2>1. CASE ps2.scan_set = 3 /\ ~xlate
    BY <2>1, <1>8, <1>9, <1>11
  <2>2. CASE xlate \/ ps2.scan_set = 1
    BY <2>2, <1>8, <1>9, <1>11
  <2>3. CASE ~(ps2.scan_set = 3 /\ ~xlate) /\ ~(xlate \/ ps2.scan_set = 1)
    BY <2>3, <1>8, <1>9, <1>11
  <2>. QED BY <2>1, <2>2, <2>3
<1>. QED BY <1>10, <1>11, <1>12

LEMMA KeyKeeps ==
  ASSUME NEW X \in Seq(KbdVal), NEW h, HostHas(h, X), NEW k, NEW down
  PROVE  HostHas(key(h, k, down), X)
<1>1. PICK codes \in Seq(ScanCodes) : codes = KeyBytes(k, down)
  BY KeyBytesType
<1>2. PICK n \in Nat : n = Len(codes) /\ DOMAIN codes = 1 .. n /\ \A i \in 1 .. n : codes[i] \in ScanCodes
  BY <1>1
<1>3. PICK b : b = [i \in 1 .. n |-> [scan |-> codes[i]]]
  OBVIOUS
<1>4. b \in Seq([scan : ScanCodes]) /\ Len(b) = n /\ \A i \in 1 .. n : b[i] \in [scan : ScanCodes]
  BY <1>2, <1>3
<1>5. Event(b) = [i \in 1 .. n |-> [event |-> TRUE, left |-> n - i, val |-> b[i]]]
  BY <1>4 DEF Event, Bytes
<1>6. \A i \in 1 .. n : [event |-> TRUE, left |-> n - i, val |-> b[i]] \in KeyEvents
  BY <1>4 DEF KeyEvents
<1>7. Event(b) \in Seq(KeyEvents)
  BY <1>5, <1>6
<1>8. Vals(Event(b)) = b
  <2>1. Vals(Event(b)) = [i \in 1 .. n |-> b[i]]
    BY <1>5 DEF Vals
  <2>. QED BY <2>1, <1>3
<1>9. PICK t : t = key(h, k, down)
  OBVIOUS
<1>10. t = [h EXCEPT !.kbd = Append(@, Event(b)), !.keys = @ \o b, !.events = @ + 1]
  BY <1>1, <1>2, <1>3, <1>9 DEF key
<1>11. t = [f \in HostFields |-> t[f]] /\ t.kbd = Append(h.kbd, Event(b)) /\ t.keys = h.keys \o b
  BY <1>10 DEF HostHas, HostFields
<1>12. PICK K \in Seq(Seq(KeyEvents)) : K = h.kbd
  BY DEF HostHas
<1>13. FlattenSeq(Append(K, Event(b))) = FlattenSeq(K) \o Event(b) /\ FlattenSeq(K) \in Seq(KeyEvents)
  BY <1>7, FlattenAppend, FlattenType DEF Cat
<1>14. Vals(FlattenSeq(Append(K, Event(b)))) = Cat(Vals(FlattenSeq(K)), b)
  BY <1>7, <1>8, <1>13, ValsCat, KbdSets
<1>15. Vals(FlattenSeq(K)) \in Seq(KbdVal) /\ b \in Seq(KbdVal)
  <2>1. Vals(FlattenSeq(K)) \in Seq(KbdVal)
    BY <1>13, ValsType, KbdSets
  <2>2. Vals(Event(b)) \in Seq(KbdVal)
    BY <1>7, ValsType, KbdSets
  <2>. QED BY <2>1, <2>2, <1>8
<1>16. Cat(Cat(X, Vals(FlattenSeq(K))), b) = Cat(X, Cat(Vals(FlattenSeq(K)), b))
  BY <1>15, CatAssoc
<1>17. t.keys = Cat(X, Vals(FlattenSeq(t.kbd)))
  BY <1>11, <1>12, <1>14, <1>16 DEF HostHas, Cat
<1>18. t.kbd \in Seq(Seq(KeyEvents))
  <2>1. PICK E \in Seq(KeyEvents) : E = Event(b)
    BY <1>7
  <2>2. Append(K, E) \in Seq(Seq(KeyEvents))
    OBVIOUS
  <2>. QED BY <2>1, <2>2, <1>11, <1>12
<1>. QED BY <1>9, <1>11, <1>17, <1>18 DEF HostHas

\* What does not concern the keyboard.
SameKeys(h, t) ==
  t = [f \in HostFields |-> t[f]] /\ t.kbd = h.kbd /\ t.keys = h.keys

LEMMA SameKeysKeep ==
  ASSUME NEW X, NEW h, HostHas(h, X), NEW t, SameKeys(h, t)
  PROVE  HostHas(t, X)
  BY DEF HostHas, SameKeys

LEMMA MouseKeeps ==
  ASSUME NEW X, NEW h, HostHas(h, X), NEW dx, NEW dy, NEW btn
  PROVE  HostHas(mouse(h, dx, dy, btn), X)
<1>1. \E a, e, b, c : mouse(h, dx, dy, btn) = [h EXCEPT !.aux = a, !.events = e, !.buttons = b, !.pos = c]
  BY DEF mouse
<1>2. SameKeys(h, mouse(h, dx, dy, btn))
  BY <1>1 DEF SameKeys, HostHas, HostFields
<1>. QED BY <1>2, SameKeysKeep

\* The script's folds.
LEMMA TypedKeeps ==
  ASSUME NEW X \in Seq(KbdVal), NEW h, HostHas(h, X), NEW c
  PROVE  HostHas(type_char(h, c), X)
<1>1. PICK on : on = IF c.shift THEN key(h, "shift", TRUE) ELSE h
  OBVIOUS
<1>2. HostHas(on, X)
  BY <1>1, KeyKeeps
<1>3. HostHas(key(on, c.key, TRUE), X)
  BY <1>2, KeyKeeps
<1>4. PICK s : s = key(key(on, c.key, TRUE), c.key, FALSE)
  OBVIOUS
<1>5. HostHas(s, X)
  BY <1>3, <1>4, KeyKeeps
<1>6. HostHas(key(s, "shift", FALSE), X)
  BY <1>5, KeyKeeps
<1>7. type_char(h, c) = IF c.shift THEN key(s, "shift", FALSE) ELSE s
  BY <1>1, <1>4 DEF type_char
<1>. QED BY <1>5, <1>6, <1>7

LEMMA TypeTextKeeps ==
  ASSUME NEW X \in Seq(KbdVal), NEW h, HostHas(h, X), NEW T, NEW chars \in Seq(T)
  PROVE  HostHas(type_text(h, chars), X)
<1>1. PICK n \in Nat : DOMAIN chars = 1 .. n
  OBVIOUS
<1>1a. PICK w : TypeWalked(w, h, chars, n)
  BY <1>1, TypeWalk
<1>2. /\ w[0] = h
      /\ \A i \in 0 .. n - 1 : w[i + 1] = type_char(w[i], chars[i + 1])
      /\ FoldLeft(type_char, h, chars) = w[n]
  BY <1>1a DEF TypeWalked
<1> DEFINE U == {i \in Nat : i <= n => HostHas(w[i], X)}
<1>3. 0 \in U
  BY <1>2
<1>4. ASSUME NEW i \in Nat, i \in U PROVE i + 1 \in U
  <2> SUFFICES ASSUME i + 1 <= n PROVE HostHas(w[i + 1], X)
    OBVIOUS
  <2>1. i \in 0 .. n - 1 /\ HostHas(w[i], X)
    BY <1>4
  <2>2. HostHas(type_char(w[i], chars[i + 1]), X)
    BY <2>1, TypedKeeps
  <2>. QED BY <2>1, <2>2, <1>2
<1> HIDE DEF U
<1>5. Nat \subseteq U
  BY <1>3, <1>4, NatSetInduction
<1>6. HostHas(w[n], X)
  BY <1>5 DEF U
<1>. QED BY <1>2, <1>6 DEF type_text

LEMMA StepsNat ==
  ASSUME NEW dx \in Int, NEW dy \in Int, NEW m \in Nat \ {0}
  PROVE  Steps(dx, dy, m) \in Nat
<1>1. PICK far \in Nat : far = IF Mag(dx) > Mag(dy) THEN Mag(dx) ELSE Mag(dy)
  <2>1. Mag(dx) \in Nat /\ Mag(dy) \in Nat
    BY DEF Mag
  <2>. QED BY <2>1
<1>2. PICK a \in Nat : a = far + m - 1
  OBVIOUS
<1>3. PICK q \in Int, r \in 0 .. m - 1 : a \div m = q /\ a % m = r /\ a = m * q + r
  <2>1. a \in Int
    OBVIOUS
  <2>. QED BY <2>1, DivMod
<1>4. q >= 0
  <2>1. CASE q <= -1
    <3>1. m * q <= -m
      BY <2>1
    <3>. QED BY <3>1, <1>3
  <2>. QED BY <2>1
<1>5. Steps(dx, dy, m) = IF far = 0 THEN 1 ELSE q
  BY <1>1, <1>2, <1>3 DEF Steps
<1>. QED BY <1>4, <1>5

LEMMA MoveByKeeps ==
  ASSUME NEW X, NEW h, HostHas(h, X), NEW l, l.dx \in Int, l.dy \in Int, l.step \in Nat \ {0}
  PROVE  HostHas(MoveBy(h, l), X)
<1>1. PICK n \in Nat : n = IF l.dx = 0 /\ l.dy = 0 THEN 0 ELSE Steps(l.dx, l.dy, l.step)
  BY StepsNat
<1>2. PICK q : q = [i \in 1 .. n |-> i]
  OBVIOUS
<1>3. DOMAIN q = 1 .. n
  BY <1>2
<1>3a. PICK w : MoveWalked(w, h, q, l, n)
  BY <1>3, MoveWalk
<1>4. /\ w[0] = h
      /\ \A i \in 0 .. n - 1 : w[i + 1] = MoveStep(w[i], q[i + 1], l)
      /\ FoldLeft(LAMBDA a, j : MoveStep(a, j, l), h, q) = w[n]
  BY <1>3a DEF MoveWalked
<1> DEFINE U == {i \in Nat : i <= n => HostHas(w[i], X)}
<1>5. 0 \in U
  BY <1>4
<1>6. ASSUME NEW i \in Nat, i \in U PROVE i + 1 \in U
  <2> SUFFICES ASSUME i + 1 <= n PROVE HostHas(w[i + 1], X)
    OBVIOUS
  <2>1. i \in 0 .. n - 1 /\ HostHas(w[i], X)
    BY <1>6
  <2>2. HostHas(MoveStep(w[i], q[i + 1], l), X)
    BY <2>1, MouseKeeps DEF MoveStep
  <2>. QED BY <2>1, <2>2, <1>4
<1> HIDE DEF U
<1>7. Nat \subseteq U
  BY <1>5, <1>6, NatSetInduction
<1>8. HostHas(w[n], X)
  BY <1>7 DEF U
<1>9. MoveBy(h, l) = FoldLeft(LAMBDA a, j : MoveStep(a, j, l), h, q)
  BY <1>1, <1>2 DEF MoveBy
<1>. QED BY <1>4, <1>8, <1>9

LEMMA LineKeeps ==
  ASSUME NEW X \in Seq(KbdVal), NEW h, HostHas(h, X), NEW i \in DOMAIN Script
  PROVE  HostHas(ScriptLine(h, Script[i]), X)
<1>1. PICK l : l = Script[i]
  OBVIOUS
<1>2. CASE l.op \in {"wait", "until"}
  <2>1. PICK t : t = ScriptLine(h, l)
    OBVIOUS
  <2>2. \E n : t = [h EXCEPT !.wait = n]
    BY <1>2, <2>1 DEF ScriptLine
  <2>3. SameKeys(h, t)
    BY <2>2 DEF SameKeys, HostHas, HostFields
  <2>. QED BY <1>1, <2>1, <2>3, SameKeysKeep
<1>3. CASE l.op = "key"
  <2>1. ScriptLine(h, l) = key(key(h, l.key, TRUE), l.key, FALSE)
    BY <1>3 DEF ScriptLine
  <2>2. HostHas(key(h, l.key, TRUE), X)
    BY KeyKeeps
  <2>. QED BY <1>1, <2>1, <2>2, KeyKeeps
<1>4. CASE l.op \in {"down", "up"}
  <2>1. ScriptLine(h, l) = key(h, l.key, l.op = "down")
    BY <1>4 DEF ScriptLine
  <2>. QED BY <1>1, <2>1, KeyKeeps
<1>5. CASE l.op = "move"
  <2>1. ScriptLine(h, l) = MoveBy(h, l)
    BY <1>5 DEF ScriptLine
  <2>2. l.dx \in Int /\ l.dy \in Int /\ l.step \in Nat \ {0}
    BY <1>1, <1>5, ScriptAssumption
  <2>. QED BY <1>1, <2>1, <2>2, MoveByKeeps
<1>6. CASE l.op = "type"
  <2>1. ScriptLine(h, l) = type_text(h, l.chars)
    BY <1>6 DEF ScriptLine
  <2>2. l.chars \in Seq([key : Keys, shift : BOOLEAN])
    BY <1>1, <1>6, ScriptAssumption
  <2>. QED BY <1>1, <2>1, <2>2, TypeTextKeeps
<1>7. CASE l.op = "press" \/ l.op = "release"
  <2>1. \E b : ScriptLine(h, l) = mouse(h, 0, 0, b)
    BY <1>7 DEF ScriptLine
  <2>. QED BY <1>1, <2>1, MouseKeeps
<1>8. CASE l.op = "click"
  <2>1. \E a, b : ScriptLine(h, l) = mouse(mouse(h, 0, 0, a), 0, 0, b)
    BY <1>8 DEF ScriptLine
  <2>. QED BY <1>1, <2>1, MouseKeeps
<1>9. CASE l.op \notin {"wait", "until", "key", "down", "up", "move", "type", "press", "release", "click"}
  <2>1. ScriptLine(h, l) = h
    BY <1>9 DEF ScriptLine
  <2>. QED BY <1>1, <2>1
<1>. QED BY <1>2, <1>3, <1>4, <1>5, <1>6, <1>7, <1>8, <1>9

LEMMA RunKeeps ==
  ASSUME NEW X \in Seq(KbdVal), NEW h, HostHas(h, X)
  PROVE  HostHas(run_script(h), X)
<1>1. PICK n \in Nat : DOMAIN Script = 1 .. n
  BY ScriptAssumption
<1>2. PICK q : q = [i \in DOMAIN Script |-> i]
  OBVIOUS
<1>3. DOMAIN q = 1 .. n
  BY <1>1, <1>2
<1>3a. PICK w : ScriptWalked(w, h, q, n)
  BY <1>3, ScriptWalk
<1>4. /\ w[0] = h
      /\ \A i \in 0 .. n - 1 : w[i + 1] = NextLine(w[i], q[i + 1])
      /\ FoldLeft(NextLine, h, q) = w[n]
  BY <1>3a DEF ScriptWalked
<1> DEFINE U == {i \in Nat : i <= n => HostHas(w[i], X)}
<1>5. 0 \in U
  BY <1>4
<1>6. ASSUME NEW i \in Nat, i \in U PROVE i + 1 \in U
  <2> SUFFICES ASSUME i + 1 <= n PROVE HostHas(w[i + 1], X)
    OBVIOUS
  <2>1. i \in 0 .. n - 1 /\ HostHas(w[i], X) /\ i + 1 \in DOMAIN Script /\ q[i + 1] = i + 1
    BY <1>1, <1>2, <1>6
  <2>2. PICK t : t = [w[i] EXCEPT !.script_pc = i + 1 + 1]
    OBVIOUS
  <2>3. SameKeys(w[i], t)
    BY <2>1, <2>2 DEF SameKeys, HostHas, HostFields
  <2>4. HostHas(ScriptLine(t, Script[i + 1]), X)
    BY <2>1, <2>3, SameKeysKeep, LineKeeps
  <2>5. w[i + 1] = w[i] \/ w[i + 1] = ScriptLine(t, Script[i + 1])
    BY <2>1, <2>2, <1>4 DEF NextLine
  <2>. QED BY <2>1, <2>4, <2>5
<1> HIDE DEF U
<1>7. Nat \subseteq U
  BY <1>5, <1>6, NatSetInduction
<1>8. HostHas(w[n], X)
  BY <1>7 DEF U
<1>9. run_script(h) = FoldLeft(NextLine, h, q)
  BY <1>2 DEF run_script
<1>. QED BY <1>4, <1>8, <1>9

\* The hand-over at a retrace.
LEMMA ServiceKeeps ==
  ASSUME KbdInv, service
  PROVE  KbdInv'
<1>1. PICK X \in Seq(KbdVal) : X = Strokes(KbdStream(ps2))
  BY StreamType, StrokesType DEF KbdInv
<1>2. PICK h : h = run_script(Later(host))
  OBVIOUS
<1>3. HostHas(h, X)
  <2>1. \E a, b : Later(host) = [host EXCEPT !.icnt = a, !.wait = b]
    BY DEF Later
  <2>2. SameKeys(host, Later(host))
    BY <2>1 DEF SameKeys, KbdInv, HostHas, HostFields
  <2>3. HostHas(Later(host), X)
    BY <1>1, <2>2, SameKeysKeep DEF KbdInv
  <2>. QED BY <1>2, <2>3, RunKeeps
<1>4. PICK give : give = (h.kbd # <<>> /\ ps2.kbd_q = <<>> /\ ps2.kbd_enabled)
  OBVIOUS
<1>5. PICK p, q : p = HandKbd(ps2, h) /\ q = HandAux(p, h)
  OBVIOUS
<1>6. Controller(p) /\ Controller(q) /\ p.kbd_q = (IF give THEN Head(h.kbd) ELSE ps2.kbd_q)
      /\ KbdStream(q) = OutByte(ps2) \o p.kbd_q
  <2>1. give => Head(h.kbd) \in Seq(KbdByte)
    <3>1. give => Head(h.kbd) \in Seq(KeyEvents)
      <4>1. PICK K \in Seq(Seq(KeyEvents)) : K = h.kbd
        BY <1>3 DEF HostHas
      <4>2. K # <<>> => Head(K) \in Seq(KeyEvents)
        OBVIOUS
      <4>. QED BY <4>1, <4>2, <1>4
    <3>. QED BY <3>1, KbdSets
  <2>2. /\ p = [f \in Ps2Fields |-> p[f]] /\ p.kbd_q = (IF give THEN Head(h.kbd) ELSE ps2.kbd_q)
        /\ p.obf = ps2.obf /\ p.aux_obf = ps2.aux_obf /\ p.out = ps2.out
    BY <1>4, <1>5 DEF HandKbd, KbdInv, Controller, Ps2Fields
  <2>3. /\ q = [f \in Ps2Fields |-> q[f]] /\ q.kbd_q = p.kbd_q
        /\ q.obf = ps2.obf /\ q.aux_obf = ps2.aux_obf /\ q.out = ps2.out
    BY <1>5, <2>2 DEF HandAux, Ps2Fields
  <2>4. Controller(p)
    BY <2>1, <2>2 DEF KbdInv, Controller
  <2>5. Controller(q)
    BY <2>3, <2>4 DEF KbdInv, Controller
  <2>6. OutByte(q) = OutByte(ps2)
    BY <2>3 DEF OutByte
  <2>. QED BY <2>2, <2>3, <2>4, <2>5, <2>6 DEF KbdStream
<1>7. ps2' = refill(q) /\ \E a, b : host' = [h EXCEPT !.kbd = IF give THEN Tail(@) ELSE @, !.aux = a, !.pos = b]
  BY <1>2, <1>4, <1>5 DEF service
<1>8. host' = [f \in HostFields |-> host'[f]] /\ host'.keys = h.keys
      /\ host'.kbd = (IF give THEN Tail(h.kbd) ELSE h.kbd)
  BY <1>3, <1>7 DEF HostHas, HostFields
<1>9. Controller(ps2') /\ Settled(ps2') /\ KbdStream(ps2') = KbdStream(q)
  BY <1>6, <1>7, RefillKeeps
<1>10. HostHas(host', Strokes(KbdStream(q)))
  <2>1. CASE ~give
    <3>1. KbdStream(q) = KbdStream(ps2)
      BY <2>1, <1>6 DEF KbdStream
    <3>. QED BY <2>1, <3>1, <1>1, <1>3, <1>8 DEF HostHas
  <2>2. CASE give
    <3>1. PICK K \in Seq(Seq(KeyEvents)) : K = h.kbd /\ K # <<>>
      BY <2>2, <1>3, <1>4 DEF HostHas
    <3>2. Head(K) \in Seq(KeyEvents) /\ Tail(K) \in Seq(Seq(KeyEvents)) /\ Head(K) \in Seq(KbdByte)
      BY <3>1, KbdSets
    <3>3. PICK A \in Seq(KbdByte) : A = OutByte(ps2)
      BY StreamType DEF KbdInv
    <3>4. KbdStream(ps2) = A
      <4>1. ps2.kbd_q = <<>>
        BY <2>2, <1>4
      <4>. QED BY <3>3, <4>1 DEF KbdStream
    <3>5. Strokes(KbdStream(q)) = Cat(X, Vals(Head(K)))
      <4>1. KbdStream(q) = A \o Head(K)
        BY <1>6, <2>2, <3>1, <3>3
      <4>. QED BY <4>1, <3>2, <3>4, <1>1, StrokesCat, AllStrokes
    <3>6. Vals(FlattenSeq(K)) = Cat(Vals(Head(K)), Vals(FlattenSeq(Tail(K))))
      <4>1. FlattenSeq(K) = Head(K) \o FlattenSeq(Tail(K)) /\ FlattenSeq(Tail(K)) \in Seq(KeyEvents)
        BY <3>1, <3>2, FlattenHead, FlattenType DEF Cat
      <4>. QED BY <4>1, <3>2, ValsCat, KbdSets
    <3>7. Vals(Head(K)) \in Seq(KbdVal) /\ Vals(FlattenSeq(Tail(K))) \in Seq(KbdVal)
      <4>1. FlattenSeq(Tail(K)) \in Seq(KeyEvents)
        BY <3>2, FlattenType
      <4>. QED BY <4>1, <3>2, ValsType, KbdSets
    <3>8. h.keys = Cat(Cat(X, Vals(Head(K))), Vals(FlattenSeq(Tail(K))))
      <4>1. h.keys = Cat(X, Vals(FlattenSeq(K)))
        BY <1>3, <3>1 DEF HostHas
      <4>. QED BY <4>1, <3>6, <3>7, CatAssoc
    <3>9. host'.kbd = Tail(K)
      BY <1>8, <2>2, <3>1
    <3>. QED BY <3>2, <3>5, <3>8, <3>9, <1>8 DEF HostHas
  <2>. QED BY <2>1, <2>2
<1>. QED BY <1>9, <1>10 DEF KbdInv, Controller, Settled, HostHas, KbdStream, OutByte, Strokes

LEMMA KbdInitially == Ps2Init => KbdInv
<1> SUFFICES ASSUME Ps2Init PROVE KbdInv
  OBVIOUS
<1>1. ps2 = [f \in Ps2Fields |-> ps2[f]] /\ ps2.kbd_q = <<>> /\ ps2.aux_q = <<>> /\ ps2.obf = FALSE /\ ps2.aux_obf = FALSE
  BY DEF Ps2Init, Ps2Fields
<1>2. host = [f \in HostFields |-> host[f]] /\ host.kbd = <<>> /\ host.keys = <<>>
  BY DEF Ps2Init, HostFields
<1>3. Controller(ps2) /\ Settled(ps2)
  <2>1. <<>> \in Seq(KbdByte)
    OBVIOUS
  <2>. QED BY <1>1, <2>1 DEF Controller, Settled, KbdReady, AuxReady
<1>4. KbdStream(ps2) = <<>>
  BY <1>1 DEF KbdStream, OutByte
<1>5. Vals(FlattenSeq(<<>>)) = <<>>
  BY FlattenNone DEF Vals
<1>6. <<>> \in Seq(Seq(KeyEvents)) /\ Cat(<<>>, <<>>) = <<>>
  BY DEF Cat
<1>. QED BY <1>2, <1>3, <1>4, <1>5, <1>6, NoStrokes DEF KbdInv, HostHas

\* Events from the window go to the host's queue.
LEMMA HostKeeps ==
  ASSUME KbdInv, UNCHANGED ps2, HostHas(host', Strokes(KbdStream(ps2)))
  PROVE  KbdInv'
<1>1. ps2' = ps2
  OBVIOUS
<1>. QED BY <1>1 DEF KbdInv, Controller, Settled, HostHas, KbdStream, OutByte, Strokes, KbdReady, AuxReady, HostFields

\* What the devices do together, as far as the keyboard goes.
KbdStep ==
  \/ ReadKbd \/ service
  \/ \E v : WriteCmd(v) \/ WriteKbd(v)
  \/ \E k, down : HostKey(k, down)
  \/ \E d : HostMouse(d)

LEMMA KbdAlone == [Next]_vars => KbdStep \/ UNCHANGED ps2Vars
<1>1. ServeIP2 \/ ServeIP3 => KbdStep \/ UNCHANGED ps2Vars
  BY DEF ServeIP2, ServeIP3, ServeMapped, ClearLevel, KbdStep
<1>2. SerialTick \/ VRetrace \/ NetPoll \/ Outside => KbdStep \/ UNCHANGED ps2Vars
  BY DEF SerialTick, VRetrace, NetPoll, Outside, KbdStep
<1>3. RxDriver \/ TxDriver \/ TxQueue \/ TimerOp => KbdStep \/ UNCHANGED ps2Vars
  BY DEF RxDriver, TxDriver, TxQueue, TimerOp
<1>4. Program1 => KbdStep \/ UNCHANGED ps2Vars
  BY DEF Program1, MaskWrite, SerialOp, KeyboardOp, EnetOp, Raise, KbdStep
<1>5. UNCHANGED vars => UNCHANGED ps2Vars
  BY DEF vars
<1>. QED BY <1>1, <1>2, <1>3, <1>4, <1>5 DEF Next

LEMMA KbdKeeps == KbdInv /\ [Next]_vars => KbdInv'
<1> SUFFICES ASSUME KbdInv, [Next]_vars PROVE KbdInv'
  OBVIOUS
<1>1. PICK X \in Seq(KbdVal) : X = Strokes(KbdStream(ps2))
  BY StreamType, StrokesType DEF KbdInv
<1>2. HostHas(host, X)
  BY <1>1 DEF KbdInv
<1>3. CASE UNCHANGED ps2Vars
  <2>1. UNCHANGED ps2 /\ HostHas(host', X)
    BY <1>2, <1>3 DEF ps2Vars
  <2>. QED BY <2>1, <1>1, HostKeeps
<1>4. CASE ReadKbd
  BY <1>4, ReadKeeps
<1>5. CASE service
  BY <1>5, ServiceKeeps
<1>6. ASSUME NEW v, WriteCmd(v) PROVE KbdInv'
  <2>1. Answers(ps2, ctl_cmd(ps2, v))
    BY CtlAnswers DEF KbdInv
  <2>. QED BY <2>1, <1>6, WriteKeeps DEF WriteCmd
<1>7. ASSUME NEW v, WriteKbd(v) PROVE KbdInv'
  <2>1. Answers(ps2, Routed(ps2, v))
    BY RoutedAnswers DEF KbdInv
  <2>. QED BY <2>1, <1>7, WriteKeeps DEF WriteKbd
<1>8. ASSUME NEW k, NEW down, HostKey(k, down) PROVE KbdInv'
  <2>1. HostHas(key(host, k, down), X)
    BY <1>2, KeyKeeps
  <2>2. UNCHANGED ps2 /\ HostHas(host', X)
    BY <2>1, <1>8 DEF HostKey
  <2>. QED BY <2>2, <1>1, HostKeeps
<1>9. ASSUME NEW d, HostMouse(d) PROVE KbdInv'
  <2>1. HostHas(mouse(host, d[1], d[2], host.buttons), X)
    BY <1>2, MouseKeeps
  <2>2. UNCHANGED ps2 /\ HostHas(host', X)
    BY <2>1, <1>9 DEF HostMouse
  <2>. QED BY <2>2, <1>1, HostKeeps
<1>10. KbdStep \/ UNCHANGED ps2Vars
  BY KbdAlone
<1>. QED BY <1>3, <1>4, <1>5, <1>6, <1>7, <1>8, <1>9, <1>10 DEF KbdStep

LEMMA KbdShows == KbdInv => KeysInOrder
<1> SUFFICES ASSUME KbdInv PROVE KeysInOrder
  OBVIOUS
<1>1. Refilled
  BY DEF KbdInv, Settled, Refilled
<1>2. InBuffer(FALSE) \o ps2.kbd_q = KbdStream(ps2)
  <2>1. ps2.aux_obf \in BOOLEAN
    BY DEF KbdInv, Controller
  <2>. QED BY <2>1 DEF InBuffer, KbdStream, OutByte
<1>3. PICK A \in Seq(KbdByte) : A = EventsOf(KbdStream(ps2))
  BY StreamType, EventsType DEF KbdInv
<1>4. PICK B \in Seq(KbdByte) : B = FlattenSeq(host.kbd)
  <2>1. host.kbd \in Seq(Seq(KeyEvents))
    BY DEF KbdInv, HostHas
  <2>2. FlattenSeq(host.kbd) \in Seq(KbdByte)
    BY <2>1, FlattenType, KbdSets
  <2>. QED BY <2>2
<1>5. Vals(A \o B) = Cat(Vals(A), Vals(B))
  BY ValsCat, KbdSets
<1>6. host.keys = Cat(Vals(A), Vals(B))
  BY <1>3, <1>4 DEF KbdInv, HostHas, Strokes
<1>. QED BY <1>1, <1>2, <1>3, <1>4, <1>5, <1>6 DEF KeysInOrder

\* Key strokes: whatever the guest writes to either port, and whenever it
\* reads, every byte of every key event reaches it once and in order, for every
\* script, and no byte waits while the output buffer is free for it.
THEOREM KeysAreInOrder == Spec => []KeysInOrder
<1>1. Init => KbdInv
  BY KbdInitially DEF Init
<1>. QED BY <1>1, KbdKeeps, KbdShows, PTL DEF Spec
-----------------------------------------------------------------------------
(* Motion packets                                                          *)

DecodeStep(pos, i, s) == PointerAt(pos, s[3 * i - 2], s[3 * i - 1], s[3 * i])

\* The packets the guest decodes.
DecodeFold(it, q, z, n) ==
  it = [s \in SUBSET (1 .. n) |-> IF s = {} THEN <<0, 0>> ELSE DecodeStep(it[s \ {Max(s)}], q[Max(s)], z)]

LEMMA DecodeFoldExists ==
  ASSUME NEW q, NEW z PROVE \A n \in Nat : \E it : DecodeFold(it, q, z, n)
<1> DEFINE U == {n \in Nat : \E it : DecodeFold(it, q, z, n)}
<1>1. 0 \in U
  <2> DEFINE it == [s \in SUBSET (1 .. 0) |-> <<0, 0>>]
  <2>1. \A s \in SUBSET (1 .. 0) : s = {}
    OBVIOUS
  <2>2. DecodeFold(it, q, z, 0)
    BY <2>1 DEF DecodeFold
  <2>. QED BY <2>2
<1>2. ASSUME NEW n \in Nat, n \in U PROVE n + 1 \in U
  <2>1. PICK it : DecodeFold(it, q, z, n)
    BY <1>2
  <2> DEFINE g == [s \in SUBSET (1 .. n + 1) |->
                     IF n + 1 \in s THEN DecodeStep(it[s \ {n + 1}], q[n + 1], z) ELSE it[s]]
  <2>2. \A s \in SUBSET (1 .. n) : s \in SUBSET (1 .. n + 1) /\ n + 1 \notin s /\ g[s] = it[s]
    OBVIOUS
  <2>3. \A s \in SUBSET (1 .. n) : s # {} => Max(s) \in s /\ s \ {Max(s)} \in SUBSET (1 .. n)
    BY MaxIn
  <2>4. \A s \in SUBSET (1 .. n) : it[s] = IF s = {} THEN <<0, 0>> ELSE DecodeStep(it[s \ {Max(s)}], q[Max(s)], z)
    BY <2>1 DEF DecodeFold
  <2>5. ASSUME NEW s \in SUBSET (1 .. n + 1), n + 1 \in s
        PROVE  g[s] = DecodeStep(g[s \ {Max(s)}], q[Max(s)], z)
    <3>1. Max(s) = n + 1 /\ s \ {Max(s)} \in SUBSET (1 .. n)
      BY <2>5, MaxOf
    <3>2. g[s] = DecodeStep(it[s \ {n + 1}], q[n + 1], z)
      BY <2>5
    <3>3. g[s \ {n + 1}] = it[s \ {n + 1}]
      BY <3>1, <2>2
    <3>. HIDE DEF g
    <3>. QED BY <3>1, <3>2, <3>3
  <2>6. ASSUME NEW s \in SUBSET (1 .. n), s # {}
        PROVE  g[s] = DecodeStep(g[s \ {Max(s)}], q[Max(s)], z)
    <3>1. g[s] = it[s] /\ g[s \ {Max(s)}] = it[s \ {Max(s)}]
      BY <2>2, <2>3, <2>6
    <3>. HIDE DEF g
    <3>. QED BY <3>1, <2>4, <2>6
  <2>7. g[{}] = <<0, 0>>
    <3>1. {} \in SUBSET (1 .. n)
      OBVIOUS
    <3>2. g[{}] = it[{}] /\ it[{}] = <<0, 0>>
      BY <3>1, <2>2, <2>4
    <3>. QED BY <3>2
  <2>8. \A s \in SUBSET (1 .. n + 1) : n + 1 \in s \/ s \in SUBSET (1 .. n)
    BY MaxOf
  <2>9. g = [s \in SUBSET (1 .. n + 1) |-> g[s]]
    OBVIOUS
  <2>. HIDE DEF g
  <2>10. \A s \in SUBSET (1 .. n + 1) : g[s] = IF s = {} THEN <<0, 0>> ELSE DecodeStep(g[s \ {Max(s)}], q[Max(s)], z)
    BY <2>5, <2>6, <2>7, <2>8
  <2>11. DecodeFold(g, q, z, n + 1)
    BY <2>9, <2>10 DEF DecodeFold
  <2>. QED BY <2>11
<1> HIDE DEF U
<1>3. Nat \subseteq U
  BY <1>1, <1>2, NatSetInduction
<1>. QED BY <1>3 DEF U

DecodeWalked(w, q, z, n) ==
  /\ w[0] = <<0, 0>>
  /\ \A i \in 0 .. n - 1 : w[i + 1] = DecodeStep(w[i], q[i + 1], z)
  /\ FoldLeft(LAMBDA pos, i : DecodeStep(pos, i, z), <<0, 0>>, q) = w[n]

LEMMA DecodeWalk ==
  ASSUME NEW q, NEW z, NEW n, n \in Nat, DOMAIN q = 1 .. n
  PROVE  \E w : DecodeWalked(w, q, z, n)
<1>1. PICK it : DecodeFold(it, q, z, n) /\ FoldLeft(LAMBDA pos, i : DecodeStep(pos, i, z), <<0, 0>>, q) = it[1 .. n]
  <2>1. \E it : DecodeFold(it, q, z, n)
    BY DecodeFoldExists
  <2>. QED BY <2>1 DEF DecodeFold, FoldLeft, MapThenFoldSet
<1> DEFINE w == [i \in 0 .. n |-> it[1 .. i]]
<1>2. \A s \in SUBSET (1 .. n) : it[s] = IF s = {} THEN <<0, 0>> ELSE DecodeStep(it[s \ {Max(s)}], q[Max(s)], z)
  BY <1>1 DEF DecodeFold
<1>3. w[0] = <<0, 0>>
  <2>1. 1 .. 0 = {} /\ {} \in SUBSET (1 .. n)
    OBVIOUS
  <2>2. w[0] = it[1 .. 0]
    OBVIOUS
  <2>. HIDE DEF w
  <2>. QED BY <2>1, <2>2, <1>2
<1>4. ASSUME NEW i \in 0 .. n - 1 PROVE w[i + 1] = DecodeStep(w[i], q[i + 1], z)
  <2>1. PICK s : s = 1 .. i + 1
    OBVIOUS
  <2>2. i \in Nat /\ s \in SUBSET (1 .. i + 1) /\ i + 1 \in s /\ s \in SUBSET (1 .. n)
    BY <2>1
  <2>3. Max(s) = i + 1
    BY <2>2, MaxOf
  <2>4. s \ {i + 1} = 1 .. i
    BY <2>1
  <2>5. it[s] = DecodeStep(it[1 .. i], q[i + 1], z)
    BY <1>2, <2>2, <2>3, <2>4
  <2>6. w[i + 1] = it[s] /\ w[i] = it[1 .. i]
    BY <2>1
  <2>. HIDE DEF w
  <2>. QED BY <2>5, <2>6
<1>5. w[n] = it[1 .. n]
  OBVIOUS
<1>. HIDE DEF w
<1>. QED BY <1>1, <1>3, <1>4, <1>5 DEF DecodeWalked

Buttons == {Script[i].button : i \in DOMAIN Script}
Flags == [flags : [xneg : BOOLEAN, yneg : BOOLEAN, btn : SUBSET Buttons]]
Moves == [move : Int]
MouseVal == Flags \cup Moves \cup [reply : Replies]
MouseEvents == [event : {TRUE}, left : Int, val : Flags \cup Moves]
MouseByte == MouseEvents \cup KbdReplies

\* A packet, and what else the mouse sends.
Whole(a, b, c) == <<[event |-> TRUE, left |-> 2, val |-> a],
                    [event |-> TRUE, left |-> 1, val |-> b],
                    [event |-> TRUE, left |-> 0, val |-> c]>>
Packets == {Whole(a, b, c) : a \in Flags, b \in Moves, c \in Moves}
Units == Packets \cup {<<r>> : r \in KbdReplies}

Vectors == Int \X Int
Plus(v, w) == <<v[1] + w[1], v[2] + w[2]>>
UnitAt(v, u) == IF u[1].event THEN PointerAt(v, u[1].val, u[2].val, u[3].val) ELSE v
Disp(u) == UnitAt(<<0, 0>>, u)

LEMMA UnitSeqs ==
  /\ \A u \in Units : u \in Seq(MouseByte)
  /\ \A u \in Packets : u \in Seq(MouseEvents) /\ u \in Units /\ Len(u) = 3 /\ u[1].event
  /\ \A u \in Units : u \in Packets \/ \E r \in KbdReplies : u = <<r>>
<1>1. ASSUME NEW a \in Flags, NEW b \in Moves, NEW c \in Moves
      PROVE  Whole(a, b, c) \in Seq(MouseEvents) /\ Whole(a, b, c) \in Seq(MouseByte)
             /\ Len(Whole(a, b, c)) = 3 /\ Whole(a, b, c)[1].event
  <2>1. PICK x \in MouseEvents, y \in MouseEvents, z \in MouseEvents :
          /\ x = [event |-> TRUE, left |-> 2, val |-> a]
          /\ y = [event |-> TRUE, left |-> 1, val |-> b]
          /\ z = [event |-> TRUE, left |-> 0, val |-> c]
    <3>1. \A l \in Int, v \in Flags \cup Moves : [event |-> TRUE, left |-> l, val |-> v] \in MouseEvents
      BY DEF MouseEvents
    <3>2. a \in Flags \cup Moves /\ b \in Flags \cup Moves /\ c \in Flags \cup Moves
      OBVIOUS
    <3>3. [event |-> TRUE, left |-> 2, val |-> a] \in MouseEvents
      BY <3>1, <3>2
    <3>4. [event |-> TRUE, left |-> 1, val |-> b] \in MouseEvents
      BY <3>1, <3>2
    <3>5. [event |-> TRUE, left |-> 0, val |-> c] \in MouseEvents
      BY <3>1, <3>2
    <3>. QED BY <3>3, <3>4, <3>5
  <2>2. x \in MouseByte /\ y \in MouseByte /\ z \in MouseByte /\ x.event
    BY <2>1 DEF MouseByte
  <2>3. <<x, y, z>> \in Seq(MouseEvents) /\ <<x, y, z>> \in Seq(MouseByte) /\ Len(<<x, y, z>>) = 3
    BY <2>2
  <2>. QED BY <2>1, <2>2, <2>3 DEF Whole
<1>2. ASSUME NEW r \in KbdReplies PROVE <<r>> \in Seq(MouseByte)
  BY DEF MouseByte
<1>3. \A u \in Packets : \E a \in Flags, b \in Moves, c \in Moves : u = Whole(a, b, c)
  BY DEF Packets
<1>4. \A u \in Packets : u \in Seq(MouseEvents) /\ u \in Seq(MouseByte) /\ Len(u) = 3 /\ u[1].event
  BY <1>1, <1>3
<1>5. \A u \in Units : u \in Packets \/ \E r \in KbdReplies : u = <<r>>
  BY DEF Units
<1>6. \A u \in Packets : u \in Units
  BY DEF Units
<1>. QED BY <1>2, <1>4, <1>5, <1>6

LEMMA DispIs ==
  ASSUME NEW u \in Units
  PROVE  /\ Disp(u) \in Vectors
         /\ \A v \in Vectors : UnitAt(v, u) = Plus(v, Disp(u)) /\ UnitAt(v, u) \in Vectors
<1>1. CASE u \in Packets
  <2>1. PICK a \in Flags, b \in Moves, c \in Moves : u = Whole(a, b, c)
    BY <1>1 DEF Packets
  <2>2. PICK x \in Int, y \in Int : x = Signed(a.flags.xneg, b.move) /\ y = Signed(a.flags.yneg, c.move)
    <3>1. b.move \in Int /\ c.move \in Int
      BY DEF Moves
    <3>2. PacketMax \in Int
      BY Ps2Assumption
    <3>. QED BY <3>1, <3>2 DEF Signed
  <2>3. \A v : UnitAt(v, u) = PointerAt(v, a, b, c)
    BY <2>1 DEF UnitAt, Whole
  <2>4. \A v : UnitAt(v, u) = <<v[1] + x, v[2] - y>>
    BY <2>2, <2>3 DEF PointerAt
  <2>5. Disp(u) = <<x, -y>>
    <3>1. Disp(u) = <<0 + x, 0 - y>>
      BY <2>4 DEF Disp
    <3>. QED BY <3>1
  <2>6. ASSUME NEW v \in Vectors PROVE UnitAt(v, u) = Plus(v, Disp(u)) /\ UnitAt(v, u) \in Vectors
    <3>1. PICK p \in Int, q \in Int : v = <<p, q>>
      BY DEF Vectors
    <3>. QED BY <3>1, <2>4, <2>5 DEF Plus, Vectors
  <2>. QED BY <2>5, <2>6 DEF Vectors
<1>2. ASSUME NEW r \in KbdReplies, u = <<r>>
      PROVE  /\ Disp(u) \in Vectors
             /\ \A v \in Vectors : UnitAt(v, u) = Plus(v, Disp(u)) /\ UnitAt(v, u) \in Vectors
  <2>1. ~u[1].event
    BY <1>2 DEF KbdReplies
  <2>2. Disp(u) = <<0, 0>> /\ \A v : UnitAt(v, u) = v
    BY <2>1 DEF Disp, UnitAt
  <2>. QED BY <2>2 DEF Vectors, Plus
<1>. QED BY <1>1, <1>2, UnitSeqs

\* v is the sum of the units of W.
Summed(W, v) ==
  \E w : /\ w[0] = <<0, 0>> /\ v = w[Len(W)]
         /\ \A i \in 0 .. Len(W) - 1 : w[i + 1] = UnitAt(w[i], W[i + 1])
Total(W) == CHOOSE v : Summed(W, v)

LEMMA SummedOnce ==
  ASSUME NEW S, NEW W \in Seq(S), NEW v, NEW x, Summed(W, v), Summed(W, x)
  PROVE  v = x
<1>1. PICK n \in Nat : n = Len(W)
  OBVIOUS
<1>2. PICK f : /\ f[0] = <<0, 0>> /\ v = f[n]
               /\ \A i \in 0 .. n - 1 : f[i + 1] = UnitAt(f[i], W[i + 1])
  BY <1>1 DEF Summed
<1>3. PICK g : /\ g[0] = <<0, 0>> /\ x = g[n]
               /\ \A i \in 0 .. n - 1 : g[i + 1] = UnitAt(g[i], W[i + 1])
  BY <1>1 DEF Summed
<1> DEFINE U == {i \in Nat : i <= n => f[i] = g[i]}
<1>4. 0 \in U
  BY <1>2, <1>3
<1>5. ASSUME NEW i \in Nat, i \in U PROVE i + 1 \in U
  <2> SUFFICES ASSUME i + 1 <= n PROVE f[i + 1] = g[i + 1]
    OBVIOUS
  <2>1. i \in 0 .. n - 1 /\ f[i] = g[i]
    BY <1>5
  <2>. QED BY <2>1, <1>2, <1>3
<1> HIDE DEF U
<1>6. Nat \subseteq U
  BY <1>4, <1>5, NatSetInduction
<1>7. f[n] = g[n]
  BY <1>6 DEF U
<1>. QED BY <1>2, <1>3, <1>7

LEMMA SummedAppend ==
  ASSUME NEW W \in Seq(Units), NEW v, Summed(W, v), NEW u \in Units
  PROVE  Summed(Append(W, u), UnitAt(v, u))
<1>1. PICK n \in Nat : n = Len(W)
  OBVIOUS
<1>2. PICK f : /\ f[0] = <<0, 0>> /\ v = f[n]
               /\ \A i \in 0 .. n - 1 : f[i + 1] = UnitAt(f[i], W[i + 1])
  BY <1>1 DEF Summed
<1>3. PICK g : g = [i \in 0 .. n + 1 |-> IF i = n + 1 THEN UnitAt(v, u) ELSE f[i]]
  OBVIOUS
<1>4. g[n + 1] = UnitAt(v, u) /\ \A i \in 0 .. n : g[i] = f[i]
  BY <1>3
<1>5. PICK Z : Z = Append(W, u) /\ Len(Z) = n + 1 /\ Z[n + 1] = u /\ \A i \in 1 .. n : Z[i] = W[i]
  <2>1. Len(Append(W, u)) = n + 1 /\ Append(W, u)[n + 1] = u
    BY <1>1
  <2>2. \A i \in 1 .. n : Append(W, u)[i] = W[i]
    BY <1>1
  <2>. QED BY <2>1, <2>2
<1>6. ASSUME NEW i \in 0 .. n PROVE g[i + 1] = UnitAt(g[i], Z[i + 1])
  <2>1. CASE i = n
    BY <2>1, <1>2, <1>4, <1>5
  <2>2. CASE i # n
    <3>1. i \in 0 .. n - 1 /\ i + 1 \in 0 .. n /\ i + 1 \in 1 .. n
      BY <2>2
    <3>. QED BY <3>1, <1>2, <1>4, <1>5
  <2>. QED BY <2>1, <2>2
<1>7. g[0] = <<0, 0>> /\ (n + 1) - 1 = n
  BY <1>2, <1>4
<1>. QED BY <1>4, <1>5, <1>6, <1>7 DEF Summed

LEMMA TotalIs ==
  /\ Summed(<<>>, <<0, 0>>) /\ Total(<<>>) = <<0, 0>>
  /\ \A W \in Seq(Units) : Summed(W, Total(W)) /\ Total(W) \in Vectors
<1>1. Summed(<<>>, <<0, 0>>)
  <2>1. PICK f : f = [i \in {0} |-> <<0, 0>>]
    OBVIOUS
  <2>2. f[0] = <<0, 0>> /\ Len(<<>>) = 0
    BY <2>1
  <2>3. \A i \in 0 .. 0 - 1 : FALSE
    OBVIOUS
  <2>. QED BY <2>2, <2>3 DEF Summed
<1>2. <<>> \in Seq(Units)
  OBVIOUS
<1>3. Total(<<>>) = <<0, 0>>
  <2>1. Summed(<<>>, Total(<<>>))
    BY <1>1 DEF Total
  <2>. QED BY <1>1, <1>2, <2>1, SummedOnce
<1> DEFINE U == {W \in Seq(Units) : Summed(W, Total(W)) /\ Total(W) \in Vectors}
<1>4. <<>> \in U
  BY <1>1, <1>2, <1>3 DEF Vectors
<1>5. ASSUME NEW W \in Seq(Units), NEW u \in Units, W \in U PROVE Append(W, u) \in U
  <2>1. Summed(W, Total(W)) /\ Total(W) \in Vectors /\ Append(W, u) \in Seq(Units)
    BY <1>5
  <2>2. Summed(Append(W, u), UnitAt(Total(W), u))
    BY <2>1, SummedAppend
  <2>3. Summed(Append(W, u), Total(Append(W, u)))
    BY <2>2 DEF Total
  <2>4. Total(Append(W, u)) = UnitAt(Total(W), u)
    BY <2>1, <2>2, <2>3, SummedOnce
  <2>5. UnitAt(Total(W), u) \in Vectors
    BY <2>1, DispIs
  <2>. QED BY <2>1, <2>3, <2>4, <2>5
<1> HIDE DEF U
<1>6. Seq(Units) \subseteq U
  BY <1>4, <1>5, AppendInduction
<1>. QED BY <1>1, <1>3, <1>6 DEF U

LEMMA TotalAppend ==
  ASSUME NEW W \in Seq(Units), NEW u \in Units
  PROVE  Total(Append(W, u)) = UnitAt(Total(W), u) /\ Total(Append(W, u)) = Plus(Total(W), Disp(u))
<1>1. Summed(Append(W, u), UnitAt(Total(W), u))
  BY TotalIs, SummedAppend
<1>2. Append(W, u) \in Seq(Units)
  OBVIOUS
<1>3. Summed(Append(W, u), Total(Append(W, u)))
  BY <1>2, TotalIs
<1>4. Total(Append(W, u)) = UnitAt(Total(W), u)
  BY <1>1, <1>2, <1>3, SummedOnce
<1>5. UnitAt(Total(W), u) = Plus(Total(W), Disp(u))
  BY TotalIs, DispIs
<1>. QED BY <1>4, <1>5

LEMMA PlusIs ==
  /\ \A v, w \in Vectors : Plus(v, w) \in Vectors
  /\ \A v \in Vectors : Plus(v, <<0, 0>>) = v /\ Plus(<<0, 0>>, v) = v
  /\ \A v, w, x \in Vectors : Plus(Plus(v, w), x) = Plus(v, Plus(w, x))
  /\ \A v, w \in Vectors : Plus(v, w) = Plus(w, v)
<1>1. \A v \in Vectors : \E a, b \in Int : v = <<a, b>>
  BY DEF Vectors
<1>2. \A a, b, c, d \in Int : Plus(<<a, b>>, <<c, d>>) = <<a + c, b + d>>
  BY DEF Plus
<1>3. ASSUME NEW v \in Vectors, NEW w \in Vectors PROVE Plus(v, w) \in Vectors /\ Plus(v, w) = Plus(w, v)
  <2>1. PICK a, b \in Int : v = <<a, b>>
    BY <1>1
  <2>2. PICK c, d \in Int : w = <<c, d>>
    BY <1>1
  <2>. QED BY <2>1, <2>2 DEF Plus, Vectors
<1>4. ASSUME NEW v \in Vectors PROVE Plus(v, <<0, 0>>) = v /\ Plus(<<0, 0>>, v) = v
  <2>1. PICK a, b \in Int : v = <<a, b>>
    BY <1>1
  <2>. QED BY <2>1 DEF Plus
<1>5. ASSUME NEW v \in Vectors, NEW w \in Vectors, NEW x \in Vectors
      PROVE  Plus(Plus(v, w), x) = Plus(v, Plus(w, x))
  <2>1. PICK a, b \in Int : v = <<a, b>>
    BY <1>1
  <2>2. PICK c, d \in Int : w = <<c, d>>
    BY <1>1
  <2>3. PICK e, f \in Int : x = <<e, f>>
    BY <1>1
  <2>4. (a + c) + e = a + (c + e) /\ (b + d) + f = b + (d + f)
    OBVIOUS
  <2>. QED BY <2>1, <2>2, <2>3, <2>4 DEF Plus
<1>. QED BY <1>3, <1>4, <1>5

LEMMA TotalCat ==
  ASSUME NEW A \in Seq(Units)
  PROVE  \A B \in Seq(Units) : Total(A \o B) = Plus(Total(A), Total(B))
<1> DEFINE U == {B \in Seq(Units) : Total(A \o B) = Plus(Total(A), Total(B))}
<1>1. <<>> \in U
  <2>1. A \o <<>> = A
    OBVIOUS
  <2>. QED BY <2>1, TotalIs, PlusIs
<1>2. ASSUME NEW B \in Seq(Units), NEW u \in Units, B \in U PROVE Append(B, u) \in U
  <2>1. A \o Append(B, u) = Append(A \o B, u) /\ A \o B \in Seq(Units) /\ Append(B, u) \in Seq(Units)
    OBVIOUS
  <2>2. Total(A \o Append(B, u)) = Plus(Total(A \o B), Disp(u)) /\ Total(Append(B, u)) = Plus(Total(B), Disp(u))
    BY <2>1, TotalAppend
  <2>3. Total(A \o B) = Plus(Total(A), Total(B))
    BY <1>2
  <2>4. Plus(Plus(Total(A), Total(B)), Disp(u)) = Plus(Total(A), Plus(Total(B), Disp(u)))
    BY TotalIs, DispIs, PlusIs
  <2>. QED BY <2>1, <2>2, <2>3, <2>4
<1> HIDE DEF U
<1>3. Seq(Units) \subseteq U
  BY <1>1, <1>2, AppendInduction
<1>. QED BY <1>3 DEF U

LEMMA TotalOne == \A u \in Units : Total(<<u>>) = Disp(u)
<1> SUFFICES ASSUME NEW u \in Units PROVE Total(<<u>>) = Disp(u)
  OBVIOUS
<1>1. <<>> \in Seq(Units) /\ Append(<<>>, u) = <<u>>
  OBVIOUS
<1>2. Total(<<u>>) = Plus(<<0, 0>>, Disp(u))
  BY <1>1, TotalAppend, TotalIs
<1>. QED BY <1>2, DispIs, PlusIs

LEMMA TotalHead ==
  ASSUME NEW W \in Seq(Units), W # <<>>
  PROVE  Total(W) = Plus(Disp(Head(W)), Total(Tail(W)))
<1>1. <<Head(W)>> \in Seq(Units) /\ Tail(W) \in Seq(Units) /\ W = <<Head(W)>> \o Tail(W) /\ Head(W) \in Units
  OBVIOUS
<1>2. Total(<<Head(W)>> \o Tail(W)) = Plus(Total(<<Head(W)>>), Total(Tail(W)))
  BY <1>1, TotalCat
<1>. QED BY <1>1, <1>2, TotalOne

\* One coordinate of a displacement in packets.
LEMMA NextLeft ==
  ASSUME NEW d \in Int, NEW m \in Nat \ {0}, NEW j \in Nat
  PROVE  /\ Left(d, m, j) \in Int /\ Left(d, m, 0) = d
         /\ Clamp(Left(d, m, j), m) \in -m .. m
         /\ Left(d, m, j + 1) = Left(d, m, j) - Clamp(Left(d, m, j), m)
<1>1. PICK P \in Nat : P = j * m
  OBVIOUS
<1>2. (j + 1) * m = P + m /\ 0 * m = 0
  BY <1>1
<1>3. Left(d, m, j) = IF Mag(d) <= P THEN 0 ELSE IF d < 0 THEN d + P ELSE d - P
  BY <1>1 DEF Left
<1>4. Left(d, m, j + 1) = IF Mag(d) <= P + m THEN 0 ELSE IF d < 0 THEN d + (P + m) ELSE d - (P + m)
  BY <1>2 DEF Left
<1>5. Left(d, m, 0) = d
  BY <1>2 DEF Left, Mag
<1>6. PICK x \in Int, y \in Int : x = Left(d, m, j) /\ y = Left(d, m, j + 1)
  <2>1. Left(d, m, j) \in Int
    BY <1>3
  <2>2. Left(d, m, j + 1) \in Int
    BY <1>4
  <2>. QED BY <2>1, <2>2
<1>7. x = IF (IF d < 0 THEN -d ELSE d) <= P THEN 0 ELSE IF d < 0 THEN d + P ELSE d - P
  BY <1>3, <1>6 DEF Mag
<1>8. y = IF (IF d < 0 THEN -d ELSE d) <= P + m THEN 0 ELSE IF d < 0 THEN d + (P + m) ELSE d - (P + m)
  BY <1>4, <1>6 DEF Mag
<1>9. PICK c \in -m .. m : c = Clamp(x, m) /\ c = IF x > m THEN m ELSE IF x < -m THEN -m ELSE x
  BY DEF Clamp
<1>10. y = x - c
  BY <1>7, <1>8, <1>9
<1>. QED BY <1>5, <1>6, <1>9, <1>10

LEMMA StepsReach ==
  ASSUME NEW dx \in Int, NEW dy \in Int, NEW m \in Nat \ {0}
  PROVE  /\ Left(dx, m, Steps(dx, dy, m)) = 0 /\ Left(dy, m, Steps(dx, dy, m)) = 0
         /\ Steps(dx, dy, m) \in Nat
<1>1. PICK a \in Nat, b \in Nat : a = Mag(dx) /\ b = Mag(dy)
  BY DEF Mag
<1>2. PICK far \in Nat : far = (IF a > b THEN a ELSE b) /\ a <= far /\ b <= far
  OBVIOUS
<1>3. PICK s \in Nat : s = Steps(dx, dy, m)
  BY StepsNat
<1>4. far <= s * m
  <2>1. CASE far = 0
    BY <2>1
  <2>2. CASE far # 0
    <3>1. PICK c \in Int : c = far + m - 1
      OBVIOUS
    <3>2. PICK q \in Int, r \in 0 .. m - 1 : c \div m = q /\ c = m * q + r
      BY DivMod
    <3>3. s = q
      BY <2>2, <1>1, <1>2, <1>3, <3>1, <3>2 DEF Steps
    <3>4. far <= m * q
      BY <3>1, <3>2
    <3>. QED BY <3>3, <3>4
  <2>. QED BY <2>1, <2>2
<1>5. PICK P \in Nat : P = s * m /\ a <= P /\ b <= P
  BY <1>2, <1>4
<1>. QED BY <1>1, <1>3, <1>5 DEF Left

LEMMA SignedIs ==
  ASSUME NEW m \in Nat \ {0}, m = PacketMax, NEW x \in -m .. m
  PROVE  Signed(x < 0, x % (PacketMax + 1)) = x /\ x % (PacketMax + 1) \in Int
<1>1. PICK n \in Nat \ {0} : n = m + 1
  OBVIOUS
<1>2. PICK r \in 0 .. n - 1 : r = IF x < 0 THEN x + n ELSE x
  BY <1>1
<1>3. x % n = r
  <2>1. CASE x < 0
    <3>1. x = n * (-1) + r
      BY <2>1, <1>2
    <3>2. (n * (-1) + r) % n = r
      BY ModUnique
    <3>. QED BY <3>1, <3>2
  <2>2. CASE ~(x < 0)
    <3>1. x = n * 0 + r
      BY <2>2, <1>2
    <3>2. (n * 0 + r) % n = r
      BY ModUnique
    <3>. QED BY <3>1, <3>2
  <2>. QED BY <2>1, <2>2
<1>4. Signed(x < 0, r) = x
  BY <1>1, <1>2 DEF Signed
<1>. QED BY <1>1, <1>3, <1>4

LEMMA WholeIs ==
  ASSUME NEW a \in Flags \cup Moves, NEW b \in Flags \cup Moves, NEW c \in Flags \cup Moves
  PROVE  Event(<<a, b, c>>) = Whole(a, b, c)
<1>0. PICK S : S = Flags \cup Moves
  OBVIOUS
<1>1. PICK t \in Seq(S) : t = <<a, b, c>> /\ Len(t) = 3 /\ t[1] = a /\ t[2] = b /\ t[3] = c
  <2>1. a \in S /\ b \in S /\ c \in S
    BY <1>0
  <2>2. <<a, b, c>> \in Seq(S)
    BY <2>1
  <2>. QED BY <2>2
<1>2. Event(t) = [k \in 1 .. 3 |-> [event |-> TRUE, left |-> 3 - k, val |-> t[k]]]
  BY <1>1 DEF Event, Bytes
<1>3. PICK f : f = Event(t)
  OBVIOUS
<1>4. f = [k \in 1 .. 3 |-> f[k]]
  BY <1>2, <1>3
<1>5. f[1] = [event |-> TRUE, left |-> 2, val |-> a] /\ f[2] = [event |-> TRUE, left |-> 1, val |-> b]
      /\ f[3] = [event |-> TRUE, left |-> 0, val |-> c]
  <2>1. \A k \in 1 .. 3 : f[k] = [event |-> TRUE, left |-> 3 - k, val |-> t[k]]
    BY <1>2, <1>3
  <2>2. f[1] = [event |-> TRUE, left |-> 2, val |-> t[1]]
    BY <2>1
  <2>3. f[2] = [event |-> TRUE, left |-> 1, val |-> t[2]]
    BY <2>1
  <2>4. f[3] = [event |-> TRUE, left |-> 0, val |-> t[3]]
    BY <2>1
  <2>. QED BY <1>1, <2>2, <2>3, <2>4
<1>6. f = <<f[1], f[2], f[3]>>
  BY <1>4
<1>. QED BY <1>1, <1>3, <1>5, <1>6 DEF Whole

LEMMA PacketIs ==
  ASSUME NEW i \in Nat \ {0}, NEW dx \in Int, NEW dy \in Int, NEW m, m = PacketMax, NEW btn \in SUBSET Buttons
  PROVE  /\ Event(Packet(i, dx, dy, m, btn)) \in Packets
         /\ Disp(Event(Packet(i, dx, dy, m, btn))) = <<Clamp(Left(dx, m, i - 1), m), Clamp(Left(dy, m, i - 1), m)>>
<1>1. m \in Nat \ {0} /\ i - 1 \in Nat
  BY Ps2Assumption
<1>2. PICK x \in -m .. m, y \in -m .. m : x = Clamp(Left(dx, m, i - 1), m) /\ y = Clamp(Left(dy, m, i - 1), m)
  BY <1>1, NextLeft
<1>3. PICK z \in -m .. m : z = -y
  BY <1>1
<1>4. PICK u \in Int, v \in Int :
        /\ u = x % (PacketMax + 1) /\ v = z % (PacketMax + 1)
        /\ Signed(x < 0, u) = x /\ Signed(z < 0, v) = z
  BY <1>1, SignedIs
<1>5. PICK a, b, c : a = [flags |-> [xneg |-> x < 0, yneg |-> z < 0, btn |-> btn]]
                     /\ b = [move |-> u] /\ c = [move |-> v]
  OBVIOUS
<1>6. a \in Flags /\ b \in Moves /\ c \in Moves
  BY <1>5 DEF Flags, Moves
<1>7. Packet(i, dx, dy, m, btn) = <<a, b, c>>
  BY <1>2, <1>3, <1>4, <1>5 DEF Packet
<1>8. Event(<<a, b, c>>) = Whole(a, b, c)
  <2>1. a \in Flags \cup Moves /\ b \in Flags \cup Moves /\ c \in Flags \cup Moves
    BY <1>6
  <2>. QED BY <2>1, WholeIs
<1>9. Disp(Whole(a, b, c)) = PointerAt(<<0, 0>>, a, b, c)
  BY DEF Disp, UnitAt, Whole
<1>10. PointerAt(<<0, 0>>, a, b, c) = <<0 + x, 0 - z>>
  BY <1>4, <1>5 DEF PointerAt
<1>11. <<0 + x, 0 - z>> = <<x, y>>
  BY <1>1, <1>3
<1>. QED BY <1>2, <1>6, <1>7, <1>8, <1>9, <1>10, <1>11 DEF Packets

\* The packets of a displacement add up to it.
LEMMA PacketsAddUp ==
  ASSUME NEW dx \in Int, NEW dy \in Int, NEW btn \in SUBSET Buttons
  PROVE  LET Q == [i \in 1 .. Steps(dx, dy, PacketMax) |-> Event(Packet(i, dx, dy, PacketMax, btn))]
         IN Q \in Seq(Packets) /\ Total(Q) = <<dx, dy>>
<1>1. PICK m \in Nat \ {0} : m = PacketMax
  BY Ps2Assumption
<1>2. PICK n \in Nat : n = Steps(dx, dy, m) /\ Left(dx, m, n) = 0 /\ Left(dy, m, n) = 0
  BY StepsReach
<1> DEFINE Q(j) == [i \in 1 .. j |-> Event(Packet(i, dx, dy, m, btn))]
           U == {j \in Nat : /\ Q(j) \in Seq(Packets) /\ Q(j) \in Seq(Units)
                             /\ Total(Q(j)) = <<dx - Left(dx, m, j), dy - Left(dy, m, j)>>}
<1>3. 0 \in U
  <2>1. Q(0) = <<>>
    OBVIOUS
  <2>2. <<>> \in Seq(Packets) /\ <<>> \in Seq(Units)
    OBVIOUS
  <2>3. dx - Left(dx, m, 0) = 0 /\ dy - Left(dy, m, 0) = 0
    BY NextLeft
  <2>. QED BY <2>1, <2>2, <2>3, TotalIs
<1>4. ASSUME NEW j \in Nat, j \in U PROVE j + 1 \in U
  <2>1. PICK e \in Packets : e = Event(Packet(j + 1, dx, dy, m, btn))
                             /\ Disp(e) = <<Clamp(Left(dx, m, j), m), Clamp(Left(dy, m, j), m)>>
    <3>1. j + 1 \in Nat \ {0} /\ (j + 1) - 1 = j
      OBVIOUS
    <3>. QED BY <3>1, <1>1, PacketIs
  <2>2. PICK q \in Seq(Packets) : q = Q(j) /\ q \in Seq(Units)
    BY <1>4
  <2>3. Q(j + 1) = Append(q, e)
    BY <2>1, <2>2
  <2>4. e \in Units /\ Append(q, e) \in Seq(Packets) /\ Append(q, e) \in Seq(Units)
    <3>1. e \in Units
      BY UnitSeqs
    <3>. QED BY <3>1, <2>2
  <2>5. Total(Append(q, e)) = Plus(Total(q), Disp(e))
    BY <2>2, <2>4, TotalAppend
  <2>6. PICK a \in Int, b \in Int, c \in Int, d \in Int :
          /\ a = Left(dx, m, j) /\ b = Left(dy, m, j)
          /\ c = Clamp(a, m) /\ d = Clamp(b, m)
          /\ Left(dx, m, j + 1) = a - c /\ Left(dy, m, j + 1) = b - d
    <3>1. Left(dx, m, j) \in Int /\ Left(dy, m, j) \in Int
      BY NextLeft
    <3>2. PICK a \in Int, b \in Int : a = Left(dx, m, j) /\ b = Left(dy, m, j)
      BY <3>1
    <3>3. PICK c \in -m .. m : c = Clamp(a, m)
      BY <3>2, NextLeft
    <3>4. PICK d \in -m .. m : d = Clamp(b, m)
      BY <3>2, NextLeft
    <3>5. Left(dx, m, j + 1) = a - c
      BY <3>2, <3>3, NextLeft
    <3>6. Left(dy, m, j + 1) = b - d
      BY <3>2, <3>4, NextLeft
    <3>7. c \in Int /\ d \in Int
      OBVIOUS
    <3>. QED BY <3>2, <3>3, <3>4, <3>5, <3>6, <3>7
  <2>7. Total(q) = <<dx - a, dy - b>>
    BY <1>4, <2>2, <2>6
  <2>8. Total(Append(q, e)) = <<(dx - a) + c, (dy - b) + d>>
    <3>1. Disp(e) = <<c, d>>
      BY <2>1, <2>6
    <3>. QED BY <2>5, <2>7, <3>1 DEF Plus
  <2>9. (dx - a) + c = dx - (a - c) /\ (dy - b) + d = dy - (b - d)
    OBVIOUS
  <2>10. j + 1 \in Nat
    OBVIOUS
  <2>11. Total(Q(j + 1)) = <<dx - Left(dx, m, j + 1), dy - Left(dy, m, j + 1)>>
    BY <2>3, <2>6, <2>8, <2>9
  <2>. QED BY <2>3, <2>4, <2>10, <2>11
<1> HIDE DEF U
<1>5. n \in U
  <2>1. Nat \subseteq U
    BY <1>3, <1>4, NatSetInduction
  <2>. QED BY <2>1
<1>6. dx - 0 = dx /\ dy - 0 = dy
  OBVIOUS
<1>. QED BY <1>1, <1>2, <1>5, <1>6 DEF U

PacketVal == Flags \cup Moves

\* A packet the guest has begun to read.
Begun(head) == [i \in 1 .. Len(head) |-> [event |-> TRUE, left |-> 3 - i, val |-> head[i]]]

LEMMA MouseSets ==
  /\ \A b \in MouseByte : b.val \in MouseVal
  /\ \A b \in MouseEvents : b.event /\ b.val \in MouseVal /\ b.val \in PacketVal
  /\ \A b \in KbdReplies : ~b.event
  /\ \A q \in Seq(MouseEvents) : q \in Seq(MouseByte)
  /\ \A q \in Seq(KbdReplies) : q \in Seq(MouseByte)
  /\ \A b \in MouseByte : IF b.event THEN b \in MouseEvents ELSE b \in KbdReplies
<1>1. \A b \in MouseEvents : b.event /\ b.val \in PacketVal
  BY DEF MouseEvents, PacketVal
<1>2. \A b \in KbdReplies : ~b.event /\ b.val \in [reply : Replies]
  BY DEF KbdReplies
<1>3. \A v \in PacketVal : v \in MouseVal
  BY DEF MouseVal, PacketVal
<1>4. \A v \in [reply : Replies] : v \in MouseVal
  BY DEF MouseVal
<1>5. MouseEvents \subseteq MouseByte /\ KbdReplies \subseteq MouseByte
  BY DEF MouseByte
<1>6. \A b \in MouseByte : b \in MouseEvents \/ b \in KbdReplies
  BY DEF MouseByte
<1>. QED BY <1>1, <1>2, <1>3, <1>4, <1>5, <1>6

LEMMA BegunIs ==
  /\ Begun(<<>>) = <<>>
  /\ \A a \in PacketVal : Begun(<<a>>) = <<[event |-> TRUE, left |-> 2, val |-> a]>>
  /\ \A h \in Seq(PacketVal) : Begun(h) \in Seq(MouseEvents) /\ Len(Begun(h)) = Len(h)
  /\ \A h \in Seq(PacketVal), v \in PacketVal :
       Begun(Append(h, v)) = Append(Begun(h), [event |-> TRUE, left |-> 2 - Len(h), val |-> v])
<1>0. PICK S : S = PacketVal
  OBVIOUS
<1>1. Begun(<<>>) = <<>>
  BY DEF Begun
<1>2. ASSUME NEW h \in Seq(S) PROVE Begun(h) \in Seq(MouseEvents) /\ Len(Begun(h)) = Len(h)
  <2>1. PICK n \in Nat : n = Len(h) /\ \A i \in 1 .. n : h[i] \in S
    OBVIOUS
  <2>2. \A i \in 1 .. n : [event |-> TRUE, left |-> 3 - i, val |-> h[i]] \in MouseEvents
    BY <1>0, <2>1 DEF MouseEvents, PacketVal
  <2>3. Begun(h) = [i \in 1 .. n |-> [event |-> TRUE, left |-> 3 - i, val |-> h[i]]]
    BY <2>1 DEF Begun
  <2>. QED BY <2>1, <2>2, <2>3
<1>3. ASSUME NEW h \in Seq(S), NEW v \in S
      PROVE  Begun(Append(h, v)) = Append(Begun(h), [event |-> TRUE, left |-> 2 - Len(h), val |-> v])
  <2>1. PICK n \in Nat : n = Len(h)
    OBVIOUS
  <2>2. PICK g \in Seq(S) : g = Append(h, v) /\ Len(g) = n + 1 /\ g[n + 1] = v /\ \A i \in 1 .. n : g[i] = h[i]
    <3>1. Append(h, v) \in Seq(S)
      OBVIOUS
    <3>2. Len(Append(h, v)) = n + 1 /\ Append(h, v)[n + 1] = v /\ \A i \in 1 .. n : Append(h, v)[i] = h[i]
      BY <2>1
    <3>. QED BY <3>1, <3>2
  <2>3. PICK e \in MouseEvents : e = [event |-> TRUE, left |-> 2 - n, val |-> v]
    <3>1. 2 - n \in Int /\ v \in PacketVal
      BY <1>0
    <3>2. [event |-> TRUE, left |-> 2 - n, val |-> v] \in MouseEvents
      BY <3>1 DEF MouseEvents, PacketVal
    <3>. QED BY <3>2
  <2>4. PICK B \in Seq(MouseEvents) : B = Begun(h) /\ Len(B) = n
    BY <1>2, <2>1
  <2>5. PICK C \in Seq(MouseEvents) : C = Begun(g) /\ Len(C) = n + 1
    <3>1. Append(h, v) \in Seq(S)
      OBVIOUS
    <3>2. Begun(Append(h, v)) \in Seq(MouseEvents) /\ Len(Begun(Append(h, v))) = Len(Append(h, v))
      BY <3>1, <1>2
    <3>. QED BY <2>2, <3>2
  <2>6. \A i \in 1 .. n : C[i] = B[i]
    <3>1. \A i \in 1 .. n : B[i] = [event |-> TRUE, left |-> 3 - i, val |-> h[i]]
      BY <2>1, <2>4 DEF Begun
    <3>2. C = [i \in 1 .. n + 1 |-> [event |-> TRUE, left |-> 3 - i, val |-> g[i]]]
      BY <2>2, <2>5 DEF Begun
    <3>3. \A i \in 1 .. n : i \in 1 .. n + 1
      OBVIOUS
    <3>4. \A i \in 1 .. n : C[i] = [event |-> TRUE, left |-> 3 - i, val |-> g[i]]
      BY <3>2, <3>3
    <3>. QED BY <2>2, <3>1, <3>4
  <2>7. C[n + 1] = e
    <3>0. C = [i \in 1 .. n + 1 |-> [event |-> TRUE, left |-> 3 - i, val |-> g[i]]]
      BY <2>2, <2>5 DEF Begun
    <3>1. C[n + 1] = [event |-> TRUE, left |-> 3 - (n + 1), val |-> g[n + 1]]
      BY <3>0
    <3>2. 3 - (n + 1) = 2 - n
      OBVIOUS
    <3>. QED BY <2>2, <2>3, <3>1, <3>2
  <2>8. C = Append(B, e)
    <3>1. PICK D \in Seq(MouseEvents) : D = Append(B, e) /\ Len(D) = n + 1 /\ D[n + 1] = e /\ \A i \in 1 .. n : D[i] = B[i]
      <4>1. Append(B, e) \in Seq(MouseEvents)
        OBVIOUS
      <4>2. Len(Append(B, e)) = n + 1 /\ Append(B, e)[n + 1] = e /\ \A i \in 1 .. n : Append(B, e)[i] = B[i]
        BY <2>4
      <4>. QED BY <4>1, <4>2
    <3>2. \A i \in 1 .. n + 1 : i \in 1 .. n \/ i = n + 1
      OBVIOUS
    <3>3. \A i \in 1 .. n + 1 : C[i] = D[i]
      BY <2>6, <2>7, <3>1, <3>2
    <3>4. C = D
      BY <2>5, <3>1, <3>3
    <3>. QED BY <3>1, <3>4
  <2>. QED BY <2>1, <2>2, <2>3, <2>4, <2>5, <2>8
<1>4. ASSUME NEW a \in S PROVE Begun(<<a>>) = <<[event |-> TRUE, left |-> 2, val |-> a]>>
  <2>1. <<>> \in Seq(S) /\ Append(<<>>, a) = <<a>> /\ Len(<<>>) = 0
    OBVIOUS
  <2>2. Begun(<<a>>) = Append(<<>>, [event |-> TRUE, left |-> 2 - 0, val |-> a])
    BY <1>1, <1>3, <2>1
  <2>. QED BY <2>2
<1>. QED BY <1>0, <1>1, <1>2, <1>3, <1>4

LEMMA LenNat == \A S : \A q \in Seq(S) : Len(q) \in Nat
  OBVIOUS

LEMMA Short ==
  ASSUME NEW S, NEW q \in Seq(S)
  PROVE  /\ Len(q) = 0 => q = <<>>
         /\ Len(q) = 1 => q = <<q[1]>>
         /\ Len(q) = 2 => q = <<q[1], q[2]>>
  OBVIOUS

LEMMA OneSeq == \A S : \A b \in S : <<b>> \in Seq(S)
  OBVIOUS

\* Equal sequences cut at the same place.
UpTo(F, n) == SubSeq(F, 1, n)
Beyond(F, n) == SubSeq(F, n + 1, Len(F))

LEMMA Pieces ==
  ASSUME NEW S, NEW A \in Seq(S), NEW B \in Seq(S)
  PROVE  UpTo(Cat(A, B), Len(A)) = A /\ Beyond(Cat(A, B), Len(A)) = B
<1>1. SubSeq(A \o B, 1, Len(A)) = A
  OBVIOUS
<1>2. SubSeq(A \o B, Len(A) + 1, Len(A \o B)) = B
  OBVIOUS
<1>. QED BY <1>1, <1>2 DEF Cat, UpTo, Beyond

LEMMA Cut ==
  ASSUME NEW S, NEW A \in Seq(S), NEW B \in Seq(S), NEW C \in Seq(S), NEW D \in Seq(S),
         Len(A) = Len(C), Cat(A, B) = Cat(C, D)
  PROVE  A = C /\ B = D
<1>1. UpTo(Cat(A, B), Len(A)) = A /\ Beyond(Cat(A, B), Len(A)) = B
  BY Pieces
<1>2. UpTo(Cat(C, D), Len(C)) = C /\ Beyond(Cat(C, D), Len(C)) = D
  BY Pieces
<1>. QED BY <1>1, <1>2

LEMMA UnitsType ==
  /\ \A W \in Seq(Units) : W \in Seq(Seq(MouseByte)) /\ FlattenSeq(W) \in Seq(MouseByte)
  /\ \A W \in Seq(Packets) : W \in Seq(Units) /\ FlattenSeq(W) \in Seq(MouseEvents)
<1>1. \A W \in Seq(Units) : W \in Seq(Seq(MouseByte))
  BY UnitSeqs
<1>2. \A W \in Seq(Packets) : W \in Seq(Seq(MouseEvents)) /\ W \in Seq(Units)
  BY UnitSeqs
<1>. QED BY <1>1, <1>2, FlattenType

\* Replies are units of a byte each, and move nothing.
LEMMA ReplyUnits ==
  \A r \in Seq(KbdReplies) : \E R \in Seq(Units) : FlattenSeq(R) = r /\ Total(R) = <<0, 0>>
<1> DEFINE U == {r \in Seq(KbdReplies) : \E R \in Seq(Units) : FlattenSeq(R) = r /\ Total(R) = <<0, 0>>}
<1>1. <<>> \in U
  <2>1. <<>> \in Seq(Units) /\ <<>> \in Seq(KbdReplies)
    OBVIOUS
  <2>. QED BY <2>1, FlattenNone, TotalIs
<1>2. ASSUME NEW r \in Seq(KbdReplies), NEW b \in KbdReplies, r \in U PROVE Append(r, b) \in U
  <2>1. PICK R \in Seq(Units) : FlattenSeq(R) = r /\ Total(R) = <<0, 0>>
    BY <1>2
  <2>2. PICK u \in Units : u = <<b>> /\ u \in Seq(MouseByte)
    <3>1. <<b>> \in Units
      BY DEF Units
    <3>. QED BY <3>1, UnitSeqs
  <2>3. FlattenSeq(Append(R, u)) = Cat(r, u)
    BY <2>1, <2>2, FlattenAppend, UnitsType
  <2>4. Cat(r, u) = Append(r, b) /\ Append(r, b) \in Seq(KbdReplies) /\ Append(R, u) \in Seq(Units)
    BY <2>2 DEF Cat
  <2>5. Total(Append(R, u)) = <<0, 0>>
    <3>1. UnitAt(<<0, 0>>, u) = <<0, 0>>
      <4>1. ~u[1].event
        BY <2>2, MouseSets
      <4>. QED BY <4>1 DEF UnitAt
    <3>. QED BY <2>1, <3>1, TotalAppend
  <2>. QED BY <2>3, <2>4, <2>5
<1> HIDE DEF U
<1>3. Seq(KbdReplies) \subseteq U
  BY <1>1, <1>2, AppendInduction
<1>. QED BY <1>3 DEF U

\* The byte the guest is to read next, after those it has of a packet.
FirstIs(W, head, b, rest) ==
  \/ ~b.event /\ head = <<>> /\ Disp(Head(W)) = <<0, 0>> /\ rest = FlattenSeq(Tail(W))
  \/ \E x \in Flags, y \in Moves, z \in Moves :
       /\ Head(W) = Whole(x, y, z)
       /\ \/ head = <<>> /\ b = [event |-> TRUE, left |-> 2, val |-> x]
          \/ head = <<x>> /\ b = [event |-> TRUE, left |-> 1, val |-> y]
          \/ /\ head = <<x, y>> /\ b = [event |-> TRUE, left |-> 0, val |-> z]
             /\ rest = FlattenSeq(Tail(W))

LEMMA FirstUnit ==
  ASSUME NEW W \in Seq(Units), NEW head \in Seq(PacketVal), Len(head) <= 2,
         NEW b \in MouseByte, NEW rest \in Seq(MouseByte),
         Cat(Begun(head), Cat(<<b>>, rest)) = FlattenSeq(W)
  PROVE  W # <<>> /\ Head(W) \in Units /\ Tail(W) \in Seq(Units) /\ FirstIs(W, head, b, rest)
<1>1. PICK k \in 0 .. 2 : k = Len(head)
  <2>1. PICK n \in Nat : n = Len(head)
    BY LenNat
  <2>2. n \in 0 .. 2
    BY <2>1
  <2>. QED BY <2>1, <2>2
<1>2. PICK B \in Seq(MouseByte) : B = Begun(head) /\ Len(B) = k
                                  /\ \A i \in 1 .. k : B[i] = [event |-> TRUE, left |-> 3 - i, val |-> head[i]]
  <2>1. Begun(head) \in Seq(MouseByte) /\ Len(Begun(head)) = k
    BY <1>1, BegunIs, MouseSets
  <2>2. \A i \in 1 .. k : Begun(head)[i] = [event |-> TRUE, left |-> 3 - i, val |-> head[i]]
    BY <1>1 DEF Begun
  <2>. QED BY <2>1, <2>2
<1>3. PICK F \in Seq(MouseByte) : F = FlattenSeq(W)
  BY UnitsType
<1>4. PICK E \in Seq(MouseByte) : E = Append(B, b) /\ Len(E) = k + 1 /\ E[k + 1] = b
                                  /\ (\A i \in 1 .. k : E[i] = B[i]) /\ F = Cat(E, rest)
  <2>1. Append(B, b) \in Seq(MouseByte) /\ Len(Append(B, b)) = k + 1 /\ Append(B, b)[k + 1] = b
        /\ \A i \in 1 .. k : Append(B, b)[i] = B[i]
    BY <1>2
  <2>2. Cat(B, Cat(<<b>>, rest)) = Cat(Append(B, b), rest)
    <3>1. PICK C \in Seq(MouseByte) : C = <<b>>
      BY OneSeq
    <3>2. Cat(B, C) = Append(B, b)
      BY <3>1 DEF Cat
    <3>3. Cat(B, Cat(C, rest)) = Cat(Cat(B, C), rest)
      BY CatAssoc
    <3>. QED BY <3>1, <3>2, <3>3
  <2>. QED BY <2>1, <2>2, <1>2, <1>3
<1>5. \A i \in 1 .. k + 1 : i \in 1 .. Len(F) /\ F[i] = E[i]
  <2>1. F = E \o rest
    BY <1>4 DEF Cat
  <2>. QED BY <2>1, <1>4
<1>6. W # <<>>
  <2>1. 1 \in 1 .. Len(F)
    BY <1>5
  <2>2. F # <<>>
    BY <2>1
  <2>. QED BY <2>2, <1>3, FlattenNone
<1>7. PICK u \in Units, V \in Seq(Units) : u = Head(W) /\ V = Tail(W)
  <2>1. Head(W) \in Units /\ Tail(W) \in Seq(Units)
    BY <1>6
  <2>. QED BY <2>1
<1>8. PICK G \in Seq(MouseByte) : G = FlattenSeq(V) /\ F = Cat(u, G) /\ u \in Seq(MouseByte)
  BY <1>3, <1>6, <1>7, FlattenHead, UnitsType, UnitSeqs
<1>9. \A i \in 1 .. Len(u) : F[i] = u[i]
  <2>1. F = u \o G
    BY <1>8 DEF Cat
  <2>. QED BY <2>1, <1>8
<1>10. ASSUME NEW r \in KbdReplies, u = <<r>>
       PROVE  ~b.event /\ head = <<>> /\ Disp(u) = <<0, 0>> /\ rest = G
  <2>1. Len(u) = 1 /\ u[1] = r /\ ~r.event
    BY <1>10, MouseSets
  <2>2. E[1] = r
    BY <1>1, <1>5, <1>9, <2>1
  <2>3. k = 0
    <3>1. k > 0 => E[1].event
      <4>1. k > 0 => 1 \in 1 .. k
        BY <1>1
      <4>2. k > 0 => E[1] = [event |-> TRUE, left |-> 3 - 1, val |-> head[1]]
        BY <4>1, <1>2, <1>4
      <4>. QED BY <4>2
    <3>. QED BY <2>1, <2>2, <3>1
  <2>4. b = r /\ head = <<>>
    <3>1. head = <<>>
      BY <1>1, <2>3, Short
    <3>2. b = E[1]
      BY <1>4, <2>3
    <3>. QED BY <3>1, <3>2, <2>2
  <2>5. Disp(u) = <<0, 0>>
    BY <2>1 DEF Disp, UnitAt
  <2>6. rest = G
    <3>1. Len(E) = Len(u) /\ Cat(E, rest) = Cat(u, G)
      BY <1>4, <1>8, <2>1, <2>3
    <3>. QED BY <3>1, <1>8, Cut
  <2>. QED BY <2>1, <2>4, <2>5, <2>6
<1>11. ASSUME u \in Packets
       PROVE  \E x \in Flags, y \in Moves, z \in Moves :
                /\ u = Whole(x, y, z)
                /\ \/ head = <<>> /\ b = [event |-> TRUE, left |-> 2, val |-> x]
                   \/ head = <<x>> /\ b = [event |-> TRUE, left |-> 1, val |-> y]
                   \/ /\ head = <<x, y>> /\ b = [event |-> TRUE, left |-> 0, val |-> z]
                      /\ rest = G
  <2>1. PICK x \in Flags, y \in Moves, z \in Moves : u = Whole(x, y, z)
    BY <1>11 DEF Packets
  <2>2. /\ Len(u) = 3 /\ u[1] = [event |-> TRUE, left |-> 2, val |-> x]
        /\ u[2] = [event |-> TRUE, left |-> 1, val |-> y]
        /\ u[3] = [event |-> TRUE, left |-> 0, val |-> z]
    BY <2>1 DEF Whole
  <2>3. \A i \in 1 .. k + 1 : E[i] = u[i]
    BY <1>1, <1>5, <1>9, <2>2
  <2>4. b = u[k + 1]
    <3>1. k + 1 \in 1 .. k + 1
      BY <1>1
    <3>. QED BY <3>1, <1>4, <2>3
  <2>4a. \A i \in 1 .. k : u[i] = [event |-> TRUE, left |-> 3 - i, val |-> head[i]]
    <3>1. \A i \in 1 .. k : i \in 1 .. k + 1
      BY <1>1
    <3>. QED BY <3>1, <1>2, <1>4, <2>3
  <2>4b. \A i \in 1 .. k : u[i].val = head[i]
    <3> TAKE i \in 1 .. k
    <3>1. u[i] = [event |-> TRUE, left |-> 3 - i, val |-> head[i]]
      BY <2>4a
    <3>. QED BY <3>1
  <2>5. CASE k = 0
    <3>1. head = <<>>
      BY <1>1, <2>5, Short
    <3>2. b = [event |-> TRUE, left |-> 2, val |-> x]
      BY <2>2, <2>4, <2>5
    <3>. QED BY <3>1, <3>2, <2>1
  <2>6. CASE k = 1
    <3>1. head[1] = x
      BY <2>2, <2>4b, <2>6
    <3>2. head = <<x>>
      BY <1>1, <2>6, <3>1, Short
    <3>3. b = [event |-> TRUE, left |-> 1, val |-> y]
      BY <2>2, <2>4, <2>6
    <3>. QED BY <3>2, <3>3, <2>1
  <2>7. CASE k = 2
    <3>1. head[1] = x /\ head[2] = y
      BY <2>2, <2>4b, <2>7
    <3>2. head = <<x, y>>
      BY <1>1, <2>7, <3>1, Short
    <3>3. b = [event |-> TRUE, left |-> 0, val |-> z]
      BY <2>2, <2>4, <2>7
    <3>4. rest = G
      <4>1. Len(E) = Len(u) /\ Cat(E, rest) = Cat(u, G)
        BY <1>4, <1>8, <2>2, <2>7
      <4>. QED BY <4>1, <1>8, Cut
    <3>. QED BY <3>2, <3>3, <3>4, <2>1
  <2>8. k = 0 \/ k = 1 \/ k = 2
    BY <1>1
  <2>. QED BY <2>5, <2>6, <2>7, <2>8
<1>12. u \in Packets \/ \E r \in KbdReplies : u = <<r>>
  BY UnitSeqs
<1>13. Tail(W) = V /\ Head(W) = u /\ W # <<>>
  BY <1>6, <1>7
<1>14. u \in Units /\ V \in Seq(Units)
  OBVIOUS
<1>15. CASE \E r \in KbdReplies : u = <<r>>
  <2>1. ~b.event /\ head = <<>> /\ Disp(u) = <<0, 0>> /\ rest = G
    BY <1>10, <1>15
  <2>2. ~b.event /\ head = <<>> /\ Disp(Head(W)) = <<0, 0>> /\ rest = FlattenSeq(Tail(W))
    BY <2>1, <1>8, <1>13
  <2>. QED BY <2>2, <1>13, <1>14 DEF FirstIs
<1>16. CASE u \in Packets
  BY <1>8, <1>11, <1>13, <1>14, <1>16 DEF FirstIs
<1>. QED BY <1>12, <1>15, <1>16

-----------------------------------------------------------------------------
(* What the controller holds of the mouse *)

Mouse(p) ==
  /\ p = [f \in Ps2Fields |-> p[f]]
  /\ p.aux_q \in Seq(MouseByte)
  /\ p.obf \in BOOLEAN /\ p.aux_obf \in BOOLEAN
  /\ p.obf /\ p.aux_obf => p.out \in MouseByte
AuxByte(p) == IF p.obf /\ p.aux_obf THEN <<p.out>> ELSE <<>>
AuxBytes(p) == Cat(AuxByte(p), p.aux_q)

LEMMA AuxType ==
  ASSUME NEW p, Mouse(p)
  PROVE  AuxBytes(p) \in Seq(MouseByte) /\ AuxByte(p) \in Seq(MouseByte) /\ p.aux_q \in Seq(MouseByte)
<1>1. AuxByte(p) \in Seq(MouseByte)
  BY DEF AuxByte, Mouse
<1>. QED BY <1>1, CatType DEF AuxBytes, Mouse

LEMMA RefillMouse ==
  ASSUME NEW p, Mouse(p)
  PROVE  Mouse(refill(p)) /\ AuxBytes(refill(p)) = AuxBytes(p)
<1>1. CASE p.obf
  BY <1>1 DEF refill
<1>2. CASE ~p.obf /\ KbdReady(p)
  <2>1. PICK q : q = refill(p)
    OBVIOUS
  <2>2. q = [f \in Ps2Fields |-> q[f]] /\ q.aux_q = p.aux_q /\ q.obf = TRUE /\ q.aux_obf = FALSE
    BY <1>2, <2>1 DEF refill, Mouse, Ps2Fields
  <2>3. Mouse(q)
    BY <2>2 DEF Mouse
  <2>4. AuxBytes(q) = AuxBytes(p)
    BY <1>2, <2>2 DEF AuxBytes, AuxByte
  <2>. QED BY <2>1, <2>3, <2>4
<1>3. CASE ~p.obf /\ ~KbdReady(p) /\ AuxReady(p)
  <2>1. PICK q : q = refill(p)
    OBVIOUS
  <2>2. /\ q = [f \in Ps2Fields |-> q[f]] /\ q.out = Head(p.aux_q) /\ q.aux_q = Tail(p.aux_q)
        /\ q.obf = TRUE /\ q.aux_obf = TRUE
    BY <1>3, <2>1 DEF refill, Mouse, Ps2Fields
  <2>3. p.aux_q \in Seq(MouseByte) /\ p.aux_q # <<>>
    BY <1>3 DEF Mouse, AuxReady
  <2>4. Head(p.aux_q) \in MouseByte /\ Tail(p.aux_q) \in Seq(MouseByte) /\ p.aux_q = <<Head(p.aux_q)>> \o Tail(p.aux_q)
    BY <2>3
  <2>5. Mouse(q)
    BY <2>2, <2>4 DEF Mouse
  <2>6. AuxBytes(q) = AuxBytes(p)
    <3>1. AuxByte(p) = <<>> /\ AuxByte(q) = <<Head(p.aux_q)>>
      BY <1>3, <2>2 DEF AuxByte
    <3>2. AuxBytes(p) = p.aux_q
      BY <2>3, <3>1 DEF AuxBytes, Cat
    <3>. QED BY <2>2, <2>4, <3>1, <3>2 DEF AuxBytes, Cat
  <2>. QED BY <2>1, <2>5, <2>6
<1>4. CASE ~p.obf /\ ~KbdReady(p) /\ ~AuxReady(p)
  BY <1>4 DEF refill
<1>. QED BY <1>1, <1>2, <1>3, <1>4

\* Commands add replies behind what the mouse has sent.
AuxAnswers(p, q) ==
  /\ Keeps(p, q)
  /\ q.aux_q = p.aux_q \/ \E r \in Seq(KbdReplies) : q.aux_q = Cat(p.aux_q, r)

LEMMA PutMouse ==
  ASSUME NEW p, NEW q, Keeps(p, q), q.aux_q = p.aux_q, NEW d, NEW vals \in Seq(Replies)
  PROVE  AuxAnswers(p, Put(q, d, vals))
<1>1. Reply(vals) \in Seq(KbdReplies)
  BY ReplyIs
<1>2. CASE d = "kbd"
  <2>1. PICK t : t = Put(q, d, vals)
    OBVIOUS
  <2>2. Keeps(p, t) /\ t.aux_q = p.aux_q
    BY <1>2, <2>1 DEF Put, Keeps, Ps2Fields
  <2>. QED BY <2>1, <2>2 DEF AuxAnswers
<1>3. CASE d # "kbd"
  <2>1. PICK t : t = Put(q, d, vals)
    OBVIOUS
  <2>2. Keeps(p, t) /\ t.aux_q = Cat(p.aux_q, Reply(vals))
    BY <1>3, <2>1 DEF Put, Keeps, Ps2Fields, Cat
  <2>. QED BY <1>1, <2>1, <2>2 DEF AuxAnswers
<1>. QED BY <1>2, <1>3

LEMMA CtlMouse ==
  ASSUME NEW p, Mouse(p), NEW v
  PROVE  AuxAnswers(p, ctl_cmd(p, v))
<1>0. Keeps(p, p) /\ p.aux_q = p.aux_q
  BY DEF Keeps, Mouse
<1>1. CASE v \in {169, 170, 171, 192, 208}
  <2>1. <<"test">> \in Seq(Replies)
    BY DEF Replies
  <2>2. AuxAnswers(p, Put(p, "kbd", <<"test">>))
    BY <1>0, <2>1, PutMouse
  <2>3. ctl_cmd(p, v) = Put(p, "kbd", <<"test">>)
    BY <1>1 DEF ctl_cmd
  <2>. QED BY <2>2, <2>3
<1>2. CASE v \notin {169, 170, 171, 192, 208}
  <2>1. PICK t : t = ctl_cmd(p, v)
    OBVIOUS
  <2>2. \/ t = p
        \/ t = [p EXCEPT !.kbd_q = Reply(<<"ccb">>) \o @]
        \/ t = [p EXCEPT !.pending_cmd = v]
        \/ t = [p EXCEPT !.ccb = @ \cup {"AUX_OFF"}]
        \/ t = [p EXCEPT !.ccb = @ \ {"AUX_OFF"}]
        \/ t = [p EXCEPT !.ccb = @ \cup {"KBD_OFF"}]
        \/ t = [p EXCEPT !.ccb = @ \ {"KBD_OFF"}]
    BY <1>2, <2>1 DEF ctl_cmd
  <2>3. Keeps(p, t) /\ t.aux_q = p.aux_q
    BY <2>2 DEF Keeps, Mouse, Ps2Fields
  <2>. QED BY <2>1, <2>3 DEF AuxAnswers
<1>. QED BY <1>1, <1>2

LEMMA KbdCmdMouse ==
  ASSUME NEW p, NEW q, Keeps(p, q), q.aux_q = p.aux_q, NEW v
  PROVE  AuxAnswers(p, kbd_cmd(q, v))
<1>1. CASE q.kbd_pending # 0 /\ v < 237
  <2>1. PICK t, u : /\ t = [q EXCEPT !.kbd_pending = IF q.kbd_pending \in ListCmds THEN q.kbd_pending ELSE 0]
                    /\ u = [t EXCEPT !.scan_set = IF q.kbd_pending = 240 THEN v ELSE @]
    OBVIOUS
  <2>2. Keeps(p, t) /\ t.aux_q = p.aux_q
    BY <2>1 DEF Keeps, Ps2Fields
  <2>3. Keeps(p, u) /\ u.aux_q = p.aux_q
    BY <2>1, <2>2 DEF Keeps, Ps2Fields
  <2>4. PICK z : z = [t EXCEPT !.kbd_pending = 0]
    OBVIOUS
  <2>5. Keeps(p, z) /\ z.aux_q = p.aux_q
    BY <2>4, <2>2 DEF Keeps, Ps2Fields
  <2>6. kbd_cmd(q, v) = Put(z, "kbd", <<"ack", "set">>) \/ kbd_cmd(q, v) = Put(u, "kbd", <<"ack">>)
    BY <1>1, <2>1, <2>4 DEF kbd_cmd, KbdArg
  <2>. QED BY <2>3, <2>5, <2>6, PutMouse, ReplySeqs
<1>2. CASE ~(q.kbd_pending # 0 /\ v < 237)
  <2>1. PICK t : t = [q EXCEPT !.kbd_pending = IF v \in ArgCmds THEN v ELSE 0]
    OBVIOUS
  <2>2. PICK a, b, c : /\ a = [t EXCEPT !.scan_set = 2, !.kbd_enabled = TRUE]
                       /\ b = [t EXCEPT !.kbd_enabled = TRUE]
                       /\ c = [t EXCEPT !.kbd_enabled = FALSE]
    OBVIOUS
  <2>3. Keeps(p, t) /\ t.aux_q = p.aux_q
    BY <2>1 DEF Keeps, Ps2Fields
  <2>4. \A x \in {t, a, b, c} : Keeps(p, x) /\ x.aux_q = p.aux_q
    BY <2>2, <2>3 DEF Keeps, Ps2Fields
  <2>5. \E x \in {t, a, b, c} :
          \/ kbd_cmd(q, v) = Put(x, "kbd", <<"ack", "bat">>)
          \/ kbd_cmd(q, v) = Put(x, "kbd", <<"ack", "id", "id">>)
          \/ kbd_cmd(q, v) = Put(x, "kbd", <<"echo">>)
          \/ kbd_cmd(q, v) = Put(x, "kbd", <<"ack">>)
    <3>0. kbd_cmd(q, v) = KbdNew(q, v)
      BY <1>2 DEF kbd_cmd
    <3>1. CASE v = 255
      <4>1. KbdNew(q, v) = Put(a, "kbd", <<"ack", "bat">>)
        BY <3>1, <2>1, <2>2 DEF KbdNew
      <4>. QED BY <3>0, <4>1
    <3>2. CASE v \in {244, 246}
      <4>1. KbdNew(q, v) = Put(b, "kbd", <<"ack">>)
        BY <3>2, <2>1, <2>2 DEF KbdNew
      <4>. QED BY <3>0, <4>1
    <3>3. CASE v = 245
      <4>1. KbdNew(q, v) = Put(c, "kbd", <<"ack">>)
        BY <3>3, <2>1, <2>2 DEF KbdNew
      <4>. QED BY <3>0, <4>1
    <3>4. CASE v = 242
      <4>1. KbdNew(q, v) = Put(t, "kbd", <<"ack", "id", "id">>)
        BY <3>4, <2>1 DEF KbdNew
      <4>. QED BY <3>0, <4>1
    <3>5. CASE v = 238
      <4>1. KbdNew(q, v) = Put(t, "kbd", <<"echo">>)
        BY <3>5, <2>1 DEF KbdNew
      <4>. QED BY <3>0, <4>1
    <3>6. CASE v \notin {255, 244, 246, 245, 242, 238}
      <4>1. KbdNew(q, v) = Put(t, "kbd", <<"ack">>)
        BY <3>6, <2>1 DEF KbdNew
      <4>. QED BY <3>0, <4>1
    <3>. QED BY <3>1, <3>2, <3>3, <3>4, <3>5, <3>6
  <2>. QED BY <2>4, <2>5, PutMouse, ReplySeqs
<1>. QED BY <1>1, <1>2

LEMMA AuxCmdMouse ==
  ASSUME NEW p, NEW q, Keeps(p, q), q.aux_q = p.aux_q, NEW v
  PROVE  AuxAnswers(p, aux_cmd(q, v))
<1>1. PICK z, t, u, w : /\ z = [q EXCEPT !.aux_pending = 0] /\ t = [q EXCEPT !.aux_enabled = FALSE]
                        /\ u = [q EXCEPT !.aux_pending = v] /\ w = [q EXCEPT !.aux_enabled = TRUE]
  OBVIOUS
<1>2. \A x \in {q, z, t, u, w} : Keeps(p, x) /\ x.aux_q = p.aux_q
  BY <1>1 DEF Keeps, Ps2Fields
<1>3. \E x \in {q, z, t, u, w} :
        \/ aux_cmd(q, v) = Put(x, "aux", <<"ack">>)
        \/ aux_cmd(q, v) = Put(x, "aux", <<"ack", "bat", "id">>)
        \/ aux_cmd(q, v) = Put(x, "aux", <<"ack", "id">>)
        \/ aux_cmd(q, v) = Put(x, "aux", <<"ack", "status", "status", "status">>)
  <2>1. CASE q.aux_pending # 0
    BY <1>1, <2>1 DEF aux_cmd
  <2>2. CASE ~(q.aux_pending # 0)
    <3>1. CASE v = 255 \/ v \in {245, 246}
      BY <1>1, <2>2, <3>1 DEF aux_cmd
    <3>2. CASE v \in {243, 232} \/ v = 244
      BY <1>1, <2>2, <3>2 DEF aux_cmd
    <3>3. CASE v \notin {255, 245, 246, 243, 232, 244}
      BY <1>1, <2>2, <3>3 DEF aux_cmd
    <3>. QED BY <3>1, <3>2, <3>3
  <2>. QED BY <2>1, <2>2
<1>. QED BY <1>2, <1>3, PutMouse, ReplySeqs

LEMMA RoutedMouse ==
  ASSUME NEW p, Mouse(p), NEW v
  PROVE  AuxAnswers(p, Routed(p, v))
<1>1. PICK q, c : q = [p EXCEPT !.pending_cmd = 0] /\ c = [q EXCEPT !.ccb = CcbOf(v)]
  OBVIOUS
<1>2. Keeps(p, q) /\ q.aux_q = p.aux_q
  BY <1>1 DEF Keeps, Mouse, Ps2Fields
<1>3. Keeps(p, c) /\ c.aux_q = p.aux_q
  BY <1>1, <1>2 DEF Keeps, Mouse, Ps2Fields
<1>4. \/ Routed(p, v) = c \/ Routed(p, v) = q
      \/ Routed(p, v) = Put(q, "kbd", <<"written">>) \/ Routed(p, v) = Put(q, "aux", <<"written">>)
      \/ Routed(p, v) = aux_cmd(q, v) \/ Routed(p, v) = kbd_cmd(q, v)
  BY <1>1 DEF Routed
<1>5. AuxAnswers(p, c) /\ AuxAnswers(p, q)
  BY <1>2, <1>3 DEF AuxAnswers
<1>6. AuxAnswers(p, Put(q, "kbd", <<"written">>)) /\ AuxAnswers(p, Put(q, "aux", <<"written">>))
  BY <1>2, PutMouse, ReplySeqs
<1>7. AuxAnswers(p, aux_cmd(q, v)) /\ AuxAnswers(p, kbd_cmd(q, v))
  BY <1>2, AuxCmdMouse, KbdCmdMouse
<1>. QED BY <1>4, <1>5, <1>6, <1>7

-----------------------------------------------------------------------------
(* The host's motion packets *)

\* The displacement v is with the controller, the rest is here.
MouseHas(h, g, v) ==
  /\ h = [f \in HostFields |-> h[f]]
  /\ h.aux \in Seq(Packets)
  /\ h.buttons \in SUBSET Buttons
  /\ h.head = g
  /\ h.pos = Plus(v, Total(h.aux))

SameMouse(h, t) ==
  /\ t = [f \in HostFields |-> t[f]]
  /\ t.aux = h.aux /\ t.buttons = h.buttons /\ t.head = h.head /\ t.pos = h.pos

LEMMA SameMouseKeep ==
  ASSUME NEW g, NEW v, NEW h, MouseHas(h, g, v), NEW t, SameMouse(h, t)
  PROVE  MouseHas(t, g, v)
  BY DEF MouseHas, SameMouse

LEMMA KeyMouse ==
  ASSUME NEW g, NEW v, NEW h, MouseHas(h, g, v), NEW k, NEW down
  PROVE  MouseHas(key(h, k, down), g, v)
<1>1. \E a, b, c : key(h, k, down) = [h EXCEPT !.kbd = a, !.keys = b, !.events = c]
  BY DEF key
<1>2. SameMouse(h, key(h, k, down))
  BY <1>1 DEF SameMouse, MouseHas, HostFields
<1>. QED BY <1>2, SameMouseKeep

LEMMA MotionKeeps ==
  ASSUME NEW g, NEW v \in Vectors, NEW h, MouseHas(h, g, v), NEW dx \in Int, NEW dy \in Int, NEW btn \in SUBSET Buttons
  PROVE  MouseHas(mouse(h, dx, dy, btn), g, v)
<1>1. PICK Q \in Seq(Packets) :
        Q = [i \in 1 .. Steps(dx, dy, PacketMax) |-> Event(Packet(i, dx, dy, PacketMax, btn))] /\ Total(Q) = <<dx, dy>>
  BY PacketsAddUp
<1>2. PICK t : t = mouse(h, dx, dy, btn)
  OBVIOUS
<1>3. \E e : t = [h EXCEPT !.aux = @ \o Q, !.events = e, !.buttons = btn, !.pos = <<@[1] + dx, @[2] + dy>>]
  BY <1>1, <1>2 DEF mouse
<1>4. t = [f \in HostFields |-> t[f]] /\ t.aux = h.aux \o Q /\ t.buttons = btn /\ t.head = g
      /\ t.pos = <<h.pos[1] + dx, h.pos[2] + dy>>
  BY <1>3 DEF MouseHas, HostFields
<1>5. PICK A \in Seq(Packets) : A = h.aux
  BY DEF MouseHas
<1>6. A \in Seq(Units) /\ Q \in Seq(Units)
  BY UnitsType
<1>7. Total(A \o Q) = Plus(Total(A), <<dx, dy>>)
  BY <1>1, <1>6, TotalCat
<1>8. t.pos = Plus(h.pos, <<dx, dy>>)
  BY <1>4 DEF Plus
<1>9. Plus(Plus(v, Total(A)), <<dx, dy>>) = Plus(v, Plus(Total(A), <<dx, dy>>))
  <2>1. Total(A) \in Vectors /\ <<dx, dy>> \in Vectors
    BY <1>6, TotalIs DEF Vectors
  <2>. QED BY <2>1, PlusIs
<1>10. t.pos = Plus(v, Total(t.aux))
  BY <1>4, <1>5, <1>7, <1>8, <1>9 DEF MouseHas
<1>11. A \o Q \in Seq(Packets)
  OBVIOUS
<1>. QED BY <1>2, <1>4, <1>5, <1>10, <1>11 DEF MouseHas

LEMMA TypedMouse ==
  ASSUME NEW g, NEW v, NEW h, MouseHas(h, g, v), NEW c
  PROVE  MouseHas(type_char(h, c), g, v)
<1>1. PICK on : on = IF c.shift THEN key(h, "shift", TRUE) ELSE h
  OBVIOUS
<1>2. MouseHas(on, g, v)
  BY <1>1, KeyMouse
<1>3. MouseHas(key(on, c.key, TRUE), g, v)
  BY <1>2, KeyMouse
<1>4. PICK s : s = key(key(on, c.key, TRUE), c.key, FALSE)
  OBVIOUS
<1>5. MouseHas(s, g, v)
  BY <1>3, <1>4, KeyMouse
<1>6. MouseHas(key(s, "shift", FALSE), g, v)
  BY <1>5, KeyMouse
<1>7. type_char(h, c) = IF c.shift THEN key(s, "shift", FALSE) ELSE s
  BY <1>1, <1>4 DEF type_char
<1>. QED BY <1>5, <1>6, <1>7

LEMMA TypeTextMouse ==
  ASSUME NEW g, NEW v, NEW h, MouseHas(h, g, v), NEW T, NEW chars \in Seq(T)
  PROVE  MouseHas(type_text(h, chars), g, v)
<1>1. PICK n \in Nat : DOMAIN chars = 1 .. n
  OBVIOUS
<1>1a. PICK w : TypeWalked(w, h, chars, n)
  BY <1>1, TypeWalk
<1>2. /\ w[0] = h
      /\ \A i \in 0 .. n - 1 : w[i + 1] = type_char(w[i], chars[i + 1])
      /\ FoldLeft(type_char, h, chars) = w[n]
  BY <1>1a DEF TypeWalked
<1> DEFINE U == {i \in Nat : i <= n => MouseHas(w[i], g, v)}
<1>3. 0 \in U
  BY <1>2
<1>4. ASSUME NEW i \in Nat, i \in U PROVE i + 1 \in U
  <2> SUFFICES ASSUME i + 1 <= n PROVE MouseHas(w[i + 1], g, v)
    OBVIOUS
  <2>1. i \in 0 .. n - 1 /\ MouseHas(w[i], g, v)
    BY <1>4
  <2>2. MouseHas(type_char(w[i], chars[i + 1]), g, v)
    BY <2>1, TypedMouse
  <2>. QED BY <2>1, <2>2, <1>2
<1> HIDE DEF U
<1>5. Nat \subseteq U
  BY <1>3, <1>4, NatSetInduction
<1>6. MouseHas(w[n], g, v)
  BY <1>5 DEF U
<1>. QED BY <1>2, <1>6 DEF type_text

LEMMA MoveByMouse ==
  ASSUME NEW g, NEW v \in Vectors, NEW h, MouseHas(h, g, v), NEW l, l.dx \in Int, l.dy \in Int, l.step \in Nat \ {0}
  PROVE  MouseHas(MoveBy(h, l), g, v)
<1>1. PICK n \in Nat : n = IF l.dx = 0 /\ l.dy = 0 THEN 0 ELSE Steps(l.dx, l.dy, l.step)
  BY StepsNat
<1>2. PICK q : q = [i \in 1 .. n |-> i]
  OBVIOUS
<1>3. DOMAIN q = 1 .. n
  BY <1>2
<1>3a. PICK w : MoveWalked(w, h, q, l, n)
  BY <1>3, MoveWalk
<1>4. /\ w[0] = h
      /\ \A i \in 0 .. n - 1 : w[i + 1] = MoveStep(w[i], q[i + 1], l)
      /\ FoldLeft(LAMBDA a, j : MoveStep(a, j, l), h, q) = w[n]
  BY <1>3a DEF MoveWalked
<1> DEFINE U == {i \in Nat : i <= n => MouseHas(w[i], g, v)}
<1>5. 0 \in U
  BY <1>4
<1>6. ASSUME NEW i \in Nat, i \in U PROVE i + 1 \in U
  <2> SUFFICES ASSUME i + 1 <= n PROVE MouseHas(w[i + 1], g, v)
    OBVIOUS
  <2>1. i \in 0 .. n - 1 /\ MouseHas(w[i], g, v) /\ q[i + 1] = i + 1 /\ (i + 1) - 1 = i
    BY <1>2, <1>6
  <2>2. PICK x \in Int, y \in Int : x = Clamp(Left(l.dx, l.step, i), l.step) /\ y = Clamp(Left(l.dy, l.step, i), l.step)
    <3>1. PICK m \in Nat \ {0} : m = l.step
      OBVIOUS
    <3>2. Clamp(Left(l.dx, m, i), m) \in -m .. m /\ Clamp(Left(l.dy, m, i), m) \in -m .. m
      BY NextLeft
    <3>3. \A c \in -m .. m : c \in Int
      OBVIOUS
    <3>. QED BY <3>1, <3>2, <3>3
  <2>3. w[i].buttons \in SUBSET Buttons
    BY <2>1 DEF MouseHas
  <2>4. MoveStep(w[i], q[i + 1], l) = mouse(w[i], x, y, w[i].buttons)
    BY <2>1, <2>2 DEF MoveStep
  <2>5. MouseHas(mouse(w[i], x, y, w[i].buttons), g, v)
    BY <2>1, <2>3, MotionKeeps
  <2>. QED BY <2>1, <2>4, <2>5, <1>4
<1> HIDE DEF U
<1>7. Nat \subseteq U
  BY <1>5, <1>6, NatSetInduction
<1>8. MouseHas(w[n], g, v)
  BY <1>7 DEF U
<1>9. MoveBy(h, l) = FoldLeft(LAMBDA a, j : MoveStep(a, j, l), h, q)
  BY <1>1, <1>2 DEF MoveBy
<1>. QED BY <1>4, <1>8, <1>9

LEMMA LineMouse ==
  ASSUME NEW g, NEW v \in Vectors, NEW h, MouseHas(h, g, v), NEW i \in DOMAIN Script
  PROVE  MouseHas(ScriptLine(h, Script[i]), g, v)
<1>1. PICK l : l = Script[i] /\ l.button \in Buttons
  BY DEF Buttons
<1>1a. h.buttons \in SUBSET Buttons
  BY DEF MouseHas
<1>1b. PICK a \in SUBSET Buttons, b \in SUBSET Buttons : a = h.buttons \cup {l.button} /\ b = h.buttons \ {l.button}
  BY <1>1, <1>1a
<1>2. CASE l.op \in {"wait", "until"}
  <2>1. PICK t : t = ScriptLine(h, l)
    OBVIOUS
  <2>2. \E n : t = [h EXCEPT !.wait = n]
    BY <1>2, <2>1 DEF ScriptLine
  <2>3. SameMouse(h, t)
    BY <2>2 DEF SameMouse, MouseHas, HostFields
  <2>. QED BY <1>1, <2>1, <2>3, SameMouseKeep
<1>3. CASE l.op = "key"
  <2>1. ScriptLine(h, l) = key(key(h, l.key, TRUE), l.key, FALSE)
    BY <1>3 DEF ScriptLine
  <2>2. MouseHas(key(h, l.key, TRUE), g, v)
    BY KeyMouse
  <2>. QED BY <1>1, <2>1, <2>2, KeyMouse
<1>4. CASE l.op \in {"down", "up"}
  <2>1. ScriptLine(h, l) = key(h, l.key, l.op = "down")
    BY <1>4 DEF ScriptLine
  <2>. QED BY <1>1, <2>1, KeyMouse
<1>5. CASE l.op = "move"
  <2>1. ScriptLine(h, l) = MoveBy(h, l)
    BY <1>5 DEF ScriptLine
  <2>2. l.dx \in Int /\ l.dy \in Int /\ l.step \in Nat \ {0}
    BY <1>1, <1>5, ScriptAssumption
  <2>. QED BY <1>1, <2>1, <2>2, MoveByMouse
<1>6. CASE l.op = "type"
  <2>1. ScriptLine(h, l) = type_text(h, l.chars)
    BY <1>6 DEF ScriptLine
  <2>2. l.chars \in Seq([key : Keys, shift : BOOLEAN])
    BY <1>1, <1>6, ScriptAssumption
  <2>. QED BY <1>1, <2>1, <2>2, TypeTextMouse
<1>7. CASE l.op = "press" \/ l.op = "release"
  <2>1. ScriptLine(h, l) = mouse(h, 0, 0, a) \/ ScriptLine(h, l) = mouse(h, 0, 0, b)
    BY <1>1b, <1>7 DEF ScriptLine
  <2>2. MouseHas(mouse(h, 0, 0, a), g, v) /\ MouseHas(mouse(h, 0, 0, b), g, v)
    BY MotionKeeps
  <2>. QED BY <1>1, <2>1, <2>2
<1>8. CASE l.op = "click"
  <2>1. ScriptLine(h, l) = mouse(mouse(h, 0, 0, a), 0, 0, b)
    BY <1>1b, <1>8 DEF ScriptLine
  <2>2. MouseHas(mouse(h, 0, 0, a), g, v)
    BY MotionKeeps
  <2>3. MouseHas(mouse(mouse(h, 0, 0, a), 0, 0, b), g, v)
    BY <2>2, MotionKeeps
  <2>. QED BY <1>1, <2>1, <2>3
<1>9. CASE l.op \notin {"wait", "until", "key", "down", "up", "move", "type", "press", "release", "click"}
  <2>1. ScriptLine(h, l) = h
    BY <1>9 DEF ScriptLine
  <2>. QED BY <1>1, <2>1
<1>. QED BY <1>2, <1>3, <1>4, <1>5, <1>6, <1>7, <1>8, <1>9

LEMMA RunMouse ==
  ASSUME NEW g, NEW v \in Vectors, NEW h, MouseHas(h, g, v)
  PROVE  MouseHas(run_script(h), g, v)
<1>1. PICK n \in Nat : DOMAIN Script = 1 .. n
  BY ScriptAssumption
<1>2. PICK q : q = [i \in DOMAIN Script |-> i]
  OBVIOUS
<1>3. DOMAIN q = 1 .. n
  BY <1>1, <1>2
<1>3a. PICK w : ScriptWalked(w, h, q, n)
  BY <1>3, ScriptWalk
<1>4. /\ w[0] = h
      /\ \A i \in 0 .. n - 1 : w[i + 1] = NextLine(w[i], q[i + 1])
      /\ FoldLeft(NextLine, h, q) = w[n]
  BY <1>3a DEF ScriptWalked
<1> DEFINE U == {i \in Nat : i <= n => MouseHas(w[i], g, v)}
<1>5. 0 \in U
  BY <1>4
<1>6. ASSUME NEW i \in Nat, i \in U PROVE i + 1 \in U
  <2> SUFFICES ASSUME i + 1 <= n PROVE MouseHas(w[i + 1], g, v)
    OBVIOUS
  <2>1. i \in 0 .. n - 1 /\ MouseHas(w[i], g, v) /\ i + 1 \in DOMAIN Script /\ q[i + 1] = i + 1
    BY <1>1, <1>2, <1>6
  <2>2. PICK t : t = [w[i] EXCEPT !.script_pc = i + 1 + 1]
    OBVIOUS
  <2>3. SameMouse(w[i], t)
    BY <2>1, <2>2 DEF SameMouse, MouseHas, HostFields
  <2>4. MouseHas(ScriptLine(t, Script[i + 1]), g, v)
    BY <2>1, <2>3, SameMouseKeep, LineMouse
  <2>5. w[i + 1] = w[i] \/ w[i + 1] = ScriptLine(t, Script[i + 1])
    BY <2>1, <2>2, <1>4 DEF NextLine
  <2>. QED BY <2>1, <2>4, <2>5
<1> HIDE DEF U
<1>7. Nat \subseteq U
  BY <1>5, <1>6, NatSetInduction
<1>8. MouseHas(w[n], g, v)
  BY <1>7 DEF U
<1>9. run_script(h) = FoldLeft(NextLine, h, q)
  BY <1>2 DEF run_script
<1>. QED BY <1>4, <1>8, <1>9

-----------------------------------------------------------------------------
(* The pointer *)

\* The inductive invariant: behind what the guest has of a packet, the bytes of
\* the mouse are those of whole packets and of replies, and the displacement it
\* has not seen is theirs and that of the packets with the host.
OnTheWay(W, g, p) == Cat(Begun(g), AuxBytes(p)) = FlattenSeq(W)
PtrInv ==
  /\ Mouse(ps2)
  /\ host.head \in Seq(PacketVal) /\ Len(host.head) <= 2
  /\ \E W \in Seq(Units) : OnTheWay(W, host.head, ps2) /\ MouseHas(host, host.head, Total(W))

LEMMA PtrInitially == Ps2Init => PtrInv
<1> SUFFICES ASSUME Ps2Init PROVE PtrInv
  OBVIOUS
<1>1. ps2 = [f \in Ps2Fields |-> ps2[f]] /\ ps2.aux_q = <<>> /\ ps2.obf = FALSE /\ ps2.aux_obf = FALSE
  BY DEF Ps2Init, Ps2Fields
<1>2. /\ host = [f \in HostFields |-> host[f]] /\ host.aux = <<>> /\ host.head = <<>> /\ host.buttons = {}
      /\ host.pos = <<0, 0>>
  BY DEF Ps2Init, HostFields
<1>3. <<>> \in Seq(MouseByte) /\ <<>> \in Seq(PacketVal) /\ <<>> \in Seq(Units) /\ <<>> \in Seq(Packets)
      /\ Len(<<>>) <= 2
  OBVIOUS
<1>4. Mouse(ps2)
  BY <1>1, <1>3 DEF Mouse
<1>5. Cat(<<>>, <<>>) = <<>>
  BY DEF Cat
<1>6. OnTheWay(<<>>, <<>>, ps2)
  <2>1. AuxBytes(ps2) = <<>>
    BY <1>1, <1>5 DEF AuxBytes, AuxByte
  <2>. QED BY <2>1, <1>5, BegunIs, FlattenNone DEF OnTheWay
<1>7. MouseHas(host, <<>>, Total(<<>>))
  <2>1. Total(<<>>) = <<0, 0>> /\ <<0, 0>> \in Vectors
    BY TotalIs DEF Vectors
  <2>. QED BY <2>1, <1>2, <1>3, PlusIs DEF MouseHas
<1>. QED BY <1>2, <1>3, <1>4, <1>6, <1>7 DEF PtrInv

LEMMA PtrFrom ==
  ASSUME NEW p, ps2' = p, Mouse(p), NEW g \in Seq(PacketVal), Len(g) <= 2, NEW W \in Seq(Units),
         OnTheWay(W, g, p), MouseHas(host', g, Total(W))
  PROVE  PtrInv'
<1>1. Mouse(ps2') /\ OnTheWay(W, g, ps2')
  OBVIOUS
<1>2. host'.head = g
  BY DEF MouseHas
<1>3. Mouse(ps2') /\ host'.head \in Seq(PacketVal) /\ Len(host'.head) <= 2
      /\ \E V \in Seq(Units) : OnTheWay(V, host'.head, ps2') /\ MouseHas(host', host'.head, Total(V))
  BY <1>1, <1>2
<1>. QED BY <1>3 DEF PtrInv, Mouse, OnTheWay, AuxBytes, AuxByte, MouseHas

\* A write to either port.
LEMMA WriteMouse ==
  ASSUME PtrInv, NEW q, AuxAnswers(ps2, q), ps2' = refill(q), UNCHANGED host
  PROVE  PtrInv'
<1>1. PICK W \in Seq(Units) : OnTheWay(W, host.head, ps2) /\ MouseHas(host, host.head, Total(W))
  BY DEF PtrInv
<1>2. PICK g \in Seq(PacketVal) : g = host.head /\ Len(g) <= 2
  BY DEF PtrInv
<1>3. Mouse(ps2)
  BY DEF PtrInv
<1>4. PICK r \in Seq(KbdReplies) : q.aux_q = Cat(ps2.aux_q, r)
  <2>1. <<>> \in Seq(KbdReplies) /\ Cat(ps2.aux_q, <<>>) = ps2.aux_q
    BY <1>3, CatNone DEF Mouse
  <2>. QED BY <2>1 DEF AuxAnswers
<1>5. PICK R \in Seq(Units) : FlattenSeq(R) = r /\ Total(R) = <<0, 0>>
  BY ReplyUnits
<1>6. PICK a \in Seq(MouseByte), b \in Seq(MouseByte), c \in Seq(MouseByte) :
        a = AuxByte(ps2) /\ b = ps2.aux_q /\ c = Begun(g)
  BY <1>3, AuxType, BegunIs, MouseSets
<1>7. r \in Seq(MouseByte)
  BY MouseSets
<1>8. Mouse(q) /\ AuxByte(q) = a
  BY <1>3, <1>4, <1>6, <1>7, CatType DEF Mouse, AuxAnswers, Keeps, AuxByte
<1>9. AuxBytes(q) = Cat(AuxBytes(ps2), r)
  BY <1>4, <1>6, <1>7, <1>8, CatAssoc DEF AuxBytes
<1>10. W \o R \in Seq(Units) /\ OnTheWay(W \o R, g, q)
  <2>1. FlattenSeq(W \o R) = Cat(FlattenSeq(W), r)
    BY <1>5, FlattenCat, UnitsType
  <2>2. FlattenSeq(W) = Cat(c, AuxBytes(ps2)) /\ AuxBytes(ps2) \in Seq(MouseByte)
    BY <1>1, <1>2, <1>3, <1>6, AuxType DEF OnTheWay
  <2>3. Cat(c, Cat(AuxBytes(ps2), r)) = Cat(Cat(c, AuxBytes(ps2)), r)
    BY <2>2, <1>7, CatAssoc
  <2>4. W \o R \in Seq(Units)
    OBVIOUS
  <2>. QED BY <2>1, <2>2, <2>3, <2>4, <1>6, <1>9 DEF OnTheWay
<1>11. Total(W \o R) = Total(W)
  <2>1. Total(W \o R) = Plus(Total(W), <<0, 0>>)
    BY <1>5, TotalCat
  <2>. QED BY <2>1, TotalIs, PlusIs
<1>12. Mouse(refill(q)) /\ AuxBytes(refill(q)) = AuxBytes(q)
  BY <1>8, RefillMouse
<1>13. OnTheWay(W \o R, g, refill(q))
  BY <1>10, <1>12 DEF OnTheWay
<1>14. MouseHas(host', g, Total(W \o R))
  BY <1>1, <1>2, <1>11
<1>. QED BY <1>2, <1>10, <1>12, <1>13, <1>14, PtrFrom

\* A read takes the byte in the output buffer.
LEMMA MinusDisp ==
  ASSUME NEW d \in Vectors, NEW v \in Vectors, NEW w \in Vectors, NEW pos, pos = Plus(Plus(d, v), w)
  PROVE  <<pos[1] - d[1], pos[2] - d[2]>> = Plus(v, w)
<1>1. PICK a \in Int, b \in Int : d = <<a, b>>
  BY DEF Vectors
<1>2. PICK x \in Int, y \in Int : v = <<x, y>>
  BY DEF Vectors
<1>3. PICK m \in Int, n \in Int : w = <<m, n>>
  BY DEF Vectors
<1>4. pos = <<(a + x) + m, (b + y) + n>>
  BY <1>1, <1>2, <1>3 DEF Plus
<1>5. ((a + x) + m) - a = x + m /\ ((b + y) + n) - b = y + n
  OBVIOUS
<1>6. Plus(v, w) = <<x + m, y + n>>
  BY <1>2, <1>3 DEF Plus
<1>. QED BY <1>1, <1>4, <1>5, <1>6

LEMMA ReadMouse ==
  ASSUME PtrInv, ReadKbd
  PROVE  PtrInv'
<1>1. PICK W \in Seq(Units) : OnTheWay(W, host.head, ps2) /\ MouseHas(host, host.head, Total(W))
  BY DEF PtrInv
<1>2. PICK g \in Seq(PacketVal) : g = host.head /\ Len(g) <= 2
  BY DEF PtrInv
<1>3. Mouse(ps2)
  BY DEF PtrInv
<1>4. PICK q : q = [ps2 EXCEPT !.obf = FALSE, !.aux_obf = FALSE]
  OBVIOUS
<1>5. PICK rest \in Seq(MouseByte) : rest = ps2.aux_q
  BY <1>3, AuxType
<1>6. /\ q = [f \in Ps2Fields |-> q[f]] /\ q.obf = FALSE /\ q.aux_obf = FALSE /\ q.aux_q = rest
  BY <1>3, <1>4, <1>5 DEF Mouse, Ps2Fields
<1>7. Mouse(q) /\ AuxBytes(q) = rest
  <2>1. Mouse(q) /\ AuxByte(q) = <<>>
    BY <1>6 DEF Mouse, AuxByte
  <2>. QED BY <2>1, <1>6, CatNone DEF AuxBytes
<1>8. Mouse(refill(q)) /\ AuxBytes(refill(q)) = rest
  BY <1>7, RefillMouse
<1>9. ps2' = refill(q) /\ host' = Taken(ps2, host)
  BY <1>4 DEF ReadKbd
<1>10. ASSUME NEW V \in Seq(Units), NEW x \in Seq(PacketVal), Len(x) <= 2,
              Cat(Begun(x), rest) = FlattenSeq(V), MouseHas(host', x, Total(V))
       PROVE  PtrInv'
  <2>1. OnTheWay(V, x, refill(q))
    BY <1>8, <1>10 DEF OnTheWay
  <2>. QED BY <2>1, <1>8, <1>9, <1>10, PtrFrom
<1>11. CASE ~(ps2.obf /\ ps2.aux_obf)
  <2>1. AuxBytes(ps2) = rest
    BY <1>5, <1>11, CatNone DEF AuxBytes, AuxByte
  <2>2. host' = host \/ host' = [host EXCEPT !.keys = Tail(@)]
    BY <1>9, <1>11 DEF Taken
  <2>3. SameMouse(host, host')
    BY <2>2, <1>1 DEF SameMouse, MouseHas, HostFields
  <2>4. MouseHas(host', g, Total(W))
    BY <1>1, <1>2, <2>3, SameMouseKeep
  <2>. QED BY <1>1, <1>2, <1>10, <2>1, <2>4 DEF OnTheWay
<1>12. CASE ps2.obf /\ ps2.aux_obf
  <2>1. PICK b \in MouseByte : b = ps2.out
    BY <1>3, <1>12 DEF Mouse
  <2>2. Cat(Begun(g), Cat(<<b>>, rest)) = FlattenSeq(W)
    BY <1>1, <1>2, <1>5, <1>12, <2>1 DEF OnTheWay, AuxBytes, AuxByte
  <2>3. W # <<>> /\ Head(W) \in Units /\ Tail(W) \in Seq(Units)
    BY <1>2, <2>2, FirstUnit
  <2>4. PICK d \in Vectors, V \in Seq(Units), v \in Vectors : d = Disp(Head(W)) /\ V = Tail(W) /\ v = Total(V)
    BY <2>3, DispIs, TotalIs
  <2>5. Total(W) = Plus(d, v)
    BY <2>3, <2>4, TotalHead
  <2>6. PICK w \in Vectors : w = Total(host.aux) /\ host.pos = Plus(Plus(d, v), w)
    <3>1. host.aux \in Seq(Units)
      BY <1>1, UnitsType DEF MouseHas
    <3>. QED BY <3>1, <1>1, <2>5, TotalIs DEF MouseHas
  <2>7. CASE ~b.event /\ g = <<>> /\ d = <<0, 0>> /\ rest = FlattenSeq(V)
    <3>1. host' = host
      BY <1>9, <2>1, <2>7 DEF Taken
    <3>2. Total(W) = Total(V)
      BY <2>4, <2>5, <2>7, PlusIs
    <3>3. MouseHas(host', g, Total(V))
      BY <1>1, <1>2, <3>1, <3>2
    <3>4. Cat(Begun(g), rest) = FlattenSeq(V)
      BY <2>7, BegunIs, CatNone
    <3>. QED BY <1>2, <1>10, <3>3, <3>4
  <2>8. ASSUME NEW x \in PacketVal, b = [event |-> TRUE, left |-> 2 - Len(g), val |-> x], Len(g) <= 1
        PROVE  PtrInv'
    <3>1. PICK n \in Nat : n = Len(g) /\ n <= 1
      BY <2>8, LenNat
    <3>2. host' = [host EXCEPT !.head = Append(@, x)]
      <4>1. 2 - n > 0
        BY <3>1
      <4>2. b.event /\ b.left = 2 - n /\ b.val = x
        BY <2>8, <3>1
      <4>. QED BY <4>1, <4>2, <1>9, <1>12, <2>1 DEF Taken
    <3>3. Append(g, x) \in Seq(PacketVal) /\ Len(Append(g, x)) = n + 1
      BY <3>1
    <3>4. MouseHas(host', Append(g, x), Total(W))
      BY <1>1, <1>2, <3>2 DEF MouseHas, HostFields
    <3>5. Cat(Begun(Append(g, x)), rest) = FlattenSeq(W)
      <4>1. Begun(Append(g, x)) = Append(Begun(g), b)
        BY <2>8, BegunIs
      <4>2. PICK c \in Seq(MouseByte), e \in Seq(MouseByte) : c = Begun(g) /\ e = <<b>>
        BY BegunIs, MouseSets, OneSeq
      <4>3. Append(c, b) = Cat(c, e)
        BY <4>2 DEF Cat
      <4>4. Cat(c, Cat(e, rest)) = Cat(Cat(c, e), rest)
        BY CatAssoc
      <4>. QED BY <2>2, <4>1, <4>2, <4>3, <4>4
    <3>6. Len(Append(g, x)) <= 2
      BY <3>1, <3>3
    <3>. QED BY <3>3, <3>4, <3>5, <3>6, <1>10
  <2>9. ASSUME NEW x \in Flags, NEW y \in Moves, NEW z \in Moves, Head(W) = Whole(x, y, z),
               g = <<x, y>>, b = [event |-> TRUE, left |-> 0, val |-> z], rest = FlattenSeq(V)
        PROVE  PtrInv'
    <3>1. PointerAt(<<0, 0>>, x, y, z) = d
      BY <2>4, <2>9 DEF Disp, UnitAt, Whole
    <3>2. g[1] = x /\ g[2] = y
      BY <2>9
    <3>3. host' = [host EXCEPT !.head = <<>>, !.pos = <<@[1] - d[1], @[2] - d[2]>>]
      <4>1. b.event /\ b.left = 0 /\ b.val = z
        BY <2>9
      <4>2. PointerAt(<<0, 0>>, host.head[1], host.head[2], ps2.out.val) = d
        BY <1>2, <2>1, <3>1, <3>2, <4>1
      <4>3. ps2.obf /\ ps2.out.event /\ ps2.aux_obf /\ ~(ps2.out.left > 0)
        BY <1>12, <2>1, <4>1
      <4>4. Taken(ps2, host) = LET e == PointerAt(<<0, 0>>, host.head[1], host.head[2], ps2.out.val)
                               IN [host EXCEPT !.head = <<>>, !.pos = <<@[1] - e[1], @[2] - e[2]>>]
        BY <4>3 DEF Taken
      <4>. QED BY <1>9, <4>2, <4>4
    <3>4. host' = [f \in HostFields |-> host'[f]] /\ host'.aux = host.aux /\ host'.buttons = host.buttons
          /\ host'.head = <<>> /\ host'.pos = <<host.pos[1] - d[1], host.pos[2] - d[2]>>
      BY <1>1, <3>3 DEF MouseHas, HostFields
    <3>5. host'.pos = Plus(v, Total(host'.aux))
      BY <2>6, <3>4, MinusDisp
    <3>6. MouseHas(host', <<>>, Total(V))
      BY <1>1, <2>4, <3>4, <3>5 DEF MouseHas
    <3>7. Cat(Begun(<<>>), rest) = FlattenSeq(V)
      BY <2>9, BegunIs, CatNone
    <3>8. <<>> \in Seq(PacketVal) /\ Len(<<>>) <= 2
      OBVIOUS
    <3>. QED BY <3>6, <3>7, <3>8, <1>10
  <2>10. FirstIs(W, g, b, rest)
    BY <1>2, <2>2, FirstUnit
  <2>11. ASSUME NEW x \in Flags, NEW y \in Moves, NEW z \in Moves, Head(W) = Whole(x, y, z),
                \/ g = <<>> /\ b = [event |-> TRUE, left |-> 2, val |-> x]
                \/ g = <<x>> /\ b = [event |-> TRUE, left |-> 1, val |-> y]
                \/ g = <<x, y>> /\ b = [event |-> TRUE, left |-> 0, val |-> z] /\ rest = FlattenSeq(Tail(W))
         PROVE  PtrInv'
    <3>1. x \in PacketVal /\ y \in PacketVal
      BY DEF PacketVal
    <3>2. CASE g = <<>> /\ b = [event |-> TRUE, left |-> 2, val |-> x]
      <4>1. Len(g) = 0 /\ 2 - 0 = 2 /\ 0 <= 1
        BY <3>2
      <4>2. b = [event |-> TRUE, left |-> 2 - Len(g), val |-> x] /\ Len(g) <= 1
        BY <3>2, <4>1
      <4>. QED BY <3>1, <4>2, <2>8
    <3>3. CASE g = <<x>> /\ b = [event |-> TRUE, left |-> 1, val |-> y]
      <4>1. Len(g) = 1 /\ 2 - 1 = 1 /\ 1 <= 1
        BY <3>3
      <4>2. b = [event |-> TRUE, left |-> 2 - Len(g), val |-> y] /\ Len(g) <= 1
        BY <3>3, <4>1
      <4>. QED BY <3>1, <4>2, <2>8
    <3>. QED BY <2>4, <2>9, <2>11, <3>2, <3>3
  <2>. QED BY <2>4, <2>7, <2>10, <2>11 DEF FirstIs
<1>. QED BY <1>11, <1>12

\* The hand-over at a retrace.
LEMMA ServiceMouse ==
  ASSUME PtrInv, service
  PROVE  PtrInv'
<1>1. PICK W \in Seq(Units) : OnTheWay(W, host.head, ps2) /\ MouseHas(host, host.head, Total(W))
  BY DEF PtrInv
<1>2. PICK g \in Seq(PacketVal) : g = host.head /\ Len(g) <= 2
  BY DEF PtrInv
<1>3. Mouse(ps2)
  BY DEF PtrInv
<1>4. PICK v \in Vectors : v = Total(W)
  BY TotalIs
<1>5. PICK h : h = run_script(Later(host))
  OBVIOUS
<1>6. MouseHas(h, g, v)
  <2>1. \E a, b : Later(host) = [host EXCEPT !.icnt = a, !.wait = b]
    BY DEF Later
  <2>2. SameMouse(host, Later(host))
    BY <1>1, <2>1 DEF SameMouse, MouseHas, HostFields
  <2>3. MouseHas(Later(host), g, v)
    BY <1>1, <1>2, <1>4, <2>2, SameMouseKeep
  <2>. QED BY <1>5, <2>3, RunMouse
<1>7. PICK A \in Seq(Packets) : A = h.aux
  BY <1>6 DEF MouseHas
<1>8. PICK p, q : p = HandKbd(ps2, h) /\ q = HandAux(p, h)
  OBVIOUS
<1>9. PICK d : d = Dropped(ps2, h)
  OBVIOUS
<1>10. /\ p = [f \in Ps2Fields |-> p[f]] /\ p.aux_q = ps2.aux_q /\ p.aux_enabled = ps2.aux_enabled
       /\ p.obf = ps2.obf /\ p.aux_obf = ps2.aux_obf /\ p.out = ps2.out
  BY <1>3, <1>8 DEF HandKbd, Mouse, Ps2Fields
<1>11. ps2' = refill(q) /\ \E a : host' = [h EXCEPT !.kbd = a, !.aux = IF @ # <<>> /\ ps2.aux_q = <<>> THEN Tail(@) ELSE @,
                                                    !.pos = <<@[1] - d[1], @[2] - d[2]>>]
  BY <1>5, <1>8, <1>9 DEF service
<1>12. /\ host' = [f \in HostFields |-> host'[f]] /\ host'.buttons = h.buttons /\ host'.head = g
       /\ host'.aux = (IF A # <<>> /\ ps2.aux_q = <<>> THEN Tail(A) ELSE A)
       /\ host'.pos = <<h.pos[1] - d[1], h.pos[2] - d[2]>>
  BY <1>6, <1>7, <1>11 DEF MouseHas, HostFields
<1>13. PICK w \in Vectors : w = Total(A) /\ h.pos = Plus(v, w) /\ h.pos \in Vectors
  <2>1. A \in Seq(Units)
    BY UnitsType
  <2>. QED BY <2>1, <1>6, <1>7, TotalIs, PlusIs DEF MouseHas
<1>14. ASSUME NEW V \in Seq(Units), OnTheWay(V, g, q), Mouse(q), MouseHas(host', g, Total(V)) PROVE PtrInv'
  <2>1. Mouse(refill(q)) /\ AuxBytes(refill(q)) = AuxBytes(q)
    BY <1>14, RefillMouse
  <2>2. OnTheWay(V, g, refill(q))
    BY <1>14, <2>1 DEF OnTheWay
  <2>. QED BY <1>2, <1>11, <1>14, <2>1, <2>2, PtrFrom
<1>15. ASSUME NEW x \in Vectors, x = <<0, 0>> PROVE \A u \in Vectors : <<u[1] - x[1], u[2] - x[2]>> = u
  <2> TAKE u \in Vectors
  <2>1. PICK a \in Int, b \in Int : u = <<a, b>>
    BY DEF Vectors
  <2>2. a - 0 = a /\ b - 0 = b
    OBVIOUS
  <2>. QED BY <1>15, <2>1, <2>2
<1>15a. <<0, 0>> \in Vectors
  BY DEF Vectors
<1>16. CASE ~(A # <<>> /\ ps2.aux_q = <<>>)
  <2>1. d = <<0, 0>>
    BY <1>7, <1>9, <1>16 DEF Dropped
  <2>2. q = p
    BY <1>7, <1>8, <1>10, <1>16 DEF HandAux
  <2>3. Mouse(q) /\ AuxBytes(q) = AuxBytes(ps2)
    BY <1>3, <1>10, <2>2 DEF Mouse, AuxBytes, AuxByte
  <2>4. OnTheWay(W, g, q)
    BY <1>1, <1>2, <2>3 DEF OnTheWay
  <2>5. host'.pos = h.pos /\ host'.aux = A
    BY <1>12, <1>13, <1>15, <1>15a, <1>16, <2>1
  <2>6. MouseHas(host', g, Total(W))
    BY <1>4, <1>6, <1>7, <1>12, <2>5 DEF MouseHas
  <2>. QED BY <1>14, <2>3, <2>4, <2>6
<1>17. CASE A # <<>> /\ ps2.aux_q = <<>>
  <2>1. PICK u \in Packets, T \in Seq(Packets) : u = Head(A) /\ T = Tail(A)
    <3>1. Head(A) \in Packets /\ Tail(A) \in Seq(Packets)
      BY <1>17
    <3>. QED BY <3>1
  <2>2. u \in Units /\ u \in Seq(MouseEvents) /\ u \in Seq(MouseByte) /\ A \in Seq(Units) /\ T \in Seq(Units)
    BY UnitSeqs, UnitsType
  <2>3. PICK du \in Vectors, dt \in Vectors : du = Disp(u) /\ dt = Total(T) /\ w = Plus(du, dt)
    <3>1. Total(A) = Plus(Disp(u), Total(T))
      BY <1>17, <2>1, <2>2, TotalHead
    <3>. QED BY <3>1, <2>2, <1>13, DispIs, TotalIs
  <2>4. CASE ps2.aux_enabled
    <3>1. d = <<0, 0>>
      BY <1>9, <2>4 DEF Dropped
    <3>2. q = [p EXCEPT !.aux_q = u]
      BY <1>7, <1>8, <1>10, <1>17, <2>1, <2>4 DEF HandAux
    <3>3. /\ q = [f \in Ps2Fields |-> q[f]] /\ q.aux_q = u
          /\ q.obf = ps2.obf /\ q.aux_obf = ps2.aux_obf /\ q.out = ps2.out
      BY <1>10, <3>2 DEF Ps2Fields
    <3>4. Mouse(q) /\ AuxByte(q) = AuxByte(ps2)
      BY <1>3, <2>2, <3>3 DEF Mouse, AuxByte
    <3>5. PICK a \in Seq(MouseByte), c \in Seq(MouseByte) : a = AuxByte(ps2) /\ c = Begun(g)
      BY <1>3, AuxType, BegunIs, MouseSets
    <3>6. AuxBytes(ps2) = a /\ AuxBytes(q) = Cat(a, u)
      BY <1>17, <3>3, <3>4, <3>5, CatNone DEF AuxBytes
    <3>7. FlattenSeq(Append(W, u)) = Cat(FlattenSeq(W), u)
      BY <2>2, UnitsType, FlattenAppend
    <3>8. Append(W, u) \in Seq(Units) /\ OnTheWay(Append(W, u), g, q)
      <4>1. Cat(c, Cat(a, u)) = Cat(Cat(c, a), u)
        BY <2>2, CatAssoc
      <4>2. FlattenSeq(W) = Cat(c, a)
        BY <1>1, <1>2, <3>5, <3>6 DEF OnTheWay
      <4>3. Append(W, u) \in Seq(Units)
        BY <2>2
      <4>. QED BY <3>5, <3>6, <3>7, <4>1, <4>2, <4>3 DEF OnTheWay
    <3>9. Total(Append(W, u)) = Plus(v, du)
      BY <1>4, <2>2, <2>3, TotalAppend
    <3>10. host'.pos = h.pos /\ host'.aux = T
      BY <1>12, <1>13, <1>15, <1>15a, <1>17, <2>1, <3>1
    <3>11. h.pos = Plus(Plus(v, du), dt)
      BY <1>13, <2>3, PlusIs
    <3>12. MouseHas(host', g, Total(Append(W, u)))
      BY <1>6, <1>12, <2>3, <3>9, <3>10, <3>11 DEF MouseHas
    <3>. QED BY <1>14, <3>4, <3>8, <3>12
  <2>5. CASE ~ps2.aux_enabled
    <3>1. d = du
      <4>1. d = PointerAt(<<0, 0>>, u[1].val, u[2].val, u[3].val)
        BY <1>7, <1>9, <1>17, <2>1, <2>5 DEF Dropped
      <4>2. u[1].event
        BY UnitSeqs
      <4>. QED BY <2>3, <4>1, <4>2 DEF Disp, UnitAt
    <3>2. q = p
      BY <1>8, <1>10, <2>5 DEF HandAux
    <3>3. Mouse(q) /\ AuxBytes(q) = AuxBytes(ps2)
      BY <1>3, <1>10, <3>2 DEF Mouse, AuxBytes, AuxByte
    <3>4. OnTheWay(W, g, q)
      BY <1>1, <1>2, <3>3 DEF OnTheWay
    <3>5. h.pos = Plus(Plus(du, v), dt)
      BY <1>13, <2>3, PlusIs
    <3>6. host'.pos = Plus(v, dt) /\ host'.aux = T
      BY <1>12, <1>17, <2>1, <3>1, <3>5, MinusDisp
    <3>7. MouseHas(host', g, Total(W))
      BY <1>4, <1>6, <1>12, <2>3, <3>6 DEF MouseHas
    <3>. QED BY <1>14, <3>3, <3>4, <3>7
  <2>. QED BY <2>4, <2>5
<1>. QED BY <1>16, <1>17

LEMMA PtrStays ==
  ASSUME PtrInv, UNCHANGED ps2, NEW W \in Seq(Units), OnTheWay(W, host.head, ps2), MouseHas(host', host.head, Total(W))
  PROVE  PtrInv'
<1>1. Mouse(ps2) /\ host.head \in Seq(PacketVal) /\ Len(host.head) <= 2
  BY DEF PtrInv
<1>2. ps2' = ps2
  OBVIOUS
<1>. QED BY <1>1, <1>2, PtrFrom

\* What the devices do together, as far as the mouse goes.
PtrStep ==
  \/ ReadKbd \/ service
  \/ \E v : WriteCmd(v) \/ WriteKbd(v)
  \/ \E k, down : HostKey(k, down)
  \/ \E d \in Motions : HostMouse(d)

LEMMA PtrAlone == [Next]_vars => PtrStep \/ UNCHANGED ps2Vars
<1>1. ServeIP2 \/ ServeIP3 => PtrStep \/ UNCHANGED ps2Vars
  BY DEF ServeIP2, ServeIP3, ServeMapped, ClearLevel, PtrStep
<1>2. SerialTick \/ VRetrace \/ NetPoll \/ Outside => PtrStep \/ UNCHANGED ps2Vars
  BY DEF SerialTick, VRetrace, NetPoll, Outside, PtrStep
<1>3. RxDriver \/ TxDriver \/ TxQueue \/ TimerOp => PtrStep \/ UNCHANGED ps2Vars
  BY DEF RxDriver, TxDriver, TxQueue, TimerOp
<1>4. Program1 => PtrStep \/ UNCHANGED ps2Vars
  BY DEF Program1, MaskWrite, SerialOp, KeyboardOp, EnetOp, Raise, PtrStep
<1>5. UNCHANGED vars => UNCHANGED ps2Vars
  BY DEF vars
<1>. QED BY <1>1, <1>2, <1>3, <1>4, <1>5 DEF Next

LEMMA PtrKeeps == PtrInv /\ [Next]_vars => PtrInv'
<1> SUFFICES ASSUME PtrInv, [Next]_vars PROVE PtrInv'
  OBVIOUS
<1>1. PICK W \in Seq(Units) : OnTheWay(W, host.head, ps2) /\ MouseHas(host, host.head, Total(W))
  BY DEF PtrInv
<1>2. Mouse(ps2) /\ Total(W) \in Vectors
  BY TotalIs DEF PtrInv
<1>3. CASE UNCHANGED ps2Vars
  <2>1. UNCHANGED ps2 /\ MouseHas(host', host.head, Total(W))
    BY <1>1, <1>3 DEF ps2Vars
  <2>. QED BY <2>1, <1>1, PtrStays
<1>4. CASE ReadKbd
  BY <1>4, ReadMouse
<1>5. CASE service
  BY <1>5, ServiceMouse
<1>6. ASSUME NEW v, WriteCmd(v) PROVE PtrInv'
  <2>1. AuxAnswers(ps2, ctl_cmd(ps2, v))
    BY <1>2, CtlMouse
  <2>. QED BY <2>1, <1>6, WriteMouse DEF WriteCmd
<1>7. ASSUME NEW v, WriteKbd(v) PROVE PtrInv'
  <2>1. AuxAnswers(ps2, Routed(ps2, v))
    BY <1>2, RoutedMouse
  <2>. QED BY <2>1, <1>7, WriteMouse DEF WriteKbd
<1>8. ASSUME NEW k, NEW down, HostKey(k, down) PROVE PtrInv'
  <2>1. MouseHas(key(host, k, down), host.head, Total(W))
    BY <1>1, KeyMouse
  <2>2. UNCHANGED ps2 /\ MouseHas(host', host.head, Total(W))
    BY <2>1, <1>8 DEF HostKey
  <2>. QED BY <2>2, <1>1, PtrStays
<1>9. ASSUME NEW d \in Motions, HostMouse(d) PROVE PtrInv'
  <2>1. d[1] \in Int /\ d[2] \in Int
    BY Ps2Assumption
  <2>2. host.buttons \in SUBSET Buttons
    BY <1>1 DEF MouseHas
  <2>3. MouseHas(mouse(host, d[1], d[2], host.buttons), host.head, Total(W))
    BY <1>1, <1>2, <2>1, <2>2, MotionKeeps
  <2>4. UNCHANGED ps2 /\ MouseHas(host', host.head, Total(W))
    BY <2>3, <1>9 DEF HostMouse
  <2>. QED BY <2>4, <1>1, PtrStays
<1>10. PtrStep \/ UNCHANGED ps2Vars
  BY PtrAlone
<1>. QED BY <1>3, <1>4, <1>5, <1>6, <1>7, <1>8, <1>9, <1>10 DEF PtrStep

\* A reader who takes packets apart is not misled by replies.
Unbroken(F) == \A i \in 1 .. Len(F) : F[i].event /\ F[i].left > 0 => i < Len(F) /\ F[i + 1].event

LEMMA UnbrokenCat ==
  ASSUME NEW F \in Seq(MouseByte), NEW u \in Seq(MouseByte), Unbroken(F), Unbroken(u)
  PROVE  Unbroken(Cat(F, u))
<1>1. PICK n \in Nat, m \in Nat, G \in Seq(MouseByte) :
        /\ n = Len(F) /\ m = Len(u) /\ G = Cat(F, u) /\ Len(G) = n + m
        /\ \A i \in 1 .. n : G[i] = F[i]
        /\ \A i \in 1 .. m : G[n + i] = u[i]
  <2>1. Len(F) \in Nat /\ Len(u) \in Nat /\ F \o u \in Seq(MouseByte) /\ Len(F \o u) = Len(F) + Len(u)
    OBVIOUS
  <2>2. \A i \in 1 .. Len(F) : (F \o u)[i] = F[i]
    OBVIOUS
  <2>3. \A i \in 1 .. Len(u) : (F \o u)[Len(F) + i] = u[i]
    OBVIOUS
  <2>. QED BY <2>1, <2>2, <2>3 DEF Cat
<1>2. ASSUME NEW i \in 1 .. n + m, G[i].event /\ G[i].left > 0 PROVE i < n + m /\ G[i + 1].event
  <2>1. CASE i <= n
    <3>1. i \in 1 .. n /\ G[i] = F[i]
      BY <1>1, <2>1
    <3>2. i < n /\ F[i + 1].event
      BY <1>1, <1>2, <3>1 DEF Unbroken
    <3>3. i + 1 \in 1 .. n
      BY <3>2
    <3>. QED BY <1>1, <3>2, <3>3
  <2>2. CASE i > n
    <3>1. PICK j \in 1 .. m : i = n + j
      <4>1. i - n \in 1 .. m /\ i = n + (i - n)
        BY <2>2
      <4>. QED BY <4>1
    <3>2. G[i] = u[j]
      BY <1>1, <3>1
    <3>3. j < m /\ u[j + 1].event
      BY <1>1, <1>2, <3>2 DEF Unbroken
    <3>4. j + 1 \in 1 .. m /\ n + (j + 1) = i + 1
      BY <3>1, <3>3
    <3>5. G[i + 1] = u[j + 1]
      BY <1>1, <3>4
    <3>. QED BY <3>1, <3>3, <3>5
  <2>. QED BY <2>1, <2>2
<1>. QED BY <1>1, <1>2 DEF Unbroken

LEMMA UnitUnbroken == \A u \in Units : Unbroken(u)
<1>1. ASSUME NEW a \in Flags, NEW b \in Moves, NEW c \in Moves PROVE Unbroken(Whole(a, b, c))
  <2>1. PICK u \in Seq(MouseByte) : u = Whole(a, b, c) /\ Len(u) = 3
    <3>1. Whole(a, b, c) \in Packets
      BY DEF Packets
    <3>. QED BY <3>1, UnitSeqs
  <2>2. u[1].event /\ u[2].event /\ u[3].event /\ u[3].left = 0
    BY <2>1 DEF Whole
  <2>3. ASSUME NEW i \in 1 .. 3, u[i].event /\ u[i].left > 0 PROVE i < 3 /\ u[i + 1].event
    <3>1. i # 3
      BY <2>2, <2>3
    <3>2. i = 1 \/ i = 2
      BY <3>1
    <3>. QED BY <2>2, <3>2
  <2>. QED BY <2>1, <2>3 DEF Unbroken
<1>2. ASSUME NEW r \in KbdReplies PROVE Unbroken(<<r>>)
  <2>1. ~r.event
    BY MouseSets
  <2>2. Len(<<r>>) = 1 /\ <<r>>[1] = r
    OBVIOUS
  <2>3. \A i \in 1 .. 1 : i = 1
    OBVIOUS
  <2>. QED BY <2>1, <2>2, <2>3 DEF Unbroken
<1>3. \A u \in Packets : \E a \in Flags, b \in Moves, c \in Moves : u = Whole(a, b, c)
  BY DEF Packets
<1>. QED BY <1>1, <1>2, <1>3, UnitSeqs

LEMMA AllUnbroken == \A W \in Seq(Units) : Unbroken(FlattenSeq(W))
<1> DEFINE U == {W \in Seq(Units) : Unbroken(FlattenSeq(W))}
<1>1. <<>> \in U
  <2>1. <<>> \in Seq(Units) /\ \A i \in 1 .. Len(<<>>) : FALSE
    OBVIOUS
  <2>. QED BY <2>1, FlattenNone DEF Unbroken
<1>2. ASSUME NEW W \in Seq(Units), NEW u \in Units, W \in U PROVE Append(W, u) \in U
  <2>1. Append(W, u) \in Seq(Units) /\ u \in Seq(MouseByte) /\ FlattenSeq(W) \in Seq(MouseByte)
    BY UnitSeqs, UnitsType
  <2>2. FlattenSeq(Append(W, u)) = Cat(FlattenSeq(W), u)
    BY <2>1, UnitsType, FlattenAppend
  <2>3. Unbroken(FlattenSeq(W)) /\ Unbroken(u)
    BY <1>2, UnitUnbroken
  <2>. QED BY <2>1, <2>2, <2>3, UnbrokenCat
<1> HIDE DEF U
<1>3. Seq(Units) \subseteq U
  BY <1>1, <1>2, AppendInduction
<1>. QED BY <1>3 DEF U

\* What bytes of the mouse tell of motion.
Moved(q) == Vals(EventsOf(q))

LEMMA MovedType == \A q \in Seq(MouseByte) : Moved(q) \in Seq(MouseVal)
  BY MouseSets, EventsType, ValsType DEF Moved

LEMMA MovedCat ==
  ASSUME NEW a \in Seq(MouseByte), NEW b \in Seq(MouseByte)
  PROVE  Moved(Cat(a, b)) = Cat(Moved(a), Moved(b))
<1>1. EventsOf(Cat(a, b)) = Cat(EventsOf(a), EventsOf(b))
  BY EventsCat DEF Cat
<1>2. PICK A \in Seq(MouseByte), B \in Seq(MouseByte) : A = EventsOf(a) /\ B = EventsOf(b)
  BY EventsType
<1>3. Vals(Cat(A, B)) = Cat(Vals(A), Vals(B))
  <2>1. Vals(A \o B) = Cat(Vals(A), Vals(B))
    BY ValsCat, MouseSets
  <2>. QED BY <2>1 DEF Cat
<1>. QED BY <1>1, <1>2, <1>3 DEF Moved

LEMMA MovedIs ==
  /\ Moved(<<>>) = <<>>
  /\ \A q \in Seq(MouseEvents) : Moved(q) = Vals(q)
  /\ \A r \in KbdReplies : Moved(<<r>>) = <<>>
<1>1. Vals(<<>>) = <<>>
  BY DEF Vals
<1>2. \A q \in Seq(MouseEvents) : EventsOf(q) = q
  BY MouseSets, EventsAll
<1>3. ASSUME NEW r \in KbdReplies PROVE Moved(<<r>>) = <<>>
  <2>1. <<r>> \in Seq(KbdReplies)
    OBVIOUS
  <2>2. EventsOf(<<r>>) = <<>>
    BY <2>1, MouseSets, EventsOfReplies
  <2>. QED BY <2>2, <1>1 DEF Moved
<1>. QED BY <1>1, <1>2, <1>3, EventsNone DEF Moved

LEMMA MovedWhole ==
  ASSUME NEW a \in Flags, NEW b \in Moves, NEW c \in Moves
  PROVE  Moved(Whole(a, b, c)) = <<a, b, c>>
<1>1. Whole(a, b, c) \in Packets
  BY DEF Packets
<1>2. PICK u \in Seq(MouseEvents) : u = Whole(a, b, c) /\ Len(u) = 3 /\ DOMAIN u = 1 .. 3
  BY <1>1, UnitSeqs
<1>3. Vals(u) = [i \in 1 .. 3 |-> u[i].val]
  BY <1>2 DEF Vals
<1>4. u[1].val = a /\ u[2].val = b /\ u[3].val = c
  BY <1>2 DEF Whole
<1>5. Vals(u) = <<u[1].val, u[2].val, u[3].val>>
  BY <1>3
<1>. QED BY <1>2, <1>4, <1>5, MovedIs

\* The guest decodes v from s.
Decoding(w, s, m, v) ==
  /\ w[0] = <<0, 0>> /\ w[m] = v
  /\ \A i \in 0 .. m - 1 : w[i + 1] = DecodeStep(w[i], i + 1, s)
Decodes(s, v) == \E m \in Nat : Len(s) = 3 * m /\ \E w : Decoding(w, s, m, v)

Longer(t, s, n, a, b, c) ==
  /\ Len(t) = n + 3
  /\ \A i \in 1 .. n : t[i] = s[i]
  /\ t[n + 1] = a /\ t[n + 2] = b /\ t[n + 3] = c

LEMMA ThreeMore ==
  \A S : \A s \in Seq(S) : \A a, b, c \in S :
    Cat(s, <<a, b, c>>) \in Seq(S) /\ Longer(Cat(s, <<a, b, c>>), s, Len(s), a, b, c)
<1> TAKE S
<1> TAKE s \in Seq(S)
<1> TAKE a, b, c \in S
<1>1. <<a, b, c>> \in Seq(S) /\ Len(<<a, b, c>>) = 3
  OBVIOUS
<1>2. s \o <<a, b, c>> \in Seq(S) /\ Len(s \o <<a, b, c>>) = Len(s) + 3
  BY <1>1
<1>3. \A i \in 1 .. Len(s) : (s \o <<a, b, c>>)[i] = s[i]
  BY <1>1
<1>4. (s \o <<a, b, c>>)[Len(s) + 1] = a
  BY <1>1
<1>5. (s \o <<a, b, c>>)[Len(s) + 2] = b
  BY <1>1
<1>6. (s \o <<a, b, c>>)[Len(s) + 3] = c
  BY <1>1
<1>. QED BY <1>2, <1>3, <1>4, <1>5, <1>6 DEF Cat, Longer

LEMMA DecodesMore ==
  ASSUME NEW S, NEW s \in Seq(S), NEW v, Decodes(s, v), NEW a \in S, NEW b \in S, NEW c \in S
  PROVE  Decodes(Cat(s, <<a, b, c>>), PointerAt(v, a, b, c))
<1>0. PICK m \in Nat : Len(s) = 3 * m /\ \E w : Decoding(w, s, m, v)
  BY DEF Decodes
<1>1. PICK w : Len(s) = 3 * m /\ Decoding(w, s, m, v)
  BY <1>0
<1>2. PICK t \in Seq(S) :
        /\ t = Cat(s, <<a, b, c>>) /\ Len(t) = 3 * m + 3
        /\ \A i \in 1 .. 3 * m : t[i] = s[i]
        /\ t[3 * m + 1] = a /\ t[3 * m + 2] = b /\ t[3 * m + 3] = c
  <2>1. PICK t \in Seq(S) : t = Cat(s, <<a, b, c>>) /\ Longer(t, s, Len(s), a, b, c)
    BY ThreeMore
  <2>2. Longer(t, s, 3 * m, a, b, c)
    BY <1>1, <2>1
  <2>. QED BY <2>1, <2>2 DEF Longer
<1>3. PICK x : x = [i \in 0 .. m + 1 |-> IF i = m + 1 THEN PointerAt(v, a, b, c) ELSE w[i]]
  OBVIOUS
<1>4. x[m + 1] = PointerAt(v, a, b, c) /\ \A i \in 0 .. m : x[i] = w[i]
  BY <1>3
<1>5. w[0] = <<0, 0>> /\ w[m] = v /\ \A i \in 0 .. m - 1 : w[i + 1] = DecodeStep(w[i], i + 1, s)
  BY <1>1 DEF Decoding
<1>6. ASSUME NEW i \in 0 .. m PROVE x[i + 1] = DecodeStep(x[i], i + 1, t)
  <2>1. CASE i = m
    <3>1. 3 * (m + 1) - 2 = 3 * m + 1 /\ 3 * (m + 1) - 1 = 3 * m + 2 /\ 3 * (m + 1) = 3 * m + 3
      OBVIOUS
    <3>2. DecodeStep(v, m + 1, t) = PointerAt(v, a, b, c)
      BY <1>2, <3>1 DEF DecodeStep
    <3>. QED BY <2>1, <3>2, <1>4, <1>5
  <2>2. CASE i # m
    <3>1. i \in 0 .. m - 1 /\ i + 1 \in 0 .. m
      BY <2>2
    <3>2. 3 * (i + 1) - 2 \in 1 .. 3 * m /\ 3 * (i + 1) - 1 \in 1 .. 3 * m /\ 3 * (i + 1) \in 1 .. 3 * m
      BY <3>1
    <3>3. DecodeStep(w[i], i + 1, t) = DecodeStep(w[i], i + 1, s)
      BY <1>2, <3>2 DEF DecodeStep
    <3>. QED BY <3>1, <3>3, <1>4, <1>5
  <2>. QED BY <2>1, <2>2
<1>7. x[0] = <<0, 0>> /\ (m + 1) - 1 = m /\ m + 1 \in Nat /\ Len(t) = 3 * (m + 1)
  BY <1>2, <1>4, <1>5
<1>8. Decoding(x, t, m + 1, PointerAt(v, a, b, c))
  BY <1>4, <1>6, <1>7 DEF Decoding
<1>. QED BY <1>2, <1>7, <1>8 DEF Decodes

LEMMA UnitsDecode == \A Z \in Seq(Units) : Decodes(Moved(FlattenSeq(Z)), Total(Z))
<1> DEFINE U == {Z \in Seq(Units) : Decodes(Moved(FlattenSeq(Z)), Total(Z))}
<1>1. <<>> \in U
  <2>1. <<>> \in Seq(Units) /\ Len(<<>>) = 3 * 0
    OBVIOUS
  <2>2. PICK w : w = [i \in {0} |-> <<0, 0>>]
    OBVIOUS
  <2>3. w[0] = <<0, 0>> /\ \A i \in 0 .. 0 - 1 : FALSE
    BY <2>2
  <2>4. Decoding(w, <<>>, 0, <<0, 0>>)
    BY <2>3 DEF Decoding
  <2>5. Decodes(<<>>, <<0, 0>>)
    BY <2>1, <2>4 DEF Decodes
  <2>. QED BY <2>1, <2>5, FlattenNone, MovedIs, TotalIs
<1>2. ASSUME NEW W \in Seq(Units), NEW u \in Units, W \in U PROVE Append(W, u) \in U
  <2>1. Append(W, u) \in Seq(Units) /\ u \in Seq(MouseByte) /\ FlattenSeq(W) \in Seq(MouseByte)
    BY UnitSeqs, UnitsType
  <2>2. FlattenSeq(Append(W, u)) = Cat(FlattenSeq(W), u)
    BY <2>1, UnitsType, FlattenAppend
  <2>3. PICK s \in Seq(MouseVal) : s = Moved(FlattenSeq(W)) /\ Decodes(s, Total(W))
    BY <1>2, <2>1, MovedType
  <2> DEFINE v == Total(W)
  <2>4. Moved(FlattenSeq(Append(W, u))) = Cat(s, Moved(u)) /\ Total(Append(W, u)) = UnitAt(v, u)
    BY <2>1, <2>2, <2>3, MovedCat, TotalAppend
  <2>5. ASSUME NEW r \in KbdReplies, u = <<r>> PROVE Decodes(Cat(s, Moved(u)), UnitAt(v, u))
    <3>1. Cat(s, Moved(u)) = s
      BY <2>5, MovedIs, CatNone
    <3>2. UnitAt(v, u) = v
      <4>1. u[1] = r /\ ~r.event
        BY <2>5, MouseSets
      <4>. QED BY <4>1 DEF UnitAt
    <3>. QED BY <2>3, <3>1, <3>2
  <2>6. ASSUME NEW a \in Flags, NEW b \in Moves, NEW c \in Moves, u = Whole(a, b, c)
        PROVE  Decodes(Cat(s, Moved(u)), UnitAt(v, u))
    <3>1. Moved(u) = <<a, b, c>>
      BY <2>6, MovedWhole
    <3>2. UnitAt(v, u) = PointerAt(v, a, b, c)
      BY <2>6 DEF UnitAt, Whole
    <3>3. a \in MouseVal /\ b \in MouseVal /\ c \in MouseVal
      BY DEF MouseVal
    <3>4. Decodes(Cat(s, <<a, b, c>>), PointerAt(v, a, b, c))
      BY <2>3, <3>3, DecodesMore
    <3>. QED BY <3>1, <3>2, <3>4
  <2>7. (\E r \in KbdReplies : u = <<r>>) \/ \E a \in Flags, b \in Moves, c \in Moves : u = Whole(a, b, c)
    BY UnitSeqs DEF Packets
  <2>8. Decodes(Cat(s, Moved(u)), UnitAt(v, u))
    BY <2>5, <2>6, <2>7
  <2>. QED BY <2>1, <2>4, <2>8
<1> HIDE DEF U
<1>3. Seq(Units) \subseteq U
  BY <1>1, <1>2, AppendInduction
<1>. QED BY <1>3 DEF U

\* The fold is what is decoded.
DecodedFrom(s) == FoldLeft(LAMBDA pos, i : DecodeStep(pos, i, s), <<0, 0>>, [i \in 1 .. Len(s) \div 3 |-> i])

LEMMA FoldDecodes ==
  ASSUME NEW S, NEW s \in Seq(S), NEW v, Decodes(s, v)
  PROVE  Len(s) % 3 = 0 /\ DecodedFrom(s) = v
<1>0. PICK m \in Nat : Len(s) = 3 * m /\ \E w : Decoding(w, s, m, v)
  BY DEF Decodes
<1>1. PICK w : Len(s) = 3 * m /\ Decoding(w, s, m, v)
  BY <1>0
<1>2. (3 * m) % 3 = 0 /\ (3 * m) \div 3 = m
  <2>1. (3 * m + 0) % 3 = 0
    BY ModUnique
  <2>. QED BY <2>1
<1>3. PICK q : q = [i \in 1 .. m |-> i]
  OBVIOUS
<1>4. DOMAIN q = 1 .. m /\ \A i \in 0 .. m - 1 : q[i + 1] = i + 1
  BY <1>3
<1>5. PICK x : DecodeWalked(x, q, s, m)
  BY <1>4, DecodeWalk
<1>6. x[0] = <<0, 0>> /\ \A i \in 0 .. m - 1 : x[i + 1] = DecodeStep(x[i], i + 1, s)
  BY <1>4, <1>5 DEF DecodeWalked
<1>7. w[0] = <<0, 0>> /\ w[m] = v /\ \A i \in 0 .. m - 1 : w[i + 1] = DecodeStep(w[i], i + 1, s)
  BY <1>1 DEF Decoding
<1> DEFINE U == {i \in Nat : i <= m => x[i] = w[i]}
<1>8. 0 \in U
  BY <1>6, <1>7
<1>9. ASSUME NEW i \in Nat, i \in U PROVE i + 1 \in U
  <2> SUFFICES ASSUME i + 1 <= m PROVE x[i + 1] = w[i + 1]
    OBVIOUS
  <2>1. i \in 0 .. m - 1 /\ x[i] = w[i]
    BY <1>9
  <2>. QED BY <2>1, <1>6, <1>7
<1> HIDE DEF U
<1>10. Nat \subseteq U
  BY <1>8, <1>9, NatSetInduction
<1>11. x[m] = v
  BY <1>7, <1>10 DEF U
<1>12. FoldLeft(LAMBDA pos, i : DecodeStep(pos, i, s), <<0, 0>>, q) = v
  BY <1>5, <1>11 DEF DecodeWalked
<1>. QED BY <1>1, <1>2, <1>3, <1>12 DEF DecodedFrom

LEMMA UnbrokenRest ==
  ASSUME NEW d \in Seq(MouseByte), NEW q \in Seq(MouseByte), Unbroken(Cat(d, q))
  PROVE  Unbroken(q)
<1>1. PICK n \in Nat, m \in Nat, G \in Seq(MouseByte) :
        /\ n = Len(d) /\ m = Len(q) /\ G = Cat(d, q) /\ Len(G) = n + m
        /\ \A i \in 1 .. m : G[n + i] = q[i]
  <2>1. Len(d) \in Nat /\ Len(q) \in Nat /\ d \o q \in Seq(MouseByte) /\ Len(d \o q) = Len(d) + Len(q)
    OBVIOUS
  <2>2. \A i \in 1 .. Len(q) : (d \o q)[Len(d) + i] = q[i]
    OBVIOUS
  <2>. QED BY <2>1, <2>2 DEF Cat
<1>2. ASSUME NEW i \in 1 .. m, q[i].event /\ q[i].left > 0 PROVE i < m /\ q[i + 1].event
  <2>1. PICK j \in 1 .. n + m : j = n + i /\ G[j] = q[i]
    BY <1>1
  <2>2. j < n + m /\ G[j + 1].event
    BY <1>1, <1>2, <2>1 DEF Unbroken
  <2>3. i < m
    BY <2>1, <2>2
  <2>4. i + 1 \in 1 .. m
    BY <2>3
  <2>5. j + 1 = n + (i + 1)
    BY <2>1
  <2>. QED BY <1>1, <2>2, <2>3, <2>4, <2>5
<1>. QED BY <1>1, <1>2 DEF Unbroken

\* The rest of a packet the guest has begun to read is there.
LEMMA NextWaits ==
  ASSUME NEW W \in Seq(Units), NEW g \in Seq(PacketVal), Len(g) <= 2, g # <<>>, NEW q \in Seq(MouseByte),
         FlattenSeq(W) = Cat(Begun(g), q)
  PROVE  q # <<>> /\ Head(q).event
<1>1. PICK k \in 1 .. 2 : k = Len(g)
  <2>1. PICK n \in Nat : n = Len(g)
    BY LenNat
  <2>2. n # 0
    BY <2>1, Short
  <2>3. n \in 1 .. 2
    BY <2>1, <2>2
  <2>. QED BY <2>1, <2>3
<1>2. PICK F \in Seq(MouseByte) : F = FlattenSeq(W) /\ Unbroken(F)
  BY UnitsType, AllUnbroken
<1>3. PICK c \in Seq(MouseByte) : c = Begun(g) /\ Len(c) = k
  BY <1>1, BegunIs, MouseSets
<1>4. c[k] = [event |-> TRUE, left |-> 3 - k, val |-> g[k]]
  <2>1. c = [i \in 1 .. k |-> [event |-> TRUE, left |-> 3 - i, val |-> g[i]]]
    BY <1>1, <1>3 DEF Begun
  <2>2. k \in 1 .. k
    OBVIOUS
  <2>. QED BY <2>1, <2>2
<1>5. F = c \o q
  BY <1>2, <1>3 DEF Cat
<1>6. PICK m \in Nat : m = Len(q) /\ Len(F) = k + m /\ F[k] = c[k] /\ \A i \in 1 .. m : F[k + i] = q[i]
  <2>1. PICK m \in Nat : m = Len(q)
    BY LenNat
  <2>2. Len(F) = k + m
    BY <1>3, <1>5, <2>1
  <2>3. F[k] = c[k]
    BY <1>3, <1>5
  <2>4. \A i \in 1 .. m : F[k + i] = q[i]
    BY <1>3, <1>5, <2>1
  <2>. QED BY <2>1, <2>2, <2>3, <2>4
<1>7. F[k].event /\ F[k].left > 0 /\ k \in 1 .. k + m
  BY <1>4, <1>6
<1>8. k < k + m /\ F[k + 1].event
  BY <1>2, <1>6, <1>7 DEF Unbroken
<1>9. 1 \in 1 .. m
  BY <1>8
<1>10. q[1].event
  BY <1>6, <1>8, <1>9
<1>11. q # <<>>
  BY <1>6, <1>9
<1>12. Head(q) = q[1]
  BY <1>11
<1>. QED BY <1>10, <1>11, <1>12

LEMMA PtrShows == PtrInv => PointerTracks
<1> SUFFICES ASSUME PtrInv PROVE PointerTracks
  OBVIOUS
<1>1. PICK W \in Seq(Units) : OnTheWay(W, host.head, ps2) /\ MouseHas(host, host.head, Total(W))
  BY DEF PtrInv
<1>2. PICK g \in Seq(PacketVal) : g = host.head /\ Len(g) <= 2
  BY DEF PtrInv
<1>3. PICK q \in Seq(MouseByte), c \in Seq(MouseEvents) : q = AuxBytes(ps2) /\ c = Begun(g) /\ Len(c) = Len(g)
  BY AuxType, BegunIs DEF PtrInv
<1>4. q = AuxStream
  <2>1. ps2.aux_obf \in BOOLEAN
    BY DEF PtrInv, Mouse
  <2>. QED BY <1>3, <2>1 DEF AuxStream, InBuffer, AuxBytes, AuxByte, Cat
<1>5. PICK A \in Seq(Packets) : A = host.aux /\ A \in Seq(Units) /\ FlattenSeq(A) \in Seq(MouseEvents)
  BY <1>1, UnitsType DEF MouseHas
<1>6. PICK F \in Seq(MouseByte) : F = FlattenSeq(W) /\ F = Cat(c, q)
  BY <1>1, <1>2, <1>3, UnitsType DEF OnTheWay
<1>7. PICK f \in Seq(MouseByte), d \in Seq(MouseByte) : f = FlattenSeq(A) /\ d = c
  BY <1>5, MouseSets
<1>8. Vals(c) = g
  <2>1. PICK n \in Nat : n = Len(g)
    BY LenNat
  <2>2. c = [i \in 1 .. n |-> [event |-> TRUE, left |-> 3 - i, val |-> g[i]]]
    BY <1>3, <2>1 DEF Begun
  <2>3. Vals(c) = [i \in 1 .. n |-> g[i]]
    BY <2>2 DEF Vals
  <2>4. g = [i \in 1 .. n |-> g[i]]
    BY <2>1
  <2>. QED BY <2>3, <2>4
<1>9. MotionStream = Moved(FlattenSeq(W \o A))
  <2>1. FlattenSeq(W \o A) = Cat(F, f)
    BY <1>5, <1>6, <1>7, UnitsType, FlattenCat
  <2>2. Moved(Cat(F, f)) = Cat(Moved(F), Moved(f))
    BY MovedCat
  <2>3. Moved(F) = Cat(Moved(d), Moved(q))
    BY <1>6, <1>7, MovedCat
  <2>4. Moved(d) = g /\ Moved(f) = Vals(f)
    BY <1>5, <1>7, <1>8, MovedIs
  <2>5. MotionStream = Cat(g, Cat(Moved(q), Vals(f)))
    <3>1. PICK e \in Seq(MouseByte) : e = EventsOf(q)
      BY EventsType
    <3>2. Vals(e \o f) = Cat(Vals(e), Vals(f))
      BY ValsCat, MouseSets
    <3>3. MotionStream = g \o Vals(e \o f)
      BY <1>2, <1>4, <1>5, <1>7, <3>1 DEF MotionStream
    <3>. QED BY <3>1, <3>2, <3>3 DEF Cat, Moved
  <2>6. Cat(g, Cat(Moved(q), Vals(f))) = Cat(Cat(g, Moved(q)), Vals(f))
    <3>1. Moved(d) \in Seq(MouseVal) /\ Moved(q) \in Seq(MouseVal) /\ Moved(f) \in Seq(MouseVal)
      BY MovedType
    <3>2. g \in Seq(MouseVal) /\ Vals(f) \in Seq(MouseVal)
      BY <2>4, <3>1
    <3>. QED BY <3>1, <3>2, CatAssoc
  <2>. QED BY <2>1, <2>2, <2>3, <2>4, <2>5, <2>6
<1>10. PICK s \in Seq(MouseVal) : s = MotionStream /\ Decodes(s, Total(W \o A))
  <2>1. W \o A \in Seq(Units)
    BY <1>5
  <2>2. FlattenSeq(W \o A) \in Seq(MouseByte)
    BY <2>1, UnitsType
  <2>. QED BY <1>9, <2>1, <2>2, MovedType, UnitsDecode
<1>11. Len(s) % 3 = 0 /\ DecodedFrom(s) = Total(W \o A)
  BY <1>10, FoldDecodes
<1>12. host.pos = Total(W \o A)
  <2>1. Total(W \o A) = Plus(Total(W), Total(A))
    BY <1>5, TotalCat
  <2>. QED BY <1>1, <1>5, <1>10, <2>1 DEF MouseHas
<1>13. g # <<>> => q # <<>> /\ Head(q).event
  <2>1. SUFFICES ASSUME g # <<>> PROVE q # <<>> /\ Head(q).event
    OBVIOUS
  <2>. QED BY <1>2, <1>3, <1>6, <2>1, NextWaits
<1>14. \A i \in DOMAIN q : q[i].event /\ q[i].left > 0 => i < Len(q) /\ q[i + 1].event
  <2>1. Unbroken(Cat(d, q))
    BY <1>6, <1>7, AllUnbroken
  <2>2. Unbroken(q)
    BY <2>1, UnbrokenRest
  <2>. QED BY <2>2 DEF Unbroken
<1>15. host.pos = DecodedFrom(MotionStream) /\ Len(MotionStream) % 3 = 0
  BY <1>10, <1>11, <1>12
<1>16. \A i \in DOMAIN AuxStream : AuxStream[i].event /\ AuxStream[i].left > 0 => i < Len(AuxStream) /\ AuxStream[i + 1].event
  BY <1>4, <1>14
<1>17. host.head # <<>> => AuxStream # <<>> /\ Head(AuxStream).event
  BY <1>2, <1>4, <1>13
<1>. QED BY <1>15, <1>16, <1>17 DEF PointerTracks, DecodedFrom, DecodeStep

\* The pointer: whatever the guest writes to either port and whatever it reads
\* in between, the mouse's packets reach it whole and decode to the displacement
\* of the host it has not seen, for every script and every packet size.
THEOREM PointerIsTracked == Spec => []PointerTracks
<1>1. Init => PtrInv
  BY PtrInitially DEF Init
<1>. QED BY <1>1, PtrKeeps, PtrShows, PTL DEF Spec

=============================================================================
