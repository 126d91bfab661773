------------------------------ MODULE EnetProofs -------------------------------
(***************************************************************************)
(* Proofs about the Ethernet, for every behaviour of Ioc2's Spec, whatever *)
(* the network, the driver and the other devices do in between.            *)
(***************************************************************************)
EXTENDS DeviceProofs

-----------------------------------------------------------------------------
(* Places of a ring                                                        *)

LEMMA RingPlaces ==
  ASSUME NEW m \in Nat \ {0}, NEW d \in 0 .. m - 1
  PROVE  /\ \A x \in 0 .. m : (d + x) % m \in 0 .. m - 1
         /\ \A x, y \in 0 .. m - 1 : (d + x) % m = (d + y) % m => x = y
         /\ \A x \in 0 .. m - 1 : (((d + x) % m) + 1) % m = (d + (x + 1)) % m
         /\ \A x \in 0 .. m - 1 : (((d + 1) % m) + x) % m = (d + (x + 1)) % m
         /\ (d + 0) % m = d /\ (d + m) % m = d
<1>1. \A x \in 0 .. m : /\ (d + x) % m = IF d + x < m THEN d + x ELSE d + x - m
                        /\ (d + x) % m \in 0 .. m - 1
  <2> SUFFICES ASSUME NEW x \in 0 .. m
               PROVE  /\ (d + x) % m = IF d + x < m THEN d + x ELSE d + x - m
                      /\ (d + x) % m \in 0 .. m - 1
    OBVIOUS
  <2>1. PICK a \in 0 .. 2 * m - 1 : a = d + x
    OBVIOUS
  <2>2. a % m = IF a < m THEN a ELSE a - m
    BY RingAt
  <2>. QED BY <2>1, <2>2
<1>2. \A x, y \in 0 .. m - 1 : (d + x) % m = (d + y) % m => x = y
  BY <1>1
<1>3. \A w \in 0 .. m - 1 : (w + 1) % m = IF w + 1 < m THEN w + 1 ELSE 0
  <2> SUFFICES ASSUME NEW w \in 0 .. m - 1 PROVE (w + 1) % m = IF w + 1 < m THEN w + 1 ELSE 0
    OBVIOUS
  <2>1. PICK a \in 0 .. 2 * m - 1 : a = w + 1
    OBVIOUS
  <2>2. a % m = IF a < m THEN a ELSE a - m
    BY RingAt
  <2>. QED BY <2>1, <2>2
<1>4. ASSUME NEW x \in 0 .. m - 1 PROVE (((d + x) % m) + 1) % m = (d + (x + 1)) % m
  <2>0. x \in 0 .. m
    OBVIOUS
  <2>1. PICK w \in 0 .. m - 1 : w = (d + x) % m /\ w = IF d + x < m THEN d + x ELSE d + x - m
    BY <1>1, <2>0
  <2>2. (w + 1) % m = IF w + 1 < m THEN w + 1 ELSE 0
    BY <1>3
  <2>3. (d + (x + 1)) % m = IF d + (x + 1) < m THEN d + (x + 1) ELSE d + (x + 1) - m
    BY <1>1
  <2>4. (w + 1) % m = (d + (x + 1)) % m
    BY <2>1, <2>2, <2>3
  <2>. QED BY <2>1, <2>4
<1>5. ASSUME NEW x \in 0 .. m - 1 PROVE (((d + 1) % m) + x) % m = (d + (x + 1)) % m
  <2>1. PICK w \in 0 .. m - 1 : w = (d + 1) % m /\ w = IF d + 1 < m THEN d + 1 ELSE d + 1 - m
    BY <1>1
  <2>2. PICK a \in 0 .. 2 * m - 1 : a = w + x
    OBVIOUS
  <2>3. a % m = IF a < m THEN a ELSE a - m
    BY RingAt
  <2>4. (d + (x + 1)) % m = IF d + (x + 1) < m THEN d + (x + 1) ELSE d + (x + 1) - m
    BY <1>1
  <2>5. (w + x) % m = (d + (x + 1)) % m
    BY <2>1, <2>2, <2>3, <2>4
  <2>. QED BY <2>1, <2>5
<1>6. (d + 0) % m = d /\ (d + m) % m = d
  BY <1>1
<1>. QED BY <1>1, <1>2, <1>4, <1>5, <1>6
-----------------------------------------------------------------------------
(* Reception                                                               *)

Destinations == {"station", "broadcast", "multicast", "other"}
EthFrame == [id : Nat, dst : Destinations, len : Nat]
EthByte == {"pad", "fill", "status"} \cup (Nat \X Nat)

SeeqFields == {"tap", "match", "ien", "bank", "station", "rx_new", "tx_new", "tx_frame", "rx_queue", "rx_cur"}
EnetFields == {"opt", "rx", "tx", "rx_irq", "tx_irq", "crbdp", "tx_crbdp", "hold", "s_head"}

RxAt(d, k) == (d + k) % NRx

LEMMA RxPlaces ==
  ASSUME NEW d \in 0 .. NRx - 1
  PROVE  /\ NRx \in Nat \ {0}
         /\ \A k \in 0 .. NRx : RxAt(d, k) \in 0 .. NRx - 1
         /\ \A k, l \in 0 .. NRx - 1 : RxAt(d, k) = RxAt(d, l) => k = l
         /\ \A k \in 0 .. NRx - 1 : RxAt(RxAt(d, k), 1) = RxAt(d, k + 1)
         /\ \A k \in 0 .. NRx - 1 : RxAt(RxAt(d, 1), k) = RxAt(d, k + 1)
         /\ RxAt(d, 0) = d /\ RxAt(d, NRx) = d
<1>1. NRx \in Nat \ {0}
  BY EnetAssumption
<1>2. /\ \A x \in 0 .. NRx : (d + x) % NRx \in 0 .. NRx - 1
      /\ \A x, y \in 0 .. NRx - 1 : (d + x) % NRx = (d + y) % NRx => x = y
      /\ \A x \in 0 .. NRx - 1 : (((d + x) % NRx) + 1) % NRx = (d + (x + 1)) % NRx
      /\ \A x \in 0 .. NRx - 1 : (((d + 1) % NRx) + x) % NRx = (d + (x + 1)) % NRx
      /\ (d + 0) % NRx = d /\ (d + NRx) % NRx = d
  BY <1>1, RingPlaces, Zenon
<1>. QED BY <1>1, <1>2, Zenon DEF RxAt

\* F: the data of the filled descriptors, of which the driver's next is d.
Held(F, active, nbdp, rx, d) ==
  /\ Len(F) <= NRx
  /\ \A k \in 0 .. NRx - 1 :
       IF k < Len(F) THEN rx[RxAt(d, k)] = [own |-> FALSE, data |-> F[k + 1]]
                     ELSE rx[RxAt(d, k)].own = TRUE
  /\ active => nbdp = RxAt(d, Len(F))
  /\ ~active => F = <<>>

\* What the chip has of them still.
Coming(q) == Cat(q.rx_cur, AcceptedBytes(q.rx_queue))

RxTypes(q, e, r, d) ==
  /\ q = [f \in SeeqFields |-> q[f]]
  /\ q.tap \in Seq(EthFrame)
  /\ q.rx_queue \in Seq(EthFrame)
  /\ q.rx_cur \in Seq(EthByte)
  /\ e = [f \in EnetFields |-> e[f]]
  /\ e.rx = [f \in {"active", "nbdp"} |-> e.rx[f]]
  /\ e.rx.active \in BOOLEAN
  /\ r = [f \in {"rx", "tx"} |-> r[f]]
  /\ r.rx = [i \in 0 .. NRx - 1 |-> r.rx[i]]
  /\ d \in 0 .. NRx - 1

\* The chip, the channel and the ring hold D.
RxHas(q, e, r, d, D) ==
  /\ RxTypes(q, e, r, d)
  /\ \E F \in Seq(Seq(EthByte)) : Held(F, e.rx.active, e.rx.nbdp, r.rx, d) /\ D = Cat(FlattenSeq(F), Coming(q))

LEMMA StagedType == \A f \in EthFrame : Staged(f) \in Seq(EthByte)
<1> SUFFICES ASSUME NEW f \in EthFrame PROVE Staged(f) \in Seq(EthByte)
  OBVIOUS
<1>1. {"pad", "fill", "status"} \subseteq EthByte /\ \A i, j \in Nat : <<i, j>> \in EthByte
  BY DEF EthByte
<1>2. PICK n \in Nat, i \in Nat : n = f.len /\ i = f.id
  BY DEF EthFrame
<1>3. PICK A \in Seq(EthByte) : A = <<"pad", "pad">>
  <2>1. <<"pad", "pad">> \in Seq(EthByte)
    BY <1>1
  <2>. QED BY <2>1
<1>4. PICK B \in Seq(EthByte) : B = [j \in 1 .. n |-> <<i, j>>]
  <2>1. \A j \in 1 .. n : <<i, j>> \in EthByte
    BY <1>1
  <2>2. [j \in 1 .. n |-> <<i, j>>] \in Seq(EthByte)
    BY <2>1
  <2>. QED BY <2>2
<1>5. PICK C \in Seq(EthByte) : C = [j \in 1 .. (IF n < EthMin THEN EthMin - n ELSE 0) |-> "fill"]
  <2>1. PICK m \in Nat : m = IF n < EthMin THEN EthMin - n ELSE 0
    <3>1. EthMin \in Nat
      BY EnetAssumption
    <3>2. n < EthMin => EthMin - n \in Nat
      BY <3>1
    <3>. QED BY <3>2
  <2>2. [j \in 1 .. m |-> "fill"] \in Seq(EthByte)
    BY <1>1
  <2>. QED BY <2>1, <2>2
<1>6. PICK E \in Seq(EthByte) : E = <<"status">>
  <2>1. <<"status">> \in Seq(EthByte)
    BY <1>1
  <2>. QED BY <2>1
<1>7. A \o B \o C \o E \in Seq(EthByte)
  <2>1. \A x, y \in Seq(EthByte) : x \o y \in Seq(EthByte)
    OBVIOUS
  <2>. QED BY <2>1
<1>. QED BY <1>2, <1>3, <1>4, <1>5, <1>6, <1>7 DEF Staged

StagedAll(q) == [k \in DOMAIN q |-> Staged(q[k])]

LEMMA StagedAllType ==
  \A q \in Seq(EthFrame) : StagedAll(q) \in Seq(Seq(EthByte)) /\ Len(StagedAll(q)) = Len(q)
<1> SUFFICES ASSUME NEW q \in Seq(EthFrame)
             PROVE  StagedAll(q) \in Seq(Seq(EthByte)) /\ Len(StagedAll(q)) = Len(q)
  OBVIOUS
<1>1. PICK n \in Nat : n = Len(q) /\ DOMAIN q = 1 .. n /\ \A i \in 1 .. n : q[i] \in EthFrame
  OBVIOUS
<1>2. PICK g : g = [k \in 1 .. n |-> Staged(q[k])]
  OBVIOUS
<1>3. \A i \in 1 .. n : g[i] \in Seq(EthByte)
  BY <1>1, <1>2, StagedType
<1>4. g = [k \in 1 .. n |-> g[k]]
  BY <1>2
<1>5. g \in Seq(Seq(EthByte)) /\ Len(g) = n
  BY <1>3, <1>4
<1>. QED BY <1>1, <1>2, <1>5 DEF StagedAll

LEMMA AcceptedType == \A q \in Seq(EthFrame) : AcceptedBytes(q) \in Seq(EthByte)
  BY StagedAllType, FlattenType DEF AcceptedBytes, StagedAll

LEMMA AcceptedNone == AcceptedBytes(<<>>) = <<>>
<1>1. StagedAll(<<>>) = <<>>
  BY DEF StagedAll
<1>. QED BY <1>1, FlattenNone DEF AcceptedBytes, StagedAll

LEMMA AcceptedCat ==
  ASSUME NEW a \in Seq(EthFrame), NEW b \in Seq(EthFrame)
  PROVE  AcceptedBytes(a \o b) = Cat(AcceptedBytes(a), AcceptedBytes(b))
<1>1. PICK A \in Seq(Seq(EthByte)), B \in Seq(Seq(EthByte)) : A = StagedAll(a) /\ B = StagedAll(b)
  BY StagedAllType
<1>2. PICK c \in Seq(EthFrame) : c = a \o b
  <2>1. a \o b \in Seq(EthFrame)
    OBVIOUS
  <2>. QED BY <2>1
<1>3. PICK C \in Seq(Seq(EthByte)) : C = StagedAll(c)
  BY StagedAllType
<1>4. /\ Len(c) = Len(a) + Len(b)
      /\ \A i \in 1 .. Len(a) + Len(b) : c[i] = IF i <= Len(a) THEN a[i] ELSE b[i - Len(a)]
  BY <1>2
<1>5. Len(A) = Len(a) /\ Len(B) = Len(b) /\ Len(C) = Len(c)
  BY <1>1, <1>3, StagedAllType
<1>6. /\ \A i \in 1 .. Len(a) : A[i] = Staged(a[i])
      /\ \A i \in 1 .. Len(b) : B[i] = Staged(b[i])
      /\ \A i \in 1 .. Len(c) : C[i] = Staged(c[i])
  BY <1>1, <1>3 DEF StagedAll
<1>7. \A i \in 1 .. Len(A) + Len(B) : C[i] = IF i <= Len(A) THEN A[i] ELSE B[i - Len(A)]
  <2>1. PICK n \in Nat, m \in Nat : n = Len(a) /\ m = Len(b)
    OBVIOUS
  <2>2. ASSUME NEW i \in 1 .. n + m PROVE C[i] = IF i <= n THEN A[i] ELSE B[i - n]
    <3>1. C[i] = Staged(c[i]) /\ c[i] = IF i <= n THEN a[i] ELSE b[i - n]
      BY <2>1, <1>4, <1>6
    <3>2. i <= n => i \in 1 .. n
      OBVIOUS
    <3>3. ~(i <= n) => i - n \in 1 .. m
      OBVIOUS
    <3>. QED BY <3>1, <3>2, <3>3, <2>1, <1>6
  <2>. QED BY <2>1, <2>2, <1>5
<1>8. C = Cat(A, B)
  <2>1. Len(C) = Len(A) + Len(B)
    BY <1>4, <1>5
  <2>. QED BY <2>1, <1>7, CatIs
<1>9. FlattenSeq(A \o B) = Cat(FlattenSeq(A), FlattenSeq(B))
  BY FlattenCat
<1>. QED BY <1>1, <1>2, <1>3, <1>8, <1>9 DEF AcceptedBytes, StagedAll, Cat

\* Staging moves the head of the queue.
LEMMA StageKeeps ==
  ASSUME NEW q, q = [f \in SeeqFields |-> q[f]], q.tap \in Seq(EthFrame),
         q.rx_queue \in Seq(EthFrame), q.rx_cur \in Seq(EthByte)
  PROVE  /\ Stage(q) = [f \in SeeqFields |-> Stage(q)[f]]
         /\ Stage(q).tap \in Seq(EthFrame)
         /\ Stage(q).rx_queue \in Seq(EthFrame)
         /\ Stage(q).rx_cur \in Seq(EthByte)
         /\ Coming(Stage(q)) = Coming(q)
<1>1. CASE q.rx_cur = <<>> /\ q.rx_queue # <<>>
  <2>1. PICK t : t = Stage(q)
    OBVIOUS
  <2>2. PICK Q \in Seq(EthFrame) : Q = q.rx_queue /\ Q # <<>>
    BY <1>1
  <2>3. t = [f \in SeeqFields |-> t[f]] /\ t.tap = q.tap /\ t.rx_cur = Staged(Head(Q)) /\ t.rx_queue = Tail(Q)
    BY <1>1, <2>1, <2>2 DEF Stage, SeeqFields
  <2>4. Head(Q) \in EthFrame /\ Tail(Q) \in Seq(EthFrame) /\ Q = <<Head(Q)>> \o Tail(Q) /\ <<Head(Q)>> \in Seq(EthFrame)
    BY <2>2
  <2>5. AcceptedBytes(Q) = Cat(AcceptedBytes(<<Head(Q)>>), AcceptedBytes(Tail(Q)))
    BY <2>4, AcceptedCat
  <2>6. AcceptedBytes(<<Head(Q)>>) = Staged(Head(Q))
    <3>1. StagedAll(<<Head(Q)>>) = <<Staged(Head(Q))>>
      BY DEF StagedAll
    <3>2. FlattenSeq(<<Staged(Head(Q))>>) = Staged(Head(Q))
      BY <2>4, StagedType, FlattenOne
    <3>. QED BY <3>1, <3>2 DEF AcceptedBytes, StagedAll
  <2>7. AcceptedBytes(Q) \in Seq(EthByte)
    BY AcceptedType
  <2>8. Coming(q) = AcceptedBytes(Q)
    BY <1>1, <2>2, <2>7, CatNone DEF Coming
  <2>9. Coming(t) = AcceptedBytes(Q)
    BY <2>3, <2>5, <2>6 DEF Coming
  <2>10. Staged(Head(Q)) \in Seq(EthByte)
    BY <2>4, StagedType
  <2>. QED BY <2>1, <2>3, <2>4, <2>8, <2>9, <2>10
<1>2. CASE ~(q.rx_cur = <<>> /\ q.rx_queue # <<>>)
  BY <1>2 DEF Stage
<1>. QED BY <1>1, <1>2

\* What a step of the walk works on.
WalkFields == {"q", "e", "r", "stop"}
RxWalker(st, d, D) ==
  /\ st = [f \in WalkFields |-> st[f]]
  /\ st.stop \in BOOLEAN
  /\ RxHas(st.q, st.e, st.r, d, D)

LEMMA RxStaged ==
  ASSUME NEW q, NEW e, NEW r, NEW d, NEW D, RxHas(q, e, r, d, D)
  PROVE  RxHas(Stage(q), e, r, d, D)
  BY StageKeeps DEF RxHas, RxTypes

\* A descriptor more is filled.
Free(rx, i) == rx = [k \in 0 .. NRx - 1 |-> rx[k]] /\ rx[i].own

LEMMA HeldMore ==
  ASSUME NEW F \in Seq(Seq(EthByte)), NEW A \in Seq(EthByte), NEW i, NEW rx, NEW d \in 0 .. NRx - 1,
         Held(F, TRUE, i, rx, d), Free(rx, i)
  PROVE  /\ Held(Append(F, A), TRUE, RxAt(i, 1), [rx EXCEPT ![i] = [own |-> FALSE, data |-> A]], d)
         /\ i \in 0 .. NRx - 1
<1>1. PICK m \in Nat : m = Len(F)
  OBVIOUS
<1>2. m <= NRx /\ i = RxAt(d, m)
  BY <1>1 DEF Held
<1>3. m \in 0 .. NRx - 1 /\ NRx \in Nat
  <2>1. CASE m = NRx
    <3>1. 0 \in 0 .. NRx - 1 /\ 0 < m /\ RxAt(d, 0) = i
      BY <1>2, <2>1, RxPlaces
    <3>2. rx[i] = [own |-> FALSE, data |-> F[0 + 1]]
      BY <3>1, <1>1 DEF Held
    <3>3. rx[i].own = FALSE
      BY <3>2
    <3>. QED BY <3>3 DEF Free
  <2>2. NRx \in Nat
    BY RxPlaces
  <2>. QED BY <2>1, <2>2, <1>2
<1>4. i \in 0 .. NRx - 1
  BY <1>2, <1>3, RxPlaces
<1>5. PICK G : G = Append(F, A) /\ Len(G) = m + 1 /\ G[m + 1] = A
               /\ \A k \in 0 .. m - 1 : G[k + 1] = F[k + 1]
  <2>1. Len(Append(F, A)) = m + 1 /\ Append(F, A)[m + 1] = A
    BY <1>1
  <2>2. \A k \in 0 .. m - 1 : k + 1 \in 1 .. m
    OBVIOUS
  <2>3. \A k \in 1 .. m : Append(F, A)[k] = F[k]
    BY <1>1
  <2>. QED BY <2>1, <2>2, <2>3
<1>6. PICK x : x = [rx EXCEPT ![i] = [own |-> FALSE, data |-> A]]
  OBVIOUS
<1>7. x[i] = [own |-> FALSE, data |-> A] /\ \A k \in 0 .. NRx - 1 : k # i => x[k] = rx[k]
  BY <1>4, <1>6 DEF Free
<1>8. ASSUME NEW k \in 0 .. NRx - 1
      PROVE  IF k < m + 1 THEN x[RxAt(d, k)] = [own |-> FALSE, data |-> G[k + 1]]
                          ELSE x[RxAt(d, k)].own = TRUE
  <2>1. CASE k = m
    BY <2>1, <1>2, <1>3, <1>5, <1>7
  <2>2. CASE k # m
    <3>1. x[RxAt(d, k)] = rx[RxAt(d, k)]
      <4>1. RxAt(d, k) # i /\ RxAt(d, k) \in 0 .. NRx - 1
        <5>1. \A l \in 0 .. NRx - 1 : RxAt(d, k) = RxAt(d, l) => k = l
          BY RxPlaces
        <5>2. k \in 0 .. NRx
          BY <1>3
        <5>3. RxAt(d, k) \in 0 .. NRx - 1
          BY <5>2, RxPlaces
        <5>. QED BY <5>1, <5>3, <2>2, <1>2, <1>3
      <4>. QED BY <4>1, <1>7
    <3>2. IF k < m THEN rx[RxAt(d, k)] = [own |-> FALSE, data |-> F[k + 1]] ELSE rx[RxAt(d, k)].own = TRUE
      BY <1>1 DEF Held
    <3>3. k < m => k \in 0 .. m - 1 /\ k < m + 1
      BY <1>1
    <3>4. ~(k < m) => ~(k < m + 1)
      BY <2>2, <1>1
    <3>. QED BY <3>1, <3>2, <3>3, <3>4, <1>5
  <2>. QED BY <2>1, <2>2
<1>9. RxAt(i, 1) = RxAt(d, m + 1)
  BY <1>2, <1>3, RxPlaces
<1>10. Held(G, TRUE, RxAt(i, 1), x, d)
  <2>1. Len(G) <= NRx
    BY <1>3, <1>5
  <2>2. RxAt(i, 1) = RxAt(d, Len(G))
    BY <1>5, <1>9
  <2>. QED BY <2>1, <2>2, <1>5, <1>8 DEF Held
<1>. QED BY <1>4, <1>5, <1>6, <1>10

\* The first n elements, and the others.
LEMMA Split ==
  ASSUME NEW S, NEW C \in Seq(S), NEW n \in 0 .. Len(C)
  PROVE  /\ SubSeq(C, 1, n) \in Seq(S) /\ SubSeq(C, n + 1, Len(C)) \in Seq(S)
         /\ C = Cat(SubSeq(C, 1, n), SubSeq(C, n + 1, Len(C)))
<1>1. SubSeq(C, 1, n) \in Seq(S) /\ SubSeq(C, n + 1, Len(C)) \in Seq(S)
  OBVIOUS
<1>2. PICK A \in Seq(S), B \in Seq(S) : A = SubSeq(C, 1, n) /\ B = SubSeq(C, n + 1, Len(C))
  BY <1>1
<1>3. Len(A) = n /\ Len(B) = Len(C) - n
  BY <1>2
<1>4. \A j \in 1 .. n : A[j] = C[j]
  BY <1>2
<1>5. \A j \in 1 .. Len(C) - n : B[j] = C[j + n]
  BY <1>2
<1>6. Len(C) = Len(A) + Len(B)
  BY <1>3
<1>7. \A j \in 1 .. Len(A) + Len(B) : C[j] = IF j <= Len(A) THEN A[j] ELSE B[j - Len(A)]
  <2> SUFFICES ASSUME NEW j \in 1 .. Len(C) PROVE C[j] = IF j <= n THEN A[j] ELSE B[j - n]
    BY <1>3, <1>6
  <2>1. j <= n => j \in 1 .. n
    OBVIOUS
  <2>2. ~(j <= n) => j - n \in 1 .. Len(C) - n /\ (j - n) + n = j
    OBVIOUS
  <2>. QED BY <2>1, <2>2, <1>4, <1>5
<1>. QED BY <1>1, <1>2, <1>6, <1>7, CatIs

\* The next descriptor is filled from the staged frame.
Fills(q, e, r, n, t, c, s) ==
  /\ t = [f \in SeeqFields |-> t[f]] /\ t.tap = q.tap /\ t.rx_queue = q.rx_queue
  /\ t.rx_cur = SubSeq(q.rx_cur, n + 1, Len(q.rx_cur))
  /\ c = [f \in EnetFields |-> c[f]] /\ c.rx = [e.rx EXCEPT !.nbdp = RxAt(@, 1)]
  /\ s = [r EXCEPT !.rx[e.rx.nbdp] = [own |-> FALSE, data |-> SubSeq(q.rx_cur, 1, n)]]

LEMMA RxFills ==
  ASSUME NEW q, NEW e, NEW r, NEW d, NEW D, RxHas(q, e, r, d, D), e.rx.active, r.rx[e.rx.nbdp].own,
         NEW n, n \in 0 .. Len(q.rx_cur), NEW t, NEW c, NEW s, Fills(q, e, r, n, t, c, s)
  PROVE  RxHas(t, c, s, d, D)
<1>1. PICK F \in Seq(Seq(EthByte)) :
        Held(F, e.rx.active, e.rx.nbdp, r.rx, d) /\ D = Cat(FlattenSeq(F), Coming(q))
  BY DEF RxHas
<1>2. PICK i, rx : i = e.rx.nbdp /\ rx = r.rx /\ Free(rx, i)
  BY DEF RxHas, RxTypes, Free
<1>3. e.rx.active = TRUE /\ d \in 0 .. NRx - 1
  BY DEF RxHas, RxTypes
<1>4. PICK C \in Seq(EthByte) : C = q.rx_cur
  BY DEF RxHas, RxTypes
<1>5. n \in 0 .. Len(C)
  BY <1>4
<1>6. PICK A \in Seq(EthByte), B \in Seq(EthByte) :
        A = SubSeq(q.rx_cur, 1, n) /\ B = SubSeq(q.rx_cur, n + 1, Len(q.rx_cur)) /\ q.rx_cur = Cat(A, B)
  <2>1. /\ SubSeq(C, 1, n) \in Seq(EthByte) /\ SubSeq(C, n + 1, Len(C)) \in Seq(EthByte)
        /\ C = Cat(SubSeq(C, 1, n), SubSeq(C, n + 1, Len(C)))
    BY <1>5, Split
  <2>. QED BY <2>1, <1>4
<1>7. PICK G, x : G = Append(F, A) /\ x = [rx EXCEPT ![i] = [own |-> FALSE, data |-> A]]
  OBVIOUS
<1>8. Held(G, TRUE, RxAt(i, 1), x, d) /\ i \in 0 .. NRx - 1
  <2>1. Held(F, TRUE, i, rx, d)
    BY <1>1, <1>2, <1>3
  <2>2. /\ Held(Append(F, A), TRUE, RxAt(i, 1), [rx EXCEPT ![i] = [own |-> FALSE, data |-> A]], d)
        /\ i \in 0 .. NRx - 1
    BY <2>1, <1>2, <1>3, HeldMore
  <2>. QED BY <2>2, <1>7
<1>9. c.rx = [f \in {"active", "nbdp"} |-> c.rx[f]] /\ c.rx.active = TRUE /\ c.rx.nbdp = RxAt(i, 1)
  <2>1. e.rx = [f \in {"active", "nbdp"} |-> e.rx[f]]
    BY DEF RxHas, RxTypes
  <2>2. c.rx = [e.rx EXCEPT !.nbdp = RxAt(i, 1)]
    BY <1>2 DEF Fills
  <2>. QED BY <2>1, <2>2, <1>3
<1>10. s = [f \in {"rx", "tx"} |-> s[f]] /\ s.rx = x
  <2>1. r = [f \in {"rx", "tx"} |-> r[f]]
    BY DEF RxHas, RxTypes
  <2>2. s = [r EXCEPT !.rx = x]
    BY <1>2, <1>6, <1>7 DEF Fills
  <2>. QED BY <2>1, <2>2
<1>11. x = [k \in 0 .. NRx - 1 |-> x[k]]
  BY <1>2, <1>7 DEF Free
<1>12. RxTypes(t, c, s, d)
  BY <1>6, <1>9, <1>10, <1>11 DEF RxHas, RxTypes, Fills
<1>13. D = Cat(FlattenSeq(G), Coming(t))
  <2>1. PICK f \in Seq(EthByte), z \in Seq(EthByte) : f = FlattenSeq(F) /\ z = AcceptedBytes(q.rx_queue)
    BY FlattenType, AcceptedType DEF RxHas, RxTypes
  <2>2. FlattenSeq(G) = Cat(f, A)
    BY <1>7, <2>1, FlattenAppend
  <2>3. Coming(t) = Cat(B, z) /\ Coming(q) = Cat(Cat(A, B), z)
    BY <1>6, <2>1 DEF Coming, Fills
  <2>4. D = Cat(f, Cat(Cat(A, B), z))
    BY <1>1, <2>1, <2>3
  <2>5. Cat(Cat(f, A), Cat(B, z)) = Cat(Cat(f, Cat(A, B)), z) /\ Cat(f, Cat(Cat(A, B), z)) = Cat(Cat(f, Cat(A, B)), z)
    BY Regroup, CatAssoc, CatType
  <2>. QED BY <2>2, <2>3, <2>4, <2>5
<1>14. G \in Seq(Seq(EthByte)) /\ Held(G, c.rx.active, c.rx.nbdp, s.rx, d)
  <2>1. Append(F, A) \in Seq(Seq(EthByte))
    OBVIOUS
  <2>. QED BY <2>1, <1>7, <1>8, <1>9, <1>10
<1>. QED BY <1>12, <1>13, <1>14 DEF RxHas

LEMMA RxStepKeeps ==
  ASSUME NEW st, NEW d, NEW D, RxWalker(st, d, D)
  PROVE  RxWalker(RxStep(st), d, D)
<1>1. PICK q, i, n, last :
        /\ q = Stage(st.q) /\ i = st.e.rx.nbdp
        /\ n = (IF Len(q.rx_cur) < BufSize THEN Len(q.rx_cur) ELSE BufSize)
        /\ last = (n = Len(q.rx_cur))
  OBVIOUS
<1>2. CASE ~(rx_avail(st.q) /\ st.e.rx.active) \/ st.stop
  <2>1. PICK t : t = [st EXCEPT !.stop = TRUE]
    OBVIOUS
  <2>2. RxStep(st) = t
    BY <1>2, <2>1 DEF RxStep
  <2>3. t = [f \in WalkFields |-> t[f]] /\ t.stop = TRUE /\ t.q = st.q /\ t.e = st.e /\ t.r = st.r
    BY <2>1 DEF RxWalker, WalkFields
  <2>. QED BY <2>2, <2>3 DEF RxWalker
<1>3. CASE ~(~(rx_avail(st.q) /\ st.e.rx.active) \/ st.stop) /\ ~st.r.rx[i].own
  <2>1. PICK t : t = [st EXCEPT !.q = q, !.stop = TRUE]
    OBVIOUS
  <2>2. RxStep(st) = t
    BY <1>1, <1>3, <2>1 DEF RxStep
  <2>3. t = [f \in WalkFields |-> t[f]] /\ t.stop = TRUE /\ t.q = q /\ t.e = st.e /\ t.r = st.r
    BY <2>1 DEF RxWalker, WalkFields
  <2>. QED BY <1>1, <2>2, <2>3, RxStaged DEF RxWalker
<1>4. CASE ~(~(rx_avail(st.q) /\ st.e.rx.active) \/ st.stop) /\ st.r.rx[i].own
  <2>1. PICK t, c, s :
          /\ t = [q EXCEPT !.rx_cur = SubSeq(@, n + 1, Len(@)), !.rx_new = @ \/ last]
          /\ c = [st.e EXCEPT !.rx.nbdp = (i + 1) % NRx, !.crbdp = i, !.rx_irq = TRUE]
          /\ s = [st.r EXCEPT !.rx[i] = [own |-> FALSE, data |-> SubSeq(q.rx_cur, 1, n)]]
    OBVIOUS
  <2>2. RxStep(st) = [q |-> t, e |-> c, r |-> s, stop |-> i = NRx - 1]
    BY <1>1, <1>4, <2>1 DEF RxStep
  <2>3. RxHas(q, st.e, st.r, d, D)
    BY <1>1, RxStaged DEF RxWalker
  <2>4. n \in 0 .. Len(q.rx_cur)
    <3>1. Len(q.rx_cur) \in Nat
      BY <2>3 DEF RxHas, RxTypes
    <3>. QED BY <3>1, <1>1, EnetAssumption
  <2>5. /\ t = [f \in SeeqFields |-> t[f]] /\ t.tap = q.tap /\ t.rx_queue = q.rx_queue
        /\ t.rx_cur = SubSeq(q.rx_cur, n + 1, Len(q.rx_cur))
    BY <2>1, <2>3 DEF RxHas, RxTypes, SeeqFields
  <2>6. c = [f \in EnetFields |-> c[f]] /\ c.rx = [st.e.rx EXCEPT !.nbdp = RxAt(@, 1)]
    BY <1>1, <2>1, <2>3 DEF RxHas, RxTypes, EnetFields, RxAt
  <2>7. RxHas(t, c, s, d, D)
    <3>1. Fills(q, st.e, st.r, n, t, c, s)
      BY <1>1, <2>1, <2>5, <2>6 DEF Fills
    <3>2. st.e.rx.active /\ st.r.rx[st.e.rx.nbdp].own
      BY <1>1, <1>4
    <3>. QED BY <2>3, <2>4, <3>1, <3>2, RxFills
  <2>8. PICK y : y = RxStep(st)
    OBVIOUS
  <2>9. y = [f \in WalkFields |-> y[f]] /\ y.stop = (i = NRx - 1) /\ y.q = t /\ y.e = c /\ y.r = s
    BY <2>2, <2>8 DEF WalkFields
  <2>. QED BY <2>7, <2>8, <2>9 DEF RxWalker
<1>. QED BY <1>2, <1>3, <1>4

\* The descriptors of a walk of the receive ring.
RxFold(it, h, q, n) ==
  it = [s \in SUBSET (1 .. n) |-> IF s = {} THEN h ELSE Once(RxStep, it[s \ {Max(s)}])]

LEMMA RxFoldExists ==
  ASSUME NEW h, NEW q PROVE \A n \in Nat : \E it : RxFold(it, h, q, n)
<1> DEFINE U == {n \in Nat : \E it : RxFold(it, h, q, n)}
<1>1. 0 \in U
  <2> DEFINE it == [s \in SUBSET (1 .. 0) |-> h]
  <2>1. \A s \in SUBSET (1 .. 0) : s = {}
    OBVIOUS
  <2>2. RxFold(it, h, q, 0)
    BY <2>1 DEF RxFold
  <2>. QED BY <2>2
<1>2. ASSUME NEW n \in Nat, n \in U PROVE n + 1 \in U
  <2>1. PICK it : RxFold(it, h, q, n)
    BY <1>2
  <2> DEFINE g == [s \in SUBSET (1 .. n + 1) |->
                     IF n + 1 \in s THEN Once(RxStep, it[s \ {n + 1}]) ELSE it[s]]
  <2>2. \A s \in SUBSET (1 .. n) : s \in SUBSET (1 .. n + 1) /\ n + 1 \notin s /\ g[s] = it[s]
    OBVIOUS
  <2>3. \A s \in SUBSET (1 .. n) : s # {} => Max(s) \in s /\ s \ {Max(s)} \in SUBSET (1 .. n)
    BY MaxIn
  <2>4. \A s \in SUBSET (1 .. n) : it[s] = IF s = {} THEN h ELSE Once(RxStep, it[s \ {Max(s)}])
    BY <2>1 DEF RxFold
  <2>5. ASSUME NEW s \in SUBSET (1 .. n + 1), n + 1 \in s
        PROVE  g[s] = Once(RxStep, g[s \ {Max(s)}])
    <3>1. Max(s) = n + 1 /\ s \ {Max(s)} \in SUBSET (1 .. n)
      BY <2>5, MaxOf
    <3>2. g[s] = Once(RxStep, it[s \ {n + 1}])
      BY <2>5
    <3>3. g[s \ {n + 1}] = it[s \ {n + 1}]
      BY <3>1, <2>2
    <3>. HIDE DEF g
    <3>. QED BY <3>1, <3>2, <3>3
  <2>6. ASSUME NEW s \in SUBSET (1 .. n), s # {}
        PROVE  g[s] = Once(RxStep, g[s \ {Max(s)}])
    <3>1. g[s] = it[s] /\ g[s \ {Max(s)}] = it[s \ {Max(s)}]
      BY <2>2, <2>3, <2>6
    <3>. HIDE DEF g
    <3>. QED BY <3>1, <2>4, <2>6
  <2>7. g[{}] = h
    <3>1. {} \in SUBSET (1 .. n)
      OBVIOUS
    <3>2. g[{}] = it[{}] /\ it[{}] = h
      BY <3>1, <2>2, <2>4
    <3>. QED BY <3>2
  <2>8. \A s \in SUBSET (1 .. n + 1) : n + 1 \in s \/ s \in SUBSET (1 .. n)
    BY MaxOf
  <2>9. g = [s \in SUBSET (1 .. n + 1) |-> g[s]]
    OBVIOUS
  <2>. HIDE DEF g
  <2>10. \A s \in SUBSET (1 .. n + 1) : g[s] = IF s = {} THEN h ELSE Once(RxStep, g[s \ {Max(s)}])
    BY <2>5, <2>6, <2>7, <2>8
  <2>11. RxFold(g, h, q, n + 1)
    BY <2>9, <2>10 DEF RxFold
  <2>. QED BY <2>11
<1> HIDE DEF U
<1>3. Nat \subseteq U
  BY <1>1, <1>2, NatSetInduction
<1>. QED BY <1>3 DEF U

RxWalked(w, h, q, n) ==
  /\ w[0] = h
  /\ \A i \in 0 .. n - 1 : w[i + 1] = Once(RxStep, w[i])
  /\ FoldLeft(LAMBDA s, i : Once(RxStep, s), h, q) = w[n]

LEMMA RxWalkIs ==
  ASSUME NEW h, NEW q, NEW n, n \in Nat, DOMAIN q = 1 .. n
  PROVE  \E w : RxWalked(w, h, q, n)
<1>1. PICK it : RxFold(it, h, q, n) /\ FoldLeft(LAMBDA s, i : Once(RxStep, s), h, q) = it[1 .. n]
  <2>1. \E it : RxFold(it, h, q, n)
    BY RxFoldExists
  <2>. QED BY <2>1 DEF RxFold, FoldLeft, MapThenFoldSet
<1> DEFINE w == [i \in 0 .. n |-> it[1 .. i]]
<1>2. \A s \in SUBSET (1 .. n) : it[s] = IF s = {} THEN h ELSE Once(RxStep, it[s \ {Max(s)}])
  BY <1>1 DEF RxFold
<1>3. w[0] = h
  <2>1. 1 .. 0 = {} /\ {} \in SUBSET (1 .. n)
    OBVIOUS
  <2>2. w[0] = it[1 .. 0]
    OBVIOUS
  <2>. HIDE DEF w
  <2>. QED BY <2>1, <2>2, <1>2
<1>4. ASSUME NEW i \in 0 .. n - 1 PROVE w[i + 1] = Once(RxStep, w[i])
  <2>1. PICK s : s = 1 .. i + 1
    OBVIOUS
  <2>2. i \in Nat /\ s \in SUBSET (1 .. i + 1) /\ i + 1 \in s /\ s \in SUBSET (1 .. n)
    BY <2>1
  <2>3. Max(s) = i + 1
    BY <2>2, MaxOf
  <2>4. s \ {i + 1} = 1 .. i
    BY <2>1
  <2>5. it[s] = Once(RxStep, it[1 .. i])
    BY <1>2, <2>2, <2>3, <2>4
  <2>6. w[i + 1] = it[s] /\ w[i] = it[1 .. i]
    BY <2>1
  <2>. HIDE DEF w
  <2>. QED BY <2>5, <2>6
<1>5. w[n] = it[1 .. n]
  OBVIOUS
<1>. HIDE DEF w
<1>. QED BY <1>1, <1>3, <1>4, <1>5 DEF RxWalked

\* The descriptors of a walk of the transmit ring.
TxFold(it, h, q, n) ==
  it = [s \in SUBSET (1 .. n) |-> IF s = {} THEN h ELSE Once(TxStep, it[s \ {Max(s)}])]

LEMMA TxFoldExists ==
  ASSUME NEW h, NEW q PROVE \A n \in Nat : \E it : TxFold(it, h, q, n)
<1> DEFINE U == {n \in Nat : \E it : TxFold(it, h, q, n)}
<1>1. 0 \in U
  <2> DEFINE it == [s \in SUBSET (1 .. 0) |-> h]
  <2>1. \A s \in SUBSET (1 .. 0) : s = {}
    OBVIOUS
  <2>2. TxFold(it, h, q, 0)
    BY <2>1 DEF TxFold
  <2>. QED BY <2>2
<1>2. ASSUME NEW n \in Nat, n \in U PROVE n + 1 \in U
  <2>1. PICK it : TxFold(it, h, q, n)
    BY <1>2
  <2> DEFINE g == [s \in SUBSET (1 .. n + 1) |->
                     IF n + 1 \in s THEN Once(TxStep, it[s \ {n + 1}]) ELSE it[s]]
  <2>2. \A s \in SUBSET (1 .. n) : s \in SUBSET (1 .. n + 1) /\ n + 1 \notin s /\ g[s] = it[s]
    OBVIOUS
  <2>3. \A s \in SUBSET (1 .. n) : s # {} => Max(s) \in s /\ s \ {Max(s)} \in SUBSET (1 .. n)
    BY MaxIn
  <2>4. \A s \in SUBSET (1 .. n) : it[s] = IF s = {} THEN h ELSE Once(TxStep, it[s \ {Max(s)}])
    BY <2>1 DEF TxFold
  <2>5. ASSUME NEW s \in SUBSET (1 .. n + 1), n + 1 \in s
        PROVE  g[s] = Once(TxStep, g[s \ {Max(s)}])
    <3>1. Max(s) = n + 1 /\ s \ {Max(s)} \in SUBSET (1 .. n)
      BY <2>5, MaxOf
    <3>2. g[s] = Once(TxStep, it[s \ {n + 1}])
      BY <2>5
    <3>3. g[s \ {n + 1}] = it[s \ {n + 1}]
      BY <3>1, <2>2
    <3>. HIDE DEF g
    <3>. QED BY <3>1, <3>2, <3>3
  <2>6. ASSUME NEW s \in SUBSET (1 .. n), s # {}
        PROVE  g[s] = Once(TxStep, g[s \ {Max(s)}])
    <3>1. g[s] = it[s] /\ g[s \ {Max(s)}] = it[s \ {Max(s)}]
      BY <2>2, <2>3, <2>6
    <3>. HIDE DEF g
    <3>. QED BY <3>1, <2>4, <2>6
  <2>7. g[{}] = h
    <3>1. {} \in SUBSET (1 .. n)
      OBVIOUS
    <3>2. g[{}] = it[{}] /\ it[{}] = h
      BY <3>1, <2>2, <2>4
    <3>. QED BY <3>2
  <2>8. \A s \in SUBSET (1 .. n + 1) : n + 1 \in s \/ s \in SUBSET (1 .. n)
    BY MaxOf
  <2>9. g = [s \in SUBSET (1 .. n + 1) |-> g[s]]
    OBVIOUS
  <2>. HIDE DEF g
  <2>10. \A s \in SUBSET (1 .. n + 1) : g[s] = IF s = {} THEN h ELSE Once(TxStep, g[s \ {Max(s)}])
    BY <2>5, <2>6, <2>7, <2>8
  <2>11. TxFold(g, h, q, n + 1)
    BY <2>9, <2>10 DEF TxFold
  <2>. QED BY <2>11
<1> HIDE DEF U
<1>3. Nat \subseteq U
  BY <1>1, <1>2, NatSetInduction
<1>. QED BY <1>3 DEF U

TxWalked(w, h, q, n) ==
  /\ w[0] = h
  /\ \A i \in 0 .. n - 1 : w[i + 1] = Once(TxStep, w[i])
  /\ FoldLeft(LAMBDA s, i : Once(TxStep, s), h, q) = w[n]

LEMMA TxWalkIs ==
  ASSUME NEW h, NEW q, NEW n, n \in Nat, DOMAIN q = 1 .. n
  PROVE  \E w : TxWalked(w, h, q, n)
<1>1. PICK it : TxFold(it, h, q, n) /\ FoldLeft(LAMBDA s, i : Once(TxStep, s), h, q) = it[1 .. n]
  <2>1. \E it : TxFold(it, h, q, n)
    BY TxFoldExists
  <2>. QED BY <2>1 DEF TxFold, FoldLeft, MapThenFoldSet
<1> DEFINE w == [i \in 0 .. n |-> it[1 .. i]]
<1>2. \A s \in SUBSET (1 .. n) : it[s] = IF s = {} THEN h ELSE Once(TxStep, it[s \ {Max(s)}])
  BY <1>1 DEF TxFold
<1>3. w[0] = h
  <2>1. 1 .. 0 = {} /\ {} \in SUBSET (1 .. n)
    OBVIOUS
  <2>2. w[0] = it[1 .. 0]
    OBVIOUS
  <2>. HIDE DEF w
  <2>. QED BY <2>1, <2>2, <1>2
<1>4. ASSUME NEW i \in 0 .. n - 1 PROVE w[i + 1] = Once(TxStep, w[i])
  <2>1. PICK s : s = 1 .. i + 1
    OBVIOUS
  <2>2. i \in Nat /\ s \in SUBSET (1 .. i + 1) /\ i + 1 \in s /\ s \in SUBSET (1 .. n)
    BY <2>1
  <2>3. Max(s) = i + 1
    BY <2>2, MaxOf
  <2>4. s \ {i + 1} = 1 .. i
    BY <2>1
  <2>5. it[s] = Once(TxStep, it[1 .. i])
    BY <1>2, <2>2, <2>3, <2>4
  <2>6. w[i + 1] = it[s] /\ w[i] = it[1 .. i]
    BY <2>1
  <2>. HIDE DEF w
  <2>. QED BY <2>5, <2>6
<1>5. w[n] = it[1 .. n]
  OBVIOUS
<1>. HIDE DEF w
<1>. QED BY <1>1, <1>3, <1>4, <1>5 DEF TxWalked

LEMMA OnceIs == \A s : Once(RxStep, s) = RxStep(s) /\ Once(TxStep, s) = TxStep(s)
<1> TAKE s
<1>1. {RxStep(u) : u \in {s}} = {RxStep(s)} /\ {TxStep(u) : u \in {s}} = {TxStep(s)}
  OBVIOUS
<1>2. Once(RxStep, s) \in {RxStep(s)}
  BY <1>1 DEF Once
<1>3. Once(TxStep, s) \in {TxStep(s)}
  BY <1>1 DEF Once
<1>. QED BY <1>2, <1>3

LEMMA RxWalkKeeps ==
  ASSUME NEW st, NEW d, NEW D, RxWalker(st, d, D)
  PROVE  RxWalker(RxWalk(st), d, D)
<1>1. PICK h, q : h = [st EXCEPT !.stop = FALSE] /\ q = [i \in 1 .. NRx |-> i]
  OBVIOUS
<1>2. PICK n \in Nat : n = NRx /\ DOMAIN q = 1 .. n
  BY <1>1, EnetAssumption
<1>3. PICK w : RxWalked(w, h, q, n)
  BY <1>2, RxWalkIs
<1>4. /\ w[0] = h
      /\ \A i \in 0 .. n - 1 : w[i + 1] = Once(RxStep, w[i])
      /\ FoldLeft(LAMBDA s, i : Once(RxStep, s), h, q) = w[n]
  BY <1>3 DEF RxWalked
<1> DEFINE U == {i \in Nat : i <= n => RxWalker(w[i], d, D)}
<1>5. 0 \in U
  <2>1. h = [f \in WalkFields |-> h[f]] /\ h.stop = FALSE /\ h.q = st.q /\ h.e = st.e /\ h.r = st.r
    BY <1>1 DEF RxWalker, WalkFields
  <2>2. RxWalker(h, d, D)
    BY <2>1 DEF RxWalker
  <2>. QED BY <2>2, <1>4
<1>6. ASSUME NEW i \in Nat, i \in U PROVE i + 1 \in U
  <2> SUFFICES ASSUME i + 1 <= n PROVE RxWalker(w[i + 1], d, D)
    OBVIOUS
  <2>1. i \in 0 .. n - 1 /\ RxWalker(w[i], d, D)
    BY <1>6
  <2>2. w[i + 1] = RxStep(w[i])
    BY <2>1, <1>4, OnceIs
  <2>. QED BY <2>1, <2>2, RxStepKeeps
<1> HIDE DEF U
<1>7. Nat \subseteq U
  BY <1>5, <1>6, NatSetInduction
<1>8. RxWalker(w[n], d, D)
  BY <1>7 DEF U
<1>9. RxWalk(st) = w[n]
  BY <1>1, <1>4 DEF RxWalk
<1>. QED BY <1>8, <1>9

\* What does not concern reception.
SameChip(q, t) ==
  /\ t = [f \in SeeqFields |-> t[f]]
  /\ t.tap = q.tap /\ t.rx_queue = q.rx_queue /\ t.rx_cur = q.rx_cur
SameChannel(e, c) == c = [f \in EnetFields |-> c[f]] /\ c.rx = e.rx /\ c.opt = e.opt
SameRx(r, s) == s = [f \in {"rx", "tx"} |-> s[f]] /\ s.rx = r.rx

LEMMA RxSame ==
  ASSUME NEW q, NEW e, NEW r, NEW d, NEW D, RxHas(q, e, r, d, D),
         NEW t, SameChip(q, t), NEW c, SameChannel(e, c), NEW s, SameRx(r, s)
  PROVE  RxHas(t, c, s, d, D)
<1>1. RxTypes(t, c, s, d)
  BY DEF RxHas, RxTypes, SameChip, SameChannel, SameRx
<1>2. Coming(t) = Coming(q)
  BY DEF Coming, SameChip
<1>. QED BY <1>1, <1>2 DEF RxHas, SameChannel, SameRx

LEMMA RxItself ==
  ASSUME NEW q, NEW e, NEW r, NEW d, NEW D, RxHas(q, e, r, d, D)
  PROVE  SameChip(q, q) /\ SameChannel(e, e) /\ SameRx(r, r)
  BY DEF RxHas, RxTypes, SameChip, SameChannel, SameRx

WireFields == {"frames", "unsent", "stray", "due", "torn"}
DrvFields == {"rx", "tail", "kick", "reap", "packets"}
SameDue(w, v) == v = [f \in WireFields |-> v[f]] /\ v.due = w.due /\ v.frames = w.frames /\ v.torn = w.torn

\* Transmission leaves reception alone.
TxFields == {"q", "e", "r", "w", "stop"}
TxLeaves(st, s) ==
  /\ SameChip(st.q, s.q) /\ SameChannel(st.e, s.e) /\ SameRx(st.r, s.r) /\ SameDue(st.w, s.w)
  /\ s = [f \in TxFields |-> s[f]]

LEMMA TxStepLeaves ==
  ASSUME NEW h, NEW st, TxLeaves(h, st)
  PROVE  TxLeaves(h, TxStep(st))
<1>1. CASE ~st.e.tx.active \/ st.stop
  BY <1>1 DEF TxStep
<1>2. CASE ~(~st.e.tx.active \/ st.stop)
  <2>1. PICK y : y = TxStep(st)
    OBVIOUS
  <2> DEFINE i == st.e.tx.nbdp
             dd == st.r.tx[i]
             head == IF st.e.s_head = NTx THEN i ELSE st.e.s_head
             late == st.e.opt.head /\ i = head
             qq == [st.q EXCEPT !.tx_frame = @ \o dd.data]
             marked == [st.r.tx EXCEPT ![i].etxd = @ \/ ~late]
             tt == IF dd.eox THEN Flushed(qq) ELSE qq
             cc == [st.e EXCEPT !.tx_crbdp = i, !.tx_irq = TRUE,
                                !.s_head = IF dd.eox THEN NTx ELSE head,
                                !.tx.nbdp = (i + 1) % NTx,
                                !.tx.active = ~(dd.eox /\ st.e.opt.lat = 0),
                                !.hold = IF dd.eox THEN st.e.opt.lat ELSE @]
             ss == [st.r EXCEPT !.tx = IF dd.eox /\ st.e.opt.head THEN [marked EXCEPT ![head].etxd = TRUE]
                                                                  ELSE marked]
             ww == IF dd.eox THEN Sent(st.w, qq.tx_frame) ELSE st.w
  <2>2. TxStep(st) = [q |-> tt, e |-> cc, r |-> ss, w |-> ww, stop |-> dd.eox \/ st.e.opt.lat # 0]
    BY <1>2, Zenon DEF TxStep
  <2>a. \E a : qq = [st.q EXCEPT !.tx_frame = a]
    OBVIOUS
  <2>b. \E a : ss = [st.r EXCEPT !.tx = a]
    OBVIOUS
  <2>c. ww = st.w \/ \E f : ww = Sent(st.w, f)
    OBVIOUS
  <2>d. cc = [f \in EnetFields |-> cc[f]] /\ cc.rx = st.e.rx /\ cc.opt = st.e.opt
    <3>1. st.e = [f \in EnetFields |-> st.e[f]]
      BY DEF TxLeaves, SameChannel
    <3>. QED BY <3>1 DEF EnetFields
  <2>e. tt = qq \/ tt = Flushed(qq)
    OBVIOUS
  <2>. HIDE DEF i, dd, head, late, qq, marked, tt, cc, ss, ww
  <2>3. PICK q, t, c, s, w : q = qq /\ t = tt /\ c = cc /\ s = ss /\ w = ww
    OBVIOUS
  <2>4. y = [q |-> t, e |-> c, r |-> s, w |-> w, stop |-> dd.eox \/ st.e.opt.lat # 0]
    BY <2>1, <2>2, <2>3
  <2>5. y = [f \in TxFields |-> y[f]] /\ y.q = t /\ y.e = c /\ y.r = s /\ y.w = w
    BY <2>4 DEF TxFields
  <2>6. SameChip(h.q, t)
    <3>1. SameChip(h.q, q)
      BY <2>3, <2>a DEF TxLeaves, SameChip, SeeqFields
    <3>2. SameChip(h.q, Flushed(q))
      BY <3>1 DEF Flushed, SameChip, SeeqFields
    <3>. QED BY <2>3, <2>e, <3>1, <3>2
  <2>7. SameChannel(h.e, c)
    BY <2>3, <2>d DEF TxLeaves, SameChannel
  <2>8. SameRx(h.r, s)
    BY <2>3, <2>b DEF TxLeaves, SameRx
  <2>9. SameDue(h.w, w)
    <3>1. SameDue(h.w, st.w)
      BY DEF TxLeaves
    <3>2. ASSUME NEW f PROVE SameDue(h.w, Sent(st.w, f))
      <4>1. \E a, b : Sent(st.w, f) = st.w \/ Sent(st.w, f) = [st.w EXCEPT !.unsent = a]
                      \/ Sent(st.w, f) = [st.w EXCEPT !.stray = b]
        BY DEF Sent
      <4>. QED BY <3>1, <4>1 DEF SameDue, WireFields
    <3>. QED BY <2>3, <2>c, <3>1, <3>2
  <2>. QED BY <2>1, <2>5, <2>6, <2>7, <2>8, <2>9 DEF TxLeaves
<1>. QED BY <1>1, <1>2

LEMMA TxWalkLeaves ==
  ASSUME NEW st, TxLeaves(st, st)
  PROVE  TxLeaves(st, TxWalk(st))
<1>1. PICK h, q : h = [st EXCEPT !.stop = FALSE] /\ q = [i \in 1 .. NTx |-> i]
  OBVIOUS
<1>2. PICK n \in Nat : n = NTx /\ DOMAIN q = 1 .. n
  BY <1>1, EnetAssumption
<1>3. PICK w : TxWalked(w, h, q, n)
  BY <1>2, TxWalkIs
<1>4. /\ w[0] = h
      /\ \A i \in 0 .. n - 1 : w[i + 1] = Once(TxStep, w[i])
      /\ FoldLeft(LAMBDA s, i : Once(TxStep, s), h, q) = w[n]
  BY <1>3 DEF TxWalked
<1> DEFINE U == {i \in Nat : i <= n => TxLeaves(st, w[i])}
<1>5. 0 \in U
  <2>1. h = [f \in TxFields |-> h[f]] /\ h.q = st.q /\ h.e = st.e /\ h.r = st.r /\ h.w = st.w
    BY <1>1 DEF TxLeaves, TxFields
  <2>2. TxLeaves(st, h)
    BY <2>1 DEF TxLeaves
  <2>. QED BY <2>2, <1>4
<1>6. ASSUME NEW i \in Nat, i \in U PROVE i + 1 \in U
  <2> SUFFICES ASSUME i + 1 <= n PROVE TxLeaves(st, w[i + 1])
    OBVIOUS
  <2>1. i \in 0 .. n - 1 /\ TxLeaves(st, w[i])
    BY <1>6
  <2>2. w[i + 1] = TxStep(w[i])
    BY <2>1, <1>4, OnceIs
  <2>. QED BY <2>1, <2>2, TxStepLeaves
<1> HIDE DEF U
<1>7. Nat \subseteq U
  BY <1>5, <1>6, NatSetInduction
<1>8. TxLeaves(st, w[n])
  BY <1>7 DEF U
<1>9. TxWalk(st) = w[n]
  BY <1>1, <1>4 DEF TxWalk
<1>. QED BY <1>8, <1>9
-----------------------------------------------------------------------------
(* The actions of reception                                                *)

RxInv ==
  /\ wire = [f \in WireFields |-> wire[f]] /\ wire.frames \in Nat
  /\ drv = [f \in DrvFields |-> drv[f]]
  /\ RxHas(seeq, enet, rings, drv.rx, wire.due)

\* Nothing is received and every descriptor is the HPC's.
LEMMA RxEmpty ==
  ASSUME NEW q, NEW e, NEW r, RxTypes(q, e, r, 0), ~e.rx.active, r.rx = RxOwned,
         q.rx_cur = <<>>, q.rx_queue = <<>>
  PROVE  RxHas(q, e, r, 0, <<>>)
<1>1. PICK F \in Seq(Seq(EthByte)) : F = <<>> /\ Len(F) = 0
  <2>1. <<>> \in Seq(Seq(EthByte)) /\ Len(<<>>) = 0
    OBVIOUS
  <2>. QED BY <2>1
<1>2. 0 \in 0 .. NRx - 1 /\ NRx \in Nat
  BY EnetAssumption
<1>3. \A k \in 0 .. NRx - 1 : RxOwned[RxAt(0, k)].own = TRUE
  <2> SUFFICES ASSUME NEW k \in 0 .. NRx - 1 PROVE RxOwned[RxAt(0, k)].own = TRUE
    OBVIOUS
  <2>1. k \in 0 .. NRx
    BY <1>2
  <2>2. RxAt(0, k) \in 0 .. NRx - 1
    BY <2>1, <1>2, RxPlaces
  <2>. QED BY <2>2 DEF RxOwned
<1>4. Held(F, e.rx.active, e.rx.nbdp, r.rx, 0)
  <2>1. \A k \in 0 .. NRx - 1 : ~(k < Len(F))
    BY <1>1
  <2>2. Len(F) <= NRx
    BY <1>1, <1>2
  <2>. QED BY <2>1, <2>2, <1>1, <1>3 DEF Held
<1>5. <<>> = Cat(FlattenSeq(F), Coming(q))
  <2>1. Cat(<<>>, <<>>) = <<>>
    BY DEF Cat
  <2>. QED BY <2>1, <1>1, FlattenNone, AcceptedNone DEF Coming
<1>. QED BY <1>4, <1>5 DEF RxHas

LEMMA RxInitially == EnetInit => RxInv
<1> SUFFICES ASSUME EnetInit PROVE RxInv
  OBVIOUS
<1>1. 0 \in 0 .. NRx - 1
  BY EnetAssumption
<1>2. wire = [f \in WireFields |-> wire[f]] /\ wire.frames \in Nat /\ wire.due = <<>>
  BY DEF EnetInit, WireFields
<1>3. drv = [f \in DrvFields |-> drv[f]] /\ drv.rx = 0
  BY DEF EnetInit, DrvFields
<1>4. /\ seeq = [f \in SeeqFields |-> seeq[f]]
      /\ seeq.tap = <<>> /\ seeq.rx_queue = <<>> /\ seeq.rx_cur = <<>>
  BY DEF EnetInit, SeeqFields
<1>5. /\ enet = [f \in EnetFields |-> enet[f]]
      /\ enet.rx = [active |-> FALSE, nbdp |-> 0]
  BY DEF EnetInit, EnetFields
<1>6. rings = [f \in {"rx", "tx"} |-> rings[f]] /\ rings.rx = RxOwned
  BY DEF EnetInit
<1>7. RxOwned = [i \in 0 .. NRx - 1 |-> RxOwned[i]]
  BY DEF RxOwned
<1>8. <<>> \in Seq(EthFrame) /\ <<>> \in Seq(EthByte)
  OBVIOUS
<1>9. enet.rx = [f \in {"active", "nbdp"} |-> enet.rx[f]] /\ enet.rx.active = FALSE
  BY <1>5
<1>10. RxTypes(seeq, enet, rings, 0)
  BY <1>1, <1>4, <1>5, <1>6, <1>7, <1>8, <1>9 DEF RxTypes
<1>. QED BY <1>2, <1>3, <1>4, <1>6, <1>9, <1>10, RxEmpty DEF RxInv

\* Everything else there is may change.
LEMMA RxUntouched ==
  ASSUME RxInv, SameChip(seeq, seeq'), SameChannel(enet, enet'), SameRx(rings, rings'),
         SameDue(wire, wire'), drv' = [f \in DrvFields |-> drv'[f]], drv'.rx = drv.rx
  PROVE  RxInv'
<1>1. RxHas(seeq', enet', rings', drv.rx, wire.due)
  BY RxSame DEF RxInv
<1>. QED BY <1>1 DEF RxInv, SameDue

LEMMA RxStays ==
  ASSUME RxInv
  PROVE  /\ SameChip(seeq, seeq) /\ SameChannel(enet, enet) /\ SameRx(rings, rings)
         /\ SameDue(wire, wire) /\ drv = [f \in DrvFields |-> drv[f]]
  BY RxItself DEF RxInv, SameDue

LEMMA NetSendKeeps == ASSUME RxInv, NEW f \in Frames, NetSend(f) PROVE RxInv'
<1>1. PICK t, g : t = seeq' /\ g = [id |-> wire.frames + 1, dst |-> f.dst, len |-> f.len]
  OBVIOUS
<1>2. g \in EthFrame
  <2>1. f.dst \in Destinations /\ f.len \in Nat
    BY EnetAssumption DEF Destinations
  <2>2. wire.frames + 1 \in Nat
    BY DEF RxInv
  <2>. QED BY <1>1, <2>1, <2>2 DEF EthFrame
<1>3. RxTypes(seeq, enet, rings, drv.rx)
  BY DEF RxInv, RxHas
<1>4. /\ t = [h \in SeeqFields |-> t[h]] /\ t.tap = Append(seeq.tap, g)
      /\ t.rx_queue = seeq.rx_queue /\ t.rx_cur = seeq.rx_cur
  BY <1>1, <1>3 DEF NetSend, RxTypes, SeeqFields
<1>5. t.tap \in Seq(EthFrame)
  <2>1. PICK a \in Seq(EthFrame) : a = seeq.tap
    BY <1>3 DEF RxTypes
  <2>2. Append(a, g) \in Seq(EthFrame)
    BY <1>2
  <2>. QED BY <2>1, <2>2, <1>4
<1>6. RxTypes(t, enet, rings, drv.rx) /\ Coming(t) = Coming(seeq)
  BY <1>3, <1>4, <1>5 DEF RxTypes, Coming
<1>7. RxHas(t, enet, rings, drv.rx, wire.due)
  BY <1>6 DEF RxInv, RxHas
<1>8. wire' = [h \in WireFields |-> wire'[h]] /\ wire'.frames \in Nat /\ wire'.due = wire.due
  BY DEF RxInv, NetSend, WireFields
<1>. QED BY <1>1, <1>7, <1>8 DEF RxInv, NetSend

\* What is left without the first part.
LEMMA WithoutFirst ==
  ASSUME NEW S, NEW A \in Seq(S), NEW B \in Seq(S), NEW D, D = Cat(A, B)
  PROVE  SubSeq(D, Len(A) + 1, Len(D)) = B
<1>1. PICK E \in Seq(S) : E = D
  BY CatType
<1>2. PICK a \in Nat, b \in Nat : a = Len(A) /\ b = Len(B)
  OBVIOUS
<1>3. Len(E) = a + b /\ \A i \in 1 .. a + b : E[i] = IF i <= a THEN A[i] ELSE B[i - a]
  BY <1>1, <1>2 DEF Cat
<1>4. PICK T \in Seq(S) : T = SubSeq(E, a + 1, a + b) /\ \A i \in 1 .. b : T[i] = E[i + a]
  <2>1. SubSeq(E, a + 1, a + b) \in Seq(S)
    BY <1>3
  <2>2. ASSUME NEW i \in 1 .. b PROVE SubSeq(E, a + 1, a + b)[i] = E[i + a]
    OBVIOUS
  <2>. QED BY <2>1, <2>2
<1>5. Len(T) = b
  BY <1>3, <1>4
<1>6. \A i \in 1 .. b : T[i] = B[i]
  <2> SUFFICES ASSUME NEW i \in 1 .. b PROVE T[i] = B[i]
    OBVIOUS
  <2>1. T[i] = E[i + a]
    BY <1>4
  <2>2. i + a \in 1 .. a + b /\ ~(i + a <= a) /\ (i + a) - a = i
    OBVIOUS
  <2>. QED BY <2>1, <2>2, <1>3
<1>7. T = B
  BY <1>2, <1>5, <1>6, SeqEqual
<1>. QED BY <1>1, <1>2, <1>3, <1>4, <1>7

LEMMA WantedType == \A s \in Seq(EthFrame) : Wanted(s) \in Seq(EthFrame)
<1> SUFFICES ASSUME NEW s \in Seq(EthFrame) PROVE Wanted(s) \in Seq(EthFrame)
  OBVIOUS
<1>1. PICK n \in Nat : DOMAIN s = 1 .. n /\ \A i \in 1 .. n : s[i] \in EthFrame
  OBVIOUS
<1>2. PICK g : g = [i \in DOMAIN s |-> IF s[i].len >= MinFrame /\ address_filter(s[i]) THEN <<s[i]>> ELSE <<>>]
  OBVIOUS
<1>3. \A i \in 1 .. n : g[i] \in Seq(EthFrame)
  <2> SUFFICES ASSUME NEW i \in 1 .. n PROVE g[i] \in Seq(EthFrame)
    OBVIOUS
  <2>1. g[i] = <<s[i]>> \/ g[i] = <<>>
    BY <1>1, <1>2
  <2>2. <<s[i]>> \in Seq(EthFrame) /\ <<>> \in Seq(EthFrame)
    BY <1>1
  <2>. QED BY <2>1, <2>2
<1>4. g = [i \in 1 .. n |-> g[i]]
  BY <1>1, <1>2
<1>5. g \in Seq(Seq(EthFrame))
  BY <1>3, <1>4
<1>6. FlattenSeq(g) \in Seq(EthFrame)
  BY <1>5, FlattenType
<1>. QED BY <1>2, <1>6 DEF Wanted

\* The poll takes the frames that are wanted off the tap.
LEMMA TapKeeps ==
  ASSUME NEW q, NEW e, NEW r, NEW d, NEW D, RxHas(q, e, r, d, D)
  PROVE  /\ RxHas(PollTap(q), e, r, d, Cat(D, AcceptedBytes(Wanted(q.tap))))
         /\ LET p == PollTap(q).rx_queue IN SubSeq(p, Len(q.rx_queue) + 1, Len(p)) = Wanted(q.tap)
<1>1. PICK Q \in Seq(EthFrame), W \in Seq(EthFrame) : Q = q.rx_queue /\ W = Wanted(q.tap)
  BY WantedType DEF RxHas, RxTypes
<1>2. PICK t : t = PollTap(q)
  OBVIOUS
<1>3. /\ t = [f \in SeeqFields |-> t[f]] /\ t.tap = <<>> /\ t.rx_queue = Cat(Q, W) /\ t.rx_cur = q.rx_cur
  <2>1. q = [f \in SeeqFields |-> q[f]]
    BY DEF RxHas, RxTypes
  <2>. QED BY <2>1, <1>1, <1>2 DEF PollTap, SeeqFields, Cat
<1>4. PICK P \in Seq(EthFrame) : P = Cat(Q, W)
  BY CatType
<1>5. SubSeq(P, Len(Q) + 1, Len(P)) = W
  BY <1>4, WithoutFirst
<1>6. AcceptedBytes(P) = Cat(AcceptedBytes(Q), AcceptedBytes(W))
  BY <1>4, AcceptedCat DEF Cat
<1>7. RxTypes(t, e, r, d)
  <2>1. <<>> \in Seq(EthFrame)
    OBVIOUS
  <2>. QED BY <2>1, <1>3, <1>4 DEF RxHas, RxTypes
<1>8. PICK F \in Seq(Seq(EthByte)) :
        Held(F, e.rx.active, e.rx.nbdp, r.rx, d) /\ D = Cat(FlattenSeq(F), Coming(q))
  BY DEF RxHas
<1>9. PICK f \in Seq(EthByte), c \in Seq(EthByte), a \in Seq(EthByte), w \in Seq(EthByte) :
        f = FlattenSeq(F) /\ c = q.rx_cur /\ a = AcceptedBytes(Q) /\ w = AcceptedBytes(W)
  BY FlattenType, AcceptedType DEF RxHas, RxTypes
<1>10. Coming(q) = Cat(c, a) /\ Coming(t) = Cat(c, Cat(a, w))
  BY <1>1, <1>3, <1>4, <1>6, <1>9 DEF Coming
<1>11. Cat(Cat(f, Cat(c, a)), w) = Cat(f, Cat(c, Cat(a, w)))
  <2>1. Cat(c, a) \in Seq(EthByte)
    BY CatType
  <2>2. Cat(Cat(f, Cat(c, a)), w) = Cat(f, Cat(Cat(c, a), w))
    BY <2>1, CatAssoc
  <2>3. Cat(Cat(c, a), w) = Cat(c, Cat(a, w))
    BY CatAssoc
  <2>. QED BY <2>2, <2>3
<1>12. Cat(D, w) = Cat(FlattenSeq(F), Coming(t))
  BY <1>8, <1>9, <1>10, <1>11
<1>13. RxHas(t, e, r, d, Cat(D, w))
  BY <1>7, <1>8, <1>12 DEF RxHas
<1>. QED BY <1>1, <1>2, <1>3, <1>4, <1>5, <1>9, <1>13

LEMMA TxPollLeaves ==
  ASSUME NEW st, TxLeaves(st, st)
  PROVE  TxLeaves(st, TxPoll(st))
<1>1. CASE st.e.tx.active /\ st.e.hold # 0
  <2>1. PICK t : t = [st EXCEPT !.e.hold = @ - 1, !.e.tx.active = st.e.hold # 1]
    OBVIOUS
  <2>2. TxPoll(st) = t
    BY <1>1, <2>1 DEF TxPoll
  <2>3. t = [f \in TxFields |-> t[f]] /\ t.q = st.q /\ t.r = st.r /\ t.w = st.w
    BY <2>1 DEF TxLeaves, TxFields
  <2>4. t.e = [f \in EnetFields |-> t.e[f]] /\ t.e.rx = st.e.rx /\ t.e.opt = st.e.opt
    <3>1. st = [f \in TxFields |-> st[f]] /\ st.e = [f \in EnetFields |-> st.e[f]]
      BY DEF TxLeaves, SameChannel
    <3>. QED BY <3>1, <2>1 DEF TxFields, EnetFields
  <2>5. SameChannel(st.e, t.e)
    BY <2>4 DEF SameChannel
  <2>. QED BY <2>2, <2>3, <2>5 DEF TxLeaves
<1>2. CASE ~(st.e.tx.active /\ st.e.hold # 0)
  <2>1. TxPoll(st) = TxWalk(st) \/ TxPoll(st) = st
    BY <1>2 DEF TxPoll
  <2>. QED BY <2>1, TxWalkLeaves
<1>. QED BY <1>1, <1>2

LEMMA PollKeeps == ASSUME RxInv, enet_poll PROVE RxInv'
<1>1. PICK q, rx, tx :
        /\ q = PollTap(seeq)
        /\ rx = RxWalk([q |-> q, e |-> enet, r |-> rings, stop |-> FALSE])
        /\ tx = TxPoll([q |-> rx.q, e |-> rx.e, r |-> rx.r, w |-> wire, stop |-> FALSE])
        /\ seeq' = tx.q /\ enet' = tx.e /\ rings' = tx.r /\ drv' = drv
        /\ wire' = [tx.w EXCEPT !.due = @ \o AcceptedBytes(SubSeq(q.rx_queue, Len(seeq.rx_queue) + 1, Len(q.rx_queue)))]
  BY Zenon DEF enet_poll
<1>2. PICK D, d : D = Cat(wire.due, AcceptedBytes(Wanted(seeq.tap))) /\ d = drv.rx
  OBVIOUS
<1>3. /\ RxHas(q, enet, rings, d, D)
      /\ SubSeq(q.rx_queue, Len(seeq.rx_queue) + 1, Len(q.rx_queue)) = Wanted(seeq.tap)
  BY <1>1, <1>2, TapKeeps DEF RxInv
<1>4. PICK h : h = [q |-> q, e |-> enet, r |-> rings, stop |-> FALSE]
  OBVIOUS
<1>5. RxWalker(h, d, D)
  <2>1. h = [f \in WalkFields |-> h[f]] /\ h.stop = FALSE /\ h.q = q /\ h.e = enet /\ h.r = rings
    BY <1>4 DEF WalkFields
  <2>. QED BY <2>1, <1>3 DEF RxWalker
<1>6. RxHas(rx.q, rx.e, rx.r, d, D)
  BY <1>1, <1>4, <1>5, RxWalkKeeps DEF RxWalker
<1>7. PICK g : g = [q |-> rx.q, e |-> rx.e, r |-> rx.r, w |-> wire, stop |-> FALSE]
  OBVIOUS
<1>8. g = [f \in TxFields |-> g[f]] /\ g.q = rx.q /\ g.e = rx.e /\ g.r = rx.r /\ g.w = wire
  BY <1>7 DEF TxFields
<1>9. TxLeaves(g, g)
  BY <1>6, <1>8, RxItself, RxStays DEF TxLeaves
<1>10. TxLeaves(g, tx)
  BY <1>1, <1>7, <1>9, TxPollLeaves
<1>11. RxHas(tx.q, tx.e, tx.r, d, D)
  BY <1>6, <1>8, <1>10, RxSame DEF TxLeaves
<1>12. PICK v : v = tx.w /\ v = [f \in WireFields |-> v[f]] /\ v.due = wire.due /\ v.frames = wire.frames
  BY <1>8, <1>10 DEF TxLeaves, SameDue
<1>13. wire' = [v EXCEPT !.due = Cat(@, AcceptedBytes(Wanted(seeq.tap)))]
  BY <1>1, <1>3, <1>12 DEF Cat
<1>14. wire' = [f \in WireFields |-> wire'[f]] /\ wire'.frames = wire.frames /\ wire'.due = D
  BY <1>2, <1>12, <1>13 DEF WireFields
<1>. QED BY <1>1, <1>2, <1>11, <1>14 DEF RxInv

LEMMA ArmKeeps == ASSUME RxInv, ArmRx PROVE RxInv'
<1>1. PICK c : c = [enet EXCEPT !.rx = [active |-> TRUE, nbdp |-> drv.rx]]
  OBVIOUS
<1>2. PICK h : h = [q |-> seeq, r |-> rings, stop |-> FALSE, e |-> c]
  OBVIOUS
<1>3. ~enet.rx.active /\ wire' = wire /\ drv' = drv
      /\ seeq' = RxWalk(h).q /\ enet' = RxWalk(h).e /\ rings' = RxWalk(h).r
  BY <1>1, <1>2 DEF ArmRx
<1>4. PICK d, D : d = drv.rx /\ D = wire.due /\ RxHas(seeq, enet, rings, d, D)
  BY DEF RxInv
<1>5. /\ c = [f \in EnetFields |-> c[f]]
      /\ c.rx = [f \in {"active", "nbdp"} |-> c.rx[f]]
      /\ c.rx.active = TRUE /\ c.rx.nbdp = d
  BY <1>1, <1>4 DEF RxHas, RxTypes, EnetFields
<1>6. PICK F \in Seq(Seq(EthByte)) :
        Held(F, enet.rx.active, enet.rx.nbdp, rings.rx, d) /\ D = Cat(FlattenSeq(F), Coming(seeq))
  BY <1>4 DEF RxHas
<1>7. Held(F, c.rx.active, c.rx.nbdp, rings.rx, d)
  <2>1. F = <<>>
    BY <1>3, <1>6 DEF Held
  <2>2. Len(F) = 0
    BY <2>1
  <2>3. RxAt(d, 0) = d
    BY <1>4, RxPlaces DEF RxHas, RxTypes
  <2>. QED BY <1>5, <1>6, <2>2, <2>3 DEF Held
<1>8. RxHas(seeq, c, rings, d, D)
  <2>1. RxTypes(seeq, c, rings, d)
    BY <1>4, <1>5 DEF RxHas, RxTypes
  <2>. QED BY <2>1, <1>6, <1>7 DEF RxHas
<1>9. RxWalker(h, d, D)
  <2>1. h = [f \in WalkFields |-> h[f]] /\ h.stop = FALSE /\ h.q = seeq /\ h.e = c /\ h.r = rings
    BY <1>2 DEF WalkFields
  <2>. QED BY <2>1, <1>8 DEF RxWalker
<1>10. RxHas(seeq', enet', rings', d, D)
  BY <1>3, <1>9, RxWalkKeeps DEF RxWalker
<1>. QED BY <1>3, <1>4, <1>10 DEF RxInv

\* The oldest filled descriptor is given back.
LEMMA HeldLess ==
  ASSUME NEW F \in Seq(Seq(EthByte)), NEW active, NEW i, NEW rx, NEW d \in 0 .. NRx - 1,
         rx = [k \in 0 .. NRx - 1 |-> rx[k]],
         Held(F, active, i, rx, d), ~rx[d].own
  PROVE  /\ F # <<>> /\ rx[d].data = Head(F)
         /\ Held(Tail(F), active, i, [rx EXCEPT ![d] = [own |-> TRUE, data |-> <<>>]], RxAt(d, 1))
<1>1. PICK m \in Nat : m = Len(F)
  OBVIOUS
<1>2. NRx \in Nat \ {0} /\ RxAt(d, 0) = d /\ RxAt(d, NRx) = d /\ m <= NRx
  BY <1>1, RxPlaces DEF Held
<1>3. 0 < m
  <2> SUFFICES ASSUME m = 0 PROVE FALSE
    OBVIOUS
  <2>1. 0 \in 0 .. NRx - 1 /\ ~(0 < Len(F))
    BY <1>1, <1>2
  <2>2. rx[RxAt(d, 0)].own = TRUE
    BY <2>1 DEF Held
  <2>. QED BY <2>2, <1>2
<1>4. rx[d] = [own |-> FALSE, data |-> F[1]]
  <2>1. 0 \in 0 .. NRx - 1 /\ 0 < Len(F)
    BY <1>1, <1>2, <1>3
  <2>2. rx[RxAt(d, 0)] = [own |-> FALSE, data |-> F[0 + 1]]
    BY <2>1 DEF Held
  <2>. QED BY <2>2, <1>2
<1>5. PICK G, x : G = Tail(F) /\ x = [rx EXCEPT ![d] = [own |-> TRUE, data |-> <<>>]]
  OBVIOUS
<1>6. Len(G) = m - 1 /\ \A k \in 1 .. m - 1 : G[k] = F[k + 1]
  BY <1>1, <1>3, <1>5
<1>7. x[d] = [own |-> TRUE, data |-> <<>>] /\ \A k \in 0 .. NRx - 1 : k # d => x[k] = rx[k]
  BY <1>5
<1>8. ASSUME NEW k \in 0 .. NRx - 1
      PROVE  IF k < Len(G) THEN x[RxAt(RxAt(d, 1), k)] = [own |-> FALSE, data |-> G[k + 1]]
                           ELSE x[RxAt(RxAt(d, 1), k)].own = TRUE
  <2>1. RxAt(RxAt(d, 1), k) = RxAt(d, k + 1)
    BY RxPlaces
  <2>2. CASE k + 1 = NRx
    <3>1. ~(k < Len(G))
      BY <2>2, <1>2, <1>6
    <3>. QED BY <3>1, <2>1, <2>2, <1>2, <1>7
  <2>3. CASE k + 1 # NRx
    <3>1. PICK l \in 0 .. NRx - 1 : l = k + 1 /\ l # 0
      BY <2>3, <1>2
    <3>2. RxAt(d, l) # d /\ RxAt(d, l) \in 0 .. NRx - 1
      <4>1. \A a, b \in 0 .. NRx - 1 : RxAt(d, a) = RxAt(d, b) => a = b
        BY RxPlaces
      <4>2. l \in 0 .. NRx /\ 0 \in 0 .. NRx - 1
        BY <1>2
      <4>3. RxAt(d, l) \in 0 .. NRx - 1
        BY <4>2, RxPlaces
      <4>. QED BY <4>1, <4>2, <4>3, <3>1, <1>2
    <3>3. x[RxAt(d, l)] = rx[RxAt(d, l)]
      BY <3>2, <1>7
    <3>4. IF l < m THEN rx[RxAt(d, l)] = [own |-> FALSE, data |-> F[l + 1]] ELSE rx[RxAt(d, l)].own = TRUE
      BY <1>1 DEF Held
    <3>5. (k < Len(G)) <=> (l < m)
      BY <3>1, <1>6
    <3>6. l < m => G[k + 1] = F[l + 1]
      <4>1. l < m => k + 1 \in 1 .. m - 1
        BY <3>1
      <4>. QED BY <4>1, <3>1, <1>6
    <3>. QED BY <2>1, <3>1, <3>3, <3>4, <3>5, <3>6
  <2>. QED BY <2>2, <2>3
<1>9. active => i = RxAt(RxAt(d, 1), Len(G))
  <2>1. active => i = RxAt(d, m)
    BY <1>1 DEF Held
  <2>2. m - 1 \in 0 .. NRx - 1 /\ (m - 1) + 1 = m
    BY <1>2, <1>3
  <2>3. RxAt(RxAt(d, 1), m - 1) = RxAt(d, (m - 1) + 1)
    BY <2>2, RxPlaces
  <2>. QED BY <2>1, <2>2, <2>3, <1>6
<1>10. ~active => G = <<>>
  <2>1. ~active => F = <<>>
    BY DEF Held
  <2>. QED BY <2>1, <1>1, <1>3
<1>11. Len(G) <= NRx
  BY <1>2, <1>6
<1>12. Held(G, active, i, x, RxAt(d, 1))
  BY <1>8, <1>9, <1>10, <1>11 DEF Held
<1>. QED BY <1>1, <1>3, <1>4, <1>5, <1>12

LEMMA TakeKeeps == ASSUME RxInv, TakeRx PROVE RxInv'
<1>1. PICK d, D, rx : d = drv.rx /\ D = wire.due /\ rx = rings.rx
  OBVIOUS
<1>2. RxHas(seeq, enet, rings, d, D) /\ d \in 0 .. NRx - 1 /\ rx = [k \in 0 .. NRx - 1 |-> rx[k]]
      /\ rings = [f \in {"rx", "tx"} |-> rings[f]]
  BY <1>1 DEF RxInv, RxHas, RxTypes
<1>3. PICK F \in Seq(Seq(EthByte)) :
        Held(F, enet.rx.active, enet.rx.nbdp, rx, d) /\ D = Cat(FlattenSeq(F), Coming(seeq))
  BY <1>1, <1>2 DEF RxHas
<1>4. ~rx[d].own
  BY <1>1 DEF TakeRx
<1>5. PICK x : x = [rx EXCEPT ![d] = [own |-> TRUE, data |-> <<>>]]
  OBVIOUS
<1>6. F # <<>> /\ rx[d].data = Head(F) /\ Held(Tail(F), enet.rx.active, enet.rx.nbdp, x, RxAt(d, 1))
  <2>1. PICK a, i : a = enet.rx.active /\ i = enet.rx.nbdp
    OBVIOUS
  <2>2. Held(F, a, i, rx, d)
    BY <1>3, <2>1
  <2>3. F # <<>> /\ rx[d].data = Head(F)
        /\ Held(Tail(F), a, i, [rx EXCEPT ![d] = [own |-> TRUE, data |-> <<>>]], RxAt(d, 1))
    BY <2>2, <1>2, <1>4, HeldLess
  <2>. QED BY <2>1, <2>3, <1>5
<1>7. PICK A \in Seq(EthByte), G \in Seq(Seq(EthByte)) :
        A = Head(F) /\ G = Tail(F) /\ FlattenSeq(F) = Cat(A, FlattenSeq(G))
  <2>1. Head(F) \in Seq(EthByte) /\ Tail(F) \in Seq(Seq(EthByte))
    BY <1>6
  <2>. QED BY <2>1, <1>6, FlattenHead
<1>8. PICK g \in Seq(EthByte), c \in Seq(EthByte) : g = FlattenSeq(G) /\ c = Coming(seeq)
  <2>1. seeq.rx_cur \in Seq(EthByte) /\ AcceptedBytes(seeq.rx_queue) \in Seq(EthByte)
    BY <1>2, AcceptedType DEF RxHas, RxTypes
  <2>. QED BY <2>1, CatType, FlattenType DEF Coming
<1>9. SubSeq(D, Len(A) + 1, Len(D)) = Cat(g, c)
  <2>1. D = Cat(A, Cat(g, c))
    BY <1>3, <1>7, <1>8, CatAssoc
  <2>2. Cat(g, c) \in Seq(EthByte)
    BY CatType
  <2>. QED BY <2>1, <2>2, WithoutFirst
<1>10. /\ wire' = [f \in WireFields |-> wire'[f]] /\ wire'.frames \in Nat
       /\ wire'.due = Cat(g, c)
  <2>1. wire' = [wire EXCEPT !.due = SubSeq(@, Len(rings.rx[drv.rx].data) + 1, Len(@))]
    BY DEF TakeRx
  <2>2. wire = [f \in WireFields |-> wire[f]] /\ wire.frames \in Nat
    BY DEF RxInv
  <2>3. wire' = [wire EXCEPT !.due = Cat(g, c)]
    BY <2>1, <1>1, <1>6, <1>7, <1>9
  <2>. QED BY <2>2, <2>3 DEF WireFields
<1>11. rings' = [f \in {"rx", "tx"} |-> rings'[f]] /\ rings'.rx = x
  <2>1. rings' = [rings EXCEPT !.rx[d] = [own |-> TRUE, data |-> <<>>]]
    BY <1>1 DEF TakeRx
  <2>2. rings' = [rings EXCEPT !.rx = x]
    BY <2>1, <1>1, <1>5
  <2>. QED BY <2>2, <1>2
<1>12. drv' = [f \in DrvFields |-> drv'[f]] /\ drv'.rx = RxAt(d, 1)
  BY <1>1 DEF RxInv, TakeRx, DrvFields, RxAt
<1>13. x = [k \in 0 .. NRx - 1 |-> x[k]] /\ RxAt(d, 1) \in 0 .. NRx - 1
  <2>1. 1 \in 0 .. NRx
    BY EnetAssumption
  <2>2. RxAt(d, 1) \in 0 .. NRx - 1
    BY <2>1, <1>2, RxPlaces
  <2>. QED BY <2>2, <1>2, <1>5
<1>14. RxTypes(seeq, enet, rings', RxAt(d, 1))
  BY <1>2, <1>11, <1>13 DEF RxHas, RxTypes
<1>15. RxHas(seeq, enet, rings', RxAt(d, 1), Cat(g, c))
  BY <1>6, <1>7, <1>8, <1>11, <1>14 DEF RxHas
<1>. QED BY <1>10, <1>12, <1>15 DEF RxInv, TakeRx

LEMMA ResetKeeps == ASSUME RxInv, ResetEnet PROVE RxInv'
<1>1. PICK q, e, r : q = seeq' /\ e = enet' /\ r = rings'
  OBVIOUS
<1>2. RxTypes(seeq, enet, rings, drv.rx)
  BY DEF RxInv, RxHas
<1>3. /\ q = [f \in SeeqFields |-> q[f]]
      /\ q.tap = seeq.tap /\ q.rx_queue = <<>> /\ q.rx_cur = <<>>
  <2>1. seeq = [f \in SeeqFields |-> seeq[f]]
    BY <1>2 DEF RxTypes
  <2>. QED BY <2>1, <1>1 DEF ResetEnet, SeeqReset, SeeqFields
<1>4. e = [f \in EnetFields |-> e[f]] /\ e.rx = [f \in {"active", "nbdp"} |-> e.rx[f]] /\ e.rx.active = FALSE
  <2>1. enet = [f \in EnetFields |-> enet[f]] /\ enet.rx = [f \in {"active", "nbdp"} |-> enet.rx[f]]
    BY <1>2 DEF RxTypes
  <2>. QED BY <2>1, <1>1 DEF ResetEnet, EnetFields
<1>5. r = [f \in {"rx", "tx"} |-> r[f]] /\ r.rx = RxOwned /\ RxOwned = [i \in 0 .. NRx - 1 |-> RxOwned[i]]
  BY <1>1 DEF ResetEnet, RxOwned
<1>6. RxTypes(q, e, r, 0)
  <2>1. <<>> \in Seq(EthFrame) /\ <<>> \in Seq(EthByte) /\ 0 \in 0 .. NRx - 1
    BY EnetAssumption
  <2>. QED BY <2>1, <1>2, <1>3, <1>4, <1>5 DEF RxTypes
<1>7. RxHas(q, e, r, 0, <<>>)
  BY <1>3, <1>4, <1>5, <1>6, RxEmpty
<1>8. wire' = [f \in WireFields |-> wire'[f]] /\ wire'.frames \in Nat /\ wire'.due = <<>>
  BY DEF RxInv, ResetEnet, WireFields
<1>9. drv' = [f \in DrvFields |-> drv'[f]] /\ drv'.rx = 0
  BY DEF RxInv, ResetEnet, DrvFields
<1>. QED BY <1>1, <1>7, <1>8, <1>9 DEF RxInv

LEMMA KickKeeps == ASSUME RxInv, KickTx PROVE RxInv'
<1>1. PICK c : c = [TxCtrl(enet, TRUE) EXCEPT !.tx.nbdp = Head(drv.kick).head]
  OBVIOUS
<1>2. SameChannel(enet, c)
  <2>1. enet = [f \in EnetFields |-> enet[f]]
    BY DEF RxInv, RxHas, RxTypes
  <2>. QED BY <2>1, <1>1 DEF TxCtrl, SameChannel, EnetFields
<1>3. PICK h : h = [q |-> seeq, e |-> c, r |-> rings, w |-> wire, stop |-> FALSE]
  OBVIOUS
<1>4. seeq' = TxWalk(h).q /\ enet' = TxWalk(h).e /\ rings' = TxWalk(h).r /\ wire' = TxWalk(h).w
  <2>1. ApplyTx(seeq, c)
    BY <1>1 DEF KickTx
  <2>. QED BY <2>1, <1>3 DEF ApplyTx
<1>5. h = [f \in TxFields |-> h[f]] /\ h.q = seeq /\ h.e = c /\ h.r = rings /\ h.w = wire
  BY <1>3 DEF TxFields
<1>6. SameChannel(c, c)
  BY <1>2 DEF SameChannel
<1>7. TxLeaves(h, TxWalk(h))
  BY <1>5, <1>6, RxStays, TxWalkLeaves DEF TxLeaves
<1>8. SameChip(seeq, seeq') /\ SameChannel(c, enet') /\ SameRx(rings, rings') /\ SameDue(wire, wire')
  BY <1>4, <1>5, <1>7 DEF TxLeaves
<1>9. SameChannel(enet, enet')
  BY <1>2, <1>8 DEF SameChannel
<1>10. drv' = [f \in DrvFields |-> drv'[f]] /\ drv'.rx = drv.rx
  BY DEF RxInv, KickTx, DrvFields
<1>. QED BY <1>8, <1>9, <1>10, RxUntouched

LEMMA QueueKeeps == ASSUME RxInv, NEW shape, QueueTx(shape) PROVE RxInv'
<1>1. \E a : rings' = [rings EXCEPT !.tx = a]
  BY DEF QueueTx
<1>2. \E a, b, c : drv' = [drv EXCEPT !.packets = a, !.tail = b, !.kick = c]
  BY DEF QueueTx
<1>3. \E a : wire' = [wire EXCEPT !.unsent = a]
  BY DEF QueueTx
<1>4. SameRx(rings, rings')
  BY <1>1, RxStays DEF SameRx
<1>5. drv' = [f \in DrvFields |-> drv'[f]] /\ drv'.rx = drv.rx
  BY <1>2 DEF RxInv, DrvFields
<1>6. SameDue(wire, wire')
  BY <1>3, RxStays DEF SameDue, WireFields
<1>7. seeq' = seeq /\ enet' = enet
  BY DEF QueueTx
<1>. QED BY <1>4, <1>5, <1>6, <1>7, RxStays, RxUntouched

LEMMA DriverKeeps == ASSUME RxInv, HaltTx \/ ReapTx \/ ClearIrq \/ SetupSeeq \/ UNCHANGED enetVars PROVE RxInv'
<1>1. enet = [f \in EnetFields |-> enet[f]] /\ seeq = [f \in SeeqFields |-> seeq[f]]
  BY DEF RxInv, RxHas, RxTypes
<1>2. CASE HaltTx
  <2>1. SameChannel(enet, enet')
    BY <1>1, <1>2 DEF HaltTx, TxCtrl, SameChannel, EnetFields
  <2>. QED BY <1>2, <2>1, RxStays, RxUntouched DEF HaltTx
<1>3. CASE ReapTx
  <2>1. drv' = [f \in DrvFields |-> drv'[f]] /\ drv'.rx = drv.rx
    BY <1>3 DEF ReapTx, RxInv, DrvFields
  <2>. QED BY <1>3, <2>1, RxStays, RxUntouched DEF ReapTx
<1>4. CASE ClearIrq
  <2>1. SameChannel(enet, enet')
    BY <1>1, <1>4 DEF ClearIrq, SameChannel, EnetFields
  <2>. QED BY <1>4, <2>1, RxStays, RxUntouched DEF ClearIrq
<1>5. CASE SetupSeeq
  <2>1. SameChip(seeq, seeq')
    BY <1>1, <1>5 DEF SetupSeeq, SeeqWriteRx, SeeqWriteTx, SeeqWriteStation, SeeqReadStat, SameChip, SeeqFields
  <2>. QED BY <1>5, <2>1, RxStays, RxUntouched DEF SetupSeeq
<1>6. CASE UNCHANGED enetVars
  BY <1>6, RxStays, RxUntouched DEF enetVars
<1>. QED BY <1>2, <1>3, <1>4, <1>5, <1>6

EnetStep ==
  \/ enet_poll \/ ArmRx \/ TakeRx \/ KickTx \/ ReapTx \/ HaltTx \/ ClearIrq \/ ResetEnet \/ SetupSeeq
  \/ (\E f \in Frames : NetSend(f))
  \/ \E s \in Shapes : QueueTx(s)

LEMMA EnetAlone == [Next]_vars => EnetStep \/ UNCHANGED enetVars
<1>1. ServeIP2 \/ ServeIP3 => EnetStep \/ UNCHANGED enetVars
  BY DEF ServeIP2, ServeIP3, ServeMapped, ClearLevel, EnetStep
<1>2. SerialTick \/ VRetrace \/ NetPoll \/ Outside => EnetStep \/ UNCHANGED enetVars
  BY DEF SerialTick, VRetrace, NetPoll, Outside, EnetStep
<1>3. RxDriver \/ TxDriver \/ TxQueue \/ TimerOp => EnetStep \/ UNCHANGED enetVars
  BY DEF RxDriver, TxDriver, TxQueue, TimerOp, EnetStep
<1>4. Program1 => EnetStep \/ UNCHANGED enetVars
  BY DEF Program1, MaskWrite, SerialOp, KeyboardOp, EnetOp, Raise, EnetStep
<1>5. UNCHANGED vars => UNCHANGED enetVars
  BY DEF vars
<1>. QED BY <1>1, <1>2, <1>3, <1>4, <1>5 DEF Next

LEMMA RxKeeps == RxInv /\ [Next]_vars => RxInv'
<1> SUFFICES ASSUME RxInv, [Next]_vars PROVE RxInv'
  OBVIOUS
<1>1. EnetStep \/ UNCHANGED enetVars
  BY EnetAlone
<1>. QED BY <1>1, PollKeeps, ArmKeeps, TakeKeeps, KickKeeps, ResetKeeps, DriverKeeps, NetSendKeeps, QueueKeeps DEF EnetStep

LEMMA MadeSeq ==
  \A S : \A n \in Nat : \A g :
    g = [k \in 1 .. n |-> g[k]] /\ (\A k \in 1 .. n : g[k] \in S) => g \in Seq(S) /\ Len(g) = n
  OBVIOUS

\* Empty parts add nothing.
LEMMA BlanksFlat == \A n \in Nat : FlattenSeq([k \in 1 .. n |-> <<>>]) = <<>>
<1> DEFINE U == {n \in Nat : FlattenSeq([k \in 1 .. n |-> <<>>]) = <<>>}
<1>1. 0 \in U
  <2>1. [k \in 1 .. 0 |-> <<>>] = <<>>
    OBVIOUS
  <2>. QED BY <2>1, FlattenNone
<1>2. ASSUME NEW n \in Nat, n \in U PROVE n + 1 \in U
  <2>1. PICK b \in Seq(Seq(EthByte)) : b = [k \in 1 .. n |-> <<>>]
    <3>1. [k \in 1 .. n |-> <<>>] \in Seq(Seq(EthByte))
      OBVIOUS
    <3>. QED BY <3>1
  <2>2. PICK e \in Seq(EthByte) : e = <<>>
    <3>1. <<>> \in Seq(EthByte)
      OBVIOUS
    <3>. QED BY <3>1
  <2>3. [k \in 1 .. n + 1 |-> <<>>] = Append(b, e)
    BY <2>1, <2>2
  <2>4. FlattenSeq(Append(b, e)) = Cat(FlattenSeq(b), e)
    BY FlattenAppend
  <2>5. Cat(<<>>, <<>>) = <<>>
    BY DEF Cat
  <2>6. FlattenSeq(b) = <<>>
    BY <1>2, <2>1
  <2>7. FlattenSeq([k \in 1 .. n + 1 |-> <<>>]) = <<>>
    BY <2>2, <2>3, <2>4, <2>5, <2>6
  <2>. QED BY <2>7
<1> HIDE DEF U
<1>3. Nat \subseteq U
  BY <1>1, <1>2, NatSetInduction
<1>. QED BY <1>3 DEF U

RxData(k) == LET d == rings.rx[(drv.rx + k - 1) % NRx] IN IF d.own THEN <<>> ELSE d.data

LEMMA RxDataIs ==
  ASSUME drv.rx \in 0 .. NRx - 1, NEW k \in 1 .. NRx
  PROVE  RxData(k) = LET d == rings.rx[RxAt(drv.rx, k - 1)] IN IF d.own THEN <<>> ELSE d.data
<1>1. PICK d \in Nat, n \in Nat : d = drv.rx /\ n = NRx /\ k \in Nat
  BY EnetAssumption
<1>2. d + k - 1 = d + (k - 1)
  BY <1>1
<1>3. (drv.rx + k - 1) % NRx = RxAt(drv.rx, k - 1)
  BY <1>1, <1>2 DEF RxAt
<1>. QED BY <1>3 DEF RxData

LEMMA RxShows == RxInv => RxStream
<1> SUFFICES ASSUME RxInv PROVE RxStream
  OBVIOUS
<1>1. RxTypes(seeq, enet, rings, drv.rx)
  BY DEF RxInv, RxHas
<1>2. PICK F \in Seq(Seq(EthByte)) :
        Held(F, enet.rx.active, enet.rx.nbdp, rings.rx, drv.rx) /\ wire.due = Cat(FlattenSeq(F), Coming(seeq))
  BY DEF RxInv, RxHas
<1>3. PICK m \in Nat, n \in Nat : m = Len(F) /\ n = NRx - m /\ m + n = NRx
  BY <1>2, EnetAssumption DEF Held
<1>4. PICK B \in Seq(Seq(EthByte)) : B = [k \in 1 .. n |-> <<>>]
  <2>1. [k \in 1 .. n |-> <<>>] \in Seq(Seq(EthByte))
    OBVIOUS
  <2>. QED BY <2>1
<1>5. \A k \in 1 .. NRx : RxData(k) = IF k <= m THEN F[k] ELSE <<>>
  <2> SUFFICES ASSUME NEW k \in 1 .. NRx PROVE RxData(k) = IF k <= m THEN F[k] ELSE <<>>
    OBVIOUS
  <2>1. PICK j \in 0 .. NRx - 1 : j = k - 1 /\ j + 1 = k
    BY EnetAssumption
  <2>2. IF j < m THEN rings.rx[RxAt(drv.rx, j)] = [own |-> FALSE, data |-> F[j + 1]]
                 ELSE rings.rx[RxAt(drv.rx, j)].own = TRUE
    BY <1>2, <1>3 DEF Held
  <2>3. (j < m) <=> (k <= m)
    BY <2>1
  <2>4. RxData(k) = LET d == rings.rx[RxAt(drv.rx, j)] IN IF d.own THEN <<>> ELSE d.data
    BY <1>1, <2>1, RxDataIs DEF RxTypes
  <2>. QED BY <2>1, <2>2, <2>3, <2>4
<1>6. PICK R : R = [k \in 1 .. NRx |-> RxData(k)]
  OBVIOUS
<1>7. R \in Seq(Seq(EthByte)) /\ Len(R) = m + n
  <2>1. \A k \in 1 .. m + n : R[k] \in Seq(EthByte)
    <3> SUFFICES ASSUME NEW k \in 1 .. m + n PROVE R[k] \in Seq(EthByte)
      OBVIOUS
    <3>1. R[k] = IF k <= m THEN F[k] ELSE <<>>
      BY <1>3, <1>5, <1>6
    <3>2. k <= m => F[k] \in Seq(EthByte)
      BY <1>3
    <3>. QED BY <3>1, <3>2
  <2>2. R = [k \in 1 .. m + n |-> R[k]]
    BY <1>3, <1>6
  <2>3. m + n \in Nat
    OBVIOUS
  <2>. QED BY <2>1, <2>2, <2>3, MadeSeq
<1>8. R = Cat(F, B)
  <2>1. Len(B) = n
    BY <1>4
  <2>2. ASSUME NEW k \in 1 .. m + n PROVE R[k] = IF k <= m THEN F[k] ELSE B[k - m]
    <3>1. R[k] = IF k <= m THEN F[k] ELSE <<>>
      BY <1>3, <1>5, <1>6
    <3>2. ~(k <= m) => k - m \in 1 .. n
      OBVIOUS
    <3>. QED BY <3>1, <3>2, <1>4
  <2>. QED BY <2>1, <2>2, <1>3, <1>7, CatIs
<1>9. FlattenSeq(R) = Cat(FlattenSeq(F), FlattenSeq(B))
  BY <1>8, FlattenCat DEF Cat
<1>10. PICK f \in Seq(EthByte), c \in Seq(EthByte), a \in Seq(EthByte) :
         f = FlattenSeq(F) /\ c = seeq.rx_cur /\ a = AcceptedBytes(seeq.rx_queue)
  BY <1>1, FlattenType, AcceptedType DEF RxTypes
<1>11. InRing = f
  <2>1. InRing = FlattenSeq(R)
    BY <1>6 DEF InRing, RxData
  <2>2. FlattenSeq(B) = <<>>
    BY <1>4, BlanksFlat
  <2>. QED BY <2>1, <2>2, <1>9, <1>10, CatNone
<1>12. wire.due = Cat(Cat(f, c), a)
  BY <1>2, <1>10, CatAssoc DEF Coming
<1>. QED BY <1>10, <1>11, <1>12 DEF RxStream, Cat

\* Reception through the ring is exact (RxStream): for every ring size, buffer
\* size, mix of frames and schedule of polls, register writes, resets and the
\* driver, the bytes in the filled descriptors, the rest of the staged frame
\* and the queued frames are what the driver has still to get of the accepted
\* frames (enet_run_dma, rx_avail and the staging of sgi_seeq).
THEOREM FramesAreKept == Spec => []RxStream
<1>1. Init => RxInv
  BY RxInitially DEF Init
<1>. QED BY <1>1, RxKeeps, RxShows, PTL DEF Spec

-----------------------------------------------------------------------------
(* Sums                                                                    *)

SumFold(it, q, n) ==
  it = [s \in SUBSET (1 .. n) |-> IF s = {} THEN 0 ELSE it[s \ {Max(s)}] + q[Max(s)]]

LEMMA SumFoldExists ==
  ASSUME NEW q PROVE \A n \in Nat : \E it : SumFold(it, q, n)
<1> DEFINE U == {n \in Nat : \E it : SumFold(it, q, n)}
<1>1. 0 \in U
  <2> DEFINE it == [s \in SUBSET (1 .. 0) |-> 0]
  <2>1. \A s \in SUBSET (1 .. 0) : s = {}
    OBVIOUS
  <2>2. SumFold(it, q, 0)
    BY <2>1 DEF SumFold
  <2>. QED BY <2>2
<1>2. ASSUME NEW n \in Nat, n \in U PROVE n + 1 \in U
  <2>1. PICK it : SumFold(it, q, n)
    BY <1>2
  <2> DEFINE g == [s \in SUBSET (1 .. n + 1) |->
                     IF n + 1 \in s THEN it[s \ {n + 1}] + q[n + 1] ELSE it[s]]
  <2>2. \A s \in SUBSET (1 .. n) : s \in SUBSET (1 .. n + 1) /\ n + 1 \notin s /\ g[s] = it[s]
    OBVIOUS
  <2>3. \A s \in SUBSET (1 .. n) : s # {} => Max(s) \in s /\ s \ {Max(s)} \in SUBSET (1 .. n)
    BY MaxIn
  <2>4. \A s \in SUBSET (1 .. n) : it[s] = IF s = {} THEN 0 ELSE it[s \ {Max(s)}] + q[Max(s)]
    BY <2>1 DEF SumFold
  <2>5. ASSUME NEW s \in SUBSET (1 .. n + 1), n + 1 \in s
        PROVE  g[s] = g[s \ {Max(s)}] + q[Max(s)]
    <3>1. Max(s) = n + 1 /\ s \ {Max(s)} \in SUBSET (1 .. n)
      BY <2>5, MaxOf
    <3>2. g[s] = it[s \ {n + 1}] + q[n + 1]
      BY <2>5
    <3>3. g[s \ {n + 1}] = it[s \ {n + 1}]
      BY <3>1, <2>2
    <3>. HIDE DEF g
    <3>. QED BY <3>1, <3>2, <3>3
  <2>6. ASSUME NEW s \in SUBSET (1 .. n), s # {}
        PROVE  g[s] = g[s \ {Max(s)}] + q[Max(s)]
    <3>1. g[s] = it[s] /\ g[s \ {Max(s)}] = it[s \ {Max(s)}]
      BY <2>2, <2>3, <2>6
    <3>. HIDE DEF g
    <3>. QED BY <3>1, <2>4, <2>6
  <2>7. g[{}] = 0
    <3>1. {} \in SUBSET (1 .. n)
      OBVIOUS
    <3>2. g[{}] = it[{}] /\ it[{}] = 0
      BY <3>1, <2>2, <2>4
    <3>. QED BY <3>2
  <2>8. \A s \in SUBSET (1 .. n + 1) : n + 1 \in s \/ s \in SUBSET (1 .. n)
    BY MaxOf
  <2>9. g = [s \in SUBSET (1 .. n + 1) |-> g[s]]
    OBVIOUS
  <2>. HIDE DEF g
  <2>10. \A s \in SUBSET (1 .. n + 1) : g[s] = IF s = {} THEN 0 ELSE g[s \ {Max(s)}] + q[Max(s)]
    BY <2>5, <2>6, <2>7, <2>8
  <2>11. SumFold(g, q, n + 1)
    BY <2>9, <2>10 DEF SumFold
  <2>. QED BY <2>11
<1> HIDE DEF U
<1>3. Nat \subseteq U
  BY <1>1, <1>2, NatSetInduction
<1>. QED BY <1>3 DEF U

SumWalked(w, q, n) ==
  /\ w[0] = 0
  /\ \A i \in 0 .. n - 1 : w[i + 1] = w[i] + q[i + 1]
  /\ TotalOf(q) = w[n]

LEMMA SumWalk ==
  ASSUME NEW q, NEW n, n \in Nat, DOMAIN q = 1 .. n
  PROVE  \E w : SumWalked(w, q, n)
<1>1. PICK it : SumFold(it, q, n) /\ TotalOf(q) = it[1 .. n]
  <2>1. \E it : SumFold(it, q, n)
    BY SumFoldExists
  <2>. QED BY <2>1 DEF SumFold, TotalOf, FoldLeft, MapThenFoldSet
<1> DEFINE w == [i \in 0 .. n |-> it[1 .. i]]
<1>2. \A s \in SUBSET (1 .. n) : it[s] = IF s = {} THEN 0 ELSE it[s \ {Max(s)}] + q[Max(s)]
  BY <1>1 DEF SumFold
<1>3. w[0] = 0
  <2>1. 1 .. 0 = {} /\ {} \in SUBSET (1 .. n)
    OBVIOUS
  <2>2. w[0] = it[1 .. 0]
    OBVIOUS
  <2>. HIDE DEF w
  <2>. QED BY <2>1, <2>2, <1>2
<1>4. ASSUME NEW i \in 0 .. n - 1 PROVE w[i + 1] = w[i] + q[i + 1]
  <2>1. PICK s : s = 1 .. i + 1
    OBVIOUS
  <2>2. i \in Nat /\ s \in SUBSET (1 .. i + 1) /\ i + 1 \in s /\ s \in SUBSET (1 .. n)
    BY <2>1
  <2>3. Max(s) = i + 1
    BY <2>2, MaxOf
  <2>4. s \ {i + 1} = 1 .. i
    BY <2>1
  <2>5. it[s] = it[1 .. i] + q[i + 1]
    BY <1>2, <2>2, <2>3, <2>4
  <2>6. w[i + 1] = it[s] /\ w[i] = it[1 .. i]
    BY <2>1
  <2>. HIDE DEF w
  <2>. QED BY <2>5, <2>6
<1>5. w[n] = it[1 .. n]
  OBVIOUS
<1>. HIDE DEF w
<1>. QED BY <1>1, <1>3, <1>4, <1>5 DEF SumWalked

\* What the steps of f add up to.
Adds(f, s, n) ==
  /\ DOMAIN s = 1 .. n
  /\ \A i \in 1 .. n + 1 : f[i] \in Int
  /\ \A i \in 1 .. n : s[i] \in Int /\ f[i + 1] = f[i] + s[i]

LEMMA SumOf ==
  ASSUME NEW n \in Nat, NEW s, NEW f, Adds(f, s, n)
  PROVE  TotalOf(s) = f[n + 1] - f[1]
<1>0. /\ DOMAIN s = 1 .. n
      /\ \A i \in 1 .. n + 1 : f[i] \in Int
      /\ \A i \in 1 .. n : s[i] \in Int /\ f[i + 1] = f[i] + s[i]
  BY DEF Adds
<1>1. PICK w : SumWalked(w, s, n)
  BY <1>0, SumWalk
<1>2. w[0] = 0 /\ TotalOf(s) = w[n] /\ \A i \in 0 .. n - 1 : w[i + 1] = w[i] + s[i + 1]
  BY <1>1 DEF SumWalked
<1> DEFINE U == {i \in Nat : i <= n => w[i] = f[i + 1] - f[1]}
<1>3. 0 \in U
  <2>1. f[1] \in Int /\ f[0 + 1] = f[1]
    BY <1>0
  <2>. QED BY <2>1, <1>2
<1>4. ASSUME NEW i \in Nat, i \in U PROVE i + 1 \in U
  <2> SUFFICES ASSUME i + 1 <= n PROVE w[i + 1] = f[i + 1 + 1] - f[1]
    OBVIOUS
  <2>1. i \in 0 .. n - 1 /\ i + 1 \in 1 .. n /\ i + 1 + 1 \in 1 .. n + 1 /\ 1 \in 1 .. n + 1 /\ i + 1 \in 1 .. n + 1
    OBVIOUS
  <2>2. w[i] = f[i + 1] - f[1]
    BY <1>4
  <2>3. w[i + 1] = w[i] + s[i + 1] /\ f[i + 1 + 1] = f[i + 1] + s[i + 1] /\ s[i + 1] \in Int
    BY <2>1, <1>0, <1>2
  <2>4. f[i + 1 + 1] \in Int /\ f[i + 1] \in Int /\ f[1] \in Int
    BY <2>1, <1>0
  <2>5. PICK x, y, z, v : x = f[i + 1 + 1] /\ y = f[i + 1] /\ z = f[1] /\ v = s[i + 1]
    OBVIOUS
  <2>6. PICK b : b = w[i + 1] /\ b = (y - z) + v /\ x = y + v
    BY <2>2, <2>3, <2>5
  <2>7. x \in Int /\ y \in Int /\ z \in Int /\ v \in Int
    BY <2>3, <2>4, <2>5
  <2>8. b = x - z
    BY <2>6, <2>7
  <2>. QED BY <2>5, <2>6, <2>8
<1> HIDE DEF U
<1>5. Nat \subseteq U
  BY <1>3, <1>4, NatSetInduction
<1>6. w[n] = f[n + 1] - f[1]
  BY <1>5 DEF U
<1>. QED BY <1>2, <1>6

\* Where the parts of a sequence of sizes begin.
Offsets(w, s) ==
  /\ w[0] = 0 /\ w[Len(s)] = TotalOf(s)
  /\ \A k \in 0 .. Len(s) : w[k] \in Nat
  /\ \A k \in 1 .. Len(s) : w[k] = w[k - 1] + s[k]
  /\ \A k \in 1 .. Len(s) + 1 : TotalOf(SubSeq(s, 1, k - 1)) = w[k - 1]

LEMMA OffsetsExist == ASSUME NEW s \in Seq(Nat) PROVE \E w : Offsets(w, s)
<1>0. PICK n \in Nat : n = Len(s) /\ DOMAIN s = 1 .. n
  OBVIOUS
<1>1. PICK w : SumWalked(w, s, n)
  BY <1>0, SumWalk
<1>2. w[0] = 0 /\ TotalOf(s) = w[n] /\ \A i \in 0 .. n - 1 : w[i + 1] = w[i] + s[i + 1]
  BY <1>1 DEF SumWalked
<1> DEFINE U == {i \in Nat : i <= n => w[i] \in Nat}
<1>3. 0 \in U
  BY <1>2
<1>4. ASSUME NEW i \in Nat, i \in U PROVE i + 1 \in U
  <2> SUFFICES ASSUME i + 1 <= n PROVE w[i + 1] \in Nat
    OBVIOUS
  <2>1. i \in 0 .. n - 1 /\ i + 1 \in 1 .. n
    OBVIOUS
  <2>2. w[i] \in Nat /\ s[i + 1] \in Nat
    BY <1>0, <1>4, <2>1
  <2>. QED BY <1>2, <2>1, <2>2
<1> HIDE DEF U
<1>5. Nat \subseteq U
  BY <1>3, <1>4, NatSetInduction
<1>6. \A k \in 0 .. n : w[k] \in Nat
  BY <1>5 DEF U
<1>7. \A k \in 1 .. n : w[k] = w[k - 1] + s[k]
  <2> SUFFICES ASSUME NEW k \in 1 .. n PROVE w[k] = w[k - 1] + s[k]
    OBVIOUS
  <2>1. PICK i \in 0 .. n - 1 : i = k - 1 /\ i + 1 = k
    OBVIOUS
  <2>2. w[i + 1] = w[i] + s[i + 1]
    BY <1>2
  <2>. QED BY <2>1, <2>2
<1>8. ASSUME NEW k \in 1 .. n + 1 PROVE TotalOf(SubSeq(s, 1, k - 1)) = w[k - 1]
  <2>1. PICK m \in 0 .. n : m = k - 1
    OBVIOUS
  <2>2. PICK t : t = SubSeq(s, 1, m) /\ DOMAIN t = 1 .. m /\ \A i \in 1 .. m : t[i] = s[i]
    <3>0. \A i \in 1 .. m : s[i] \in Nat
      BY <1>0
    <3>a. /\ SubSeq(s, 1, m) \in Seq(Nat)
          /\ Len(SubSeq(s, 1, m)) = IF 1 <= m THEN m - 1 + 1 ELSE 0
          /\ \A i \in 1 .. m - 1 + 1 : SubSeq(s, 1, m)[i] = s[1 + i - 1]
      BY <3>0, SubSeqProperties
    <3>1. PICK t \in Seq(Nat) :
            /\ t = SubSeq(s, 1, m)
            /\ Len(t) = IF 1 <= m THEN m - 1 + 1 ELSE 0
            /\ \A i \in 1 .. m - 1 + 1 : t[i] = s[1 + i - 1]
      BY <3>a
    <3>2. Len(t) = m
      BY <3>1
    <3>3. \A i \in 1 .. m : t[i] = s[i]
      BY <3>1
    <3>4. DOMAIN t = 1 .. m
      BY <3>2
    <3>. QED BY <3>1, <3>3, <3>4
  <2>3. PICK f : f = [i \in 1 .. m + 1 |-> w[i - 1]]
    OBVIOUS
  <2>4. \A i \in 1 .. m + 1 : f[i] = w[i - 1] /\ f[i] \in Int
    BY <2>3, <1>6
  <2>5. \A i \in 1 .. m : t[i] \in Int /\ f[i + 1] = f[i] + t[i]
    <3> SUFFICES ASSUME NEW i \in 1 .. m PROVE t[i] \in Int /\ f[i + 1] = f[i] + t[i]
      OBVIOUS
    <3>1. i \in 1 .. n /\ i + 1 \in 1 .. m + 1 /\ i \in 1 .. m + 1 /\ i + 1 - 1 = i
      OBVIOUS
    <3>2. f[i + 1] = w[i] /\ f[i] = w[i - 1]
      BY <3>1, <2>4
    <3>3. t[i] = s[i] /\ s[i] \in Nat
      BY <3>1, <2>2, <1>0
    <3>. QED BY <3>1, <3>2, <3>3, <1>7
  <2>6. TotalOf(t) = f[m + 1] - f[1]
    <3>1. Adds(f, t, m)
      BY <2>2, <2>4, <2>5 DEF Adds
    <3>. QED BY <3>1, SumOf
  <2>7. f[m + 1] = w[m] /\ f[1] = w[0] /\ w[m] \in Nat
    <3>1. m + 1 \in 1 .. m + 1 /\ 1 \in 1 .. m + 1 /\ m + 1 - 1 = m /\ 1 - 1 = 0
      OBVIOUS
    <3>. QED BY <3>1, <2>4, <1>6
  <2>. QED BY <2>1, <2>2, <2>6, <2>7, <1>2
<1>. QED BY <1>0, <1>2, <1>6, <1>7, <1>8 DEF Offsets

-----------------------------------------------------------------------------
(* Transmission                                                            *)

LEMMA ModNext ==
  ASSUME NEW m \in Nat \ {0}, NEW x \in Nat
  PROVE  x % m \in 0 .. m - 1 /\ ((x % m) + 1) % m = (x + 1) % m
<1>1. PICK q \in Int, r \in 0 .. m - 1 : x \div m = q /\ x % m = r /\ x = m * q + r
  BY DivMod
<1>2. CASE r + 1 < m
  <2>1. x + 1 = m * q + (r + 1) /\ r + 1 \in 0 .. m - 1 /\ r + 1 \in 0 .. 2 * m - 1
    BY <1>1, <1>2
  <2>2. (m * q + (r + 1)) % m = r + 1
    BY <2>1, ModUnique
  <2>3. (r + 1) % m = r + 1
    BY <2>1, <1>2, RingAt
  <2>. QED BY <1>1, <2>1, <2>2, <2>3
<1>3. CASE r + 1 = m
  <2>1. x + 1 = m * (q + 1) + 0 /\ 0 \in 0 .. m - 1 /\ q + 1 \in Int
    BY <1>1, <1>3
  <2>2. (m * (q + 1) + 0) % m = 0
    BY <2>1, ModUnique
  <2>3. m % m = 0
    <3>1. m \in 0 .. 2 * m - 1
      OBVIOUS
    <3>. QED BY <3>1, RingAt
  <2>. QED BY <1>1, <1>3, <2>1, <2>2, <2>3
<1>. QED BY <1>1, <1>2, <1>3

\* Positions less than a turn apart are different places.
LEMMA ModApart ==
  ASSUME NEW m \in Nat \ {0}, NEW x \in Nat, NEW y \in Nat, x < y, y - x < m
  PROVE  x % m # y % m
<1>1. PICK q \in Int, r \in 0 .. m - 1 : x \div m = q /\ x % m = r /\ x = m * q + r
  BY DivMod
<1>2. PICK p \in Int, s \in 0 .. m - 1 : y \div m = p /\ y % m = s /\ y = m * p + s
  BY DivMod
<1>3. ASSUME r = s PROVE FALSE
  <2>1. y - x = m * (p - q)
    BY <1>1, <1>2, <1>3
  <2>2. CASE p - q >= 1
    <3>1. m * (p - q) >= m
      BY <2>2
    <3>. QED BY <3>1, <2>1
  <2>3. CASE p - q <= 0
    <3>1. m * (p - q) <= 0
      BY <2>3
    <3>. QED BY <3>1, <2>1
  <2>. QED BY <2>2, <2>3
<1>. QED BY <1>1, <1>2, <1>3

TxByte == Nat \X Nat
TxPacket == [id : Nat, head : Nat, len : Nat \ {0}]

\* Descriptor k of a packet whose first is at position a, the positions being
\* numbered on from turn to turn; and what the first n of them hold.
TxAt(a, k) == (a + k - 1) % NTx
Data(tx, a, n) == [k \in 1 .. n |-> tx[TxAt(a, k)].data]

SlotFields == {"eox", "etxd", "data"}
TxRing(tx) ==
  /\ tx = [i \in 0 .. NTx - 1 |-> tx[i]]
  /\ \A i \in 0 .. NTx - 1 :
       /\ tx[i] = [f \in SlotFields |-> tx[i][f]]
       /\ tx[i].eox \in BOOLEAN /\ tx[i].etxd \in BOOLEAN /\ tx[i].data \in Seq(TxByte)

LEMMA TxPlaces ==
  ASSUME NEW a \in Nat
  PROVE  /\ NTx \in Nat \ {0}
         /\ \A k \in Nat \ {0} : TxAt(a, k) \in 0 .. NTx - 1 /\ (TxAt(a, k) + 1) % NTx = TxAt(a, k + 1)
         /\ TxAt(a, 1) = a % NTx
         /\ \A b, k, l \in Nat : k > 0 /\ l > 0 /\ a + k < b + l /\ b + l - (a + k) < NTx => TxAt(a, k) # TxAt(b, l)
<1>1. NTx \in Nat \ {0}
  BY EnetAssumption
<1>2. ASSUME NEW k \in Nat \ {0}
      PROVE  TxAt(a, k) \in 0 .. NTx - 1 /\ (TxAt(a, k) + 1) % NTx = TxAt(a, k + 1)
  <2>1. PICK x \in Nat : x = a + k - 1 /\ x + 1 = a + (k + 1) - 1
    OBVIOUS
  <2>. QED BY <1>1, <2>1, ModNext DEF TxAt
<1>3. TxAt(a, 1) = a % NTx
  BY a + 1 - 1 = a DEF TxAt
<1>4. ASSUME NEW b \in Nat, NEW k \in Nat, NEW l \in Nat, k > 0, l > 0, a + k < b + l, b + l - (a + k) < NTx
      PROVE  TxAt(a, k) # TxAt(b, l)
  <2>1. PICK x \in Nat, y \in Nat : x = a + k - 1 /\ y = b + l - 1 /\ x < y /\ y - x < NTx
    BY <1>1, <1>4
  <2>2. x % NTx # y % NTx
    BY <1>1, <2>1, ModApart
  <2>. QED BY <2>1, <2>2 DEF TxAt
<1>. QED BY <1>1, <1>2, <1>3, <1>4

\* One descriptor more.
LEMMA DataMore ==
  ASSUME NEW tx, TxRing(tx), NEW a \in Nat, NEW m \in Nat
  PROVE  /\ Data(tx, a, m) \in Seq(Seq(TxByte)) /\ FlattenSeq(Data(tx, a, m)) \in Seq(TxByte)
         /\ FlattenSeq(Data(tx, a, 0)) = <<>>
         /\ FlattenSeq(Data(tx, a, m + 1)) = Cat(FlattenSeq(Data(tx, a, m)), tx[TxAt(a, m + 1)].data)
<1>1. ASSUME NEW k \in Nat \ {0} PROVE tx[TxAt(a, k)].data \in Seq(TxByte)
  BY TxPlaces DEF TxRing
<1>2. ASSUME NEW n \in Nat PROVE Data(tx, a, n) \in Seq(Seq(TxByte))
  BY <1>1 DEF Data
<1>3. Data(tx, a, 0) = <<>>
  BY DEF Data
<1>4. PICK x \in Seq(TxByte) : x = tx[TxAt(a, m + 1)].data
  BY <1>1
<1>5. PICK s \in Seq(Seq(TxByte)), t \in Seq(Seq(TxByte)) : s = Data(tx, a, m) /\ t = Data(tx, a, m + 1)
  BY <1>2
<1>6. Len(s) = m /\ Len(t) = m + 1 /\ (\A k \in 1 .. m : t[k] = s[k]) /\ t[m + 1] = x
  BY <1>4, <1>5 DEF Data
<1>7. t = Append(s, x)
  BY <1>6
<1>8. FlattenSeq(t) = Cat(FlattenSeq(s), x)
  BY <1>7, FlattenAppend
<1>. QED BY <1>3, <1>4, <1>5, <1>8, FlattenNone, FlattenType

\* The descriptors of a packet p whose first is at position a hold u, in whole.
Laid(tx, p, a, u) ==
  /\ p.head = TxAt(a, 1)
  /\ \A k \in 1 .. p.len : tx[TxAt(a, k)].eox = (k = p.len)
  /\ u = FlattenSeq(Data(tx, a, p.len))
  /\ u \in Seq(TxByte) /\ Len(u) >= MinFrame /\ u[1][1] = p.id

LEMMA LaidSame ==
  ASSUME NEW s, NEW t, NEW a \in Nat, NEW p \in TxPacket, NEW u, Laid(s, p, a, u),
         \A k \in 1 .. p.len : t[TxAt(a, k)].eox = s[TxAt(a, k)].eox /\ t[TxAt(a, k)].data = s[TxAt(a, k)].data
  PROVE  Laid(t, p, a, u)
<1>1. Data(t, a, p.len) = Data(s, a, p.len)
  BY DEF Data
<1>. QED BY <1>1 DEF Laid

SameData(s, t) == \A i \in 0 .. NTx - 1 : t[i].eox = s[i].eox /\ t[i].data = s[i].data

Marking(s, t, i, b) == t = [s EXCEPT ![i].etxd = b]

LEMMA MarkSlot ==
  ASSUME NEW s, TxRing(s), NEW i \in 0 .. NTx - 1, NEW b \in BOOLEAN, NEW t, Marking(s, t, i, b)
  PROVE  /\ TxRing(t) /\ SameData(s, t) /\ t[i].etxd = b
         /\ \A j \in 0 .. NTx - 1 : j # i => t[j].etxd = s[j].etxd
<1>1. s = [j \in 0 .. NTx - 1 |-> s[j]]
  BY DEF TxRing
<1>2. t = [j \in 0 .. NTx - 1 |-> t[j]] /\ \A j \in 0 .. NTx - 1 : j # i => t[j] = s[j]
  BY <1>1 DEF Marking
<1>3. t[i] = [s[i] EXCEPT !.etxd = b]
  BY <1>1 DEF Marking
<1>4. s[i] = [f \in SlotFields |-> s[i][f]]
  BY DEF TxRing
<1>5. t[i] = [f \in SlotFields |-> t[i][f]] /\ t[i].eox = s[i].eox /\ t[i].data = s[i].data /\ t[i].etxd = b
  BY <1>3, <1>4 DEF SlotFields
<1>6. SameData(s, t)
  BY <1>2, <1>5 DEF SameData
<1>7. TxRing(t)
  BY <1>2, <1>5 DEF TxRing
<1>. QED BY <1>2, <1>5, <1>6, <1>7

TxShape(st) ==
  /\ st = [f \in TxFields |-> st[f]]
  /\ st.q = [f \in SeeqFields |-> st.q[f]]
  /\ st.e = [f \in EnetFields |-> st.e[f]]
  /\ st.e.tx = [f \in {"active", "nbdp"} |-> st.e.tx[f]]
  /\ st.e.opt.lat \in Nat /\ st.e.opt.head \in BOOLEAN
  /\ st.r = [f \in {"rx", "tx"} |-> st.r[f]]
  /\ st.w = [f \in WireFields |-> st.w[f]]

\* Descriptor i is sent, of a packet that began at head.
TxDoes(st, y, i, head) ==
  /\ TxShape(y)
  /\ y.e.opt = st.e.opt
  /\ y.stop = (st.r.tx[i].eox \/ st.e.opt.lat # 0)
  /\ y.e.tx.nbdp = (i + 1) % NTx
  /\ y.e.tx.active = ~(st.r.tx[i].eox /\ st.e.opt.lat = 0)
  /\ y.e.hold = IF st.r.tx[i].eox THEN st.e.opt.lat ELSE st.e.hold
  /\ y.e.s_head = IF st.r.tx[i].eox THEN NTx ELSE head
  /\ y.q.tx_frame = IF st.r.tx[i].eox THEN <<>> ELSE Cat(st.q.tx_frame, st.r.tx[i].data)
  /\ y.w = IF st.r.tx[i].eox THEN Sent(st.w, Cat(st.q.tx_frame, st.r.tx[i].data)) ELSE st.w
  /\ TxRing(y.r.tx) /\ SameData(st.r.tx, y.r.tx)
  /\ \A j \in 0 .. NTx - 1 : j # i /\ j # head => y.r.tx[j].etxd = st.r.tx[j].etxd
  /\ ~st.r.tx[i].eox /\ st.e.opt.head => y.r.tx[head].etxd = st.r.tx[head].etxd

HeadOf(e) == IF e.s_head = NTx THEN e.tx.nbdp ELSE e.s_head

SetChannel(e, c, i, s, n, b, h) ==
  c = [e EXCEPT !.tx_crbdp = i, !.tx_irq = TRUE, !.s_head = s, !.tx.nbdp = n, !.tx.active = b, !.hold = h]

IsChannel(e) == e = [f \in EnetFields |-> e[f]] /\ e.tx = [f \in {"active", "nbdp"} |-> e.tx[f]]

LEMMA ChannelIs ==
  ASSUME NEW e, IsChannel(e),
         NEW i, NEW s, NEW n, NEW b, NEW h,
         NEW c, SetChannel(e, c, i, s, n, b, h)
  PROVE  /\ IsChannel(c)
         /\ c.opt = e.opt /\ c.tx.nbdp = n /\ c.tx.active = b /\ c.hold = h /\ c.s_head = s
<1>1. PICK c1 : c1 = [e EXCEPT !.tx_crbdp = i, !.tx_irq = TRUE, !.s_head = s]
  OBVIOUS
<1>2. c1 = [f \in EnetFields |-> c1[f]] /\ c1.tx = e.tx /\ c1.opt = e.opt /\ c1.s_head = s
  BY <1>1 DEF IsChannel, EnetFields
<1>3. PICK c2 : c2 = [c1 EXCEPT !.tx.nbdp = n]
  OBVIOUS
<1>4. /\ c2 = [f \in EnetFields |-> c2[f]] /\ c2.opt = e.opt /\ c2.s_head = s
      /\ c2.tx = [f \in {"active", "nbdp"} |-> c2.tx[f]] /\ c2.tx.nbdp = n
  BY <1>2, <1>3 DEF IsChannel, EnetFields
<1>5. PICK c3 : c3 = [c2 EXCEPT !.tx.active = b]
  OBVIOUS
<1>6. /\ c3 = [f \in EnetFields |-> c3[f]] /\ c3.opt = e.opt /\ c3.s_head = s
      /\ c3.tx = [f \in {"active", "nbdp"} |-> c3.tx[f]] /\ c3.tx.nbdp = n /\ c3.tx.active = b
  BY <1>4, <1>5 DEF EnetFields
<1>7. c = [c3 EXCEPT !.hold = h]
  BY <1>1, <1>3, <1>5 DEF SetChannel
<1>. QED BY <1>6, <1>7 DEF IsChannel, EnetFields

LEMMA TxStepDoes ==
  ASSUME NEW st, TxShape(st), st.e.tx.active, ~st.stop, TxRing(st.r.tx),
         st.e.tx.nbdp \in 0 .. NTx - 1, HeadOf(st.e) \in 0 .. NTx - 1
  PROVE  TxDoes(st, TxStep(st), st.e.tx.nbdp, HeadOf(st.e))
<1> DEFINE i == st.e.tx.nbdp
           dd == st.r.tx[i]
           head == IF st.e.s_head = NTx THEN i ELSE st.e.s_head
           late == st.e.opt.head /\ i = head
           qq == [st.q EXCEPT !.tx_frame = @ \o dd.data]
           marked == [st.r.tx EXCEPT ![i].etxd = @ \/ ~late]
           tt == IF dd.eox THEN Flushed(qq) ELSE qq
           cc == [st.e EXCEPT !.tx_crbdp = i, !.tx_irq = TRUE,
                              !.s_head = IF dd.eox THEN NTx ELSE head,
                              !.tx.nbdp = (i + 1) % NTx,
                              !.tx.active = ~(dd.eox /\ st.e.opt.lat = 0),
                              !.hold = IF dd.eox THEN st.e.opt.lat ELSE @]
           mm == IF dd.eox /\ st.e.opt.head THEN [marked EXCEPT ![head].etxd = TRUE] ELSE marked
           ss == [st.r EXCEPT !.tx = mm]
           ww == IF dd.eox THEN Sent(st.w, qq.tx_frame) ELSE st.w
<1>1. TxStep(st) = [q |-> tt, e |-> cc, r |-> ss, w |-> ww, stop |-> dd.eox \/ st.e.opt.lat # 0]
  BY Zenon DEF TxStep
<1>2. /\ i = st.e.tx.nbdp /\ dd = st.r.tx[i] /\ head = HeadOf(st.e) /\ late = (st.e.opt.head /\ i = head)
      /\ qq = [st.q EXCEPT !.tx_frame = st.q.tx_frame \o dd.data]
      /\ marked = [st.r.tx EXCEPT ![i].etxd = st.r.tx[i].etxd \/ ~late]
      /\ tt = IF dd.eox THEN Flushed(qq) ELSE qq
  BY DEF HeadOf
<1>3. cc = [st.e EXCEPT !.tx_crbdp = i, !.tx_irq = TRUE,
                        !.s_head = IF dd.eox THEN NTx ELSE head,
                        !.tx.nbdp = (i + 1) % NTx,
                        !.tx.active = ~(dd.eox /\ st.e.opt.lat = 0),
                        !.hold = IF dd.eox THEN st.e.opt.lat ELSE st.e.hold]
  OBVIOUS
<1>4. /\ mm = (IF dd.eox /\ st.e.opt.head THEN [marked EXCEPT ![head].etxd = TRUE] ELSE marked)
      /\ ss = [st.r EXCEPT !.tx = mm]
      /\ ww = IF dd.eox THEN Sent(st.w, qq.tx_frame) ELSE st.w
  OBVIOUS
<1>. HIDE DEF i, dd, head, late, qq, marked, tt, cc, mm, ss, ww
<1>5. i \in 0 .. NTx - 1 /\ head \in 0 .. NTx - 1 /\ dd.eox \in BOOLEAN /\ dd.etxd \in BOOLEAN
  BY <1>2 DEF TxRing
<1>6. qq = [f \in SeeqFields |-> qq[f]] /\ qq.tx_frame = Cat(st.q.tx_frame, dd.data)
  BY <1>2 DEF TxShape, SeeqFields, Cat
<1>7. tt = [f \in SeeqFields |-> tt[f]] /\ tt.tx_frame = IF dd.eox THEN <<>> ELSE qq.tx_frame
  <2>1. Flushed(qq) = [f \in SeeqFields |-> Flushed(qq)[f]] /\ Flushed(qq).tx_frame = <<>>
    BY <1>6 DEF Flushed, SeeqFields
  <2>. QED BY <1>2, <1>6, <2>1
<1>8. /\ cc = [f \in EnetFields |-> cc[f]] /\ cc.tx = [f \in {"active", "nbdp"} |-> cc.tx[f]]
      /\ cc.opt = st.e.opt /\ cc.tx.nbdp = (i + 1) % NTx /\ cc.tx.active = ~(dd.eox /\ st.e.opt.lat = 0)
      /\ cc.hold = (IF dd.eox THEN st.e.opt.lat ELSE st.e.hold)
      /\ cc.s_head = IF dd.eox THEN NTx ELSE head
  <2>1. IsChannel(st.e)
    BY DEF TxShape, IsChannel
  <2>2. PICK s, n, b, h : /\ s = (IF dd.eox THEN NTx ELSE head) /\ n = (i + 1) % NTx
                          /\ b = ~(dd.eox /\ st.e.opt.lat = 0) /\ h = IF dd.eox THEN st.e.opt.lat ELSE st.e.hold
    OBVIOUS
  <2>3. PICK e : e = st.e
    OBVIOUS
  <2>4. SetChannel(e, cc, i, s, n, b, h)
    BY <1>3, <2>2, <2>3 DEF SetChannel
  <2>5. /\ IsChannel(cc)
        /\ cc.opt = e.opt /\ cc.tx.nbdp = n /\ cc.tx.active = b /\ cc.hold = h /\ cc.s_head = s
    BY <2>1, <2>3, <2>4, ChannelIs
  <2>. QED BY <2>2, <2>3, <2>5 DEF IsChannel
<1>9. PICK b \in BOOLEAN : b = (st.r.tx[i].etxd \/ ~late)
  OBVIOUS
<1>10. /\ TxRing(marked) /\ SameData(st.r.tx, marked) /\ marked[i].etxd = b
       /\ \A j \in 0 .. NTx - 1 : j # i => marked[j].etxd = st.r.tx[j].etxd
  <2>1. Marking(st.r.tx, marked, i, b)
    BY <1>2, <1>9 DEF Marking
  <2>. QED BY <1>5, <2>1, MarkSlot
<1>11. st.e.opt.head => marked[head].etxd = st.r.tx[head].etxd
  <2>1. CASE i = head /\ st.e.opt.head
    <3>1. late /\ st.r.tx[i].etxd \in BOOLEAN
      BY <2>1, <1>2, <1>5
    <3>. QED BY <3>1, <2>1, <1>9, <1>10
  <2>2. CASE i # head
    BY <2>2, <1>5, <1>10
  <2>. QED BY <2>1, <2>2
<1>12. /\ TxRing(mm) /\ SameData(st.r.tx, mm)
       /\ \A j \in 0 .. NTx - 1 : j # i /\ j # head => mm[j].etxd = st.r.tx[j].etxd
       /\ ~dd.eox /\ st.e.opt.head => mm[head].etxd = st.r.tx[head].etxd
  <2>1. CASE dd.eox /\ st.e.opt.head
    <3>0. PICK z \in BOOLEAN : z = TRUE
      OBVIOUS
    <3>1. Marking(marked, mm, head, z)
      BY <2>1, <3>0, <1>4 DEF Marking
    <3>2. /\ TxRing(mm) /\ SameData(marked, mm)
          /\ \A j \in 0 .. NTx - 1 : j # head => mm[j].etxd = marked[j].etxd
      BY <3>1, <1>5, <1>10, MarkSlot
    <3>3. SameData(st.r.tx, mm)
      BY <3>2, <1>10 DEF SameData
    <3>. QED BY <2>1, <3>2, <3>3, <1>10
  <2>2. CASE ~(dd.eox /\ st.e.opt.head)
    BY <1>4, <1>10, <1>11, <2>2
  <2>. QED BY <2>1, <2>2
<1>13. ss = [f \in {"rx", "tx"} |-> ss[f]] /\ ss.tx = mm
  BY <1>4 DEF TxShape
<1>14. ww = [f \in WireFields |-> ww[f]]
  <2>1. \E a, b1 : Sent(st.w, qq.tx_frame) = st.w \/ Sent(st.w, qq.tx_frame) = [st.w EXCEPT !.unsent = a]
                  \/ Sent(st.w, qq.tx_frame) = [st.w EXCEPT !.stray = b1]
    BY DEF Sent
  <2>. QED BY <1>4, <2>1 DEF TxShape, WireFields
<1>15. PICK y : y = TxStep(st)
  OBVIOUS
<1>16. /\ y = [f \in TxFields |-> y[f]] /\ y.q = tt /\ y.e = cc /\ y.r = ss /\ y.w = ww
       /\ y.stop = (dd.eox \/ st.e.opt.lat # 0)
  BY <1>1, <1>15 DEF TxFields
<1>17. TxShape(y)
  BY <1>7, <1>8, <1>13, <1>14, <1>16 DEF TxShape
<1>18. TxDoes(st, y, i, head)
  <2>1. /\ y.e.opt = st.e.opt /\ y.stop = (st.r.tx[i].eox \/ st.e.opt.lat # 0)
        /\ y.e.tx.nbdp = (i + 1) % NTx
        /\ y.e.tx.active = ~(st.r.tx[i].eox /\ st.e.opt.lat = 0)
        /\ y.e.hold = (IF st.r.tx[i].eox THEN st.e.opt.lat ELSE st.e.hold)
        /\ y.e.s_head = IF st.r.tx[i].eox THEN NTx ELSE head
    BY <1>2, <1>8, <1>16
  <2>2. /\ y.q.tx_frame = (IF st.r.tx[i].eox THEN <<>> ELSE Cat(st.q.tx_frame, st.r.tx[i].data))
        /\ y.w = IF st.r.tx[i].eox THEN Sent(st.w, Cat(st.q.tx_frame, st.r.tx[i].data)) ELSE st.w
    BY <1>2, <1>4, <1>6, <1>7, <1>16
  <2>3. /\ TxRing(y.r.tx) /\ SameData(st.r.tx, y.r.tx)
        /\ \A j \in 0 .. NTx - 1 : j # i /\ j # head => y.r.tx[j].etxd = st.r.tx[j].etxd
        /\ ~st.r.tx[i].eox /\ st.e.opt.head => y.r.tx[head].etxd = st.r.tx[head].etxd
    BY <1>2, <1>12, <1>13, <1>16
  <2>. QED BY <1>17, <2>1, <2>2, <2>3, Zenon DEF TxDoes
<1>. QED BY <1>2, <1>15, <1>18

\* What sending the packet p at position a leaves of the ring s.
KeptTx(s, t, p, a) ==
  /\ TxRing(t) /\ SameData(s, t)
  /\ \A i \in 0 .. NTx - 1 : (\A k \in 1 .. p.len : i # TxAt(a, k)) => t[i].etxd = s[i].etxd

\* m of its descriptors have gone to the chip; all of them have.
InPacket(st, s, p, a, U, o, m) ==
  /\ TxShape(st) /\ st.e.opt = o
  /\ st.e.tx.active = TRUE /\ st.e.hold = 0 /\ st.e.tx.nbdp = TxAt(a, m + 1)
  /\ st.e.s_head = IF m = 0 THEN NTx ELSE p.head
  /\ st.q.tx_frame = FlattenSeq(Data(s, a, m))
  /\ KeptTx(s, st.r.tx, p, a)
  /\ o.head => st.r.tx[p.head].etxd = FALSE
  /\ st.w.unsent = U /\ st.w.stray = <<>>

Gone(st, s, p, a, U, o) ==
  /\ TxShape(st) /\ st.e.opt = o
  /\ st.e.tx.active = (o.lat # 0) /\ st.e.hold = o.lat
  /\ st.e.s_head = NTx /\ st.q.tx_frame = <<>>
  /\ KeptTx(s, st.r.tx, p, a)
  /\ st.w.unsent = Tail(U) /\ st.w.stray = <<>>

CanSend(s, p, a, U) ==
  /\ TxRing(s) /\ p \in TxPacket /\ a \in Nat /\ p.len <= NTx
  /\ U \in Seq(Seq(TxByte)) /\ U # <<>> /\ Laid(s, p, a, U[1])

LEMMA TxStepMoves ==
  ASSUME NEW s, NEW p, NEW a, NEW U, NEW o, CanSend(s, p, a, U), NEW m \in Nat, m < p.len,
         NEW st, InPacket(st, s, p, a, U, o, m), ~st.stop
  PROVE  IF m + 1 < p.len THEN InPacket(TxStep(st), s, p, a, U, o, m + 1) /\ TxStep(st).stop = (o.lat # 0)
                          ELSE Gone(TxStep(st), s, p, a, U, o) /\ TxStep(st).stop = TRUE
<1>0. /\ TxRing(s) /\ p \in TxPacket /\ a \in Nat /\ p.len \in Nat \ {0} /\ p.head = TxAt(a, 1)
      /\ NTx \in Nat \ {0} /\ m + 1 \in Nat \ {0} /\ m + 1 \in 1 .. p.len /\ 1 \in 1 .. p.len
  <2>1. TxRing(s) /\ p \in TxPacket /\ a \in Nat /\ p.head = TxAt(a, 1)
    BY DEF CanSend, Laid
  <2>2. p.len \in Nat \ {0}
    BY <2>1 DEF TxPacket
  <2>. QED BY <2>1, <2>2, EnetAssumption
<1>1. PICK y, i, h : y = TxStep(st) /\ i = TxAt(a, m + 1) /\ h = p.head
  OBVIOUS
<1>2. i \in 0 .. NTx - 1 /\ h \in 0 .. NTx - 1 /\ (i + 1) % NTx = TxAt(a, m + 2)
  <2>1. PICK k \in Nat \ {0}, l \in Nat \ {0} : k = m + 1 /\ l = 1 /\ k + 1 = m + 2
    OBVIOUS
  <2>2. /\ TxAt(a, k) \in 0 .. NTx - 1 /\ (TxAt(a, k) + 1) % NTx = TxAt(a, k + 1)
        /\ TxAt(a, l) \in 0 .. NTx - 1
    BY <1>0, TxPlaces
  <2>. QED BY <1>0, <1>1, <2>1, <2>2
<1>3. st.e.tx.nbdp = i /\ HeadOf(st.e) = h
  <2>1. CASE m = 0
    BY <2>1, <1>0, <1>1 DEF InPacket, HeadOf
  <2>2. CASE m # 0
    <3>1. st.e.s_head = h /\ h # NTx
      BY <2>2, <1>0, <1>1, <1>2 DEF InPacket
    <3>. QED BY <3>1, <1>1 DEF InPacket, HeadOf
  <2>. QED BY <2>1, <2>2
<1>4. TxDoes(st, y, i, h)
  BY <1>1, <1>2, <1>3, TxStepDoes DEF InPacket, KeptTx
<1>5. (st.r.tx[i].eox <=> m + 1 = p.len) /\ st.r.tx[i].eox \in BOOLEAN /\ st.r.tx[i].data = s[i].data
  <2>1. st.r.tx[i].eox = s[i].eox /\ st.r.tx[i].data = s[i].data /\ st.r.tx[i].eox \in BOOLEAN
    BY <1>2 DEF InPacket, KeptTx, SameData, TxRing
  <2>2. s[i].eox = (m + 1 = p.len)
    BY <1>0, <1>1 DEF CanSend, Laid
  <2>. QED BY <2>1, <2>2
<1>6. Cat(st.q.tx_frame, st.r.tx[i].data) = FlattenSeq(Data(s, a, m + 1))
  <2>1. FlattenSeq(Data(s, a, m + 1)) = Cat(FlattenSeq(Data(s, a, m)), s[TxAt(a, m + 1)].data)
    BY <1>0, DataMore
  <2>2. st.q.tx_frame = FlattenSeq(Data(s, a, m))
    BY DEF InPacket
  <2>. QED BY <2>1, <2>2, <1>1, <1>5
<1>7. KeptTx(s, y.r.tx, p, a)
  <2>1. TxRing(y.r.tx) /\ SameData(s, y.r.tx)
    BY <1>4 DEF TxDoes, InPacket, KeptTx, SameData
  <2>2. ASSUME NEW j \in 0 .. NTx - 1, \A k \in 1 .. p.len : j # TxAt(a, k)
        PROVE  y.r.tx[j].etxd = s[j].etxd
    <3>1. j # i /\ j # h
      BY <1>0, <1>1, <2>2
    <3>2. st.r.tx[j].etxd = s[j].etxd
      BY <2>2 DEF InPacket, KeptTx
    <3>. QED BY <3>1, <3>2, <1>4 DEF TxDoes
  <2>. QED BY <2>1, <2>2 DEF KeptTx
<1>8. st.e.opt = o /\ st.e.hold = 0 /\ st.w.unsent = U /\ st.w.stray = <<>> /\ o.lat \in Nat
      /\ st.w = [f \in WireFields |-> st.w[f]]
  BY DEF InPacket, TxShape
<1>9. CASE m + 1 < p.len
  <2>1. st.r.tx[i].eox = FALSE
    BY <1>5, <1>9
  <2>2. /\ TxShape(y) /\ y.e.opt = o /\ y.stop = (o.lat # 0)
        /\ y.e.tx.nbdp = TxAt(a, m + 2) /\ y.e.tx.active = TRUE /\ y.e.hold = 0 /\ y.e.s_head = h
        /\ y.q.tx_frame = FlattenSeq(Data(s, a, m + 1)) /\ y.w = st.w
    BY <2>1, <1>2, <1>4, <1>6, <1>8 DEF TxDoes
  <2>3. o.head => y.r.tx[h].etxd = FALSE
    BY <2>1, <1>1, <1>4, <1>8 DEF TxDoes, InPacket
  <2>4. m + 1 # 0 /\ m + 1 + 1 = m + 2
    OBVIOUS
  <2>5. InPacket(y, s, p, a, U, o, m + 1)
    BY <2>2, <2>3, <2>4, <1>1, <1>7, <1>8 DEF InPacket
  <2>. QED BY <2>2, <2>5, <1>1, <1>9
<1>10. CASE ~(m + 1 < p.len)
  <2>0. m + 1 = p.len
    BY <1>0, <1>10
  <2>1. st.r.tx[i].eox = TRUE
    BY <1>5, <2>0
  <2>2. /\ TxShape(y) /\ y.e.opt = o /\ y.stop = TRUE
        /\ y.e.tx.active = (o.lat # 0) /\ y.e.hold = o.lat /\ y.e.s_head = NTx
        /\ y.q.tx_frame = <<>> /\ y.w = Sent(st.w, FlattenSeq(Data(s, a, m + 1)))
    BY <2>1, <1>4, <1>6, <1>8 DEF TxDoes
  <2>3. PICK F : F = U[1] /\ F = FlattenSeq(Data(s, a, m + 1)) /\ ~(Len(F) < MinFrame) /\ F = Head(U) /\ U # <<>>
    <3>1. Len(U[1]) \in Nat /\ Len(U[1]) >= MinFrame /\ MinFrame \in Nat
      BY EnetAssumption DEF CanSend, Laid
    <3>. QED BY <3>1, <2>0 DEF CanSend, Laid
  <2>4. Sent(st.w, F) = [st.w EXCEPT !.unsent = Tail(@)]
    BY <2>3, <1>8 DEF Sent
  <2>5. y.w.unsent = Tail(U) /\ y.w.stray = <<>>
    BY <2>2, <2>3, <2>4, <1>8 DEF WireFields
  <2>6. Gone(y, s, p, a, U, o)
    BY <2>2, <2>5, <1>7 DEF Gone
  <2>. QED BY <2>2, <2>6, <1>1, <1>10
<1>. QED BY <1>9, <1>10

LEMMA TxWalkMoves ==
  ASSUME NEW s, NEW p, NEW a, NEW U, NEW o, CanSend(s, p, a, U), NEW m \in Nat, m < p.len,
         NEW st, InPacket(st, s, p, a, U, o, m)
  PROVE  \/ Gone(TxWalk(st), s, p, a, U, o)
         \/ o.lat # 0 /\ m + 1 < p.len /\ InPacket(TxWalk(st), s, p, a, U, o, m + 1)
<1>0. p.len \in Nat \ {0} /\ p.len <= NTx /\ o.lat \in Nat
  BY DEF CanSend, InPacket, TxShape, TxPacket
<1>1. PICK h, q : h = [st EXCEPT !.stop = FALSE] /\ q = [i \in 1 .. NTx |-> i]
  OBVIOUS
<1>2. PICK n \in Nat : n = NTx /\ DOMAIN q = 1 .. n
  BY <1>1, EnetAssumption
<1>3. PICK w : TxWalked(w, h, q, n)
  BY <1>2, TxWalkIs
<1>4. /\ w[0] = h
      /\ \A i \in 0 .. n - 1 : w[i + 1] = Once(TxStep, w[i])
      /\ FoldLeft(LAMBDA x, i : Once(TxStep, x), h, q) = w[n]
  BY <1>3 DEF TxWalked
<1> DEFINE Going(x, i) == ~x.stop /\ m + i < p.len /\ InPacket(x, s, p, a, U, o, m + i) /\ (i = 0 \/ o.lat = 0)
           Over(x) == x.stop /\ Gone(x, s, p, a, U, o)
           Paused(x) == x.stop /\ o.lat # 0 /\ m + 1 < p.len /\ InPacket(x, s, p, a, U, o, m + 1)
           V == {i \in Nat : i <= n => Going(w[i], i) \/ Over(w[i]) \/ Paused(w[i])}
<1>5. 0 \in V
  <2>1. h = [f \in TxFields |-> h[f]] /\ h.q = st.q /\ h.e = st.e /\ h.r = st.r /\ h.w = st.w /\ h.stop = FALSE
    BY <1>1 DEF InPacket, TxShape, TxFields
  <2>2. InPacket(h, s, p, a, U, o, m)
    BY <2>1 DEF InPacket, TxShape
  <2>3. m + 0 = m
    OBVIOUS
  <2>. QED BY <2>1, <2>2, <2>3, <1>4
<1>6. ASSUME NEW i \in Nat, i \in V PROVE i + 1 \in V
  <2> SUFFICES ASSUME i + 1 <= n PROVE Going(w[i + 1], i + 1) \/ Over(w[i + 1]) \/ Paused(w[i + 1])
    OBVIOUS
  <2>1. i \in 0 .. n - 1 /\ (Going(w[i], i) \/ Over(w[i]) \/ Paused(w[i]))
    BY <1>6
  <2>2. PICK x, y : x = w[i] /\ y = w[i + 1] /\ y = TxStep(x)
    BY <2>1, <1>4, OnceIs
  <2>3. CASE x.stop
    <3>1. y = x
      BY <2>2, <2>3 DEF TxStep
    <3>. QED BY <3>1, <2>1, <2>2, <2>3
  <2>4. CASE ~x.stop
    <3>1. Going(x, i)
      BY <2>1, <2>2, <2>4
    <3>2. PICK k \in Nat : k = m + i /\ k + 1 = m + (i + 1)
      OBVIOUS
    <3>a. InPacket(x, s, p, a, U, o, k) /\ k < p.len
      BY <3>1, <3>2
    <3>3. IF k + 1 < p.len THEN InPacket(y, s, p, a, U, o, k + 1) /\ y.stop = (o.lat # 0)
                           ELSE Gone(y, s, p, a, U, o) /\ y.stop = TRUE
      <4>1. IF k + 1 < p.len THEN InPacket(TxStep(x), s, p, a, U, o, k + 1) /\ TxStep(x).stop = (o.lat # 0)
                             ELSE Gone(TxStep(x), s, p, a, U, o) /\ TxStep(x).stop = TRUE
        BY <2>4, <3>a, TxStepMoves, Zenon
      <4>. QED BY <4>1, <2>2
    <3>4. CASE ~(k + 1 < p.len)
      BY <3>3, <3>4, <2>2
    <3>5. CASE k + 1 < p.len /\ o.lat = 0
      BY <3>2, <3>3, <3>5, <2>2
    <3>6. CASE k + 1 < p.len /\ o.lat # 0
      <4>1. i = 0 /\ k = m
        BY <3>1, <3>2, <3>6
      <4>. QED BY <4>1, <3>3, <3>6, <2>2
    <3>. QED BY <3>4, <3>5, <3>6
  <2>. QED BY <2>3, <2>4
<1> HIDE DEF V
<1>7. Nat \subseteq V
  BY <1>5, <1>6, NatSetInduction
<1>8. Going(w[n], n) \/ Over(w[n]) \/ Paused(w[n])
  BY <1>7 DEF V
<1>9. ~Going(w[n], n)
  BY <1>0, <1>2
<1>10. TxWalk(st) = w[n]
  BY <1>1, <1>4 DEF TxWalk
<1>. QED BY <1>8, <1>9, <1>10

-----------------------------------------------------------------------------
(* The packets in the transmit ring                                        *)

\* The packets P lie one after the other, P[i] from position at[i] on.
InLine(P, at, tail) ==
  /\ P \in Seq(TxPacket)
  /\ \A i \in 1 .. Len(P) + 1 : at[i] \in Nat
  /\ \A i \in 1 .. Len(P) : at[i + 1] = at[i] + P[i].len
  /\ at[Len(P) + 1] - at[1] <= NTx
  /\ tail = TxAt(at[Len(P) + 1], 1)

Numbered(P, n) ==
  /\ n \in Nat
  /\ \A i \in 1 .. Len(P) : P[i].id <= n
  /\ \A i, j \in 1 .. Len(P) : i < j => P[i].id < P[j].id

\* From first on they have still to be sent.
Waiting(P, at, tx, U, first) ==
  /\ U \in Seq(Seq(TxByte)) /\ Len(U) = Len(P) + 1 - first
  /\ \A i \in first .. Len(P) : Laid(tx, P[i], at[i], U[i - first + 1])

\* The heads from i on do not show ETXD.
Fresh(P, tx, i) == \A j \in i .. Len(P) : tx[P[j].head].etxd = FALSE

\* The channel between packets, and within p.
Resting(q, e) == e.s_head = NTx /\ q.tx_frame = <<>> /\ (e.tx.active => e.hold # 0 /\ e.opt.lat # 0)
Midway(q, e, tx, p, a) ==
  /\ e.opt.lat # 0 /\ e.s_head = p.head /\ e.tx.active = TRUE /\ e.hold = 0
  /\ tx[p.head].etxd = FALSE
  /\ \E m \in Nat \ {0} : m < p.len /\ e.tx.nbdp = TxAt(a, m + 1) /\ q.tx_frame = FlattenSeq(Data(tx, a, m))

TxTypes(q, e, r, w) ==
  /\ q = [f \in SeeqFields |-> q[f]]
  /\ e = [f \in EnetFields |-> e[f]] /\ e.tx = [f \in {"active", "nbdp"} |-> e.tx[f]]
  /\ e.tx.active \in BOOLEAN /\ e.hold \in Nat
  /\ e.opt.lat \in Nat /\ e.opt.head \in BOOLEAN /\ (e.opt.lat = 0 \/ e.opt.head)
  /\ r = [f \in {"rx", "tx"} |-> r[f]] /\ TxRing(r.tx)
  /\ w = [f \in WireFields |-> w[f]] /\ w.stray = <<>>

TxLine(q, e, tx, R, P, at, first, U) ==
  /\ Waiting(P, at, tx, U, first)
  /\ Fresh(P, tx, Len(R) + 1)
  /\ \/ first = Len(R) + 1 /\ Resting(q, e)
     \/ first = Len(R) /\ first > 0 /\ Midway(q, e, tx, P[first], at[first])

TxHas(q, e, r, d, w) ==
  /\ TxTypes(q, e, r, w)
  /\ d = [f \in DrvFields |-> d[f]] /\ d.reap \in Seq(TxPacket) /\ d.kick \in Seq(TxPacket)
  /\ Numbered(Cat(d.reap, d.kick), d.packets)
  /\ \E at, first : /\ InLine(Cat(d.reap, d.kick), at, d.tail)
                    /\ TxLine(q, e, r.tx, d.reap, Cat(d.reap, d.kick), at, first, w.unsent)

LEMMA InOrder ==
  ASSUME NEW P, NEW at, NEW tail, InLine(P, at, tail)
  PROVE  \A i, j \in 1 .. Len(P) + 1 : i <= j => at[i] <= at[j]
<1>0. PICK n \in Nat : n = Len(P)
  BY DEF InLine
<1>1. /\ \A i \in 1 .. n + 1 : at[i] \in Nat
      /\ \A i \in 1 .. n : at[i + 1] = at[i] + P[i].len /\ P[i].len \in Nat
  <2>1. \A i \in 1 .. n : P[i] \in TxPacket
    BY <1>0 DEF InLine
  <2>2. \A i \in 1 .. n : P[i].len \in Nat
    BY <2>1 DEF TxPacket
  <2>. QED BY <2>2, <1>0 DEF InLine
<1> DEFINE V == {k \in Nat : k <= n => \A i \in 1 .. k + 1 : at[i] <= at[k + 1]}
<1>2. 0 \in V
  <2>1. at[1] \in Nat /\ \A i \in 1 .. 0 + 1 : i = 1 /\ 0 + 1 = 1
    BY <1>1
  <2>. QED BY <2>1
<1>3. ASSUME NEW k \in Nat, k \in V PROVE k + 1 \in V
  <2> SUFFICES ASSUME k + 1 <= n, NEW i \in 1 .. k + 1 + 1 PROVE at[i] <= at[k + 1 + 1]
    OBVIOUS
  <2>1. k + 1 \in 1 .. n /\ k + 1 \in 1 .. n + 1 /\ k + 1 + 1 \in 1 .. n + 1 /\ i \in 1 .. n + 1
    OBVIOUS
  <2>2. at[k + 1] \in Nat /\ at[k + 1 + 1] \in Nat /\ at[i] \in Nat /\ at[k + 1] <= at[k + 1 + 1]
    BY <1>1, <2>1
  <2>3. CASE i = k + 1 + 1
    BY <2>2, <2>3
  <2>4. CASE i # k + 1 + 1
    <3>1. at[i] <= at[k + 1]
      BY <1>3, <2>4
    <3>. QED BY <3>1, <2>2
  <2>. QED BY <2>3, <2>4
<1> HIDE DEF V
<1>4. Nat \subseteq V
  BY <1>2, <1>3, NatSetInduction
<1>5. ASSUME NEW i \in 1 .. n + 1, NEW j \in 1 .. n + 1, i <= j PROVE at[i] <= at[j]
  <2>1. PICK k \in Nat : k + 1 = j /\ k <= n /\ i \in 1 .. k + 1
    <3>1. j - 1 \in Nat /\ (j - 1) + 1 = j
      OBVIOUS
    <3>. QED BY <3>1, <1>5
  <2>2. k \in V
    BY <1>4
  <2>. QED BY <2>1, <2>2 DEF V
<1>. QED BY <1>0, <1>5

LEMMA LineTypes ==
  ASSUME NEW P, NEW at, NEW tail, InLine(P, at, tail)
  PROVE  /\ Len(P) \in Nat /\ NTx \in Nat \ {0}
         /\ \A i \in 1 .. Len(P) : P[i] \in TxPacket /\ P[i].len \in Nat \ {0} /\ P[i].len <= NTx
         /\ \A i \in 1 .. Len(P) + 1 : at[i] \in Nat
         /\ \A i, j \in 1 .. Len(P) : i < j =>
              \A k \in 1 .. P[i].len, l \in 1 .. P[j].len : TxAt(at[i], k) # TxAt(at[j], l)
<1>0. NTx \in Nat \ {0}
  BY EnetAssumption
<1>1. PICK n \in Nat : n = Len(P)
  BY DEF InLine
<1>2. ASSUME NEW i \in 1 .. n PROVE P[i] \in TxPacket /\ P[i].len \in Nat \ {0}
  <2>1. P[i] \in TxPacket
    BY <1>1 DEF InLine
  <2>. QED BY <2>1 DEF TxPacket
<1>3. \A i \in 1 .. n + 1 : at[i] \in Nat
  BY <1>1 DEF InLine
<1>4. ASSUME NEW i \in 1 .. n, NEW j \in 1 .. n, i <= j
      PROVE  at[j] + P[j].len - at[i] <= NTx /\ at[i] + P[i].len = at[i + 1] /\ (i < j => at[i + 1] <= at[j])
  <2>1. i \in 1 .. n + 1 /\ j \in 1 .. n + 1 /\ j + 1 \in 1 .. n + 1 /\ i + 1 \in 1 .. n + 1 /\ n + 1 \in 1 .. n + 1 /\ 1 \in 1 .. n + 1
    OBVIOUS
  <2>2. at[1] <= at[i] /\ at[j + 1] <= at[n + 1] /\ (i < j => at[i + 1] <= at[j])
    BY <1>1, <2>1, InOrder
  <2>3. at[j + 1] = at[j] + P[j].len /\ at[i + 1] = at[i] + P[i].len /\ at[n + 1] - at[1] <= NTx
    BY <1>1 DEF InLine
  <2>. QED BY <2>1, <2>2, <2>3, <1>0, <1>2, <1>3
<1>5. ASSUME NEW i \in 1 .. n PROVE P[i].len <= NTx
  <2>1. at[i] + P[i].len - at[i] <= NTx /\ at[i] \in Nat /\ P[i].len \in Nat
    BY <1>2, <1>3, <1>4
  <2>. QED BY <2>1, <1>0
<1>6. ASSUME NEW i \in 1 .. n, NEW j \in 1 .. n, i < j, NEW k \in 1 .. P[i].len, NEW l \in 1 .. P[j].len
      PROVE  TxAt(at[i], k) # TxAt(at[j], l)
  <2>1. PICK a \in Nat, b \in Nat, x \in Nat, y \in Nat : a = at[i] /\ b = at[j] /\ x = P[i].len /\ y = P[j].len
    BY <1>2, <1>3
  <2>2. b + y - a <= NTx /\ a + x <= b
    BY <1>4, <1>6, <2>1
  <2>3. k \in Nat /\ l \in Nat /\ k > 0 /\ l > 0 /\ k <= x /\ l <= y
    BY <2>1
  <2>4. a + k < b + l /\ b + l - (a + k) < NTx
    BY <2>2, <2>3, <1>0
  <2>5. TxAt(a, k) # TxAt(b, l)
    BY <2>3, <2>4, TxPlaces
  <2>. QED BY <2>1, <2>5
<1>. QED BY <1>0, <1>1, <1>2, <1>3, <1>5, <1>6

\* Sending a packet leaves the others alone.
LEMMA OthersStay ==
  ASSUME NEW P, NEW at, NEW tail, InLine(P, at, tail), NEW s, TxRing(s), NEW U, NEW first \in 1 .. Len(P),
         Waiting(P, at, s, U, first)
  PROVE  /\ CanSend(s, P[first], at[first], U)
         /\ \A t : KeptTx(s, t, P[first], at[first]) =>
              /\ TxRing(t) /\ Waiting(P, at, t, U, first) /\ Waiting(P, at, t, Tail(U), first + 1)
              /\ Fresh(P, s, first + 1) => Fresh(P, t, first + 1)
<1>0. /\ Len(P) \in Nat /\ NTx \in Nat \ {0}
      /\ \A i \in 1 .. Len(P) : P[i] \in TxPacket /\ P[i].len \in Nat \ {0} /\ P[i].len <= NTx
      /\ \A i \in 1 .. Len(P) + 1 : at[i] \in Nat
  BY LineTypes
<1>1. U \in Seq(Seq(TxByte)) /\ Len(U) = Len(P) + 1 - first /\ Len(U) > 0 /\ U # <<>>
  BY <1>0 DEF Waiting
<1>2. CanSend(s, P[first], at[first], U)
  <2>0. first \in first .. Len(P) /\ first - first + 1 = 1
    BY <1>0
  <2>1. Laid(s, P[first], at[first], U[first - first + 1]) /\ first - first + 1 = 1
    BY <2>0 DEF Waiting
  <2>. QED BY <2>1, <1>0, <1>1 DEF CanSend
<1>3. ASSUME NEW t, KeptTx(s, t, P[first], at[first]), NEW i \in first .. Len(P)
      PROVE  Laid(t, P[i], at[i], U[i - first + 1])
  <2>1. Laid(s, P[i], at[i], U[i - first + 1]) /\ at[i] \in Nat /\ P[i] \in TxPacket
    BY <1>0 DEF Waiting
  <2>2. \A k \in 1 .. P[i].len : TxAt(at[i], k) \in 0 .. NTx - 1
    <3>1. \A k \in 1 .. P[i].len : k \in Nat \ {0}
      BY <1>0
    <3>. QED BY <3>1, <2>1, TxPlaces
  <2>3. \A k \in 1 .. P[i].len : t[TxAt(at[i], k)].eox = s[TxAt(at[i], k)].eox
                                 /\ t[TxAt(at[i], k)].data = s[TxAt(at[i], k)].data
    BY <1>3, <2>2 DEF KeptTx, SameData
  <2>. QED BY <2>1, <2>3, LaidSame
<1>4. ASSUME NEW t, KeptTx(s, t, P[first], at[first]) PROVE Waiting(P, at, t, U, first)
  BY <1>3, <1>4, <1>1 DEF Waiting
<1>5. ASSUME NEW t, KeptTx(s, t, P[first], at[first]) PROVE Waiting(P, at, t, Tail(U), first + 1)
  <2>1. Tail(U) \in Seq(Seq(TxByte)) /\ Len(Tail(U)) = Len(P) + 1 - (first + 1)
    BY <1>0, <1>1
  <2>2. ASSUME NEW i \in first + 1 .. Len(P) PROVE Laid(t, P[i], at[i], Tail(U)[i - (first + 1) + 1])
    <3>1. i \in first .. Len(P) /\ i - (first + 1) + 1 \in 1 .. Len(U) - 1 /\ (i - (first + 1) + 1) + 1 = i - first + 1
      BY <1>0, <1>1
    <3>2. Tail(U)[i - (first + 1) + 1] = U[i - first + 1]
      BY <1>1, <3>1
    <3>. QED BY <3>1, <3>2, <1>3, <1>5
  <2>. QED BY <2>1, <2>2 DEF Waiting
<1>6. ASSUME NEW t, KeptTx(s, t, P[first], at[first]), Fresh(P, s, first + 1) PROVE Fresh(P, t, first + 1)
  <2> SUFFICES ASSUME NEW j \in first + 1 .. Len(P) PROVE t[P[j].head].etxd = FALSE
    BY DEF Fresh
  <2>1. j \in 1 .. Len(P) /\ first < j /\ j \in first .. Len(P) /\ 1 \in 1 .. P[j].len
    BY <1>0
  <2>2. P[j].head = TxAt(at[j], 1)
    BY <2>1 DEF Waiting, Laid
  <2>3. TxAt(at[j], 1) \in 0 .. NTx - 1
    <3>1. 1 \in Nat \ {0} /\ at[j] \in Nat
      BY <2>1, <1>0
    <3>. QED BY <3>1, TxPlaces
  <2>4. \A k \in 1 .. P[first].len : TxAt(at[first], k) # TxAt(at[j], 1)
    BY <2>1, LineTypes
  <2>5. t[P[j].head].etxd = s[P[j].head].etxd
    BY <2>2, <2>3, <2>4, <1>6 DEF KeptTx
  <2>. QED BY <2>5, <1>6 DEF Fresh
<1>7. \A t : KeptTx(s, t, P[first], at[first]) => TxRing(t)
  BY DEF KeptTx
<1>. QED BY <1>2, <1>4, <1>5, <1>6, <1>7

\* What does not concern transmission.
SameSending(q, e, r, t, c, s) ==
  /\ t.tx_frame = q.tx_frame
  /\ c.opt = e.opt /\ c.tx = e.tx /\ c.hold = e.hold /\ c.s_head = e.s_head
  /\ s.tx = r.tx

SameQueue(d, b) ==
  b = [f \in DrvFields |-> b[f]] /\ b.tail = d.tail /\ b.kick = d.kick /\ b.reap = d.reap /\ b.packets = d.packets

SameUnsent(w, v) == v = [f \in WireFields |-> v[f]] /\ v.unsent = w.unsent /\ v.stray = w.stray

Shaped(q, e, r) ==
  /\ q = [f \in SeeqFields |-> q[f]] /\ e = [f \in EnetFields |-> e[f]] /\ r = [f \in {"rx", "tx"} |-> r[f]]

LEMMA TxSame ==
  ASSUME NEW q, NEW e, NEW r, NEW d, NEW w, TxHas(q, e, r, d, w),
         NEW t, NEW c, NEW s, Shaped(t, c, s), SameSending(q, e, r, t, c, s),
         NEW b, SameQueue(d, b), NEW v, SameUnsent(w, v)
  PROVE  TxHas(t, c, s, b, v)
<1>1. TxTypes(t, c, s, v)
  BY DEF TxHas, TxTypes, Shaped, SameSending, SameUnsent
<1>2. PICK at, first : /\ InLine(Cat(d.reap, d.kick), at, d.tail)
                       /\ TxLine(q, e, r.tx, d.reap, Cat(d.reap, d.kick), at, first, w.unsent)
  BY DEF TxHas
<1>3. Resting(q, e) = Resting(t, c) /\ \A x, p, a : Midway(q, e, x, p, a) = Midway(t, c, x, p, a)
  BY DEF Resting, Midway, SameSending
<1>4. TxLine(t, c, s.tx, b.reap, Cat(b.reap, b.kick), at, first, v.unsent)
  BY <1>2, <1>3 DEF TxLine, SameSending, SameQueue, SameUnsent
<1>5. InLine(Cat(b.reap, b.kick), at, b.tail) /\ Numbered(Cat(b.reap, b.kick), b.packets)
  BY <1>2 DEF TxHas, SameQueue
<1>. QED BY <1>1, <1>4, <1>5 DEF TxHas, SameQueue

LEMMA SendingSame ==
  ASSUME NEW st, NEW d, NEW D, RxWalker(st, d, D)
  PROVE  SameSending(st.q, st.e, st.r, RxStep(st).q, RxStep(st).e, RxStep(st).r)
<1>1. PICK q, i, n, last :
        /\ q = Stage(st.q) /\ i = st.e.rx.nbdp
        /\ n = (IF Len(q.rx_cur) < BufSize THEN Len(q.rx_cur) ELSE BufSize)
        /\ last = (n = Len(q.rx_cur))
  OBVIOUS
<1>2. /\ st = [f \in WalkFields |-> st[f]]
      /\ st.q = [f \in SeeqFields |-> st.q[f]] /\ st.e = [f \in EnetFields |-> st.e[f]]
      /\ st.r = [f \in {"rx", "tx"} |-> st.r[f]]
  BY DEF RxWalker, RxHas, RxTypes
<1>3. q.tx_frame = st.q.tx_frame /\ q = [f \in SeeqFields |-> q[f]]
  <2>1. CASE st.q.rx_cur = <<>> /\ st.q.rx_queue # <<>>
    BY <2>1, <1>1, <1>2 DEF Stage, SeeqFields
  <2>2. CASE ~(st.q.rx_cur = <<>> /\ st.q.rx_queue # <<>>)
    <3>1. q = st.q
      BY <2>2, <1>1 DEF Stage
    <3>. QED BY <3>1, <1>2
  <2>. QED BY <2>1, <2>2
<1>4. CASE ~(rx_avail(st.q) /\ st.e.rx.active) \/ st.stop
  <2>1. PICK t : t = [st EXCEPT !.stop = TRUE]
    OBVIOUS
  <2>2. RxStep(st) = t
    BY <1>4, <2>1 DEF RxStep
  <2>3. t.q = st.q /\ t.e = st.e /\ t.r = st.r
    BY <2>1, <1>2 DEF WalkFields
  <2>. QED BY <2>2, <2>3 DEF SameSending
<1>5. CASE ~(~(rx_avail(st.q) /\ st.e.rx.active) \/ st.stop) /\ ~st.r.rx[i].own
  <2>1. PICK t : t = [st EXCEPT !.q = q, !.stop = TRUE]
    OBVIOUS
  <2>2. RxStep(st) = t
    BY <1>1, <1>5, <2>1 DEF RxStep
  <2>3. t.q = q /\ t.e = st.e /\ t.r = st.r
    BY <2>1, <1>2 DEF WalkFields
  <2>. QED BY <1>3, <2>2, <2>3 DEF SameSending
<1>6. CASE ~(~(rx_avail(st.q) /\ st.e.rx.active) \/ st.stop) /\ st.r.rx[i].own
  <2>1. PICK t, c, s :
          /\ t = [q EXCEPT !.rx_cur = SubSeq(@, n + 1, Len(@)), !.rx_new = @ \/ last]
          /\ c = [st.e EXCEPT !.rx.nbdp = (i + 1) % NRx, !.crbdp = i, !.rx_irq = TRUE]
          /\ s = [st.r EXCEPT !.rx[i] = [own |-> FALSE, data |-> SubSeq(q.rx_cur, 1, n)]]
    OBVIOUS
  <2>2. RxStep(st) = [q |-> t, e |-> c, r |-> s, stop |-> i = NRx - 1]
    BY <1>1, <1>6, <2>1 DEF RxStep
  <2>3. t.tx_frame = st.q.tx_frame
    BY <2>1, <1>3 DEF SeeqFields
  <2>4. c.opt = st.e.opt /\ c.tx = st.e.tx /\ c.hold = st.e.hold /\ c.s_head = st.e.s_head
    BY <2>1, <1>2 DEF EnetFields
  <2>5. s.tx = st.r.tx
    BY <2>1, <1>2
  <2>6. PICK y : y = RxStep(st)
    OBVIOUS
  <2>7. y.q = t /\ y.e = c /\ y.r = s
    BY <2>2, <2>6
  <2>. QED BY <2>3, <2>4, <2>5, <2>6, <2>7 DEF SameSending
<1>. QED BY <1>4, <1>5, <1>6

LEMMA RxWalkSending ==
  ASSUME NEW st, NEW d, NEW D, RxWalker(st, d, D)
  PROVE  SameSending(st.q, st.e, st.r, RxWalk(st).q, RxWalk(st).e, RxWalk(st).r)
<1>1. PICK h, q : h = [st EXCEPT !.stop = FALSE] /\ q = [i \in 1 .. NRx |-> i]
  OBVIOUS
<1>2. PICK n \in Nat : n = NRx /\ DOMAIN q = 1 .. n
  BY <1>1, EnetAssumption
<1>3. PICK w : RxWalked(w, h, q, n)
  BY <1>2, RxWalkIs
<1>4. /\ w[0] = h
      /\ \A i \in 0 .. n - 1 : w[i + 1] = Once(RxStep, w[i])
      /\ FoldLeft(LAMBDA s, i : Once(RxStep, s), h, q) = w[n]
  BY <1>3 DEF RxWalked
<1> DEFINE U == {i \in Nat : i <= n => /\ RxWalker(w[i], d, D)
                                       /\ SameSending(st.q, st.e, st.r, w[i].q, w[i].e, w[i].r)}
<1>5. 0 \in U
  <2>1. h = [f \in WalkFields |-> h[f]] /\ h.stop = FALSE /\ h.q = st.q /\ h.e = st.e /\ h.r = st.r
    BY <1>1 DEF RxWalker, WalkFields
  <2>2. RxWalker(h, d, D)
    BY <2>1 DEF RxWalker
  <2>3. SameSending(st.q, st.e, st.r, h.q, h.e, h.r)
    BY <2>1 DEF SameSending
  <2>. QED BY <2>2, <2>3, <1>4
<1>6. ASSUME NEW i \in Nat, i \in U PROVE i + 1 \in U
  <2> SUFFICES ASSUME i + 1 <= n
               PROVE  /\ RxWalker(w[i + 1], d, D)
                      /\ SameSending(st.q, st.e, st.r, w[i + 1].q, w[i + 1].e, w[i + 1].r)
    OBVIOUS
  <2>1. /\ i \in 0 .. n - 1 /\ RxWalker(w[i], d, D)
        /\ SameSending(st.q, st.e, st.r, w[i].q, w[i].e, w[i].r)
    BY <1>6
  <2>2. PICK x, y : x = w[i] /\ y = w[i + 1] /\ y = RxStep(x)
    BY <2>1, <1>4, OnceIs
  <2>3. RxWalker(y, d, D)
    BY <2>1, <2>2, RxStepKeeps
  <2>4. SameSending(x.q, x.e, x.r, y.q, y.e, y.r)
    BY <2>1, <2>2, SendingSame
  <2>. QED BY <2>1, <2>2, <2>3, <2>4 DEF SameSending
<1> HIDE DEF U
<1>7. Nat \subseteq U
  BY <1>5, <1>6, NatSetInduction
<1>8. SameSending(st.q, st.e, st.r, w[n].q, w[n].e, w[n].r)
  BY <1>7 DEF U
<1>9. RxWalk(st) = w[n]
  BY <1>1, <1>4 DEF RxWalk
<1>. QED BY <1>8, <1>9
-----------------------------------------------------------------------------
(* The actions of transmission                                             *)

Sending == TxHas(seeq, enet, rings, drv, wire)

LEMMA SendingTypes ==
  ASSUME RxInv
  PROVE  /\ Shaped(seeq, enet, rings) /\ SameQueue(drv, drv) /\ SameUnsent(wire, wire)
         /\ SameSending(seeq, enet, rings, seeq, enet, rings)
  BY DEF RxInv, RxHas, RxTypes, Shaped, SameQueue, SameUnsent, SameSending

\* The walk that arms the channel starts from what reception holds.
LEMMA ArmWalker ==
  ASSUME RxInv, ~enet.rx.active, NEW c, c = [enet EXCEPT !.rx = [active |-> TRUE, nbdp |-> drv.rx]],
         NEW h, h = [q |-> seeq, r |-> rings, stop |-> FALSE, e |-> c]
  PROVE  RxWalker(h, drv.rx, wire.due)
<1>4. PICK d, D : d = drv.rx /\ D = wire.due /\ RxHas(seeq, enet, rings, d, D)
  BY DEF RxInv
<1>5. /\ c = [f \in EnetFields |-> c[f]]
      /\ c.rx = [f \in {"active", "nbdp"} |-> c.rx[f]]
      /\ c.rx.active = TRUE /\ c.rx.nbdp = d
  BY <1>4 DEF RxHas, RxTypes, EnetFields
<1>6. PICK F \in Seq(Seq(EthByte)) :
        Held(F, enet.rx.active, enet.rx.nbdp, rings.rx, d) /\ D = Cat(FlattenSeq(F), Coming(seeq))
  BY <1>4 DEF RxHas
<1>7. Held(F, c.rx.active, c.rx.nbdp, rings.rx, d)
  <2>1. F = <<>>
    BY <1>6 DEF Held
  <2>2. Len(F) = 0
    BY <2>1
  <2>3. RxAt(d, 0) = d
    BY <1>4, RxPlaces DEF RxHas, RxTypes
  <2>. QED BY <1>5, <1>6, <2>2, <2>3 DEF Held
<1>8. RxHas(seeq, c, rings, d, D)
  <2>1. RxTypes(seeq, c, rings, d)
    BY <1>4, <1>5 DEF RxHas, RxTypes
  <2>. QED BY <2>1, <1>6, <1>7 DEF RxHas
<1>9. h = [f \in WalkFields |-> h[f]] /\ h.stop = FALSE /\ h.q = seeq /\ h.e = c /\ h.r = rings
  BY DEF WalkFields
<1>. QED BY <1>4, <1>8, <1>9 DEF RxWalker

\* The actions of reception, of the interrupt and of the chip's registers.
LEMMA SendingStays ==
  ASSUME RxInv, RxInv', Sending,
         \/ \E f \in Frames : NetSend(f)
         \/ ArmRx \/ TakeRx \/ ClearIrq \/ SetupSeeq \/ UNCHANGED enetVars
  PROVE  Sending'
<1>0. Shaped(seeq', enet', rings')
  BY DEF RxInv, RxHas, RxTypes, Shaped
<1>1. /\ seeq = [f \in SeeqFields |-> seeq[f]] /\ enet = [f \in EnetFields |-> enet[f]]
      /\ rings = [f \in {"rx", "tx"} |-> rings[f]]
      /\ wire = [f \in WireFields |-> wire[f]] /\ drv = [f \in DrvFields |-> drv[f]]
  BY DEF RxInv, RxHas, RxTypes
<1>2. SUFFICES /\ SameSending(seeq, enet, rings, seeq', enet', rings')
               /\ SameQueue(drv, drv') /\ SameUnsent(wire, wire')
  BY <1>0, TxSame DEF Sending
<1>3. SameQueue(drv, drv) /\ SameUnsent(wire, wire) /\ SameSending(seeq, enet, rings, seeq, enet, rings)
  BY SendingTypes
<1>4. CASE \E f \in Frames : NetSend(f)
  <2>1. PICK f \in Frames : NetSend(f)
    BY <1>4
  <2>2. SameUnsent(wire, wire')
    BY <2>1, <1>1 DEF NetSend, SameUnsent, WireFields
  <2>3. seeq'.tx_frame = seeq.tx_frame /\ enet' = enet /\ rings' = rings /\ drv' = drv
    BY <2>1, <1>1 DEF NetSend, SeeqFields
  <2>. QED BY <2>2, <2>3, <1>3 DEF SameSending
<1>5. CASE ArmRx
  <2>1. PICK c : c = [enet EXCEPT !.rx = [active |-> TRUE, nbdp |-> drv.rx]]
    OBVIOUS
  <2>2. PICK h : h = [q |-> seeq, r |-> rings, stop |-> FALSE, e |-> c]
    OBVIOUS
  <2>3. ~enet.rx.active /\ wire' = wire /\ drv' = drv
        /\ seeq' = RxWalk(h).q /\ enet' = RxWalk(h).e /\ rings' = RxWalk(h).r
    BY <2>1, <2>2, <1>5 DEF ArmRx
  <2>4. c = [f \in EnetFields |-> c[f]] /\ c.opt = enet.opt /\ c.tx = enet.tx /\ c.hold = enet.hold
        /\ c.s_head = enet.s_head
    BY <2>1, <1>1 DEF EnetFields
  <2>5. h.q = seeq /\ h.e = c /\ h.r = rings
    BY <2>2
  <2>6. PICK d, D : RxWalker(h, d, D)
    BY <2>1, <2>2, <2>3, ArmWalker
  <2>7. SameSending(h.q, h.e, h.r, RxWalk(h).q, RxWalk(h).e, RxWalk(h).r)
    BY <2>6, RxWalkSending
  <2>8. SameSending(seeq, enet, rings, seeq', enet', rings')
    BY <2>3, <2>4, <2>5, <2>7 DEF SameSending
  <2>. QED BY <2>3, <2>8, <1>3
<1>6. CASE TakeRx
  <2>1. SameUnsent(wire, wire')
    BY <1>6, <1>1 DEF TakeRx, SameUnsent, WireFields
  <2>2. SameQueue(drv, drv')
    BY <1>6, <1>1 DEF TakeRx, SameQueue, DrvFields
  <2>3. seeq' = seeq /\ enet' = enet /\ rings'.tx = rings.tx
    BY <1>6, <1>1 DEF TakeRx
  <2>. QED BY <2>1, <2>2, <2>3 DEF SameSending
<1>7. CASE ClearIrq
  <2>1. enet'.opt = enet.opt /\ enet'.tx = enet.tx /\ enet'.hold = enet.hold /\ enet'.s_head = enet.s_head
    BY <1>7, <1>1 DEF ClearIrq, EnetFields
  <2>. QED BY <2>1, <1>3, <1>7 DEF ClearIrq, SameSending
<1>8. CASE SetupSeeq
  <2>1. seeq'.tx_frame = seeq.tx_frame
    BY <1>1, <1>8 DEF SetupSeeq, SeeqWriteRx, SeeqWriteTx, SeeqWriteStation, SeeqReadStat, SeeqFields
  <2>. QED BY <2>1, <1>3, <1>8 DEF SetupSeeq, SameSending
<1>9. CASE UNCHANGED enetVars
  BY <1>3, <1>9 DEF enetVars
<1>. QED BY <1>4, <1>5, <1>6, <1>7, <1>8, <1>9

\* The head of K goes over to R, the head of R is taken.
LEMMA CatMoves ==
  ASSUME NEW S, NEW R \in Seq(S), NEW K \in Seq(S)
  PROVE  /\ Cat(R, K) \in Seq(S) /\ Len(Cat(R, K)) = Len(R) + Len(K)
         /\ \A i \in 1 .. Len(R) : Cat(R, K)[i] = R[i]
         /\ \A i \in 1 .. Len(K) : Cat(R, K)[Len(R) + i] = K[i]
         /\ K # <<>> => /\ Append(R, Head(K)) \in Seq(S) /\ Tail(K) \in Seq(S)
                        /\ Len(Append(R, Head(K))) = Len(R) + 1
                        /\ Cat(Append(R, Head(K)), Tail(K)) = Cat(R, K)
         /\ R # <<>> => /\ Tail(R) \in Seq(S) /\ Len(Tail(R)) = Len(R) - 1
                        /\ Cat(Tail(R), K) = Tail(Cat(R, K))
<1>1. PICK C : C = Cat(R, K) /\ C \in Seq(S)
  BY CatType
<1>2. PICK r \in Nat, k \in Nat : r = Len(R) /\ k = Len(K)
  OBVIOUS
<1>3. Len(C) = r + k /\ \A i \in 1 .. r + k : C[i] = IF i <= r THEN R[i] ELSE K[i - r]
  BY <1>1, <1>2 DEF Cat
<1>4. \A i \in 1 .. r : C[i] = R[i]
  BY <1>3
<1>5. ASSUME NEW i \in 1 .. k PROVE C[r + i] = K[i]
  <2>1. r + i \in 1 .. r + k /\ ~(r + i <= r) /\ (r + i) - r = i
    OBVIOUS
  <2>. QED BY <2>1, <1>3
<1>6. ASSUME K # <<>>
      PROVE  /\ Append(R, Head(K)) \in Seq(S) /\ Tail(K) \in Seq(S) /\ Len(Append(R, Head(K))) = Len(R) + 1
             /\ Cat(Append(R, Head(K)), Tail(K)) = C
  <2>1. PICK x \in S : x = Head(K)
    BY <1>6
  <2>2. PICK A \in Seq(S), T \in Seq(S) : A = Append(R, x) /\ T = Tail(K) /\ Len(A) = r + 1 /\ Len(T) = k - 1
    <3>1. Append(R, x) \in Seq(S) /\ Tail(K) \in Seq(S) /\ Len(Append(R, x)) = r + 1 /\ Len(Tail(K)) = k - 1
      BY <1>2, <1>6
    <3>. QED BY <3>1
  <2>3. Len(C) = Len(A) + Len(T)
    BY <2>2, <1>3
  <2>4. ASSUME NEW i \in 1 .. Len(A) + Len(T) PROVE C[i] = IF i <= Len(A) THEN A[i] ELSE T[i - Len(A)]
    <3>1. i \in 1 .. r + k
      BY <2>2
    <3>2. CASE i <= r
      <4>1. A[i] = R[i]
        BY <3>2, <2>2, <1>2
      <4>. QED BY <4>1, <3>1, <3>2, <2>2, <1>3
    <3>3. CASE i = r + 1
      <4>1. A[i] = x /\ K[1] = x
        BY <3>3, <2>1, <2>2, <1>2, <1>6
      <4>2. i - r = 1
        BY <3>3
      <4>. QED BY <4>1, <4>2, <3>1, <3>3, <2>2, <1>3
    <3>4. CASE i > r + 1
      <4>1. PICK j \in 1 .. k - 1 : j = i - (r + 1) /\ j + 1 = i - r
        BY <3>1, <3>4
      <4>2. T[j] = K[j + 1]
        BY <4>1, <2>2, <1>2, <1>6
      <4>. QED BY <4>1, <4>2, <3>1, <3>4, <2>2, <1>3
    <3>. QED BY <3>1, <3>2, <3>3, <3>4
  <2>5. C = Cat(A, T)
    BY <2>3, <2>4, <1>1, CatIs
  <2>. QED BY <2>1, <2>2, <2>5, <1>2
<1>7. ASSUME R # <<>>
      PROVE  Tail(R) \in Seq(S) /\ Len(Tail(R)) = Len(R) - 1 /\ Cat(Tail(R), K) = Tail(C)
  <2>1. PICK T \in Seq(S), V \in Seq(S) : T = Tail(R) /\ V = Tail(C) /\ Len(T) = r - 1 /\ Len(V) = r + k - 1 /\ r > 0
    <3>1. r > 0 /\ C # <<>>
      BY <1>1, <1>2, <1>3, <1>7
    <3>2. Tail(R) \in Seq(S) /\ Tail(C) \in Seq(S) /\ Len(Tail(R)) = r - 1 /\ Len(Tail(C)) = r + k - 1
      BY <3>1, <1>1, <1>2, <1>3, <1>7
    <3>. QED BY <3>1, <3>2
  <2>2. Len(V) = Len(T) + Len(K)
    BY <2>1, <1>2
  <2>3. ASSUME NEW i \in 1 .. Len(T) + Len(K) PROVE V[i] = IF i <= Len(T) THEN T[i] ELSE K[i - Len(T)]
    <3>0. i \in 1 .. r + k - 1 /\ i + 1 \in 1 .. r + k
      BY <2>1, <1>2
    <3>1. V[i] = C[i + 1]
      BY <3>0, <2>1, <1>1, <1>3
    <3>2. i <= r - 1 => T[i] = R[i + 1]
      BY <3>0, <2>1, <1>2
    <3>3. i + 1 <= r <=> i <= r - 1
      BY <3>0
    <3>4. (i + 1) - r = i - (r - 1)
      BY <3>0
    <3>. QED BY <3>0, <3>1, <3>2, <3>3, <3>4, <2>1, <1>3
  <2>4. V = Cat(T, K)
    BY <2>2, <2>3, CatIs
  <2>. QED BY <2>1, <2>4, <1>2
<1>. QED BY <1>1, <1>2, <1>3, <1>4, <1>5, <1>6, <1>7

LEMMA DataSame ==
  ASSUME NEW s, NEW t, SameData(s, t), NEW a \in Nat, NEW m \in Nat
  PROVE  Data(t, a, m) = Data(s, a, m)
<1>1. \A k \in 1 .. m : TxAt(a, k) \in 0 .. NTx - 1
  <2>1. \A k \in 1 .. m : k \in Nat \ {0}
    OBVIOUS
  <2>. QED BY <2>1, TxPlaces
<1>. QED BY <1>1 DEF Data, SameData

\* The walk has sent the packet the channel is at, or one descriptor of it.
LEMMA WalkSends ==
  ASSUME NEW P, NEW at, NEW tail, InLine(P, at, tail), NEW s, TxRing(s), NEW U, NEW R, NEW f \in 1 .. Len(P),
         f = Len(R), Waiting(P, at, s, U, f), Fresh(P, s, f + 1),
         NEW o, o.lat = 0 \/ o.head, NEW x,
         \/ Gone(x, s, P[f], at[f], U, o)
         \/ o.lat # 0 /\ \E m \in Nat \ {0} : m < P[f].len /\ InPacket(x, s, P[f], at[f], U, o, m)
  PROVE  TxTypes(x.q, x.e, x.r, x.w) /\ \E g : TxLine(x.q, x.e, x.r.tx, R, P, at, g, x.w.unsent)
<1>0. f \in Nat /\ f > 0 /\ at[f] \in Nat
  BY LineTypes
<1>1. PICK p, a, t : p = P[f] /\ a = at[f] /\ t = x.r.tx
  OBVIOUS
<1>2. /\ CanSend(s, p, a, U)
      /\ KeptTx(s, t, p, a) => /\ TxRing(t) /\ Waiting(P, at, t, U, f) /\ Waiting(P, at, t, Tail(U), f + 1)
                               /\ Fresh(P, s, f + 1) => Fresh(P, t, f + 1)
  BY <1>1, OthersStay
<1>3. CASE Gone(x, s, P[f], at[f], U, o)
  <2>1. Gone(x, s, p, a, U, o) /\ KeptTx(s, t, p, a)
    BY <1>1, <1>3 DEF Gone
  <2>2. TxTypes(x.q, x.e, x.r, x.w)
    BY <2>1, <1>1, <1>2 DEF Gone, TxShape, TxTypes
  <2>3. Waiting(P, at, t, x.w.unsent, f + 1) /\ Fresh(P, t, f + 1)
    BY <2>1, <1>2 DEF Gone
  <2>4. Resting(x.q, x.e)
    BY <2>1 DEF Gone, Resting
  <2>5. TxLine(x.q, x.e, t, R, P, at, f + 1, x.w.unsent)
    BY <2>3, <2>4 DEF TxLine
  <2>. QED BY <2>2, <2>5, <1>1
<1>4. CASE o.lat # 0 /\ \E m \in Nat \ {0} : m < P[f].len /\ InPacket(x, s, P[f], at[f], U, o, m)
  <2>1. PICK m \in Nat \ {0} : m < p.len /\ InPacket(x, s, p, a, U, o, m) /\ KeptTx(s, t, p, a)
    BY <1>1, <1>4 DEF InPacket
  <2>2. TxTypes(x.q, x.e, x.r, x.w)
    <3>1. TxShape(x) /\ x.e.opt = o /\ x.e.tx.active = TRUE /\ x.e.hold = 0 /\ x.w.stray = <<>>
      BY <2>1 DEF InPacket
    <3>2. TxRing(x.r.tx)
      BY <2>1, <1>1, <1>2
    <3>a. x.e.tx.active = TRUE
      BY <3>1, Zenon
    <3>b. x.e.tx.active \in BOOLEAN
      BY <3>a
    <3>c. x.e.hold \in Nat
      BY <3>1
    <3>3. x.e.tx.active \in BOOLEAN /\ x.e.hold \in Nat
      BY <3>b, <3>c
    <3>4. x.e.opt.lat = 0 \/ x.e.opt.head
      BY <3>1
    <3>. QED BY <3>1, <3>2, <3>3, <3>4, Zenon DEF TxShape, TxTypes
  <2>3. Waiting(P, at, t, x.w.unsent, f) /\ Fresh(P, t, f + 1)
    BY <2>1, <1>2 DEF InPacket
  <2>4. Data(t, a, m) = Data(s, a, m)
    <3>1. SameData(s, t)
      BY <2>1 DEF KeptTx
    <3>. QED BY <3>1, <1>0, <1>1, DataSame
  <2>5. Midway(x.q, x.e, t, p, a)
    <3>1. x.e.opt.lat # 0 /\ x.e.s_head = p.head /\ x.e.tx.active = TRUE /\ x.e.hold = 0 /\ t[p.head].etxd = FALSE
      BY <2>1, <1>1, <1>4 DEF InPacket
    <3>2. x.e.tx.nbdp = TxAt(a, m + 1) /\ x.q.tx_frame = FlattenSeq(Data(t, a, m))
      BY <2>1, <2>4 DEF InPacket
    <3>. QED BY <2>1, <3>1, <3>2 DEF Midway
  <2>6. TxLine(x.q, x.e, t, R, P, at, f, x.w.unsent)
    BY <2>3, <2>5, <1>0, <1>1 DEF TxLine
  <2>. QED BY <2>2, <2>6, <1>1
<1>. QED BY <1>3, <1>4

LEMMA KickSends == ASSUME RxInv, RxInv', Sending, KickTx PROVE Sending'
<1>rk. PICK R \in Seq(TxPacket), K \in Seq(TxPacket) : R = drv.reap /\ K = drv.kick
  BY DEF Sending, TxHas
<1>1. PICK P, tail, U, s :
        /\ R = drv.reap /\ K = drv.kick /\ P = Cat(R, K) /\ tail = drv.tail /\ U = wire.unsent /\ s = rings.tx
  BY <1>rk
<1>2. PICK at, first : InLine(P, at, tail) /\ TxLine(seeq, enet, s, R, P, at, first, U)
  BY <1>1 DEF Sending, TxHas
<1>3. TxTypes(seeq, enet, rings, wire)
  BY DEF Sending, TxHas
<1>4. PICK f \in Nat : f = Len(R) + 1
  OBVIOUS
<1>5. enet.tx.active = FALSE /\ K # <<>>
  BY <1>1, <1>3 DEF KickTx, TxTypes
<1>6. first = f /\ Resting(seeq, enet) /\ Waiting(P, at, s, U, f) /\ Fresh(P, s, f)
  BY <1>2, <1>4, <1>5 DEF TxLine, Midway
<1>7. /\ P \in Seq(TxPacket) /\ Len(P) = Len(R) + Len(K) /\ f \in 1 .. Len(P) /\ P[f] = Head(K)
  <2>1. Len(K) \in Nat /\ Len(K) > 0 /\ 1 \in 1 .. Len(K) /\ Head(K) = K[1] /\ Len(R) \in Nat
    BY <1>5
  <2>2. /\ P \in Seq(TxPacket) /\ Len(P) = Len(R) + Len(K)
        /\ \A i \in 1 .. Len(K) : P[Len(R) + i] = K[i]
    <3>1. Cat(R, K) \in Seq(TxPacket) /\ Len(Cat(R, K)) = Len(R) + Len(K)
      BY CatMoves
    <3>2. \A i \in 1 .. Len(K) : Cat(R, K)[Len(R) + i] = K[i]
      BY CatMoves
    <3>. QED BY <3>1, <3>2, <1>1
  <2>. QED BY <2>1, <2>2, <1>4
<1>8. PICK p, a : p = P[f] /\ a = at[f]
  OBVIOUS
<1>9. CanSend(s, p, a, U) /\ p.len \in Nat \ {0} /\ p.head = TxAt(a, 1)
  <2>1. TxRing(s)
    BY <1>1, <1>3 DEF TxTypes
  <2>2. CanSend(s, p, a, U)
    BY <2>1, <1>2, <1>6, <1>7, <1>8, OthersStay
  <2>3. p \in TxPacket /\ p.head = TxAt(a, 1)
    BY <2>2 DEF CanSend, Laid
  <2>. QED BY <2>2, <2>3 DEF TxPacket
<1>10. PICK c : c = [TxCtrl(enet, TRUE) EXCEPT !.tx.nbdp = Head(drv.kick).head]
  OBVIOUS
<1>11. /\ c = [g \in EnetFields |-> c[g]] /\ c.tx = [g \in {"active", "nbdp"} |-> c.tx[g]]
       /\ c.opt = enet.opt /\ c.s_head = enet.s_head /\ c.tx.active = TRUE /\ c.tx.nbdp = p.head /\ c.hold = 0
  <2>1. PICK b : b = TxCtrl(enet, TRUE)
    OBVIOUS
  <2>2. /\ b = [g \in EnetFields |-> b[g]] /\ b.tx = [g \in {"active", "nbdp"} |-> b.tx[g]]
        /\ b.opt = enet.opt /\ b.s_head = enet.s_head /\ b.tx.active = TRUE /\ b.hold = 0
    BY <2>1, <1>3, <1>5 DEF TxCtrl, TxTypes, EnetFields
  <2>3. c = [b EXCEPT !.tx.nbdp = p.head]
    BY <2>1, <1>1, <1>7, <1>8, <1>10
  <2>. QED BY <2>2, <2>3 DEF EnetFields
<1>12. PICK h : h = [q |-> seeq, e |-> c, r |-> rings, w |-> wire, stop |-> FALSE]
  OBVIOUS
<1>13. seeq' = TxWalk(h).q /\ enet' = TxWalk(h).e /\ rings' = TxWalk(h).r /\ wire' = TxWalk(h).w
  <2>1. ApplyTx(seeq, c)
    BY <1>10 DEF KickTx
  <2>. QED BY <2>1, <1>12 DEF ApplyTx
<1>14. h = [g \in TxFields |-> h[g]] /\ h.q = seeq /\ h.e = c /\ h.r = rings /\ h.w = wire
  BY <1>12 DEF TxFields
<1>15. TxShape(h)
  BY <1>3, <1>11, <1>14 DEF TxShape, TxTypes
<1>16. PICK o : o = enet.opt /\ (o.lat = 0 \/ o.head)
  BY <1>3 DEF TxTypes
<1>17. InPacket(h, s, p, a, U, o, 0)
  <2>1. KeptTx(s, s, p, a)
    BY <1>1, <1>3 DEF KeptTx, SameData, TxTypes
  <2>2. seeq.tx_frame = FlattenSeq(Data(s, a, 0)) /\ enet.s_head = NTx
    <3>1. a \in Nat /\ TxRing(s) /\ 0 \in Nat
      BY <1>9 DEF CanSend
    <3>2. FlattenSeq(Data(s, a, 0)) = <<>>
      BY <3>1, DataMore
    <3>. QED BY <3>2, <1>6 DEF Resting
  <2>3. s[p.head].etxd = FALSE
    <3>1. f \in f .. Len(P)
      BY <1>7
    <3>. QED BY <3>1, <1>6, <1>8 DEF Fresh
  <2>4. 0 + 1 = 1
    OBVIOUS
  <2>. QED BY <2>1, <2>2, <2>3, <2>4, <1>1, <1>3, <1>9, <1>11, <1>14, <1>15, <1>16 DEF InPacket, TxTypes
<1>18. PICK x : x = TxWalk(h)
  OBVIOUS
<1>19. \/ Gone(x, s, p, a, U, o)
       \/ o.lat # 0 /\ \E m \in Nat \ {0} : m < p.len /\ InPacket(x, s, p, a, U, o, m)
  <2>1. \/ Gone(TxWalk(h), s, p, a, U, o)
        \/ o.lat # 0 /\ 0 + 1 < p.len /\ InPacket(TxWalk(h), s, p, a, U, o, 0 + 1)
    <3>1. 0 \in Nat /\ 0 < p.len
      BY <1>9
    <3>. QED BY <3>1, <1>9, <1>17, TxWalkMoves, Zenon
  <2>2. 0 + 1 \in Nat \ {0}
    OBVIOUS
  <2>. QED BY <2>1, <2>2, <1>18
<1>20. PICK S : S = Append(R, Head(K))
  OBVIOUS
<1>21. S \in Seq(TxPacket) /\ Len(S) = f /\ Tail(K) \in Seq(TxPacket) /\ Cat(S, Tail(K)) = P
  <2>1. K # <<>>
    BY <1>5
  <2>2. Append(R, Head(K)) \in Seq(TxPacket) /\ Tail(K) \in Seq(TxPacket) /\ Len(Append(R, Head(K))) = Len(R) + 1
    BY <2>1, CatMoves
  <2>3. Cat(Append(R, Head(K)), Tail(K)) = Cat(R, K)
    BY <2>1, CatMoves
  <2>. QED BY <2>2, <2>3, <1>1, <1>4, <1>20
<1>22. TxTypes(x.q, x.e, x.r, x.w) /\ \E g : TxLine(x.q, x.e, x.r.tx, S, P, at, g, x.w.unsent)
  <2>1. TxRing(s) /\ Fresh(P, s, f + 1)
    <3>1. \A j \in f + 1 .. Len(P) : j \in f .. Len(P)
      BY <1>7
    <3>. QED BY <3>1, <1>1, <1>3, <1>6 DEF TxTypes, Fresh
  <2>2. \/ Gone(x, s, P[f], at[f], U, o)
        \/ o.lat # 0 /\ \E m \in Nat \ {0} : m < P[f].len /\ InPacket(x, s, P[f], at[f], U, o, m)
    BY <1>8, <1>19
  <2>. QED BY <2>1, <2>2, <1>2, <1>6, <1>7, <1>16, <1>21, WalkSends
<1>23. /\ drv' = [g \in DrvFields |-> drv'[g]] /\ drv'.reap = S /\ drv'.kick = Tail(K)
       /\ drv'.tail = tail /\ drv'.packets = drv.packets
  <2>1. drv = [g \in DrvFields |-> drv[g]]
    BY DEF RxInv
  <2>. QED BY <2>1, <1>1, <1>20 DEF KickTx, DrvFields
<1>24. Numbered(P, drv.packets)
  BY <1>1 DEF Sending, TxHas
<1>25. TxHas(x.q, x.e, x.r, drv', x.w)
  BY <1>2, <1>21, <1>22, <1>23, <1>24 DEF TxHas
<1>. QED BY <1>13, <1>18, <1>25 DEF Sending

LEMMA TxPollSends ==
  ASSUME NEW st, TxShape(st), NEW d, TxHas(st.q, st.e, st.r, d, st.w)
  PROVE  TxHas(TxPoll(st).q, TxPoll(st).e, TxPoll(st).r, d, TxPoll(st).w)
<1>rk. PICK R \in Seq(TxPacket), K \in Seq(TxPacket) : R = d.reap /\ K = d.kick
  BY DEF TxHas
<1>1. PICK P, tail, U, s :
        /\ R = d.reap /\ K = d.kick /\ P = Cat(R, K) /\ tail = d.tail /\ U = st.w.unsent /\ s = st.r.tx
  BY <1>rk
<1>2. PICK at, first : InLine(P, at, tail) /\ TxLine(st.q, st.e, s, R, P, at, first, U)
  BY <1>1 DEF TxHas
<1>3. TxTypes(st.q, st.e, st.r, st.w)
  BY DEF TxHas
<1>4. CASE st.e.tx.active /\ st.e.hold # 0
  <2>1. PICK t : t = [st EXCEPT !.e.hold = @ - 1, !.e.tx.active = st.e.hold # 1]
    OBVIOUS
  <2>2. TxPoll(st) = t
    BY <1>4, <2>1 DEF TxPoll
  <2>a. PICK o \in Nat \ {0} : o = st.e.hold
    <3>1. st.e.hold \in Nat
      BY <1>3 DEF TxTypes
    <3>. QED BY <3>1, <1>4
  <2>b. PICK n \in Nat : n = o - 1 /\ n = st.e.hold - 1
    BY <2>a
  <2>c. PICK b \in BOOLEAN : b = (st.e.hold # 1)
    OBVIOUS
  <2>3. b = (st.e.hold # 1) /\ (b => n # 0)
    <3>1. ASSUME b PROVE n # 0
      <4>1. o # 1
        BY <3>1, <2>a, <2>c
      <4>. QED BY <4>1, <2>b
    <3>. QED BY <3>1, <2>c
  <2>4. PICK c : c = [[st.e EXCEPT !.hold = n] EXCEPT !.tx.active = b]
    OBVIOUS
  <2>5. /\ c = [g \in EnetFields |-> c[g]] /\ c.tx = [g \in {"active", "nbdp"} |-> c.tx[g]]
        /\ c.tx.active = b /\ c.hold = n /\ c.opt = st.e.opt /\ c.s_head = st.e.s_head
    BY <2>4 DEF TxShape, EnetFields
  <2>6. t = [st EXCEPT !.e = c]
    <3>1. st = [g \in TxFields |-> st[g]] /\ st.e = [g \in EnetFields |-> st.e[g]]
      BY DEF TxShape
    <3>. QED BY <3>1, <2>1, <2>b, <2>3, <2>4 DEF TxFields, EnetFields
  <2>7. t.q = st.q /\ t.e = c /\ t.r = st.r /\ t.w = st.w
    BY <2>6 DEF TxShape, TxFields
  <2>8. TxTypes(st.q, c, st.r, st.w)
    BY <1>3, <2>5 DEF TxTypes
  <2>9. first = Len(R) + 1 /\ Resting(st.q, st.e)
    BY <1>2, <1>4 DEF TxLine, Midway
  <2>10. Resting(st.q, c)
    <3>1. st.e.opt.lat # 0
      BY <2>9, <1>4 DEF Resting
    <3>. QED BY <3>1, <2>3, <2>5, <2>9 DEF Resting
  <2>11. TxLine(st.q, c, s, R, P, at, first, U)
    BY <1>2, <2>9, <2>10 DEF TxLine
  <2>12. TxHas(st.q, c, st.r, d, st.w)
    BY <1>1, <1>2, <2>8, <2>11 DEF TxHas
  <2>. QED BY <2>2, <2>7, <2>12
<1>5. CASE ~(st.e.tx.active /\ st.e.hold # 0) /\ ~(st.e.opt.lat # 0 /\ st.e.tx.active)
  BY <1>5 DEF TxPoll
<1>6. CASE ~(st.e.tx.active /\ st.e.hold # 0) /\ st.e.opt.lat # 0 /\ st.e.tx.active
  <2>1. TxPoll(st) = TxWalk(st)
    BY <1>6 DEF TxPoll
  <2>2. first = Len(R) /\ first > 0 /\ Midway(st.q, st.e, s, P[first], at[first])
    BY <1>2, <1>6 DEF TxLine, Resting
  <2>3. PICK f, p, a : f = first /\ p = P[f] /\ a = at[f] /\ f \in Nat
    BY <2>2
  <2>4. f \in 1 .. Len(P)
    <3>1. Len(P) = Len(R) + Len(K)
      <4>1. Len(Cat(R, K)) = Len(R) + Len(K)
        BY CatMoves
      <4>. QED BY <4>1, <1>1
    <3>2. Len(R) \in Nat /\ Len(K) \in Nat
      OBVIOUS
    <3>. QED BY <3>1, <3>2, <2>2, <2>3
  <2>5. /\ TxRing(s) /\ Waiting(P, at, s, U, f) /\ Fresh(P, s, f + 1) /\ f = Len(R)
        /\ Midway(st.q, st.e, s, p, a)
    BY <1>1, <1>2, <1>3, <2>2, <2>3 DEF TxLine, TxTypes
  <2>6. CanSend(s, p, a, U)
    BY <1>2, <2>3, <2>4, <2>5, OthersStay
  <2>7. PICK m \in Nat \ {0} : m < p.len /\ st.e.tx.nbdp = TxAt(a, m + 1) /\ st.q.tx_frame = FlattenSeq(Data(s, a, m))
    BY <2>5 DEF Midway
  <2>8. PICK o : o = st.e.opt /\ (o.lat = 0 \/ o.head)
    BY <1>3 DEF TxTypes
  <2>9. InPacket(st, s, p, a, U, o, m)
    <3>1. KeptTx(s, st.r.tx, p, a)
      BY <1>1, <2>5 DEF KeptTx, SameData
    <3>2. st.e.tx.active = TRUE /\ st.e.hold = 0 /\ st.e.s_head = p.head /\ st.r.tx[p.head].etxd = FALSE
      BY <1>1, <2>5 DEF Midway
    <3>3. st.w.unsent = U /\ st.w.stray = <<>>
      BY <1>1, <1>3 DEF TxTypes
    <3>. QED BY <3>1, <3>2, <3>3, <2>7, <2>8 DEF InPacket
  <2>10. PICK x : x = TxWalk(st)
    OBVIOUS
  <2>11. \/ Gone(x, s, p, a, U, o)
         \/ o.lat # 0 /\ \E k \in Nat \ {0} : k < p.len /\ InPacket(x, s, p, a, U, o, k)
    <3>1. m \in Nat /\ m < p.len
      BY <2>7
    <3>2. \/ Gone(TxWalk(st), s, p, a, U, o)
          \/ o.lat # 0 /\ m + 1 < p.len /\ InPacket(TxWalk(st), s, p, a, U, o, m + 1)
      BY <3>1, <2>6, <2>9, TxWalkMoves, Zenon
    <3>3. m + 1 \in Nat \ {0}
      OBVIOUS
    <3>. QED BY <3>2, <3>3, <2>10
  <2>12. TxTypes(x.q, x.e, x.r, x.w) /\ \E g : TxLine(x.q, x.e, x.r.tx, R, P, at, g, x.w.unsent)
    <3>1. \/ Gone(x, s, P[f], at[f], U, o)
          \/ o.lat # 0 /\ \E k \in Nat \ {0} : k < P[f].len /\ InPacket(x, s, P[f], at[f], U, o, k)
      BY <2>3, <2>11
    <3>. QED BY <3>1, <1>2, <2>4, <2>5, <2>8, WalkSends
  <2>13. TxHas(x.q, x.e, x.r, d, x.w)
    BY <1>1, <1>2, <2>12 DEF TxHas
  <2>. QED BY <2>1, <2>10, <2>13
<1>. QED BY <1>4, <1>5, <1>6

\* What the poll does, half by half.
Polls(h, g, a) ==
  /\ h.q.tx_frame = seeq.tx_frame /\ h.e = enet /\ h.r = rings
  /\ \E d, D : RxWalker(h, d, D)
  /\ g = [f \in TxFields |-> g[f]]
  /\ g.q = RxWalk(h).q /\ g.e = RxWalk(h).e /\ g.r = RxWalk(h).r /\ g.w = wire
  /\ seeq' = TxPoll(g).q /\ enet' = TxPoll(g).e /\ rings' = TxPoll(g).r /\ drv' = drv
  /\ wire' = [TxPoll(g).w EXCEPT !.due = a]

LEMMA PollIs ==
  ASSUME RxInv, enet_poll
  PROVE  \E h, g, a : Polls(h, g, a)
<1>1. PICK q, rx, tx :
        /\ q = PollTap(seeq)
        /\ rx = RxWalk([q |-> q, e |-> enet, r |-> rings, stop |-> FALSE])
        /\ tx = TxPoll([q |-> rx.q, e |-> rx.e, r |-> rx.r, w |-> wire, stop |-> FALSE])
        /\ seeq' = tx.q /\ enet' = tx.e /\ rings' = tx.r /\ drv' = drv
        /\ wire' = [tx.w EXCEPT !.due = @ \o AcceptedBytes(SubSeq(q.rx_queue, Len(seeq.rx_queue) + 1, Len(q.rx_queue)))]
  BY Zenon DEF enet_poll
<1>2. PICK D, d : D = Cat(wire.due, AcceptedBytes(Wanted(seeq.tap))) /\ d = drv.rx
  OBVIOUS
<1>3. RxHas(q, enet, rings, d, D)
  BY <1>1, <1>2, TapKeeps DEF RxInv
<1>4. PICK h : h = [q |-> q, e |-> enet, r |-> rings, stop |-> FALSE]
  OBVIOUS
<1>5. h = [f \in WalkFields |-> h[f]] /\ h.stop = FALSE /\ h.q = q /\ h.e = enet /\ h.r = rings
  BY <1>4 DEF WalkFields
<1>6. RxWalker(h, d, D)
  BY <1>3, <1>5 DEF RxWalker
<1>7. PICK g : g = [q |-> rx.q, e |-> rx.e, r |-> rx.r, w |-> wire, stop |-> FALSE]
  OBVIOUS
<1>8. /\ g = [f \in TxFields |-> g[f]]
      /\ g.q = rx.q /\ g.e = rx.e /\ g.r = rx.r /\ g.w = wire
  BY <1>7 DEF TxFields
<1>9. q.tx_frame = seeq.tx_frame
  BY <1>1 DEF RxInv, RxHas, RxTypes, PollTap, SeeqFields
<1>10. PICK a : wire' = [tx.w EXCEPT !.due = a]
  BY <1>1
<1>11. rx = RxWalk(h) /\ tx = TxPoll(g)
  BY <1>1, <1>4, <1>7
<1>12. Polls(h, g, a)
  BY <1>1, <1>5, <1>6, <1>8, <1>9, <1>10, <1>11 DEF Polls
<1>. QED BY <1>12

LEMMA PollSends == ASSUME RxInv, RxInv', Sending, enet_poll PROVE Sending'
<1>1. PICK h, g, a : Polls(h, g, a)
  BY PollIs
<1>0. /\ h.q.tx_frame = seeq.tx_frame /\ h.e = enet /\ h.r = rings
      /\ g = [f \in TxFields |-> g[f]]
      /\ g.q = RxWalk(h).q /\ g.e = RxWalk(h).e /\ g.r = RxWalk(h).r /\ g.w = wire
      /\ seeq' = TxPoll(g).q /\ enet' = TxPoll(g).e /\ rings' = TxPoll(g).r /\ drv' = drv
      /\ wire' = [TxPoll(g).w EXCEPT !.due = a]
  BY <1>1 DEF Polls
<1>2. PICK d, D : RxWalker(h, d, D)
  BY <1>1 DEF Polls
<1>3. SameSending(h.q, h.e, h.r, g.q, g.e, g.r)
  <2>1. SameSending(h.q, h.e, h.r, RxWalk(h).q, RxWalk(h).e, RxWalk(h).r)
    BY <1>2, RxWalkSending
  <2>. QED BY <2>1, <1>0
<1>4. Shaped(g.q, g.e, g.r)
  <2>1. RxWalker(RxWalk(h), d, D)
    BY <1>2, RxWalkKeeps
  <2>. QED BY <2>1, <1>0 DEF RxWalker, RxHas, RxTypes, Shaped
<1>5. TxHas(g.q, g.e, g.r, drv, g.w)
  <2>1. SameSending(seeq, enet, rings, g.q, g.e, g.r)
    BY <1>0, <1>3 DEF SameSending
  <2>2. SameQueue(drv, drv) /\ SameUnsent(wire, g.w)
    BY <1>0, SendingTypes
  <2>. QED BY <2>1, <2>2, <1>4, TxSame DEF Sending
<1>6. TxShape(g)
  BY <1>0, <1>5 DEF TxHas, TxTypes, TxShape
<1>7. PICK x : x = TxPoll(g)
  OBVIOUS
<1>8. TxHas(x.q, x.e, x.r, drv, x.w)
  BY <1>5, <1>6, <1>7, TxPollSends
<1>9. SameUnsent(x.w, wire') /\ SameQueue(drv, drv')
  <2>1. x.w = [f \in WireFields |-> x.w[f]]
    BY <1>8 DEF TxHas, TxTypes
  <2>2. wire' = [x.w EXCEPT !.due = a]
    BY <1>0, <1>7
  <2>3. SameUnsent(x.w, wire')
    BY <2>1, <2>2 DEF SameUnsent, WireFields
  <2>. QED BY <2>3, <1>0, SendingTypes
<1>10. seeq' = x.q /\ enet' = x.e /\ rings' = x.r
  BY <1>0, <1>7
<1>11. Shaped(x.q, x.e, x.r) /\ SameSending(x.q, x.e, x.r, x.q, x.e, x.r)
  BY <1>8 DEF TxHas, TxTypes, Shaped, SameSending
<1>12. TxHas(x.q, x.e, x.r, drv', wire')
  BY <1>8, <1>9, <1>11, TxSame
<1>. QED BY <1>10, <1>12 DEF Sending

LEMMA HaltSends == ASSUME RxInv, Sending, HaltTx PROVE Sending'
<1>rk. PICK R \in Seq(TxPacket), K \in Seq(TxPacket) : R = drv.reap /\ K = drv.kick
  BY DEF Sending, TxHas
<1>1. PICK P, tail, U, s :
        /\ R = drv.reap /\ K = drv.kick /\ P = Cat(R, K) /\ tail = drv.tail /\ U = wire.unsent /\ s = rings.tx
  BY <1>rk
<1>2. PICK at, first : InLine(P, at, tail) /\ TxLine(seeq, enet, s, R, P, at, first, U)
  BY <1>1 DEF Sending, TxHas
<1>3. TxTypes(seeq, enet, rings, wire)
  BY DEF Sending, TxHas
<1>4. enet.tx.active = TRUE /\ enet.hold # 0
  BY <1>3 DEF HaltTx, TxTypes
<1>5. first = Len(R) + 1 /\ Resting(seeq, enet)
  BY <1>2, <1>4 DEF TxLine, Midway
<1>6. PICK c : c = TxCtrl(enet, FALSE)
  OBVIOUS
<1>7. /\ c = [g \in EnetFields |-> c[g]] /\ c.tx = [g \in {"active", "nbdp"} |-> c.tx[g]]
      /\ c.opt = enet.opt /\ c.s_head = enet.s_head /\ c.tx.active = FALSE /\ c.hold = 0
  BY <1>3, <1>4, <1>6 DEF TxCtrl, TxTypes, EnetFields
<1>8. TxTypes(seeq, c, rings, wire)
  <2>a. c.tx.active = FALSE
    BY <1>7
  <2>b. c.tx.active \in BOOLEAN
    BY <2>a
  <2>c. c.hold \in Nat
    BY <1>7
  <2>1. c.tx.active \in BOOLEAN /\ c.hold \in Nat
    BY <2>b, <2>c
  <2>. QED BY <2>1, <1>3, <1>7 DEF TxTypes
<1>9. Resting(seeq, c)
  BY <1>5, <1>7 DEF Resting
<1>10. TxLine(seeq, c, s, R, P, at, first, U)
  BY <1>2, <1>5, <1>9 DEF TxLine
<1>11. TxHas(seeq, c, rings, drv, wire)
  BY <1>1, <1>2, <1>8, <1>10 DEF TxHas, Sending
<1>. QED BY <1>6, <1>11 DEF HaltTx, Sending

\* The ring is empty and the channel at rest.
LEMMA TxEmpty ==
  ASSUME NEW q, NEW e, NEW r, NEW d, NEW w, TxTypes(q, e, r, w), Resting(q, e),
         d = [f \in DrvFields |-> d[f]], d.tail = 0, d.kick = <<>>, d.reap = <<>>, d.packets \in Nat,
         w.unsent = <<>>
  PROVE  TxHas(q, e, r, d, w)
<1>1. PICK R \in Seq(TxPacket), U \in Seq(Seq(TxByte)) : R = <<>> /\ U = <<>> /\ Len(R) = 0 /\ Len(U) = 0
  <2>1. <<>> \in Seq(TxPacket) /\ <<>> \in Seq(Seq(TxByte)) /\ Len(<<>>) = 0
    OBVIOUS
  <2>. QED BY <2>1
<1>2. Cat(R, R) = R
  BY <1>1, CatNone
<1>3. PICK at : at = [i \in {1} |-> 0]
  OBVIOUS
<1>4. InLine(R, at, 0)
  <2>1. TxAt(0, 1) = 0
    <3>1. PICK m \in Nat \ {0} : m = NTx
      BY EnetAssumption
    <3>2. 0 \in 0 .. 2 * m - 1 /\ 0 < m
      OBVIOUS
    <3>3. 0 % m = 0
      BY <3>2, RingAt
    <3>4. 0 + 1 - 1 = 0
      OBVIOUS
    <3>. QED BY <3>1, <3>3, <3>4 DEF TxAt
  <2>2. \A i \in 1 .. Len(R) + 1 : i = 1
    BY <1>1
  <2>3. \A i \in 1 .. Len(R) : FALSE
    BY <1>1
  <2>4. Len(R) + 1 = 1 /\ at[1] = 0 /\ 0 - 0 <= NTx
    BY <1>1, <1>3, EnetAssumption
  <2>5. \A i \in 1 .. Len(R) + 1 : at[i] \in Nat
    BY <2>2, <2>4
  <2>. QED BY <2>1, <2>3, <2>4, <2>5 DEF InLine
<1>5. Numbered(R, d.packets)
  BY <1>1 DEF Numbered
<1>6. TxLine(q, e, r.tx, R, R, at, 1, U)
  <2>1. \A i \in 1 .. Len(R) : FALSE
    BY <1>1
  <2>2. Waiting(R, at, r.tx, U, 1)
    <3>1. Len(U) = Len(R) + 1 - 1
      BY <1>1
    <3>. QED BY <2>1, <3>1 DEF Waiting
  <2>3. Fresh(R, r.tx, Len(R) + 1)
    <3>1. \A i \in Len(R) + 1 .. Len(R) : FALSE
      BY <1>1
    <3>. QED BY <3>1 DEF Fresh
  <2>4. 1 = Len(R) + 1
    BY <1>1
  <2>. QED BY <2>2, <2>3, <2>4 DEF TxLine
<1>. QED BY <1>1, <1>2, <1>4, <1>5, <1>6 DEF TxHas

LEMMA FreeRing == TxRing(TxFree)
<1>1. PICK x : x = [eox |-> FALSE, etxd |-> TRUE, data |-> <<>>]
  OBVIOUS
<1>2. x = [f \in SlotFields |-> x[f]] /\ x.eox \in BOOLEAN /\ x.etxd \in BOOLEAN /\ x.data = <<>>
  BY <1>1 DEF SlotFields
<1>3. <<>> \in Seq(TxByte)
  OBVIOUS
<1>4. PICK t : t = TxFree
  OBVIOUS
<1>5. t = [i \in 0 .. NTx - 1 |-> x]
  BY <1>1, <1>4 DEF TxFree
<1>6. t = [i \in 0 .. NTx - 1 |-> t[i]] /\ \A i \in 0 .. NTx - 1 : t[i] = x
  BY <1>5
<1>7. TxRing(t)
  BY <1>2, <1>3, <1>6 DEF TxRing
<1>. QED BY <1>4, <1>7

LEMMA SendingInitially == ASSUME EnetInit, enet.opt.lat = 0 \/ enet.opt.head PROVE Sending
<1>1. /\ wire = [f \in WireFields |-> wire[f]] /\ wire.unsent = <<>> /\ wire.stray = <<>>
      /\ drv = [f \in DrvFields |-> drv[f]] /\ drv.tail = 0 /\ drv.kick = <<>> /\ drv.reap = <<>> /\ drv.packets = 0
  BY DEF EnetInit, WireFields, DrvFields
<1>2. seeq = [f \in SeeqFields |-> seeq[f]] /\ seeq.tx_frame = <<>>
  BY DEF EnetInit, SeeqFields
<1>3. PICK o \in Options : /\ enet = [f \in EnetFields |-> enet[f]]
                           /\ enet.opt = o /\ enet.tx = [active |-> FALSE, nbdp |-> 0]
                           /\ enet.hold = 0 /\ enet.s_head = NTx
  <2>1. PICK o \in Options :
          enet = [opt |-> o, rx |-> [active |-> FALSE, nbdp |-> 0], tx |-> [active |-> FALSE, nbdp |-> 0],
                  rx_irq |-> FALSE, tx_irq |-> FALSE, crbdp |-> 0, tx_crbdp |-> 0, hold |-> 0, s_head |-> NTx]
    BY DEF EnetInit
  <2>. QED BY <2>1 DEF EnetFields
<1>4. enet.opt.lat \in Nat /\ enet.opt.head \in BOOLEAN
  BY <1>3, EnetAssumption
<1>5. enet.tx = [f \in {"active", "nbdp"} |-> enet.tx[f]] /\ enet.tx.active = FALSE
  BY <1>3
<1>6. rings = [f \in {"rx", "tx"} |-> rings[f]] /\ rings.tx = TxFree
  BY DEF EnetInit
<1>a. enet.tx.active = FALSE
  BY <1>5
<1>b. enet.tx.active \in BOOLEAN
  BY <1>a
<1>c. enet.hold \in Nat
  BY <1>3
<1>7. enet.tx.active \in BOOLEAN /\ enet.hold \in Nat
  BY <1>b, <1>c
<1>8. TxTypes(seeq, enet, rings, wire)
  BY <1>1, <1>2, <1>3, <1>4, <1>5, <1>6, <1>7, FreeRing DEF TxTypes
<1>9. Resting(seeq, enet)
  BY <1>2, <1>3, <1>5 DEF Resting
<1>. QED BY <1>1, <1>8, <1>9, TxEmpty DEF Sending

LEMMA ResetSends == ASSUME RxInv, Sending, ResetEnet PROVE wire'.torn \/ Sending'
<1> SUFFICES ASSUME ~wire'.torn PROVE Sending'
  OBVIOUS
<1>0. TxTypes(seeq, enet, rings, wire) /\ drv = [f \in DrvFields |-> drv[f]] /\ drv.packets \in Nat
  BY DEF Sending, TxHas, Numbered
<1>1. /\ wire' = [f \in WireFields |-> wire'[f]] /\ wire'.unsent = <<>> /\ wire'.stray = <<>>
      /\ wire'.torn = (wire.torn \/ enet.s_head # NTx)
  BY <1>0 DEF TxTypes, ResetEnet, WireFields
<1>2. enet.s_head = NTx
  BY <1>1
<1>3. PICK q, e, r : q = seeq' /\ e = enet' /\ r = rings'
  OBVIOUS
<1>4. q = [f \in SeeqFields |-> q[f]] /\ q.tx_frame = <<>>
  BY <1>0, <1>3 DEF ResetEnet, SeeqReset, TxTypes, SeeqFields
<1>5. /\ e = [f \in EnetFields |-> e[f]] /\ e.tx = [f \in {"active", "nbdp"} |-> e.tx[f]] /\ e.tx.active = FALSE
      /\ e.opt = enet.opt /\ e.hold = enet.hold /\ e.s_head = NTx
  BY <1>0, <1>2, <1>3 DEF ResetEnet, TxTypes, EnetFields
<1>6. r = [f \in {"rx", "tx"} |-> r[f]] /\ r.tx = TxFree
  BY <1>3 DEF ResetEnet
<1>7. TxTypes(q, e, r, wire')
  <2>1. e.tx.active \in BOOLEAN /\ e.hold \in Nat
    BY <1>0, <1>5 DEF TxTypes
  <2>. QED BY <2>1, <1>0, <1>1, <1>4, <1>5, <1>6, FreeRing DEF TxTypes
<1>8. Resting(q, e)
  BY <1>4, <1>5 DEF Resting
<1>9. /\ drv' = [f \in DrvFields |-> drv'[f]] /\ drv'.tail = 0 /\ drv'.kick = <<>> /\ drv'.reap = <<>>
      /\ drv'.packets \in Nat
  BY <1>0 DEF ResetEnet, DrvFields
<1>10. TxHas(q, e, r, drv', wire')
  BY <1>1, <1>7, <1>8, <1>9, TxEmpty
<1>. QED BY <1>3, <1>10 DEF Sending

LEMMA ReapSends == ASSUME RxInv, Sending, ReapTx PROVE Sending'
<1>rk. PICK R \in Seq(TxPacket), K \in Seq(TxPacket) : R = drv.reap /\ K = drv.kick
  BY DEF Sending, TxHas
<1>1. PICK P, tail, U, s :
        /\ R = drv.reap /\ K = drv.kick /\ P = Cat(R, K) /\ tail = drv.tail /\ U = wire.unsent /\ s = rings.tx
  BY <1>rk
<1>2. PICK at, first : InLine(P, at, tail) /\ TxLine(seeq, enet, s, R, P, at, first, U)
  BY <1>1 DEF Sending, TxHas
<1>3. TxTypes(seeq, enet, rings, wire) /\ Numbered(P, drv.packets) /\ drv = [f \in DrvFields |-> drv[f]]
  BY <1>1 DEF Sending, TxHas
<1>4. R # <<>> /\ s[Head(R).head].etxd
  BY <1>1 DEF ReapTx
<1>5. PICK r \in Nat, k \in Nat : r = Len(R) /\ k = Len(K) /\ r > 0
  <2>1. Len(R) \in Nat /\ Len(K) \in Nat /\ Len(R) > 0
    BY <1>4
  <2>. QED BY <2>1
<1>6. /\ Len(P) = r + k /\ P[1] = Head(R)
  <2>1. Len(Cat(R, K)) = Len(R) + Len(K)
    BY CatMoves
  <2>2. \A i \in 1 .. Len(R) : Cat(R, K)[i] = R[i]
    BY CatMoves
  <2>3. 1 \in 1 .. Len(R) /\ Head(R) = R[1]
    BY <1>4, <1>5
  <2>. QED BY <2>1, <2>2, <2>3, <1>1, <1>5
<1>7. PICK T, Q : T = Tail(R) /\ Q = Cat(T, K)
  OBVIOUS
<1>8. T \in Seq(TxPacket) /\ Len(T) = r - 1 /\ Q = Tail(P)
  <2>1. Tail(R) \in Seq(TxPacket) /\ Len(Tail(R)) = Len(R) - 1
    BY <1>4, CatMoves
  <2>2. Cat(Tail(R), K) = Tail(Cat(R, K))
    BY <1>4, CatMoves
  <2>. QED BY <2>1, <2>2, <1>1, <1>5, <1>7
<1>9. P \in Seq(TxPacket) /\ Q \in Seq(TxPacket) /\ Len(Q) = r + k - 1 /\ \A i \in 1 .. r + k - 1 : Q[i] = P[i + 1]
  <2>1. P \in Seq(TxPacket)
    BY <1>2 DEF InLine
  <2>2. P # <<>>
    BY <2>1, <1>5, <1>6
  <2>3. Tail(P) \in Seq(TxPacket) /\ Len(Tail(P)) = Len(P) - 1 /\ \A i \in 1 .. Len(P) - 1 : Tail(P)[i] = P[i + 1]
    BY <2>1, <2>2
  <2>. QED BY <2>1, <2>3, <1>6, <1>8
<1>10. PICK f \in Nat : first = f + 1 /\ (f = r \/ f = r - 1) /\ f > 0
  <2>1. first = r + 1 \/ (first = r /\ s[P[first].head].etxd = FALSE)
    BY <1>2, <1>5 DEF TxLine, Midway
  <2>2. CASE first = r + 1
    BY <2>2, <1>5
  <2>3. CASE first = r /\ s[P[first].head].etxd = FALSE
    <3>1. first # 1
      BY <2>3, <1>4, <1>6
    <3>2. r - 1 \in Nat /\ first = (r - 1) + 1 /\ r - 1 > 0
      BY <3>1, <2>3, <1>5
    <3>. QED BY <3>2
  <2>. QED BY <2>1, <2>2, <2>3
<1>11. PICK b : b = [i \in 1 .. r + k |-> at[i + 1]]
  OBVIOUS
<1>12. \A i \in 1 .. r + k : b[i] = at[i + 1]
  BY <1>11
<1>13. InLine(Q, b, tail)
  <2>1. \A i \in 1 .. r + k + 1 : at[i] \in Nat
    BY <1>2, <1>6 DEF InLine
  <2>2. \A i \in 1 .. r + k : at[i + 1] = at[i] + P[i].len
    BY <1>2, <1>6 DEF InLine
  <2>3. at[r + k + 1] - at[1] <= NTx /\ tail = TxAt(at[r + k + 1], 1)
    BY <1>2, <1>6 DEF InLine
  <2>4. at[1] <= at[2]
    <3>1. 1 \in 1 .. Len(P) + 1 /\ 2 \in 1 .. Len(P) + 1
      BY <1>5, <1>6
    <3>. QED BY <3>1, <1>2, InOrder
  <2>5. r + k \in 1 .. r + k /\ 1 \in 1 .. r + k /\ 1 + 1 = 2 /\ Len(Q) + 1 = r + k
    BY <1>5, <1>9
  <2>6. b[r + k] = at[r + k + 1] /\ b[1] = at[2]
    BY <2>5, <1>12
  <2>7. b[r + k] - b[1] <= NTx
    <3>1. 1 \in 1 .. r + k + 1 /\ 2 \in 1 .. r + k + 1 /\ r + k + 1 \in 1 .. r + k + 1
      BY <1>5
    <3>2. PICK x \in Nat, y \in Nat, z \in Nat : x = at[1] /\ y = at[2] /\ z = at[r + k + 1]
      BY <3>1, <2>1
    <3>3. z - x <= NTx /\ x <= y
      BY <3>2, <2>3, <2>4
    <3>4. NTx \in Nat
      BY EnetAssumption
    <3>. QED BY <3>2, <3>3, <3>4, <2>6
  <2>8. ASSUME NEW i \in 1 .. r + k PROVE b[i] \in Nat
    <3>1. i + 1 \in 1 .. r + k + 1
      OBVIOUS
    <3>. QED BY <3>1, <2>1, <1>12
  <2>9. ASSUME NEW i \in 1 .. r + k - 1 PROVE b[i + 1] = b[i] + Q[i].len
    <3>1. i \in 1 .. r + k /\ i + 1 \in 1 .. r + k
      OBVIOUS
    <3>2. b[i] = at[i + 1] /\ b[i + 1] = at[i + 1 + 1] /\ Q[i] = P[i + 1]
      BY <3>1, <1>9, <1>12
    <3>. QED BY <3>1, <3>2, <2>2
  <2>10. PICK n : n = r + k
    OBVIOUS
  <2>. QED BY <2>3, <2>5, <2>6, <2>7, <2>8, <2>9, <1>9 DEF InLine
<1>14. Numbered(Q, drv.packets)
  <2>1. ASSUME NEW i \in 1 .. Len(Q) PROVE i + 1 \in 1 .. Len(P) /\ Q[i] = P[i + 1]
    BY <1>6, <1>9
  <2>2. \A i \in 1 .. Len(Q) : Q[i].id <= drv.packets
    BY <2>1, <1>3 DEF Numbered
  <2>3. ASSUME NEW i \in 1 .. Len(Q), NEW j \in 1 .. Len(Q), i < j PROVE Q[i].id < Q[j].id
    <3>1. i + 1 < j + 1
      BY <2>3
    <3>. QED BY <3>1, <2>1, <1>3 DEF Numbered
  <2>. QED BY <2>2, <2>3, <1>3 DEF Numbered
<1>15. Waiting(Q, b, s, U, f)
  <2>1. U \in Seq(Seq(TxByte)) /\ Len(U) = Len(P) + 1 - (f + 1)
    BY <1>2, <1>10 DEF TxLine, Waiting
  <2>2. Len(U) = Len(Q) + 1 - f
    BY <2>1, <1>5, <1>6, <1>9
  <2>3. ASSUME NEW i \in f .. Len(Q) PROVE Laid(s, Q[i], b[i], U[i - f + 1])
    <3>1. i \in 1 .. r + k - 1 /\ i \in 1 .. r + k /\ i + 1 \in f + 1 .. r + k /\ (i + 1) - (f + 1) + 1 = i - f + 1
      BY <1>9, <1>10
    <3>2. Laid(s, P[i + 1], at[i + 1], U[(i + 1) - (f + 1) + 1])
      BY <3>1, <1>2, <1>6, <1>10 DEF TxLine, Waiting
    <3>. QED BY <3>1, <3>2, <1>9, <1>12
  <2>. QED BY <2>1, <2>2, <2>3 DEF Waiting
<1>16. Fresh(Q, s, r)
  <2> SUFFICES ASSUME NEW j \in r .. Len(Q) PROVE s[Q[j].head].etxd = FALSE
    BY DEF Fresh
  <2>1. j \in 1 .. r + k - 1 /\ j + 1 \in r + 1 .. Len(P)
    BY <1>5, <1>6, <1>9
  <2>2. s[P[j + 1].head].etxd = FALSE
    BY <2>1, <1>2, <1>5 DEF TxLine, Fresh
  <2>. QED BY <2>1, <2>2, <1>9
<1>17. TxLine(seeq, enet, s, T, Q, b, f, U)
  <2>1. Len(T) + 1 = r
    BY <1>5, <1>8
  <2>2. first = r + 1 => f = Len(T) + 1
    BY <2>1, <1>10
  <2>3. first = r => f = Len(T) /\ f > 0 /\ P[first] = Q[f] /\ at[first] = b[f]
    <3> SUFFICES ASSUME first = r PROVE f = Len(T) /\ f > 0 /\ P[first] = Q[f] /\ at[first] = b[f]
      OBVIOUS
    <3>1. f = r - 1 /\ f \in 1 .. r + k - 1 /\ f \in 1 .. r + k /\ f + 1 = first
      BY <1>10
    <3>. QED BY <3>1, <1>8, <1>9, <1>10, <1>12
  <2>4. \/ first = r + 1 /\ Resting(seeq, enet)
        \/ first = r /\ Midway(seeq, enet, s, P[first], at[first])
    BY <1>2, <1>5 DEF TxLine
  <2>. QED BY <2>1, <2>2, <2>3, <2>4, <1>15, <1>16 DEF TxLine
<1>18. /\ drv' = [g \in DrvFields |-> drv'[g]] /\ drv'.reap = T /\ drv'.kick = K
       /\ drv'.tail = tail /\ drv'.packets = drv.packets
  BY <1>1, <1>3, <1>7 DEF ReapTx, DrvFields
<1>19. TxHas(seeq, enet, rings, drv', wire)
  BY <1>1, <1>3, <1>7, <1>8, <1>13, <1>14, <1>17, <1>18 DEF TxHas
<1>. QED BY <1>19 DEF ReapTx, Sending

LEMMA ModAdd ==
  ASSUME NEW m \in Nat \ {0}, NEW x \in Nat, NEW y \in Nat
  PROVE  ((x % m) + y) % m = (x + y) % m
<1>1. PICK q \in Int, r \in 0 .. m - 1 : x \div m = q /\ x % m = r /\ x = m * q + r
  BY DivMod
<1>2. PICK z \in Nat : z = r + y
  OBVIOUS
<1>3. PICK p \in Int, s \in 0 .. m - 1 : z \div m = p /\ z % m = s /\ z = m * p + s
  BY DivMod
<1>4. PICK c \in Int : c = q + p
  OBVIOUS
<1>5. x + y = m * c + s
  <2>1. m * c = m * q + m * p
    BY <1>4
  <2>2. PICK u \in Int, v \in Int, t \in Int : u = m * q /\ v = m * p /\ t = m * c /\ t = u + v
    BY <2>1
  <2>. QED BY <2>2, <1>1, <1>2, <1>3
<1>6. (m * c + s) % m = s
  BY ModUnique
<1>. QED BY <1>1, <1>2, <1>3, <1>5, <1>6

\* The descriptors in use are those of the packets in line.
LEMMA UsedIs ==
  ASSUME drv.reap \in Seq(TxPacket), drv.kick \in Seq(TxPacket),
         NEW at, NEW tail, InLine(Cat(drv.reap, drv.kick), at, tail)
  PROVE  UsedTx = at[Len(drv.reap) + Len(drv.kick) + 1] - at[1]
<1>rk. PICK R \in Seq(TxPacket), K \in Seq(TxPacket) : R = drv.reap /\ K = drv.kick
  OBVIOUS
<1>1. PICK P : R = drv.reap /\ K = drv.kick /\ P = Cat(R, K)
  BY <1>rk
<1>2. PICK r \in Nat, k \in Nat : r = Len(R) /\ k = Len(K)
  OBVIOUS
<1>3. Len(P) = r + k
  <2>1. Len(Cat(R, K)) = Len(R) + Len(K)
    BY CatMoves
  <2>. QED BY <2>1, <1>1, <1>2
<1>4. /\ \A i \in 1 .. r : P[i] = R[i]
      /\ \A i \in 1 .. k : P[r + i] = K[i]
  <2>1. \A i \in 1 .. Len(R) : Cat(R, K)[i] = R[i]
    BY CatMoves
  <2>2. \A i \in 1 .. Len(K) : Cat(R, K)[Len(R) + i] = K[i]
    BY CatMoves
  <2>. QED BY <2>1, <2>2, <1>1, <1>2
<1>5. PICK n \in Nat : n = r + k /\ n = k + r
  OBVIOUS
<1>6. \A i \in 1 .. n + 1 : at[i] \in Nat
  BY <1>1, <1>3, <1>5 DEF InLine
<1>7. \A i \in 1 .. n : at[i + 1] = at[i] + P[i].len /\ P[i].len \in Nat
  <2>1. \A i \in 1 .. n : P[i] \in TxPacket /\ at[i + 1] = at[i] + P[i].len
    BY <1>1, <1>3, <1>5 DEF InLine
  <2>. QED BY <2>1 DEF TxPacket
<1>8. PICK Q : Q = Cat(K, R)
  OBVIOUS
<1>9. /\ Len(Q) = n /\ DOMAIN Q = 1 .. n
      /\ \A i \in 1 .. k : Q[i] = P[r + i]
      /\ \A i \in 1 .. r : Q[k + i] = P[i]
  <2>1. Cat(K, R) \in Seq(TxPacket) /\ Len(Cat(K, R)) = Len(K) + Len(R)
    BY CatMoves
  <2>2. \A i \in 1 .. Len(K) : Cat(K, R)[i] = K[i]
    BY CatMoves
  <2>3. \A i \in 1 .. Len(R) : Cat(K, R)[Len(K) + i] = R[i]
    BY CatMoves
  <2>4. Q \in Seq(TxPacket) /\ Len(Q) = n
    BY <2>1, <1>2, <1>5, <1>8
  <2>5. DOMAIN Q = 1 .. n
    BY <2>4
  <2>. QED BY <2>2, <2>3, <2>4, <2>5, <1>2, <1>4, <1>8
<1>10. PICK z : z = [i \in 1 .. n |-> Q[i].len]
  OBVIOUS
<1>11. PICK f : f = [i \in 1 .. n + 1 |-> IF i <= k THEN at[r + i] ELSE at[n + 1] + at[i - k] - at[1]]
  OBVIOUS
<1>12. ASSUME NEW i \in 1 .. k PROVE f[i] = at[r + i] /\ f[i] \in Int /\ z[i] \in Int /\ f[i + 1] = f[i] + z[i]
  <2>1. i \in 1 .. n + 1 /\ i + 1 \in 1 .. n + 1 /\ r + i \in 1 .. n /\ r + i \in 1 .. n + 1 /\ i \in 1 .. n
    BY <1>5
  <2>2. f[i] = at[r + i] /\ at[r + i] \in Nat
    BY <2>1, <1>6, <1>11
  <2>3. at[r + i + 1] = at[r + i] + P[r + i].len /\ P[r + i].len \in Nat
    BY <2>1, <1>7
  <2>4. z[i] = P[r + i].len
    BY <2>1, <1>9, <1>10
  <2>5. f[i + 1] = at[r + i + 1]
    <3>1. CASE i + 1 <= k
      <4>1. f[i + 1] = at[r + (i + 1)] /\ r + (i + 1) = r + i + 1
        BY <3>1, <2>1, <1>11
      <4>. QED BY <4>1
    <3>2. CASE ~(i + 1 <= k)
      <4>1. i + 1 - k = 1 /\ r + i + 1 = n + 1
        BY <3>2, <1>5
      <4>2. f[i + 1] = at[n + 1] + at[1] - at[1]
        BY <4>1, <3>2, <2>1, <1>11
      <4>3. PICK x \in Nat, y \in Nat : x = at[n + 1] /\ y = at[1]
        BY <1>6
      <4>4. at[r + i + 1] = x
        BY <4>1, <4>3
      <4>5. f[i + 1] = x + y - y
        BY <4>2, <4>3
      <4>6. x + y - y = x
        OBVIOUS
      <4>. QED BY <4>4, <4>5, <4>6
    <3>. QED BY <3>1, <3>2
  <2>. QED BY <2>2, <2>3, <2>4, <2>5
<1>13. ASSUME NEW i \in 1 .. n, ~(i <= k)
       PROVE  f[i] \in Int /\ z[i] \in Int /\ f[i + 1] = f[i] + z[i]
  <2>1. PICK j \in 1 .. r : j = i - k /\ j + 1 = i + 1 - k /\ k + j = i
    BY <1>5, <1>13
  <2>2. j \in 1 .. n /\ j \in 1 .. n + 1 /\ j + 1 \in 1 .. n + 1 /\ 1 \in 1 .. n + 1 /\ n + 1 \in 1 .. n + 1
    BY <1>5
  <2>3. PICK x \in Nat, y \in Nat, u \in Nat, v \in Nat : x = at[j] /\ y = at[j + 1] /\ u = at[n + 1] /\ v = at[1]
    BY <2>2, <1>6
  <2>4. PICK l \in Nat : l = P[j].len /\ y = x + l
    BY <2>2, <2>3, <1>7
  <2>5. f[i] = u + x - v
    <3>1. i \in 1 .. n + 1
      OBVIOUS
    <3>. QED BY <3>1, <2>1, <2>3, <1>11, <1>13
  <2>6. f[i + 1] = u + y - v
    <3>1. i + 1 \in 1 .. n + 1 /\ ~(i + 1 <= k)
      BY <1>13
    <3>. QED BY <3>1, <2>1, <2>3, <1>11
  <2>7. z[i] = l
    BY <2>1, <2>4, <1>9, <1>10
  <2>8. PICK b, d, g : b = f[i] /\ d = f[i + 1] /\ g = z[i]
    OBVIOUS
  <2>9. b = u + x - v /\ d = u + y - v /\ g = l /\ y = x + l
    BY <2>4, <2>5, <2>6, <2>7, <2>8
  <2>10. b \in Int /\ g \in Int /\ d = b + g
    BY <2>9
  <2>. QED BY <2>8, <2>10
<1>14. f[n + 1] = at[n + 1] + at[r + 1] - at[1] /\ f[n + 1] \in Int
  <2>1. n + 1 \in 1 .. n + 1 /\ ~(n + 1 <= k) /\ n + 1 - k = r + 1 /\ r + 1 \in 1 .. n + 1 /\ 1 \in 1 .. n + 1
    BY <1>5
  <2>2. f[n + 1] = at[n + 1] + at[r + 1] - at[1]
    BY <2>1, <1>11
  <2>3. at[n + 1] \in Nat /\ at[r + 1] \in Nat /\ at[1] \in Nat
    BY <2>1, <1>6
  <2>. QED BY <2>2, <2>3
<1>15. f[1] = at[r + 1]
  <2>1. CASE k = 0
    <3>1. 1 \in 1 .. n + 1 /\ ~(1 <= k) /\ 1 - k = 1 /\ n = r
      BY <2>1, <1>5
    <3>2. f[1] = at[r + 1] + at[1] - at[1]
      BY <3>1, <1>11
    <3>3. at[r + 1] \in Nat /\ at[1] \in Nat
      BY <3>1, <1>6
    <3>. QED BY <3>2, <3>3
  <2>2. CASE k # 0
    <3>1. 1 \in 1 .. k
      BY <2>2
    <3>. QED BY <3>1, <1>12
  <2>. QED BY <2>1, <2>2
<1>16. Adds(f, z, n)
  <2>1. DOMAIN z = 1 .. n
    BY <1>10
  <2>2. ASSUME NEW i \in 1 .. n PROVE f[i] \in Int /\ z[i] \in Int /\ f[i + 1] = f[i] + z[i]
    <3>1. i <= k => i \in 1 .. k
      OBVIOUS
    <3>. QED BY <3>1, <1>12, <1>13
  <2>3. ASSUME NEW i \in 1 .. n + 1 PROVE f[i] \in Int
    <3>1. i = n + 1 \/ i \in 1 .. n
      OBVIOUS
    <3>. QED BY <3>1, <2>2, <1>14
  <2>. QED BY <2>1, <2>2, <2>3 DEF Adds
<1>17. TotalOf(z) = f[n + 1] - f[1]
  BY <1>16, SumOf
<1>18. UsedTx = TotalOf(z)
  <2>1. drv.kick \o drv.reap = Q
    BY <1>1, <1>8 DEF Cat
  <2>2. [i \in DOMAIN Q |-> Q[i].len] = z
    BY <1>9, <1>10
  <2>. QED BY <2>1, <2>2 DEF UsedTx
<1>19. TotalOf(z) = at[n + 1] - at[1]
  <2>1. PICK x \in Nat, y \in Nat, v \in Nat : x = at[n + 1] /\ y = at[r + 1] /\ v = at[1]
    <3>1. n + 1 \in 1 .. n + 1 /\ r + 1 \in 1 .. n + 1 /\ 1 \in 1 .. n + 1
      BY <1>5
    <3>. QED BY <3>1, <1>6
  <2>2. f[n + 1] = x + y - v /\ f[1] = y
    BY <2>1, <1>14, <1>15
  <2>3. TotalOf(z) = (x + y - v) - y
    BY <2>2, <1>17
  <2>. QED BY <2>1, <2>3
<1>. QED BY <1>1, <1>2, <1>5, <1>18, <1>19

\* A packet in descriptors of its own.
PacketBytes(p, n) == [j \in 1 .. n |-> <<p, j>>]
Part(p, b, n) == [j \in 1 .. n |-> <<p, b + j>>]

Packed(s, t, a, n, p, z, w) ==
  /\ TxRing(t)
  /\ \A k \in 1 .. n : /\ t[TxAt(a, k)].eox = (k = n) /\ t[TxAt(a, k)].etxd = FALSE
                       /\ t[TxAt(a, k)].data = Part(p, w[k - 1], z[k])
  /\ \A i \in 0 .. NTx - 1 : (\A k \in 1 .. n : i # TxAt(a, k)) => t[i] = s[i]

LEMMA PartMore ==
  ASSUME NEW p \in Nat, NEW b \in Nat, NEW n \in Nat
  PROVE  /\ PacketBytes(p, n) \in Seq(TxByte) /\ Len(PacketBytes(p, n)) = n /\ Part(p, b, n) \in Seq(TxByte)
         /\ Cat(PacketBytes(p, b), Part(p, b, n)) = PacketBytes(p, b + n)
<1>1. ASSUME NEW l \in Nat PROVE PacketBytes(p, l) \in Seq(TxByte) /\ Len(PacketBytes(p, l)) = l
  BY DEF PacketBytes, TxByte
<1>2. Part(p, b, n) \in Seq(TxByte) /\ Len(Part(p, b, n)) = n
  BY DEF Part, TxByte
<1>3. PICK x \in Seq(TxByte), y \in Seq(TxByte), c \in Seq(TxByte) :
        x = PacketBytes(p, b) /\ y = Part(p, b, n) /\ c = PacketBytes(p, b + n)
  BY <1>1, <1>2
<1>4. Len(x) = b /\ Len(y) = n /\ Len(c) = b + n
  BY <1>1, <1>2, <1>3
<1>5. \A i \in 1 .. b + n : c[i] = IF i <= b THEN x[i] ELSE y[i - b]
  <2> SUFFICES ASSUME NEW i \in 1 .. b + n PROVE c[i] = IF i <= b THEN x[i] ELSE y[i - b]
    OBVIOUS
  <2>1. c[i] = <<p, i>>
    BY <1>3 DEF PacketBytes
  <2>2. CASE i <= b
    <3>1. i \in 1 .. b
      BY <2>2
    <3>2. x[i] = <<p, i>>
      BY <3>1, <1>3 DEF PacketBytes
    <3>. QED BY <3>2, <2>1, <2>2
  <2>3. CASE ~(i <= b)
    <3>1. PICK j \in 1 .. n : j = i - b /\ b + j = i
      BY <2>3
    <3>2. y[j] = <<p, b + j>>
      BY <1>3 DEF Part
    <3>. QED BY <3>1, <3>2, <2>1, <2>3
  <2>. QED BY <2>2, <2>3
<1>6. c = Cat(x, y)
  BY <1>4, <1>5, CatIs
<1>. QED BY <1>1, <1>2, <1>3, <1>6

LEMMA PacketLaid ==
  ASSUME NEW s, NEW t, NEW a \in Nat, NEW p \in Nat, NEW z \in Seq(Nat), NEW w, Offsets(w, z),
         NEW n \in Nat, n = Len(z), Packed(s, t, a, n, p, z, w)
  PROVE  FlattenSeq(Data(t, a, n)) = PacketBytes(p, w[n])
<1> DEFINE V == {m \in Nat : m <= n => FlattenSeq(Data(t, a, m)) = PacketBytes(p, w[m])}
<1>1. 0 \in V
  <2>1. FlattenSeq(Data(t, a, 0)) = <<>>
    <3>1. TxRing(t) /\ 0 \in Nat
      BY DEF Packed
    <3>. QED BY <3>1, DataMore
  <2>2. w[0] = 0
    BY DEF Offsets
  <2>3. PacketBytes(p, 0) = <<>>
    BY DEF PacketBytes
  <2>. QED BY <2>1, <2>2, <2>3
<1>2. ASSUME NEW m \in Nat, m \in V PROVE m + 1 \in V
  <2> SUFFICES ASSUME m + 1 <= n PROVE FlattenSeq(Data(t, a, m + 1)) = PacketBytes(p, w[m + 1])
    OBVIOUS
  <2>1. FlattenSeq(Data(t, a, m)) = PacketBytes(p, w[m])
    BY <1>2
  <2>2. TxRing(t)
    BY DEF Packed
  <2>3. FlattenSeq(Data(t, a, m + 1)) = Cat(FlattenSeq(Data(t, a, m)), t[TxAt(a, m + 1)].data)
    BY <2>2, DataMore
  <2>4. PICK k \in 1 .. n : k = m + 1 /\ k - 1 = m /\ m \in 0 .. n
    OBVIOUS
  <2>5. t[TxAt(a, k)].data = Part(p, w[k - 1], z[k])
    BY DEF Packed
  <2>6. w[m] \in Nat /\ w[m + 1] = w[m] + z[m + 1] /\ z[m + 1] \in Nat
    BY <2>4 DEF Offsets
  <2>7. Cat(PacketBytes(p, w[m]), Part(p, w[m], z[m + 1])) = PacketBytes(p, w[m] + z[m + 1])
    BY <2>6, PartMore
  <2>. QED BY <2>1, <2>3, <2>4, <2>5, <2>6, <2>7
<1> HIDE DEF V
<1>3. Nat \subseteq V
  BY <1>1, <1>2, NatSetInduction
<1>. QED BY <1>3 DEF V

\* A packet more in line, behind the others.
LineLonger(P, at, pk, b) ==
  /\ InLine(Append(P, pk), b, TxAt(at[Len(P) + 1] + pk.len, 1))
  /\ \A i \in 1 .. Len(P) + 1 : b[i] = at[i]

LEMMA LineMore ==
  ASSUME NEW P, NEW at, NEW tail, InLine(P, at, tail), NEW pk \in TxPacket,
         at[Len(P) + 1] - at[1] + pk.len <= NTx
  PROVE  \E b : LineLonger(P, at, pk, b)
<1>1. PICK l \in Nat, n \in Nat \ {0}, N \in Nat \ {0} : l = Len(P) /\ n = pk.len /\ N = NTx
  BY EnetAssumption DEF InLine, TxPacket
<1>2. P \in Seq(TxPacket) /\ \A i \in 1 .. l + 1 : at[i] \in Nat
  BY <1>1 DEF InLine
<1>3. PICK b : b = [i \in 1 .. l + 2 |-> IF i <= l + 1 THEN at[i] ELSE at[l + 1] + n]
  OBVIOUS
<1>4. /\ \A i \in 1 .. l + 1 : b[i] = at[i]
      /\ b[l + 2] = at[l + 1] + n
  BY <1>3
<1>5. PICK Q : Q = Append(P, pk) /\ Q \in Seq(TxPacket) /\ Len(Q) = l + 1 /\ Q[l + 1] = pk
               /\ \A i \in 1 .. l : Q[i] = P[i]
  <2>1. Append(P, pk) \in Seq(TxPacket) /\ Len(Append(P, pk)) = l + 1 /\ Append(P, pk)[l + 1] = pk
    BY <1>1, <1>2
  <2>2. \A i \in 1 .. l : Append(P, pk)[i] = P[i]
    BY <1>1, <1>2
  <2>. QED BY <2>1, <2>2
<1>6. at[l + 1] \in Nat /\ at[1] \in Nat /\ b[l + 2] \in Nat /\ b[1] = at[1]
  <2>1. l + 1 \in 1 .. l + 1 /\ 1 \in 1 .. l + 1
    OBVIOUS
  <2>2. at[l + 1] \in Nat /\ at[1] \in Nat /\ b[1] = at[1]
    BY <2>1, <1>2, <1>4
  <2>. QED BY <2>2, <1>4
<1>7. ASSUME NEW i \in 1 .. l + 2 PROVE b[i] \in Nat
  <2>1. i \in 1 .. l + 1 \/ i = l + 2
    OBVIOUS
  <2>. QED BY <2>1, <1>2, <1>4, <1>6
<1>8. ASSUME NEW i \in 1 .. l + 1 PROVE b[i + 1] = b[i] + Q[i].len
  <2>1. CASE i = l + 1
    <3>1. i + 1 = l + 2 /\ b[i] = at[l + 1] /\ Q[i].len = n
      BY <2>1, <1>1, <1>4, <1>5
    <3>. QED BY <3>1, <1>4
  <2>2. CASE i # l + 1
    <3>1. i \in 1 .. l /\ i + 1 \in 1 .. l + 1
      BY <2>2
    <3>2. at[i + 1] = at[i] + P[i].len
      BY <3>1, <1>1 DEF InLine
    <3>. QED BY <3>1, <3>2, <1>4, <1>5
  <2>. QED BY <2>1, <2>2
<1>9. b[l + 2] - b[1] <= N
  <2>1. PICK x \in Nat, y \in Nat : x = at[l + 1] /\ y = at[1] /\ x - y + n <= N
    BY <1>1, <1>6
  <2>2. (x + n) - y <= N
    BY <2>1
  <2>. QED BY <2>1, <2>2, <1>4, <1>6
<1>10. Len(Q) + 1 = l + 2
  BY <1>5
<1>11. InLine(Q, b, TxAt(at[l + 1] + n, 1))
  BY <1>1, <1>4, <1>5, <1>7, <1>8, <1>9, <1>10 DEF InLine
<1>. QED BY <1>1, <1>4, <1>5, <1>11 DEF LineLonger

\* The descriptors of the packets in line keep what they hold.
Placed(P, at, pk, b, s, t, p, z, w) ==
  P \in Seq(TxPacket) /\ LineLonger(P, at, pk, b) /\ Packed(s, t, at[Len(P) + 1], pk.len, p, z, w)

StandAsWas(P, at, s, t) ==
  \A i \in 1 .. Len(P) : \A k \in 1 .. P[i].len :
    TxAt(at[i], k) \in 0 .. NTx - 1 /\ t[TxAt(at[i], k)] = s[TxAt(at[i], k)]

LEMMA LineKept ==
  ASSUME NEW P, NEW at, NEW pk, NEW b, NEW s, NEW t, NEW p, NEW z, NEW w, Placed(P, at, pk, b, s, t, p, z, w)
  PROVE  StandAsWas(P, at, s, t)
<1> SUFFICES ASSUME NEW i \in 1 .. Len(P)
             PROVE  \A k \in 1 .. P[i].len :
                      TxAt(at[i], k) \in 0 .. NTx - 1 /\ t[TxAt(at[i], k)] = s[TxAt(at[i], k)]
  BY DEF StandAsWas
<1>a. P \in Seq(TxPacket) /\ LineLonger(P, at, pk, b) /\ Packed(s, t, at[Len(P) + 1], pk.len, p, z, w)
  BY DEF Placed
<1>0. PICK l \in Nat : l = Len(P)
  BY <1>a
<1>1. PICK Q : Q = Append(P, pk) /\ Len(Q) = l + 1 /\ Q[l + 1] = pk /\ Q[i] = P[i]
  <2>1. Len(Append(P, pk)) = Len(P) + 1 /\ Append(P, pk)[Len(P) + 1] = pk
    BY <1>a
  <2>2. Append(P, pk)[i] = P[i]
    BY <1>a
  <2>. QED BY <2>1, <2>2, <1>0
<1>2. InLine(Q, b, TxAt(at[l + 1] + pk.len, 1)) /\ b[i] = at[i] /\ b[l + 1] = at[l + 1]
  <2>1. InLine(Q, b, TxAt(at[l + 1] + pk.len, 1))
    BY <1>a, <1>0, <1>1 DEF LineLonger
  <2>2. i \in 1 .. Len(P) + 1 /\ Len(P) + 1 \in 1 .. Len(P) + 1
    BY <1>0
  <2>. QED BY <1>a, <2>1, <2>2, <1>0 DEF LineLonger
<1>3. i \in 1 .. Len(Q) /\ l + 1 \in 1 .. Len(Q) /\ i < l + 1
  BY <1>0, <1>1
<1>4. \A k \in 1 .. P[i].len, j \in 1 .. pk.len : TxAt(at[i], k) # TxAt(at[l + 1], j)
  <2>1. \A k \in 1 .. Q[i].len, j \in 1 .. Q[l + 1].len : TxAt(b[i], k) # TxAt(b[l + 1], j)
    BY <1>2, <1>3, LineTypes
  <2>. QED BY <2>1, <1>1, <1>2
<1>5. at[i] \in Nat /\ P[i].len \in Nat
  <2>1. P[i] \in TxPacket
    BY <1>a
  <2>2. b[i] \in Nat
    <3>1. i \in 1 .. Len(Q) + 1
      BY <1>0, <1>1
    <3>. QED BY <3>1, <1>2 DEF InLine
  <2>. QED BY <2>1, <2>2, <1>2 DEF TxPacket
<1>6. ASSUME NEW k \in 1 .. P[i].len PROVE TxAt(at[i], k) \in 0 .. NTx - 1
  <2>1. k \in Nat \ {0}
    BY <1>5
  <2>. QED BY <2>1, <1>5, TxPlaces
<1>. QED BY <1>a, <1>0, <1>4, <1>6 DEF Packed

\* A packet laid behind the others leaves them as they were.
LEMMA LineGrows ==
  ASSUME NEW P, NEW at, NEW tail, InLine(P, at, tail), NEW pk \in TxPacket, NEW b, LineLonger(P, at, pk, b),
         NEW s, TxRing(s), NEW t, NEW p, NEW z, NEW w, Packed(s, t, at[Len(P) + 1], pk.len, p, z, w),
         NEW u \in Seq(TxByte), Laid(t, pk, at[Len(P) + 1], u),
         NEW R \in Seq(TxPacket), Len(R) <= Len(P),
         NEW q, NEW e, NEW first, NEW U, TxLine(q, e, s, R, P, at, first, U)
  PROVE  TxLine(q, e, t, R, Append(P, pk), b, first, Append(U, u))
<1>2. P \in Seq(TxPacket)
  BY DEF InLine
<1>a. Len(P) \in Nat /\ Len(R) \in Nat
  BY <1>2
<1>1. PICK l \in Nat, r \in Nat : l = Len(P) /\ r = Len(R) /\ r <= l
  BY <1>a
<1>3. PICK Q : Q = Append(P, pk) /\ Len(Q) = l + 1 /\ Q[l + 1] = pk /\ \A i \in 1 .. l : Q[i] = P[i]
  <2>1. Len(Append(P, pk)) = l + 1 /\ Append(P, pk)[l + 1] = pk
    BY <1>1, <1>2
  <2>2. \A i \in 1 .. l : Append(P, pk)[i] = P[i]
    BY <1>1, <1>2
  <2>. QED BY <2>1, <2>2
<1>4. \A i \in 1 .. l + 1 : b[i] = at[i]
  BY <1>1 DEF LineLonger
<1>5. \A i \in 1 .. l : P[i] \in TxPacket /\ P[i].len \in Nat \ {0} /\ at[i] \in Nat
  BY <1>1, LineTypes
<1>6. \A i \in 1 .. l : \A k \in 1 .. P[i].len :
        TxAt(at[i], k) \in 0 .. NTx - 1 /\ t[TxAt(at[i], k)] = s[TxAt(at[i], k)]
  <2>1. Placed(P, at, pk, b, s, t, p, z, w)
    BY <1>2 DEF Placed
  <2>2. StandAsWas(P, at, s, t)
    BY <2>1, LineKept, Zenon
  <2>. QED BY <2>2, <1>1 DEF StandAsWas
<1>8. /\ Waiting(P, at, s, U, first) /\ Fresh(P, s, r + 1) /\ first \in Nat /\ first <= l + 1 /\ first > 0
      /\ first <= r + 1
      /\ (first = r + 1 /\ Resting(q, e)) \/ (first = r /\ first > 0 /\ Midway(q, e, s, P[first], at[first]))
  <2>1. /\ Waiting(P, at, s, U, first) /\ Fresh(P, s, r + 1)
        /\ (first = r + 1 /\ Resting(q, e)) \/ (first = r /\ first > 0 /\ Midway(q, e, s, P[first], at[first]))
    BY <1>1 DEF TxLine
  <2>2. first \in Nat /\ first <= l + 1 /\ first > 0 /\ first <= r + 1
    BY <2>1, <1>1
  <2>. QED BY <2>1, <2>2
<1>7. \A i \in first .. l : i \in 1 .. l /\ t[P[i].head] = s[P[i].head]
  <2> SUFFICES ASSUME NEW i \in first .. l PROVE i \in 1 .. l /\ t[P[i].head] = s[P[i].head]
    OBVIOUS
  <2>0. i \in 1 .. l
    BY <1>8
  <2>1. 1 \in 1 .. P[i].len
    BY <2>0, <1>5
  <2>2. t[TxAt(at[i], 1)] = s[TxAt(at[i], 1)]
    BY <2>0, <2>1, <1>6
  <2>3. P[i].head = TxAt(at[i], 1)
    <3>1. Laid(s, P[i], at[i], U[i - first + 1])
      BY <1>1, <1>8 DEF Waiting
    <3>. QED BY <3>1 DEF Laid
  <2>. QED BY <2>0, <2>2, <2>3
<1>9. Waiting(Q, b, t, Append(U, u), first)
  <2>1. U \in Seq(Seq(TxByte)) /\ Len(U) = l + 1 - first
    BY <1>1, <1>8 DEF Waiting
  <2>2. PICK c \in Nat : c = l + 1 - first /\ Len(U) = c
    BY <2>1
  <2>a. PICK V : V = Append(U, u)
    OBVIOUS
  <2>3. V \in Seq(Seq(TxByte)) /\ Len(V) = c + 1 /\ V[c + 1] = u /\ \A i \in 1 .. c : V[i] = U[i]
    <3>1. PICK S : S = Seq(TxByte)
      OBVIOUS
    <3>2. U \in Seq(S) /\ u \in S
      BY <2>1, <3>1
    <3>3. Append(U, u) \in Seq(S) /\ Len(Append(U, u)) = c + 1 /\ Append(U, u)[c + 1] = u
      BY <3>2, <2>2
    <3>4. \A i \in 1 .. c : Append(U, u)[i] = U[i]
      BY <3>2, <2>2
    <3>5. Append(U, u) \in Seq(S)
      BY <3>2
    <3>. QED BY <3>1, <3>3, <3>4, <3>5, <2>a
  <2>4. ASSUME NEW i \in first .. Len(Q) PROVE Laid(t, Q[i], b[i], V[i - first + 1])
    <3>1. CASE i = l + 1
      <4>1. i - first + 1 = c + 1
        BY <3>1, <1>8, <2>2
      <4>2. Q[i] = pk /\ b[i] = at[l + 1]
        BY <3>1, <1>3, <1>4
      <4>. QED BY <4>1, <4>2, <2>3, <1>1
    <3>2. CASE i # l + 1
      <4>0. i \in first .. l /\ i \in 1 .. l /\ i \in 1 .. l + 1
        BY <3>2, <1>3, <1>8
      <4>1. i - first + 1 \in 1 .. c
        BY <4>0, <1>8, <2>2
      <4>2. Laid(s, P[i], at[i], U[i - first + 1])
        BY <4>0, <1>1, <1>8 DEF Waiting
      <4>p. PICK pp \in TxPacket, a \in Nat : pp = P[i] /\ a = at[i]
        BY <4>0, <1>5
      <4>3. PICK v : pp = P[i] /\ a = at[i] /\ v = U[i - first + 1]
        BY <4>p
      <4>4. \A k \in 1 .. pp.len : t[TxAt(a, k)].eox = s[TxAt(a, k)].eox /\ t[TxAt(a, k)].data = s[TxAt(a, k)].data
        BY <4>0, <4>3, <1>6
      <4>a. Laid(s, pp, a, v)
        BY <4>2, <4>3
      <4>5. Laid(t, pp, a, v)
        BY <4>a, <4>4, LaidSame
      <4>6. Q[i] = pp /\ b[i] = a /\ V[i - first + 1] = v
        BY <4>0, <4>1, <4>3, <1>3, <1>4, <2>3
      <4>. QED BY <4>5, <4>6
    <3>. QED BY <3>1, <3>2
  <2>5. Len(V) = Len(Q) + 1 - first
    BY <2>2, <2>3, <1>3, <1>8
  <2>. QED BY <2>a, <2>3, <2>4, <2>5 DEF Waiting
<1>10. Fresh(Q, t, r + 1)
  <2> SUFFICES ASSUME NEW j \in r + 1 .. Len(Q) PROVE t[Q[j].head].etxd = FALSE
    BY DEF Fresh
  <2>1. CASE j = l + 1
    <3>1. Q[j] = pk /\ pk.head = TxAt(at[l + 1], 1)
      BY <2>1, <1>1, <1>3 DEF Laid
    <3>2. 1 \in 1 .. pk.len
      BY DEF TxPacket
    <3>3. t[TxAt(at[l + 1], 1)].etxd = FALSE
      BY <3>2, <1>1 DEF Packed
    <3>. QED BY <3>1, <3>3
  <2>2. CASE j # l + 1
    <3>1. j \in r + 1 .. l /\ j \in 1 .. l /\ j \in first .. l
      BY <2>2, <1>3, <1>8
    <3>2. s[P[j].head].etxd = FALSE
      BY <3>1, <1>1, <1>8 DEF Fresh
    <3>. QED BY <3>1, <3>2, <1>3, <1>7
  <2>. QED BY <2>1, <2>2
<1>11. ASSUME first = r, Midway(q, e, s, P[first], at[first]) PROVE Midway(q, e, t, Q[first], b[first])
  <2>1. first \in 1 .. l /\ first \in 1 .. l + 1 /\ first \in first .. l
    BY <1>1, <1>8, <1>11
  <2>2. PICK pp \in TxPacket, a \in Nat : pp = P[first] /\ a = at[first] /\ pp = Q[first] /\ a = b[first]
    BY <2>1, <1>3, <1>4, <1>5
  <2>3. /\ e.opt.lat # 0 /\ e.s_head = pp.head /\ e.tx.active = TRUE /\ e.hold = 0 /\ s[pp.head].etxd = FALSE
    BY <1>11, <2>2 DEF Midway
  <2>4. PICK m \in Nat \ {0} : m < pp.len /\ e.tx.nbdp = TxAt(a, m + 1) /\ q.tx_frame = FlattenSeq(Data(s, a, m))
    BY <1>11, <2>2 DEF Midway
  <2>5. Data(t, a, m) = Data(s, a, m)
    <3>1. \A k \in 1 .. m : k \in 1 .. pp.len
      BY <2>4 DEF TxPacket
    <3>2. \A k \in 1 .. m : t[TxAt(a, k)].data = s[TxAt(a, k)].data
      BY <3>1, <2>1, <2>2, <1>6
    <3>. QED BY <3>2 DEF Data
  <2>6. t[pp.head].etxd = FALSE
    BY <2>1, <2>2, <2>3, <1>7
  <2>7. Midway(q, e, t, pp, a)
    BY <2>3, <2>4, <2>5, <2>6 DEF Midway
  <2>. QED BY <2>2, <2>7
<1>. QED BY <1>1, <1>3, <1>8, <1>9, <1>10, <1>11 DEF TxLine

LEMMA CatGrows ==
  ASSUME NEW S, NEW R \in Seq(S), NEW K \in Seq(S), NEW x \in S
  PROVE  Append(K, x) \in Seq(S) /\ Cat(R, Append(K, x)) = Append(Cat(R, K), x)
<1>1. PICK r \in Nat, k \in Nat : r = Len(R) /\ k = Len(K)
  OBVIOUS
<1>2. PICK C : C = Cat(R, K) /\ C \in Seq(S) /\ Len(C) = r + k
               /\ (\A i \in 1 .. r : C[i] = R[i]) /\ (\A i \in 1 .. k : C[r + i] = K[i])
  <2>1. Cat(R, K) \in Seq(S) /\ Len(Cat(R, K)) = Len(R) + Len(K)
    BY CatMoves
  <2>2. \A i \in 1 .. Len(R) : Cat(R, K)[i] = R[i]
    BY CatMoves
  <2>3. \A i \in 1 .. Len(K) : Cat(R, K)[Len(R) + i] = K[i]
    BY CatMoves
  <2>. QED BY <2>1, <2>2, <2>3, <1>1
<1>3. PICK A : A = Append(K, x) /\ A \in Seq(S) /\ Len(A) = k + 1 /\ A[k + 1] = x /\ \A i \in 1 .. k : A[i] = K[i]
  <2>1. Append(K, x) \in Seq(S) /\ Len(Append(K, x)) = k + 1 /\ Append(K, x)[k + 1] = x
    BY <1>1
  <2>2. \A i \in 1 .. k : Append(K, x)[i] = K[i]
    BY <1>1
  <2>. QED BY <2>1, <2>2
<1>4. PICK D : D = Append(C, x) /\ D \in Seq(S) /\ Len(D) = r + k + 1 /\ D[r + k + 1] = x
               /\ \A i \in 1 .. r + k : D[i] = C[i]
  <2>1. Append(C, x) \in Seq(S) /\ Len(Append(C, x)) = r + k + 1 /\ Append(C, x)[r + k + 1] = x
    BY <1>2
  <2>2. \A i \in 1 .. r + k : Append(C, x)[i] = C[i]
    BY <1>2
  <2>. QED BY <2>1, <2>2
<1>5. ASSUME NEW i \in 1 .. r + (k + 1) PROVE D[i] = IF i <= r THEN R[i] ELSE A[i - r]
  <2>1. CASE i <= r
    <3>1. i \in 1 .. r /\ i \in 1 .. r + k
      BY <2>1
    <3>. QED BY <3>1, <2>1, <1>2, <1>4
  <2>2. CASE i = r + k + 1
    <3>1. i - r = k + 1 /\ ~(i <= r)
      BY <2>2
    <3>. QED BY <3>1, <2>2, <1>3, <1>4
  <2>3. CASE ~(i <= r) /\ i # r + k + 1
    <3>1. PICK j \in 1 .. k : j = i - r /\ r + j = i /\ i \in 1 .. r + k
      BY <2>3
    <3>2. D[i] = K[j]
      BY <3>1, <1>2, <1>4
    <3>. QED BY <3>1, <3>2, <2>3, <1>3
  <2>. QED BY <2>1, <2>2, <2>3
<1>6. Len(D) = Len(R) + Len(A) /\ Len(R) + Len(A) = r + (k + 1) /\ Len(R) = r
  BY <1>1, <1>3, <1>4
<1>7. D = Cat(R, A)
  BY <1>3, <1>4, <1>5, <1>6, CatIs
<1>. QED BY <1>2, <1>3, <1>4, <1>7

\* What QueueTx writes into the ring.
Filled(s, z, tl, p) ==
  [i \in DOMAIN s |->
     IF \E k \in DOMAIN z : (tl + k - 1) % NTx = i
       THEN LET k == CHOOSE k \in DOMAIN z : (tl + k - 1) % NTx = i
            IN [eox |-> k = Len(z), etxd |-> FALSE,
                data |-> [j \in 1 .. z[k] |-> <<p, TotalOf(SubSeq(z, 1, k - 1)) + j>>]]
       ELSE s[i]]

LEMMA Packing ==
  ASSUME NEW s, TxRing(s), NEW z \in Seq(Nat), NEW n \in Nat \ {0}, n = Len(z), n <= NTx,
         NEW a \in Nat, NEW tl, tl = TxAt(a, 1), NEW p \in Nat, NEW w, Offsets(w, z),
         NEW t, t = Filled(s, z, tl, p)
  PROVE  Packed(s, t, a, n, p, z, w)
<1>1. DOMAIN s = 0 .. NTx - 1 /\ DOMAIN z = 1 .. n /\ NTx \in Nat \ {0}
  BY EnetAssumption DEF TxRing
<1>2. ASSUME NEW k \in 1 .. n PROVE (tl + k - 1) % NTx = TxAt(a, k) /\ TxAt(a, k) \in 0 .. NTx - 1
  <2>1. PICK m \in Nat \ {0}, y \in Nat : m = NTx /\ y = k - 1
    BY <1>1
  <2>2. ((a % m) + y) % m = (a + y) % m
    BY ModAdd
  <2>3. tl = a % m
    BY <2>1, TxPlaces
  <2>4. tl \in Nat
    <3>1. a % m \in 0 .. m - 1
      BY ModNext
    <3>. QED BY <3>1, <2>3
  <2>5. tl + k - 1 = tl + y /\ a + k - 1 = a + y
    BY <2>1, <2>4
  <2>6. k \in Nat \ {0}
    OBVIOUS
  <2>. QED BY <2>1, <2>2, <2>3, <2>5, <2>6, TxPlaces DEF TxAt
<1>3. ASSUME NEW k \in 1 .. n, NEW l \in 1 .. n, TxAt(a, k) = TxAt(a, l) PROVE k = l
  <2>1. PICK m \in Nat : m = NTx /\ n <= m
    BY <1>1
  <2>2. ASSUME NEW x \in 1 .. n, NEW y \in 1 .. n, x < y PROVE TxAt(a, x) # TxAt(a, y)
    <3>1. x \in Nat /\ y \in Nat /\ x > 0 /\ y > 0 /\ a + x < a + y
      BY <2>2
    <3>2. a + y - (a + x) < NTx
      BY <2>1, <2>2
    <3>. QED BY <3>1, <3>2, TxPlaces
  <2>3. k < l \/ l < k \/ k = l
    OBVIOUS
  <2>. QED BY <2>2, <2>3, <1>3
<1>4. ASSUME NEW k \in 1 .. n
      PROVE  t[TxAt(a, k)] = [eox |-> k = n, etxd |-> FALSE, data |-> Part(p, w[k - 1], z[k])]
  <2>1. PICK i \in 0 .. NTx - 1 : i = TxAt(a, k)
    BY <1>2
  <2>2. \A l \in DOMAIN z : (tl + l - 1) % NTx = i <=> l = k
    BY <2>1, <1>1, <1>2, <1>3
  <2>3. k \in DOMAIN z
    BY <1>1
  <2>4. (CHOOSE l \in DOMAIN z : (tl + l - 1) % NTx = i) = k
    BY <2>2, <2>3
  <2>5. \E l \in DOMAIN z : (tl + l - 1) % NTx = i
    BY <2>2, <2>3
  <2>6. t[i] = [eox |-> k = Len(z), etxd |-> FALSE,
                data |-> [j \in 1 .. z[k] |-> <<p, TotalOf(SubSeq(z, 1, k - 1)) + j>>]]
    BY <2>4, <2>5, <1>1 DEF Filled
  <2>7. TotalOf(SubSeq(z, 1, k - 1)) = w[k - 1]
    <3>1. k \in 1 .. Len(z) + 1
      OBVIOUS
    <3>. QED BY <3>1 DEF Offsets
  <2>. QED BY <2>1, <2>6, <2>7 DEF Part
<1>5. ASSUME NEW i \in 0 .. NTx - 1, \A k \in 1 .. n : i # TxAt(a, k) PROVE t[i] = s[i]
  <2>1. ~\E k \in DOMAIN z : (tl + k - 1) % NTx = i
    BY <1>1, <1>2, <1>5
  <2>. QED BY <2>1, <1>1 DEF Filled
<1>6. TxRing(t)
  <2>1. t = [i \in 0 .. NTx - 1 |-> t[i]]
    BY <1>1 DEF Filled
  <2>2. ASSUME NEW i \in 0 .. NTx - 1
        PROVE  /\ t[i] = [f \in SlotFields |-> t[i][f]]
               /\ t[i].eox \in BOOLEAN /\ t[i].etxd \in BOOLEAN /\ t[i].data \in Seq(TxByte)
    <3>1. CASE \E k \in 1 .. n : i = TxAt(a, k)
      <4>1. PICK k \in 1 .. n : i = TxAt(a, k)
        BY <3>1
      <4>2. PICK x, d : d = Part(p, w[k - 1], z[k]) /\ x = [eox |-> k = n, etxd |-> FALSE, data |-> d]
        OBVIOUS
      <4>3. x = t[i]
        BY <4>1, <4>2, <1>4
      <4>4. x = [f \in SlotFields |-> x[f]] /\ x.eox = (k = n) /\ x.etxd = FALSE /\ x.data = d
        BY <4>2 DEF SlotFields
      <4>5. d \in Seq(TxByte)
        <5>1. k - 1 \in 0 .. Len(z) /\ z[k] \in Nat
          OBVIOUS
        <5>2. w[k - 1] \in Nat
          BY <5>1 DEF Offsets
        <5>. QED BY <5>1, <5>2, <4>2, PartMore
      <4>6. x.eox \in BOOLEAN /\ x.etxd \in BOOLEAN
        BY <4>4
      <4>7. x.data \in Seq(TxByte)
        BY <4>4, <4>5
      <4>8. PICK y : y = t[i]
        OBVIOUS
      <4>9. y = x
        BY <4>3, <4>8
      <4>. QED BY <4>4, <4>6, <4>7, <4>8, <4>9, Zenon
    <3>2. CASE ~\E k \in 1 .. n : i = TxAt(a, k)
      <4>1. t[i] = s[i]
        BY <3>2, <1>5
      <4>. QED BY <4>1 DEF TxRing
    <3>. QED BY <3>1, <3>2
  <2>3. PICK v : v = t
    OBVIOUS
  <2>4. TxRing(v)
    BY <2>1, <2>2, <2>3 DEF TxRing
  <2>. QED BY <2>3, <2>4
<1>7. ASSUME NEW k \in 1 .. n
      PROVE  /\ t[TxAt(a, k)].eox = (k = n) /\ t[TxAt(a, k)].etxd = FALSE
             /\ t[TxAt(a, k)].data = Part(p, w[k - 1], z[k])
  <2>1. PICK d, x : d = Part(p, w[k - 1], z[k]) /\ x = [eox |-> k = n, etxd |-> FALSE, data |-> d]
    OBVIOUS
  <2>2. x.eox = (k = n) /\ x.etxd = FALSE /\ x.data = d
    BY <2>1
  <2>3. t[TxAt(a, k)] = x
    BY <2>1, <1>4
  <2>. QED BY <2>1, <2>2, <2>3, Zenon
<1>. QED BY <1>5, <1>6, <1>7 DEF Packed

LEMMA QueueSends == ASSUME RxInv, Sending, NEW shape \in Shapes, QueueTx(shape) PROVE Sending'
<1>1. PICK R \in Seq(TxPacket), K \in Seq(TxPacket) : R = drv.reap /\ K = drv.kick
  BY DEF Sending, TxHas
<1>2. PICK P, tail, U, s : P = Cat(R, K) /\ tail = drv.tail /\ U = wire.unsent /\ s = rings.tx
  OBVIOUS
<1>3. PICK at, first : InLine(P, at, tail) /\ TxLine(seeq, enet, s, R, P, at, first, U)
  BY <1>1, <1>2 DEF Sending, TxHas
<1>4. TxTypes(seeq, enet, rings, wire) /\ Numbered(P, drv.packets) /\ drv = [f \in DrvFields |-> drv[f]]
  BY <1>1, <1>2 DEF Sending, TxHas
<1>5. shape \in Seq(Nat) /\ shape # <<>> /\ TotalOf(shape) >= MinFrame
  BY ShapeAssumption
<1>6. PICK n \in Nat \ {0} : n = Len(shape)
  BY <1>5
<1>7. PICK w : Offsets(w, shape)
  BY <1>5, OffsetsExist
<1>8. PICK l \in Nat, r \in Nat : l = Len(P) /\ r = Len(R) /\ r <= l /\ l = Len(R) + Len(K)
  <2>1. Len(Cat(R, K)) = Len(R) + Len(K)
    BY CatMoves
  <2>. QED BY <2>1, <1>2
<1>9. PICK a \in Nat : a = at[l + 1] /\ a - at[1] + n <= NTx /\ n <= NTx
  <2>1. PICK x \in Nat, y \in Nat : x = at[1] /\ y = at[l + 1] /\ x <= y
    <3>1. 1 \in 1 .. l + 1 /\ l + 1 \in 1 .. l + 1
      OBVIOUS
    <3>2. at[1] <= at[l + 1]
      <4>1. \A i, j \in 1 .. Len(P) + 1 : i <= j => at[i] <= at[j]
        BY <1>3, InOrder
      <4>2. 1 <= l + 1 /\ Len(P) = l
        BY <1>8
      <4>. QED BY <4>1, <4>2, <3>1
    <3>3. at[1] \in Nat /\ at[l + 1] \in Nat
      BY <3>1, <1>3, <1>8 DEF InLine
    <3>. QED BY <3>2, <3>3
  <2>2. drv.reap \in Seq(TxPacket) /\ drv.kick \in Seq(TxPacket) /\ InLine(Cat(drv.reap, drv.kick), at, tail)
    BY <1>1, <1>2, <1>3
  <2>3. UsedTx = at[Len(drv.reap) + Len(drv.kick) + 1] - at[1]
    BY <2>2, UsedIs
  <2>4. UsedTx = y - x
    BY <2>1, <2>3, <1>1, <1>8
  <2>5. UsedTx + n <= NTx
    BY <1>6 DEF QueueTx
  <2>6. NTx \in Nat
    BY EnetAssumption
  <2>. QED BY <2>1, <2>4, <2>5, <2>6
<1>10. tail = TxAt(a, 1) /\ tail \in Nat
  <2>1. tail = TxAt(a, 1)
    BY <1>3, <1>8, <1>9 DEF InLine
  <2>2. 1 \in Nat \ {0}
    OBVIOUS
  <2>3. TxAt(a, 1) \in 0 .. NTx - 1
    BY <2>2, TxPlaces
  <2>. QED BY <2>1, <2>3
<1>11. PICK p \in Nat : p = drv.packets + 1 /\ p > drv.packets
  <2>1. PICK c : c = drv.packets
    OBVIOUS
  <2>2. c \in Nat
    BY <2>1, <1>4 DEF Numbered
  <2>3. c + 1 \in Nat /\ c + 1 > c
    BY <2>2
  <2>. QED BY <2>1, <2>3
<1>12. PICK pk \in TxPacket : pk = [id |-> p, head |-> tail, len |-> n] /\ pk.id = p /\ pk.head = tail /\ pk.len = n
  <2>1. PICK x : x = [id |-> p, head |-> tail, len |-> n]
    OBVIOUS
  <2>2. x \in TxPacket
    BY <2>1, <1>10 DEF TxPacket
  <2>3. x.id = p /\ x.head = tail /\ x.len = n
    BY <2>1
  <2>. QED BY <2>1, <2>2, <2>3
<1>13. PICK t : t = Filled(s, shape, tail, p)
  OBVIOUS
<1>14. TxRing(s)
  BY <1>2, <1>4 DEF TxTypes
<1>15. Packed(s, t, a, n, p, shape, w)
  BY <1>5, <1>6, <1>7, <1>9, <1>10, <1>13, <1>14, Packing
<1>16. PICK u : u = PacketBytes(p, w[n])
  OBVIOUS
<1>17. w[n] = TotalOf(shape) /\ w[n] \in Nat /\ TotalOf(SubSeq(shape, 1, Len(shape) + 1 - 1)) = w[n]
  <2>1. Len(shape) + 1 \in 1 .. Len(shape) + 1 /\ Len(shape) + 1 - 1 = n /\ n \in 0 .. Len(shape)
    BY <1>6
  <2>2. TotalOf(SubSeq(shape, 1, Len(shape) + 1 - 1)) = w[Len(shape) + 1 - 1]
    BY <2>1, <1>7 DEF Offsets
  <2>. QED BY <2>1, <2>2, <1>6, <1>7 DEF Offsets
<1>18. u \in Seq(TxByte) /\ Len(u) = w[n] /\ w[n] >= MinFrame
  BY <1>5, <1>16, <1>17, PartMore
<1>19. Laid(t, pk, a, u)
  <2>1. u = FlattenSeq(Data(t, a, n))
    BY <1>5, <1>6, <1>7, <1>15, <1>16, PacketLaid
  <2>2. u[1][1] = p
    <3>1. 1 \in 1 .. w[n]
      BY <1>17, <1>18, EnetAssumption
    <3>. QED BY <3>1, <1>16 DEF PacketBytes
  <2>3. \A k \in 1 .. n : t[TxAt(a, k)].eox = (k = n)
    BY <1>15 DEF Packed
  <2>. QED BY <2>1, <2>2, <2>3, <1>10, <1>12, <1>18 DEF Laid
<1>20. PICK b : LineLonger(P, at, pk, b)
  BY <1>3, <1>8, <1>9, <1>12, LineMore
<1>21. PICK Q, V : Q = Append(P, pk) /\ V = Append(U, u)
  OBVIOUS
<1>22. TxLine(seeq, enet, t, R, Q, b, first, V)
  <2>1. Packed(s, t, at[Len(P) + 1], pk.len, p, shape, w) /\ Laid(t, pk, at[Len(P) + 1], u) /\ Len(R) <= Len(P)
    BY <1>8, <1>9, <1>12, <1>15, <1>19
  <2>. QED BY <2>1, <1>3, <1>14, <1>18, <1>20, <1>21, LineGrows
<1>23. InLine(Q, b, (tail + n) % NTx)
  <2>1. PICK m \in Nat \ {0} : m = NTx
    BY EnetAssumption
  <2>2. ((a % m) + n) % m = (a + n) % m
    BY ModAdd
  <2>3. tail = a % m
    BY <2>1, <1>10, TxPlaces
  <2>4. a + n + 1 - 1 = a + n
    OBVIOUS
  <2>5. TxAt(a + n, 1) = (tail + n) % NTx
    BY <2>1, <2>2, <2>3, <2>4 DEF TxAt
  <2>. QED BY <2>5, <1>8, <1>9, <1>12, <1>20, <1>21 DEF LineLonger
<1>24. Append(K, pk) \in Seq(TxPacket) /\ Cat(R, Append(K, pk)) = Q
  BY <1>2, <1>21, CatGrows
<1>25. Numbered(Q, p)
  <2>1. P \in Seq(TxPacket)
    BY <1>3 DEF InLine
  <2>2. Len(Q) = l + 1 /\ Q[l + 1] = pk /\ \A i \in 1 .. l : Q[i] = P[i]
    <3>0. Len(P) = l
      BY <1>8
    <3>1. Len(Append(P, pk)) = l + 1 /\ Append(P, pk)[l + 1] = pk
      BY <2>1, <3>0
    <3>2. \A i \in 1 .. l : Append(P, pk)[i] = P[i]
      BY <2>1, <3>0
    <3>. QED BY <3>1, <3>2, <1>21
  <2>3. ASSUME NEW i \in 1 .. l PROVE Q[i].id \in Nat /\ Q[i].id < p
    <3>0. Len(P) = l
      BY <1>8
    <3>3. P[i].id <= drv.packets /\ drv.packets \in Nat
      BY <3>0, <1>4 DEF Numbered
    <3>4. P[i] \in TxPacket
      BY <3>0, <2>1
    <3>1. P[i].id <= drv.packets /\ P[i] \in TxPacket /\ drv.packets \in Nat
      BY <3>3, <3>4
    <3>2. P[i].id \in Nat
      BY <3>1 DEF TxPacket
    <3>. QED BY <3>1, <3>2, <2>2, <1>11
  <2>4. ASSUME NEW i \in 1 .. l + 1, NEW j \in 1 .. l + 1, i < j PROVE Q[i].id < Q[j].id
    <3>1. i \in 1 .. l /\ (j \in 1 .. l \/ j = l + 1)
      BY <2>4
    <3>2. CASE j \in 1 .. l
      BY <3>1, <3>2, <2>2, <2>4, <1>4, <1>8 DEF Numbered
    <3>3. CASE j = l + 1
      BY <3>1, <3>3, <2>2, <2>3, <1>12
    <3>. QED BY <3>1, <3>2, <3>3
  <2>5. ASSUME NEW i \in 1 .. l + 1 PROVE Q[i].id <= p
    <3>1. i \in 1 .. l \/ i = l + 1
      OBVIOUS
    <3>. QED BY <3>1, <2>2, <2>3, <1>12
  <2>. QED BY <2>2, <2>4, <2>5 DEF Numbered
<1>26. seeq' = seeq /\ enet' = enet
  BY DEF QueueTx
<1>27. rings' = [f \in {"rx", "tx"} |-> rings'[f]] /\ rings'.tx = t
  <2>1. rings = [f \in {"rx", "tx"} |-> rings[f]]
    BY <1>4 DEF TxTypes
  <2>2. rings' = [rings EXCEPT !.tx = t]
    BY <1>2, <1>11, <1>13 DEF QueueTx, Filled
  <2>. QED BY <2>1, <2>2
<1>28. /\ drv' = [f \in DrvFields |-> drv'[f]] /\ drv'.reap = R /\ drv'.kick = Append(K, pk)
       /\ drv'.tail = (tail + n) % NTx /\ drv'.packets = p
  <2>1. drv' = [drv EXCEPT !.packets = p, !.tail = (@ + n) % NTx, !.kick = Append(@, pk)]
    BY <1>2, <1>6, <1>11, <1>12 DEF QueueTx
  <2>. QED BY <2>1, <1>1, <1>2, <1>4 DEF DrvFields
<1>29. wire' = [f \in WireFields |-> wire'[f]] /\ wire'.unsent = V /\ wire'.stray = wire.stray
  <2>1. u = [j \in 1 .. TotalOf(SubSeq(shape, 1, Len(shape) + 1 - 1)) |-> <<p, j>>]
    BY <1>16, <1>17 DEF PacketBytes
  <2>2. wire' = [wire EXCEPT !.unsent = Append(@, u)]
    BY <2>1, <1>11 DEF QueueTx
  <2>3. wire = [f \in WireFields |-> wire[f]]
    BY <1>4 DEF TxTypes
  <2>. QED BY <2>2, <2>3, <1>2, <1>21 DEF WireFields
<1>30. TxTypes(seeq, enet, rings', wire')
  <2>1. TxRing(t)
    BY <1>15 DEF Packed
  <2>. QED BY <2>1, <1>4, <1>27, <1>29 DEF TxTypes
<1>31. TxHas(seeq, enet, rings', drv', wire')
  BY <1>1, <1>22, <1>23, <1>24, <1>25, <1>27, <1>28, <1>29, <1>30 DEF TxHas
<1>. QED BY <1>26, <1>31 DEF Sending

\* The options never change, and a torn packet is not forgotten.
LEMMA CourseStays ==
  ASSUME RxInv, EnetStep \/ UNCHANGED enetVars
  PROVE  enet'.opt = enet.opt /\ (wire.torn => wire'.torn)
<1>1. /\ enet = [f \in EnetFields |-> enet[f]] /\ wire = [f \in WireFields |-> wire[f]]
  BY DEF RxInv, RxHas, RxTypes
<1>2. CASE enet_poll
  <2>1. PICK h, g, a : Polls(h, g, a)
    BY <1>2, PollIs
  <2>2. /\ h.e = enet /\ g = [f \in TxFields |-> g[f]]
        /\ g.q = RxWalk(h).q /\ g.e = RxWalk(h).e /\ g.r = RxWalk(h).r /\ g.w = wire
        /\ enet' = TxPoll(g).e /\ wire' = [TxPoll(g).w EXCEPT !.due = a]
    BY <2>1 DEF Polls
  <2>3. PICK d, D : RxWalker(h, d, D)
    BY <2>1 DEF Polls
  <2>4. g.e.opt = enet.opt
    <3>1. SameSending(h.q, h.e, h.r, RxWalk(h).q, RxWalk(h).e, RxWalk(h).r)
      BY <2>3, RxWalkSending
    <3>. QED BY <3>1, <2>2 DEF SameSending
  <2>5. TxLeaves(g, TxPoll(g))
    <3>1. RxWalker(RxWalk(h), d, D)
      BY <2>3, RxWalkKeeps
    <3>2. SameChip(g.q, g.q) /\ SameChannel(g.e, g.e) /\ SameRx(g.r, g.r)
      BY <3>1, <2>2, RxItself DEF RxWalker
    <3>3. SameDue(g.w, g.w)
      BY <2>2, RxStays
    <3>. QED BY <3>2, <3>3, <2>2, TxPollLeaves DEF TxLeaves
  <2>6. TxPoll(g).e.opt = g.e.opt /\ SameDue(wire, TxPoll(g).w)
    BY <2>2, <2>5 DEF TxLeaves, SameChannel
  <2>7. wire'.torn = wire.torn
    BY <2>2, <2>6 DEF SameDue, WireFields
  <2>. QED BY <2>2, <2>4, <2>6, <2>7
<1>3. CASE KickTx
  <2>1. PICK c : c = [TxCtrl(enet, TRUE) EXCEPT !.tx.nbdp = Head(drv.kick).head]
    OBVIOUS
  <2>2. SameChannel(enet, c)
    BY <1>1, <2>1 DEF TxCtrl, SameChannel, EnetFields
  <2>3. PICK h : h = [q |-> seeq, e |-> c, r |-> rings, w |-> wire, stop |-> FALSE]
    OBVIOUS
  <2>4. enet' = TxWalk(h).e /\ wire' = TxWalk(h).w
    <3>1. ApplyTx(seeq, c)
      BY <1>3, <2>1 DEF KickTx
    <3>. QED BY <3>1, <2>3 DEF ApplyTx
  <2>5. h = [f \in TxFields |-> h[f]] /\ h.q = seeq /\ h.e = c /\ h.r = rings /\ h.w = wire
    BY <2>3 DEF TxFields
  <2>6. SameChannel(c, c)
    BY <2>2 DEF SameChannel
  <2>7. TxLeaves(h, TxWalk(h))
    BY <2>5, <2>6, RxStays, TxWalkLeaves DEF TxLeaves
  <2>8. SameChannel(c, enet') /\ SameDue(wire, wire')
    BY <2>4, <2>5, <2>7 DEF TxLeaves
  <2>. QED BY <2>2, <2>8 DEF SameChannel, SameDue
<1>4. CASE ArmRx
  <2>1. PICK c : c = [enet EXCEPT !.rx = [active |-> TRUE, nbdp |-> drv.rx]]
    OBVIOUS
  <2>2. PICK h : h = [q |-> seeq, r |-> rings, stop |-> FALSE, e |-> c]
    OBVIOUS
  <2>3. ~enet.rx.active /\ wire' = wire /\ enet' = RxWalk(h).e
    BY <2>1, <2>2, <1>4 DEF ArmRx
  <2>4. c.opt = enet.opt /\ h.e = c
    BY <2>1, <2>2, <1>1 DEF EnetFields
  <2>5. PICK d, D : RxWalker(h, d, D)
    BY <2>1, <2>2, <2>3, ArmWalker
  <2>6. SameSending(h.q, h.e, h.r, RxWalk(h).q, RxWalk(h).e, RxWalk(h).r)
    BY <2>5, RxWalkSending
  <2>. QED BY <2>3, <2>4, <2>6 DEF SameSending
<1>5. CASE TakeRx \/ \E f \in Frames : NetSend(f)
  <2>1. enet' = enet
    BY <1>5 DEF TakeRx, NetSend
  <2>2. wire'.torn = wire.torn
    BY <1>1, <1>5 DEF TakeRx, NetSend, WireFields
  <2>. QED BY <2>1, <2>2
<1>6. CASE HaltTx \/ ClearIrq
  <2>1. enet'.opt = enet.opt
    BY <1>1, <1>6 DEF HaltTx, TxCtrl, ClearIrq, EnetFields
  <2>. QED BY <2>1, <1>6 DEF HaltTx, ClearIrq
<1>7. CASE ResetEnet
  <2>1. enet'.opt = enet.opt
    BY <1>1, <1>7 DEF ResetEnet, EnetFields
  <2>2. wire'.torn = (wire.torn \/ enet.s_head # NTx)
    BY <1>1, <1>7 DEF ResetEnet, WireFields
  <2>. QED BY <2>1, <2>2
<1>8. CASE ReapTx \/ SetupSeeq \/ UNCHANGED enetVars
  BY <1>8 DEF ReapTx, SetupSeeq, enetVars
<1>9. CASE \E s \in Shapes : QueueTx(s)
  <2>1. enet' = enet /\ \E a : wire' = [wire EXCEPT !.unsent = a]
    BY <1>9 DEF QueueTx
  <2>2. wire'.torn = wire.torn
    BY <2>1, <1>1 DEF WireFields
  <2>. QED BY <2>1, <2>2
<1>. QED BY <1>2, <1>3, <1>4, <1>5, <1>6, <1>7, <1>8, <1>9 DEF EnetStep

LEMMA SendingShows == Sending => TxInOrder
<1> SUFFICES ASSUME Sending PROVE TxInOrder
  OBVIOUS
<1>1. PICK R \in Seq(TxPacket), K \in Seq(TxPacket) : R = drv.reap /\ K = drv.kick
  BY DEF Sending, TxHas
<1>2. PICK P, tail, U, s : P = Cat(R, K) /\ tail = drv.tail /\ U = wire.unsent /\ s = rings.tx
  OBVIOUS
<1>3. PICK at, first : InLine(P, at, tail) /\ TxLine(seeq, enet, s, R, P, at, first, U)
  BY <1>1, <1>2 DEF Sending, TxHas
<1>4. wire.stray = <<>> /\ Numbered(P, drv.packets)
  BY <1>1, <1>2 DEF Sending, TxHas, TxTypes
<1>5. PICK l \in Nat, r \in Nat : l = Len(P) /\ r = Len(R) /\ r <= l
  <2>1. Len(Cat(R, K)) = Len(R) + Len(K)
    BY CatMoves
  <2>. QED BY <2>1, <1>2
<1>6. \A i \in 1 .. r : P[i] = R[i]
  <2>1. \A i \in 1 .. Len(R) : Cat(R, K)[i] = R[i]
    BY CatMoves
  <2>. QED BY <2>1, <1>2, <1>5
<1>7. /\ Waiting(P, at, s, U, first)
      /\ first = r + 1 \/ (first = r /\ first > 0 /\ s[P[first].head].etxd = FALSE)
  BY <1>3, <1>5 DEF TxLine, Midway
<1>8. first \in Nat /\ first > 0 /\ U \in Seq(Seq(TxByte)) /\ Len(U) = l + 1 - first
  BY <1>5, <1>7 DEF Waiting
<1>9. ASSUME NEW k \in DOMAIN drv.reap, rings.tx[drv.reap[k].head].etxd, NEW n \in DOMAIN wire.unsent
      PROVE  wire.unsent[n][1][1] # drv.reap[k].id
  <2>1. k \in 1 .. r /\ k \in 1 .. l /\ P[k] = R[k] /\ s[P[k].head].etxd
    <3>1. k \in 1 .. r
      BY <1>1, <1>5
    <3>. QED BY <3>1, <1>1, <1>2, <1>5, <1>6, <1>9
  <2>2. PICK i \in first .. l : i - first + 1 = n /\ i \in 1 .. l
    <3>1. n \in 1 .. Len(U)
      BY <1>2, <1>8
    <3>2. first + n - 1 \in first .. l /\ (first + n - 1) - first + 1 = n /\ first + n - 1 \in 1 .. l
      BY <3>1, <1>8
    <3>. QED BY <3>2
  <2>3. U[n][1][1] = P[i].id
    <3>1. Laid(s, P[i], at[i], U[i - first + 1])
      BY <2>2, <1>5, <1>7 DEF Waiting
    <3>. QED BY <3>1, <2>2 DEF Laid
  <2>4. k < i
    <3>1. CASE first = r + 1
      BY <3>1, <2>1, <2>2
    <3>2. CASE first = r /\ s[P[first].head].etxd = FALSE
      <4>1. k # first
        BY <3>2, <2>1
      <4>. QED BY <4>1, <3>2, <2>1, <2>2
    <3>. QED BY <3>1, <3>2, <1>7
  <2>5. P[k].id < P[i].id
    BY <2>1, <2>2, <2>4, <1>4, <1>5 DEF Numbered
  <2>6. P[k].id \in Nat /\ P[i].id \in Nat
    <3>1. P[k] \in TxPacket /\ P[i] \in TxPacket
      BY <2>1, <2>2, <1>3, <1>5 DEF InLine
    <3>. QED BY <3>1 DEF TxPacket
  <2>7. P[k].id # P[i].id
    BY <2>5, <2>6
  <2>. QED BY <2>1, <2>3, <2>7, <1>1, <1>2
<1>. QED BY <1>4, <1>9 DEF TxInOrder

\* The invariant of transmission: under the options the driver relies on, and
\* unless a reset has torn a packet, the ring and the channel hold the packets
\* in line.
Reliable == enet.opt.lat = 0 \/ enet.opt.head
TxInv == RxInv /\ (Reliable => wire.torn \/ Sending)

LEMMA TxKeeps == TxInv /\ [Next]_vars => TxInv'
<1> SUFFICES ASSUME TxInv, [Next]_vars PROVE TxInv'
  OBVIOUS
<1>1. RxInv /\ RxInv'
  BY RxKeeps DEF TxInv
<1>2. EnetStep \/ UNCHANGED enetVars
  BY EnetAlone
<1>3. enet'.opt = enet.opt /\ (wire.torn => wire'.torn)
  BY <1>1, <1>2, CourseStays
<1>4. ASSUME Sending PROVE wire'.torn \/ Sending'
  BY <1>1, <1>2, <1>4, PollSends, KickSends, HaltSends, ResetSends, ReapSends, QueueSends, SendingStays DEF EnetStep
<1>5. Reliable' => Reliable
  BY <1>3 DEF Reliable
<1>. QED BY <1>1, <1>3, <1>4, <1>5 DEF TxInv

\* Transmission through the ring is in order (TxInOrder): whatever the rings,
\* the packets, their split into descriptors, the drain and the schedule of
\* polls, register writes, resyncs and resets, every frame on the wire is the
\* oldest packet not yet sent, whole, and a packet whose head shows ETXD is out
\* (enet_run_dma, enet_tx_hold and ACTIVE of sgi_hpc).  With a latency and
\* without ENET_HEADETXD the head of a packet shows ETXD before the packet is
\* out, the driver may reuse its descriptors, and nothing of this is claimed.
THEOREM FramesLeaveInOrder == Spec => []((enet.opt.lat = 0 \/ enet.opt.head) => TxInOrder)
<1>1. Init => TxInv
  <2>1. Init => RxInv
    BY RxInitially DEF Init
  <2>. QED BY <2>1, SendingInitially DEF Init, TxInv, Reliable
<1>2. TxInv => ((enet.opt.lat = 0 \/ enet.opt.head) => TxInOrder)
  <2>1. wire.torn => TxInOrder
    BY DEF TxInOrder
  <2>. QED BY <2>1, SendingShows DEF TxInv, Reliable
<1>. QED BY <1>1, <1>2, TxKeeps, PTL DEF Spec

================================================================================
