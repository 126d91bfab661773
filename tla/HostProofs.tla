------------------------------ MODULE HostProofs ------------------------------
(***************************************************************************)
(* Proofs about the services the host gets from the emulator: the disk's   *)
(* sidecar file, checkpoints, the gdb stub and lockstep.                   *)
(***************************************************************************)
EXTENDS Delta, Checkpoint, GdbStub, Lockstep, TLAPS, FiniteSetTheorems, SequenceTheorems, NaturalsInduction, WellFoundedInduction

-----------------------------------------------------------------------------
(* The sidecar                                                             *)

\* What an overlay may hold.
Overlays == UNION {[D -> Contents] : D \in SUBSET Lbas}

\* The first k items of X, and the others.
Prefix(X, k) == [i \in 1 .. k |-> X[i]]
Rest(X, k) == [i \in 1 .. Len(X) - k |-> X[i + k]]

\* The inductive invariant: a file whose writing was cut off is a prefix of
\* the records of the overlay it was written from, any other one holds all of
\* the overlay last saved.
DeltaTypes ==
  /\ overlay \in Overlays
  /\ history \in [writes : Nat, stops : Nat, cut : BOOLEAN, old : Overlays, saved : Overlays]
  /\ flushing \in {"no", "signal", "exit"}
  /\ flushing # "no" => up

CutOff ==
  \E o \in Orders(history.old) : \E k \in 0 .. Len(Items(history.old, o)) :
    /\ file = Prefix(Items(history.old, o), k)
    /\ flushing # "no" => /\ overlay = history.old
                          /\ flush = Rest(Items(history.old, o), k)

AtItem(o, k) ==
  /\ file = Prefix(Items(history.old, o), k)
  /\ overlay = history.old
  /\ flush = Rest(Items(history.old, o), k)

Whole ==
  /\ flushing = "no"
  /\ \/ file = NoFile /\ history.saved = Empty
     \/ \E o \in Orders(history.saved) : file = Items(history.saved, o)

DeltaInv ==
  /\ DeltaTypes
  /\ IF history.cut THEN CutOff ELSE Whole

LEMMA EmptyOverlay == Empty \in Overlays
  BY DEF Empty, Overlays

\* An order names every block of the overlay, and no other.
LEMMA OrderFacts ==
  ASSUME NEW ov \in Overlays, NEW o \in Orders(ov)
  PROVE  /\ Len(o) \in Nat /\ DOMAIN o = 1 .. Len(o)
         /\ \A j \in 1 .. Len(o) : o[j] \in DOMAIN ov
         /\ \A l \in DOMAIN ov : \E j \in 1 .. Len(o) : o[j] = l
<1> DEFINE n == Cardinality(DOMAIN ov)
<1>1. n \in Nat
  <2>1. DOMAIN ov \subseteq Lbas
    BY DEF Overlays
  <2>. QED BY <2>1, LbasAssumption, FS_Subset, FS_CardinalityType
<1>2. o \in [1 .. n -> DOMAIN ov] /\ \A l \in DOMAIN ov : \E j \in DOMAIN o : o[j] = l
  BY DEF Orders
<1> HIDE DEF n
<1>3. o \in Seq(DOMAIN ov) /\ Len(o) = n
  BY <1>1, <1>2
<1>. QED BY <1>1, <1>2, <1>3

\* Where a record lies in the file.
LEMMA Positions ==
  ASSUME NEW n \in Nat, NEW j \in 1 .. n
  PROVE  /\ 3 * j - 1 \in 2 .. 1 + 3 * n /\ 3 * j \in 2 .. 1 + 3 * n /\ 3 * j + 1 \in 2 .. 1 + 3 * n
         /\ (3 * j) \div 3 = j /\ (3 * j + 1) \div 3 = j /\ (3 * j + 2) \div 3 = j
         /\ (3 * j) % 3 = 0 /\ (3 * j + 1) % 3 = 1 /\ (3 * j + 2) % 3 = 2
  BY SMT

LEMMA RecordAt ==
  ASSUME NEW n \in Nat, NEW i \in Nat, i % 3 = 2, i + 2 <= 1 + 3 * n
  PROVE  \E j \in 1 .. n : i = 3 * j - 1
<1>1. (i + 1) \div 3 \in 1 .. n /\ i = 3 * ((i + 1) \div 3) - 1
  BY SMT
<1>. QED BY <1>1

LEMMA ItemsFacts ==
  ASSUME NEW ov \in Overlays, NEW o \in Orders(ov)
  PROVE  /\ Items(ov, o) \in Seq({Items(ov, o)[i] : i \in DOMAIN Items(ov, o)})
         /\ DOMAIN Items(ov, o) = 1 .. 1 + 3 * Len(o)
         /\ Len(Items(ov, o)) = 1 + 3 * Len(o)
         /\ Items(ov, o)[1] = Magic
         /\ \A j \in 1 .. Len(o) :
              /\ Items(ov, o)[3 * j - 1].lba = o[j]
              /\ Items(ov, o)[3 * j].half = ov[o[j]][1]
              /\ Items(ov, o)[3 * j + 1].half = ov[o[j]][2]
<1> DEFINE X == Items(ov, o)
           At(i) == LET l == o[(i + 1) \div 3] IN Record(l, ov[l])[1 + ((i + 1) % 3)]
<1>1. Len(o) \in Nat
  BY OrderFacts
<1>2. /\ X = [i \in 1 .. 1 + 3 * Len(o) |-> IF i = 1 THEN Magic ELSE At(i)]
  BY DEF Items
<1>3. /\ DOMAIN X = 1 .. 1 + 3 * Len(o) /\ X[1] = Magic
      /\ \A i \in 2 .. 1 + 3 * Len(o) : X[i] = At(i)
  <2> HIDE DEF X, At
  <2>. QED BY <1>1, <1>2
<1>4. X \in Seq({X[i] : i \in DOMAIN X}) /\ Len(X) = 1 + 3 * Len(o)
  <2> DEFINE S == {X[i] : i \in DOMAIN X}
  <2> HIDE DEF X
  <2>1. X \in [1 .. 1 + 3 * Len(o) -> S]
    BY <1>2, <1>3
  <2> HIDE DEF S
  <2>2. X \in Seq(S) /\ Len(X) = 1 + 3 * Len(o)
    BY <2>1, <1>1
  <2>. QED BY <2>2 DEF S
<1>5. ASSUME NEW j \in 1 .. Len(o)
      PROVE  X[3 * j - 1].lba = o[j] /\ X[3 * j].half = ov[o[j]][1] /\ X[3 * j + 1].half = ov[o[j]][2]
  <2>1. /\ X[3 * j - 1] = At(3 * j - 1) /\ X[3 * j] = At(3 * j) /\ X[3 * j + 1] = At(3 * j + 1)
    <3> HIDE DEF X, At
    <3>. QED BY <1>1, <1>3, Positions
  <2>2. (3 * j - 1) + 1 = 3 * j /\ (3 * j + 1) + 1 = 3 * j + 2
    BY <1>1
  <2>3. /\ At(3 * j - 1) = Record(o[j], ov[o[j]])[1]
        /\ At(3 * j) = Record(o[j], ov[o[j]])[2]
        /\ At(3 * j + 1) = Record(o[j], ov[o[j]])[3]
    BY <1>1, <2>2, Positions
  <2>. QED BY <2>1, <2>3 DEF Record
<1>. QED BY <1>3, <1>4, <1>5

\* load_delta() of a prefix of what flush_delta() writes: some blocks of the
\* overlay, all of them when the file is whole.
LEMMA LoadedPrefix ==
  ASSUME NEW ov \in Overlays, NEW o \in Orders(ov), NEW k \in 0 .. Len(Items(ov, o))
  PROVE  LET ld == Loaded(Prefix(Items(ov, o), k)) IN
           /\ ld \in Overlays
           /\ DOMAIN ld \subseteq DOMAIN ov
           /\ \A l \in DOMAIN ld : ld[l] = ov[l]
           /\ k = Len(Items(ov, o)) => DOMAIN ld = DOMAIN ov
<1> DEFINE X == Items(ov, o)
           f == Prefix(X, k)
           n == Len(o)
           W == WholeRecords(f)
           ld == Loaded(f)
<1>1. /\ n \in Nat
      /\ \A j \in 1 .. n : o[j] \in DOMAIN ov
      /\ \A l \in DOMAIN ov : \E j \in 1 .. n : o[j] = l
  BY OrderFacts
<1>2. /\ Len(X) = 1 + 3 * n /\ X[1] = Magic
      /\ X \in Seq({X[i] : i \in DOMAIN X}) /\ DOMAIN X = 1 .. 1 + 3 * n
      /\ \A j \in 1 .. n : X[3 * j - 1].lba = o[j] /\ X[3 * j].half = ov[o[j]][1]
                           /\ X[3 * j + 1].half = ov[o[j]][2]
  BY ItemsFacts
<1> HIDE DEF X, n
<1>3. k \in Nat /\ k <= 1 + 3 * n
  BY <1>1, <1>2 DEF X
<1>4. Len(f) = k /\ \A i \in 1 .. k : f[i] = X[i]
  <2> DEFINE S == {X[i] : i \in DOMAIN X}
  <2>1. \A i \in 1 .. k : X[i] \in S
    BY <1>1, <1>2, <1>3
  <2> HIDE DEF S
  <2>2. f \in [1 .. k -> S] /\ \A i \in 1 .. k : f[i] = X[i]
    BY <2>1 DEF Prefix
  <2> HIDE DEF f
  <2>3. f \in Seq(S) /\ Len(f) = k
    BY <1>3, <2>2
  <2>. QED BY <2>2, <2>3
<1>5. \A i \in W : \E j \in 1 .. n :
          i = 3 * j - 1 /\ f[i].lba = o[j] /\ <<f[i + 1].half, f[i + 2].half>> = ov[o[j]]
  <2> SUFFICES ASSUME NEW i \in W
               PROVE  \E j \in 1 .. n : i = 3 * j - 1 /\ f[i].lba = o[j]
                                        /\ <<f[i + 1].half, f[i + 2].half>> = ov[o[j]]
    OBVIOUS
  <2> HIDE DEF f
  <2>1. i \in 1 .. k /\ i % 3 = 2 /\ i + 2 <= k
    BY <1>4 DEF WholeRecords
  <2> HIDE DEF W
  <2>0. n \in Nat /\ i \in Nat /\ i + 2 <= 1 + 3 * n
    BY <1>1, <1>3, <2>1
  <2>2. PICK j \in 1 .. n : i = 3 * j - 1
    BY <2>0, <2>1, RecordAt
  <2>3. i + 1 = 3 * j /\ i + 2 = 3 * j + 1 /\ i \in 1 .. k /\ i + 1 \in 1 .. k /\ i + 2 \in 1 .. k
    BY <1>1, <1>3, <2>1, <2>2
  <2>4. f[i] = X[3 * j - 1] /\ f[i + 1] = X[3 * j] /\ f[i + 2] = X[3 * j + 1]
    BY <1>4, <2>2, <2>3
  <2>5. ov[o[j]] \in Contents
    BY <1>1 DEF Overlays
  <2>6. <<ov[o[j]][1], ov[o[j]][2]>> = ov[o[j]]
    BY <2>5, ContentsAssumption
  <2>. QED BY <1>2, <2>2, <2>4, <2>6
<1>6. k = 1 + 3 * n => \A j \in 1 .. n : 3 * j - 1 \in W
  BY <1>1, <1>4, Positions DEF WholeRecords
<1>7. CASE k = 0
  <2>1. f = <<>>
    BY <1>7 DEF Prefix
  <2>2. ld = Empty
    BY <2>1 DEF Loaded
  <2>3. k # Len(X)
    BY <1>1, <1>2, <1>7
  <2>4. Empty \in Overlays /\ DOMAIN Empty = {}
    BY EmptyOverlay DEF Empty
  <2> HIDE DEF ld
  <2>. QED BY <2>2, <2>3, <2>4 DEF X, ld
<1>8. CASE k # 0
  <2>1. Head(f) = Magic /\ f # <<>> /\ f # NoFile
    <3>1. 1 \in 1 .. k /\ f[1] = Magic /\ 1 \in DOMAIN f
      BY <1>2, <1>3, <1>4, <1>8 DEF Prefix
    <3>2. Magic # "none"
      BY DEF Magic
    <3>3. f # NoFile
      BY <3>1, <3>2 DEF NoFile
    <3>4. f # <<>>
      BY <3>1
    <3> HIDE DEF f
    <3>. QED BY <3>1, <3>3, <3>4 DEF Head
  <2> DEFINE V(l) == LET i == CHOOSE i \in W : f[i].lba = l IN <<f[i + 1].half, f[i + 2].half>>
  <2>2. ld = [l \in {f[i].lba : i \in W} |-> V(l)]
    BY <2>1 DEF Loaded
  <2>3. \A l \in {f[i].lba : i \in W} : l \in DOMAIN ov /\ V(l) = ov[l]
    <3> HIDE DEF f, W
    <3> SUFFICES ASSUME NEW i \in W PROVE f[i].lba \in DOMAIN ov /\ V(f[i].lba) = ov[f[i].lba]
      OBVIOUS
    <3> DEFINE c == CHOOSE c \in W : f[c].lba = f[i].lba
    <3>1. c \in W /\ f[c].lba = f[i].lba
      OBVIOUS
    <3>2. V(f[i].lba) = <<f[c + 1].half, f[c + 2].half>>
      OBVIOUS
    <3> HIDE DEF c, V
    <3>3. PICK j \in 1 .. n : f[c].lba = o[j] /\ <<f[c + 1].half, f[c + 2].half>> = ov[o[j]]
      BY <1>5, <3>1
    <3>4. o[j] = f[i].lba /\ o[j] \in DOMAIN ov
      BY <1>1, <3>1, <3>3
    <3>. QED BY <3>2, <3>3, <3>4
  <2> HIDE DEF V, f, W, ld
  <2>4. DOMAIN ld \subseteq DOMAIN ov /\ \A l \in DOMAIN ld : ld[l] = ov[l]
    BY <2>2, <2>3
  <2>5. ld \in Overlays
    <3>1. DOMAIN ov \subseteq Lbas /\ \A l \in DOMAIN ov : ov[l] \in Contents
      BY DEF Overlays
    <3>2. ld \in [DOMAIN ld -> Contents]
      BY <2>2, <2>3, <3>1
    <3>3. DOMAIN ld \in SUBSET Lbas
      BY <2>4, <3>1
    <3>. QED BY <3>2, <3>3 DEF Overlays
  <2>6. k = Len(X) => DOMAIN ld = DOMAIN ov
    <3> SUFFICES ASSUME k = 1 + 3 * n, NEW l \in DOMAIN ov PROVE l \in DOMAIN ld
      BY <1>2, <2>4
    <3>1. PICK j \in 1 .. n : o[j] = l
      BY <1>1
    <3>2. 3 * j - 1 \in W
      BY <1>6
    <3>3. PICK jj \in 1 .. n : 3 * j - 1 = 3 * jj - 1 /\ f[3 * j - 1].lba = o[jj]
      BY <3>2, <1>5
    <3>4. j = jj
      BY <3>3, <1>1
    <3>. QED BY <3>1, <3>2, <3>3, <3>4, <2>2
  <2>. QED BY <2>4, <2>5, <2>6 DEF X, f, ld
<1>. QED BY <1>7, <1>8

\* All of the items are a prefix of them.
LEMMA WholePrefix ==
  ASSUME NEW ov \in Overlays, NEW o \in Orders(ov)
  PROVE  /\ Len(Items(ov, o)) \in Nat
         /\ Prefix(Items(ov, o), Len(Items(ov, o))) = Items(ov, o)
         /\ Prefix(Items(ov, o), 0) = <<>>
         /\ Rest(Items(ov, o), 0) = Items(ov, o)
<1> DEFINE X == Items(ov, o)
<1>1. Len(o) \in Nat
  BY OrderFacts
<1>2. DOMAIN X = 1 .. Len(X) /\ Len(X) = 1 + 3 * Len(o)
      /\ X \in Seq({X[i] : i \in DOMAIN X})
  BY ItemsFacts
<1> HIDE DEF X
<1>3. Len(X) \in Nat
  BY <1>1, <1>2
<1>4. X = [i \in 1 .. Len(X) |-> X[i]]
  BY <1>2
<1>5. Prefix(X, Len(X)) = X
  BY <1>4 DEF Prefix
<1>6. Prefix(X, 0) = <<>>
  BY DEF Prefix
<1>7. Rest(X, 0) = X
  <2>1. Len(X) - 0 = Len(X) /\ \A i \in 1 .. Len(X) : i + 0 = i
    BY <1>3
  <2>. QED BY <2>1, <1>4 DEF Rest
<1>. QED BY <1>3, <1>5, <1>6, <1>7 DEF X

\* One item more reaches the file.
LEMMA NextItem ==
  ASSUME NEW ov \in Overlays, NEW o \in Orders(ov), NEW k \in 0 .. Len(Items(ov, o)),
         Rest(Items(ov, o), k) # <<>>
  PROVE  /\ k + 1 \in 0 .. Len(Items(ov, o))
         /\ Append(Prefix(Items(ov, o), k), Head(Rest(Items(ov, o), k))) = Prefix(Items(ov, o), k + 1)
         /\ Tail(Rest(Items(ov, o), k)) = Rest(Items(ov, o), k + 1)
<1> DEFINE X == Items(ov, o)
           S == {X[i] : i \in DOMAIN X}
           A == Prefix(X, k)
           B == Rest(X, k)
<1>1. Len(X) \in Nat /\ X \in Seq(S)
  BY WholePrefix, ItemsFacts
<1>2. X \in [1 .. Len(X) -> S] /\ k \in 0 .. Len(X)
  BY <1>1
<1>3. k < Len(X)
  <2> SUFFICES ASSUME k = Len(X) PROVE FALSE
    BY <1>1, <1>2
  <2>1. 1 .. Len(X) - k = {}
    BY <1>1
  <2>2. Rest(X, k) = <<>>
    BY <2>1 DEF Rest
  <2>. QED BY <2>2
<1> HIDE DEF X, S
<1>4. A \in Seq(S) /\ Len(A) = k /\ \A i \in 1 .. k : A[i] = X[i]
  <2>1. A \in [1 .. k -> S] /\ \A i \in 1 .. k : A[i] = X[i]
    BY <1>1, <1>2 DEF Prefix
  <2> HIDE DEF A
  <2>. QED BY <2>1, <1>2
<1>5. B \in Seq(S) /\ Len(B) = Len(X) - k /\ \A i \in 1 .. Len(X) - k : B[i] = X[i + k]
  <2>1. B \in [1 .. Len(X) - k -> S] /\ \A i \in 1 .. Len(X) - k : B[i] = X[i + k]
    BY <1>1, <1>2 DEF Rest
  <2>2. Len(X) - k \in Nat
    BY <1>1, <1>3
  <2> HIDE DEF B
  <2>. QED BY <2>1, <2>2
<1> HIDE DEF A, B
<1>6. Head(B) = X[k + 1] /\ X[k + 1] \in S
  BY <1>1, <1>2, <1>3, <1>5
<1>7. Append(A, Head(B)) = [i \in 1 .. k + 1 |-> X[i]]
  <2>1. /\ Append(A, X[k + 1]) \in Seq(S) /\ Len(Append(A, X[k + 1])) = k + 1
        /\ \A i \in 1 .. k + 1 : Append(A, X[k + 1])[i] = X[i]
    BY <1>1, <1>2, <1>4, <1>6
  <2> DEFINE C == Append(A, X[k + 1])
  <2> HIDE DEF C
  <2>2. C = [i \in 1 .. k + 1 |-> C[i]]
    BY <2>1 DEF C
  <2>. QED BY <2>1, <2>2, <1>6 DEF C
<1>8. Tail(B) = [i \in 1 .. Len(X) - (k + 1) |-> X[i + (k + 1)]]
  <2>1. B # <<>>
    BY <1>1, <1>2, <1>3, <1>5
  <2>2. /\ Tail(B) \in Seq(S) /\ Len(Tail(B)) = Len(X) - (k + 1)
        /\ \A i \in 1 .. Len(X) - (k + 1) : Tail(B)[i] = X[i + (k + 1)]
    <3>1. /\ Tail(B) \in Seq(S) /\ Len(Tail(B)) = Len(B) - 1
          /\ \A i \in 1 .. Len(Tail(B)) : Tail(B)[i] = B[i + 1]
      BY <1>5, <2>1, HeadTailProperties
    <3>2. Len(B) - 1 = Len(X) - (k + 1)
      BY <1>1, <1>2, <1>5
    <3>3. \A i \in 1 .. Len(X) - (k + 1) : i + 1 \in 1 .. Len(X) - k /\ (i + 1) + k = i + (k + 1)
      BY <1>1, <1>2
    <3>. QED BY <3>1, <3>2, <3>3, <1>5
  <2> DEFINE C == Tail(B)
             m == Len(X) - (k + 1)
  <2>3. C \in Seq(S) /\ Len(C) = m /\ \A i \in 1 .. m : C[i] = X[i + (k + 1)]
    BY <2>2
  <2> HIDE DEF C
  <2>4. C = [i \in 1 .. m |-> C[i]]
    BY <2>3
  <2>. QED BY <2>3, <2>4 DEF C
<1>9. k + 1 \in 0 .. Len(X)
  BY <1>1, <1>2, <1>3
<1>. QED BY <1>7, <1>8, <1>9 DEF X, A, B, Prefix, Rest

\* What the next process reads from either kind of file.
LEMMA LoadedCut ==
  ASSUME DeltaTypes, CutOff
  PROVE  /\ Loaded(file) \in Overlays
         /\ DOMAIN Loaded(file) \subseteq DOMAIN history.old
         /\ \A l \in DOMAIN Loaded(file) : Loaded(file)[l] = history.old[l]
<1>1. history.old \in Overlays
  BY DEF DeltaTypes
<1>2. PICK o \in Orders(history.old) : \E k \in 0 .. Len(Items(history.old, o)) :
        file = Prefix(Items(history.old, o), k)
  BY DEF CutOff
<1>. QED BY <1>1, <1>2, LoadedPrefix

LEMMA LoadedWhole ==
  ASSUME DeltaTypes, Whole
  PROVE  /\ Loaded(file) \in Overlays
         /\ DOMAIN Loaded(file) = DOMAIN history.saved
         /\ \A l \in DOMAIN Loaded(file) : Loaded(file)[l] = history.saved[l]
<1>1. history.saved \in Overlays
  BY DEF DeltaTypes
<1>2. CASE file = NoFile /\ history.saved = Empty
  <2>1. Loaded(file) = Empty
    BY <1>2 DEF Loaded
  <2>. QED BY <1>2, <2>1, EmptyOverlay
<1>3. CASE \E o \in Orders(history.saved) : file = Items(history.saved, o)
  <2>1. PICK o \in Orders(history.saved) : file = Items(history.saved, o)
    BY <1>3
  <2> DEFINE k == Len(Items(history.saved, o))
  <2>2. k \in 0 .. k /\ file = Prefix(Items(history.saved, o), k)
    BY <1>1, <2>1, WholePrefix
  <2>. QED BY <1>1, <2>2, LoadedPrefix
<1>. QED BY <1>2, <1>3 DEF Whole

LEMMA DeltaInitially == DeltaInit => DeltaInv
<1> SUFFICES ASSUME DeltaInit PROVE DeltaInv
  OBVIOUS
<1>1. overlay \in Overlays /\ history = [writes |-> 0, stops |-> 0, cut |-> FALSE, old |-> overlay, saved |-> overlay]
  BY EmptyOverlay DEF DeltaInit
<1>2. DeltaTypes /\ ~history.cut /\ history.saved = Empty
  BY <1>1 DEF DeltaInit, DeltaTypes
<1>. QED BY <1>2 DEF DeltaInit, DeltaInv, Whole

LEMMA DeltaStep == DeltaInv /\ [DeltaNext]_deltaVars => DeltaInv'
<1> SUFFICES ASSUME DeltaInv, [DeltaNext]_deltaVars PROVE DeltaInv'
  OBVIOUS
<1> USE DEF DeltaInv
<1>1. DeltaTypes
  OBVIOUS
<1>2. ASSUME NEW l \in Lbas, NEW v \in Contents, write_block(l, v) PROVE DeltaInv'
  <2>1. overlay' \in Overlays
    <3>1. overlay' \in [DOMAIN overlay \cup {l} -> Contents]
      BY <1>1, <1>2 DEF DeltaTypes, write_block, Overlays
    <3>2. DOMAIN overlay \cup {l} \in SUBSET Lbas
      BY <1>1 DEF DeltaTypes, Overlays
    <3>. QED BY <3>1, <3>2 DEF Overlays
  <2>2. DeltaTypes' /\ UNCHANGED <<file, flush, flushing, history.cut, history.old, history.saved>>
    BY <1>1, <1>2, <2>1 DEF DeltaTypes, write_block
  <2>3. flushing = "no"
    BY <1>2 DEF write_block
  <2>4. CASE history.cut
    BY <2>2, <2>3, <2>4 DEF CutOff
  <2>5. CASE ~history.cut
    BY <2>2, <2>3, <2>5 DEF Whole
  <2>. QED BY <2>4, <2>5
<1>3. CASE on_sigusr2
  <2>1. DeltaTypes' /\ UNCHANGED <<file, flush, flushing, overlay, history>>
    BY <1>1, <1>3 DEF DeltaTypes, on_sigusr2
  <2>. QED BY <2>1 DEF CutOff, Whole
<1>4. ASSUME NEW why \in {"signal", "exit"}, flush_delta(why) PROVE DeltaInv'
  <2>1. DeltaTypes' /\ history'.cut /\ history'.old = overlay /\ overlay' = overlay /\ file' = <<>>
    BY <1>1, <1>4 DEF DeltaTypes, flush_delta
  <2>2. PICK o \in Orders(overlay) : flush' = Items(overlay, o)
    BY <1>4 DEF flush_delta
  <2> DEFINE X == Items(overlay, o)
  <2>3. 0 \in 0 .. Len(X) /\ file' = Prefix(X, 0) /\ flush' = Rest(X, 0)
    BY <1>1, <2>1, <2>2, WholePrefix DEF DeltaTypes
  <2>4. CutOff'
    BY <2>1, <2>3 DEF CutOff
  <2>. QED BY <2>1, <2>4
<1>5. ASSUME NEW why \in {"signal", "exit"}, FlushRefused(why) PROVE DeltaInv'
  <2>1. DeltaTypes' /\ UNCHANGED <<file, flush, flushing, history.cut, history.old, history.saved>>
    BY <1>1, <1>5, EmptyOverlay DEF DeltaTypes, FlushRefused
  <2>2. flushing = "no"
    BY <1>5 DEF FlushRefused
  <2>3. CASE history.cut
    BY <2>1, <2>2, <2>3 DEF CutOff
  <2>4. CASE ~history.cut
    BY <2>1, <2>2, <2>4 DEF Whole
  <2>. QED BY <2>3, <2>4
<1>6. CASE FlushItem
  <2>1. DeltaTypes' /\ UNCHANGED <<flushing, overlay, history>>
    BY <1>1, <1>6 DEF DeltaTypes, FlushItem
  <2>2. history.cut /\ flushing # "no" /\ flush # <<>>
    BY <1>6 DEF FlushItem, Whole
  <2>3. PICK o \in Orders(history.old) : \E k \in 0 .. Len(Items(history.old, o)) : AtItem(o, k)
    BY <2>2 DEF CutOff, AtItem
  <2>a. PICK k \in 0 .. Len(Items(history.old, o)) : AtItem(o, k)
    BY <2>3
  <2>4. history.old \in Overlays
    BY <1>1 DEF DeltaTypes
  <2>5. /\ k + 1 \in 0 .. Len(Items(history.old, o))
        /\ file' = Prefix(Items(history.old, o), k + 1)
        /\ flush' = Rest(Items(history.old, o), k + 1)
    BY <1>6, <2>2, <2>a, <2>4, NextItem DEF FlushItem, AtItem
  <2>6. CutOff'
    BY <2>1, <2>a, <2>5 DEF CutOff, AtItem
  <2>. QED BY <2>1, <2>2, <2>6
<1>7. CASE FlushDone
  <2>1. history.cut /\ flushing # "no" /\ flush = <<>>
    BY <1>7 DEF FlushDone, FlushEnd, Whole
  <2>2. PICK o \in Orders(history.old) : \E k \in 0 .. Len(Items(history.old, o)) : AtItem(o, k)
    BY <2>1 DEF CutOff, AtItem
  <2>a. PICK k \in 0 .. Len(Items(history.old, o)) : AtItem(o, k)
    BY <2>2
  <2>3. history.old \in Overlays
    BY <1>1 DEF DeltaTypes
  <2> DEFINE X == Items(history.old, o)
  <2>4. Len(X) \in Nat /\ Prefix(X, Len(X)) = X
    BY <2>3, WholePrefix
  <2>5. k = Len(X)
    <3> SUFFICES ASSUME k < Len(X) PROVE FALSE
      BY <2>4
    <3>1. 1 \in 1 .. Len(X) - k
      BY <2>4
    <3>2. 1 \in DOMAIN Rest(X, k)
      BY <3>1 DEF Rest
    <3>. QED BY <2>1, <2>a, <3>2 DEF AtItem
  <2>6. file' = Items(history.old, o) /\ history'.saved = history.old /\ ~history'.cut /\ flushing' = "no"
    BY <1>1, <1>7, <2>a, <2>4, <2>5 DEF FlushDone, FlushEnd, DeltaTypes, AtItem
  <2>7. DeltaTypes'
    <3>1. overlay' \in Overlays /\ overlay \in Overlays /\ flushing' = "no"
      BY <1>1, <1>7, EmptyOverlay DEF DeltaTypes, FlushDone, FlushEnd
    <3>2. history' \in [writes : Nat, stops : Nat, cut : BOOLEAN, old : Overlays, saved : Overlays]
      <4> DEFINE n == IF flushing = "exit" THEN history.stops + 1 ELSE history.stops
      <4>1. n \in Nat
        BY <1>1 DEF DeltaTypes
      <4>2. history' = [history EXCEPT !.cut = FALSE, !.saved = overlay, !.stops = n]
        BY <1>7 DEF FlushDone
      <4> HIDE DEF n
      <4>. QED BY <1>1, <3>1, <4>1, <4>2 DEF DeltaTypes
    <3>. QED BY <3>1, <3>2 DEF DeltaTypes
  <2>. QED BY <2>6, <2>7 DEF Whole
<1>8. CASE FlushFull
  <2>1. history.cut
    BY <1>8 DEF FlushFull, FlushEnd, Whole
  <2>2. DeltaTypes' /\ history'.cut /\ history'.old = history.old /\ file' = file /\ flushing' = "no"
    BY <1>1, <1>8, <2>1, EmptyOverlay DEF DeltaTypes, FlushFull, FlushEnd
  <2>. QED BY <2>1, <2>2 DEF CutOff
<1>9. CASE Killed
  <2>1. /\ DeltaTypes' /\ flushing' = "no"
        /\ UNCHANGED <<file, history.cut, history.old, history.saved>>
    BY <1>1, <1>9, EmptyOverlay DEF DeltaTypes, Killed
  <2>2. CASE history.cut
    BY <2>1, <2>2 DEF CutOff
  <2>3. CASE ~history.cut
    BY <2>1, <2>3 DEF Whole
  <2>. QED BY <2>2, <2>3
<1>10. CASE load_delta
  <2>1. UNCHANGED <<file, flush, flushing, history>> /\ overlay' = Loaded(file) /\ flushing = "no" /\ up'
    BY <1>1, <1>10 DEF load_delta, DeltaTypes
  <2>2. Loaded(file) \in Overlays
    BY <1>1, LoadedCut, LoadedWhole
  <2>3. DeltaTypes'
    BY <1>1, <2>1, <2>2 DEF DeltaTypes
  <2>. QED BY <2>1, <2>3 DEF CutOff, Whole
<1>11. CASE UNCHANGED deltaVars
  BY <1>11 DEF deltaVars, DeltaTypes, CutOff, Whole
<1>. QED BY <1>2, <1>3, <1>4, <1>5, <1>6, <1>7, <1>8, <1>9, <1>10, <1>11 DEF DeltaNext

\* Whatever the guest writes, in whatever order the hash table gives the
\* blocks, and wherever the host dies or its disk fills up: what the next
\* process sees on the disk is what the last completed flush held or, after
\* one that was cut off, for each block what that flush had or the image's
\* (flush_delta, load_delta).
THEOREM SidecarExact == DeltaSpec => []DeltaExact
<1>1. DeltaInv => DeltaExact
  <2> SUFFICES ASSUME DeltaInv PROVE DeltaExact
    OBVIOUS
  <2>1. CASE history.cut
    <3>1. DeltaTypes /\ CutOff
      BY <2>1 DEF DeltaInv
    <3>. QED BY <2>1, <3>1, LoadedCut DEF DeltaExact, Block
  <2>2. CASE ~history.cut
    <3>1. DeltaTypes /\ Whole
      BY <2>2 DEF DeltaInv
    <3>. QED BY <2>2, <3>1, LoadedWhole DEF DeltaExact, Block
  <2>. QED BY <2>1, <2>2
<1>. QED BY <1>1, DeltaInitially, DeltaStep, PTL DEF DeltaSpec
-----------------------------------------------------------------------------
(* Induction over the natural numbers, stated with a set                   *)

LEMMA Least == ASSUME NEW U \in SUBSET Nat, U # {} PROVE \E x \in U : \A y \in U : x <= y
<1> DEFINE R == {ss \in Nat \X Nat : ss[1] < ss[2]}
<1>1. IsWellFoundedOn(R, Nat)
  BY NatLessThanWellFounded, Zenon DEF OpToRel
<1>2. \A y, x \in Nat : y < x => <<y, x>> \in R
  OBVIOUS
<1> HIDE DEF R
<1>3. \E x \in U : \A y \in U : ~(<<y, x>> \in R)
  BY <1>1, WFMin
<1>4. PICK x \in U : \A y \in U : ~(<<y, x>> \in R)
  BY <1>3
<1>5. ASSUME NEW y \in U PROVE x <= y
  <2>1. ~(y < x)
    BY <1>2, <1>4
  <2>2. x \in Nat /\ y \in Nat
    OBVIOUS
  <2>. QED BY <2>1, <2>2
<1>. QED BY <1>4, <1>5

LEMMA NatSetInduction ==
  ASSUME NEW U, 0 \in U, \A n \in Nat : n \in U => n + 1 \in U
  PROVE  Nat \subseteq U
<1> SUFFICES ASSUME NEW V, V = Nat \ U, V # {} PROVE FALSE
  OBVIOUS
<1>1. PICK x \in V : \A y \in V : x <= y
  BY Least
<1>2. x # 0 /\ x - 1 \in Nat /\ x - 1 \notin V
  BY <1>1
<1>. QED BY <1>1, <1>2
-----------------------------------------------------------------------------
(* Checkpoints                                                             *)

\* A run unfolds: RunOf is what its definition says.
RunUpTo(g, n) == g = [i \in 0 .. n |-> IF i = 0 THEN Boot(BootMem) ELSE execMips(g[i - 1])]

LEMMA RunExists == \A n \in Nat : \E g : RunUpTo(g, n)
<1> DEFINE U == {n \in Nat : \E g : RunUpTo(g, n)}
<1>1. 0 \in U
  <2> DEFINE g == [i \in 0 .. 0 |-> Boot(BootMem)]
  <2>1. RunUpTo(g, 0)
    BY DEF RunUpTo
  <2>. QED BY <2>1
<1>2. ASSUME NEW n \in Nat, n \in U PROVE n + 1 \in U
  <2>1. PICK g : RunUpTo(g, n)
    BY <1>2
  <2> DEFINE h == [i \in 0 .. n + 1 |-> IF i \in 0 .. n THEN g[i] ELSE execMips(g[n])]
  <2>2. RunUpTo(h, n + 1)
    BY <2>1 DEF RunUpTo
  <2>. QED BY <2>2
<1> HIDE DEF U
<1>3. Nat \subseteq U
  BY <1>1, <1>2, NatSetInduction
<1>. QED BY <1>3 DEF U

LEMMA RunDef ==
  /\ RunOf[0] = Boot(BootMem)
  /\ \A n \in 0 .. MaxIcnt : n + 1 \in 0 .. MaxIcnt => RunOf[n + 1] = execMips(RunOf[n])
<1>1. RunOf = [n \in 0 .. MaxIcnt |-> IF n = 0 THEN Boot(BootMem) ELSE execMips(RunOf[n - 1])]
  BY RunExists, MaxIcntAssumption DEF RunOf, RunUpTo
<1>2. RunOf[0] = Boot(BootMem)
  BY <1>1, MaxIcntAssumption
<1>3. ASSUME NEW n \in 0 .. MaxIcnt, n + 1 \in 0 .. MaxIcnt PROVE RunOf[n + 1] = execMips(RunOf[n])
  <2>1. n + 1 # 0 /\ (n + 1) - 1 = n
    BY MaxIcntAssumption
  <2>. QED BY <1>1, <1>3, <2>1
<1>. QED BY <1>2, <1>3

\* A state of the machine: its fields, and a memory of pages.
IsMachine(m) ==
  /\ m = [f \in {"pc", "reg", "exl", "epc", "link", "mem", "icnt"} |-> m[f]]
  /\ m.mem = [p \in Pages |-> m.mem[p]]
  /\ m.link \in BOOLEAN
  /\ m.icnt \in Nat

LEMMA BootIsMachine == IsMachine(Boot(BootMem)) /\ Boot(BootMem).icnt = 0
  BY BootAssumption DEF IsMachine, Boot

LEMMA SimpleKeeps ==
  ASSUME NEW m, IsMachine(m), NEW i
  PROVE  IsMachine(Simple(m, i)) /\ Simple(m, i).icnt = m.icnt
<1> USE DEF IsMachine
<1>1. IsMachine(raise(m)) /\ raise(m).icnt = m.icnt
  BY DEF raise
<1>2. IsMachine(eret(m)) /\ eret(m).icnt = m.icnt
  BY DEF eret
<1>3. IsMachine(load_linked(m, i.p)) /\ load_linked(m, i.p).icnt = m.icnt
  BY DEF load_linked
<1>4. IsMachine(store_cond(m, i.p)) /\ store_cond(m, i.p).icnt = m.icnt
  BY DEF store_cond
<1>5. LET n == [m EXCEPT !.reg = i.v, !.pc = @ + 1] IN IsMachine(n) /\ n.icnt = m.icnt
  OBVIOUS
<1>6. LET n == [m EXCEPT !.mem[i.p] = m.reg, !.pc = @ + 1] IN IsMachine(n) /\ n.icnt = m.icnt
  OBVIOUS
<1>7. LET n == [m EXCEPT !.epc = @ + 1, !.pc = @ + 1] IN IsMachine(n) /\ n.icnt = m.icnt
  OBVIOUS
<1> HIDE DEF IsMachine
<1>. QED BY <1>1, <1>2, <1>3, <1>4, <1>5, <1>6, <1>7 DEF Simple

LEMMA DelaySlot ==
  ASSUME NEW m, IsMachine(m)
  PROVE  LET d == [m EXCEPT !.pc = @ + 1, !.icnt = @ + 1] IN IsMachine(d) /\ d.icnt = m.icnt + 1
<1>1. ASSUME NEW a, NEW k \in Nat
      PROVE  IsMachine([m EXCEPT !.pc = a, !.icnt = k]) /\ [m EXCEPT !.pc = a, !.icnt = k].icnt = k
  BY DEF IsMachine
<1>2. m.icnt + 1 \in Nat
  BY DEF IsMachine
<1>. QED BY <1>1, <1>2

\* A turn keeps the machine one, and counts at least one instruction.
LEMMA ExecKeeps ==
  ASSUME NEW m, IsMachine(m)
  PROVE  IsMachine(execMips(m)) /\ execMips(m).icnt >= m.icnt + 1
<1> DEFINE i == Guest[m.pc]
           n == [m EXCEPT !.icnt = @ + 1]
           d == [n EXCEPT !.pc = @ + 1, !.icnt = @ + 1]
           e == Simple(d, Guest[m.pc + 1])
<1>1. IsMachine(n) /\ n.icnt = m.icnt + 1 /\ m.icnt \in Nat
  BY DEF IsMachine
<1>2. IsMachine(d) /\ d.icnt = m.icnt + 2
  <2>1. n.icnt \in Nat /\ n.icnt + 1 = m.icnt + 2
    <3> HIDE DEF n
    <3>. QED BY <1>1
  <2> HIDE DEF n
  <2>2. IsMachine(d) /\ d.icnt = n.icnt + 1
    BY <1>1, DelaySlot
  <2>. QED BY <2>1, <2>2
<1>3. IsMachine(e) /\ e.icnt = m.icnt + 2
  <2> HIDE DEF d
  <2>. QED BY <1>2, SimpleKeeps
<1>4. IsMachine([e EXCEPT !.pc = i.to]) /\ [e EXCEPT !.pc = i.to].icnt = m.icnt + 2
  <2> HIDE DEF e, i
  <2>. QED BY <1>3 DEF IsMachine
<1>5. IsMachine(Simple(n, i)) /\ Simple(n, i).icnt = m.icnt + 1
  <2> HIDE DEF n
  <2>. QED BY <1>1, SimpleKeeps
<1>6. execMips(m) = IF i.op = "b" THEN [e EXCEPT !.pc = i.to] ELSE Simple(n, i)
  BY DEF execMips
<1> HIDE DEF e, n, i
<1>. QED BY <1>1, <1>4, <1>5, <1>6

\* What is true of a file: it was begun at a safe boundary k of the run, and
\* its pages are pages of that boundary, none of them zero.
NonZero(m) == {p \in Pages : page_nonzero(m, p)}
DumpOf(f, m) ==
  /\ f = [header |-> f.header, pages |-> f.pages]
  /\ f.header = Header(m)
  /\ ckpt_safe(m)
  /\ DOMAIN f.pages \subseteq NonZero(m)
  /\ \A p \in DOMAIN f.pages : f.pages[p] = m.mem[p]

\* A state the undisturbed run goes through.
OnRun(m) == \E k \in 0 .. MaxIcnt : m = RunOf[k] /\ k <= m.icnt

CkptTypes ==
  /\ IsMachine(machine) /\ OnRun(machine)
  /\ phase \in {"at", "every", "icnt", "exec", "dump", "stopped"}
  /\ writing = [name |-> writing.name, todo |-> writing.todo, then |-> writing.then]
  /\ writing.then \in {"icnt", "exec", "stopped"}
  /\ resumed = [on |-> resumed.on, m |-> resumed.m, clean |-> resumed.clean]

FilesOfRun == \A n \in DOMAIN files : \E m : IsMachine(m) /\ OnRun(m) /\ DumpOf(files[n], m)

Dumping ==
  /\ phase \in {"every", "icnt", "exec", "dump"} => machine.icnt < MaxIcnt
  /\ phase = "dump" => /\ writing.name \in DOMAIN files
                       /\ DumpOf(files[writing.name], machine)
                       /\ writing.todo \subseteq NonZero(machine)

ResumedOnRun == resumed.on /\ resumed.clean => IsMachine(resumed.m) /\ OnRun(resumed.m)

CkptInv == CkptTypes /\ files = [n \in DOMAIN files |-> files[n]] /\ FilesOfRun /\ Dumping /\ ResumedOnRun

LEMMA TurnOnRun ==
  ASSUME NEW m, IsMachine(m), OnRun(m), m.icnt < MaxIcnt
  PROVE  IsMachine(execMips(m)) /\ OnRun(execMips(m))
<1>1. PICK k \in 0 .. MaxIcnt : m = RunOf[k] /\ k <= m.icnt
  BY DEF OnRun
<1>2. IsMachine(execMips(m)) /\ execMips(m).icnt >= m.icnt + 1
  BY ExecKeeps
<1>3. m.icnt \in Nat /\ execMips(m).icnt \in Nat
  BY <1>2 DEF IsMachine
<1>4. k + 1 \in 0 .. MaxIcnt /\ k + 1 <= execMips(m).icnt
  BY <1>1, <1>2, <1>3, MaxIcntAssumption
<1>5. execMips(m) = RunOf[k + 1]
  BY <1>1, <1>4, RunDef
<1>. QED BY <1>2, <1>4, <1>5 DEF OnRun

LEMMA NonZeroFinite == \A m : IsFiniteSet(NonZero(m))
  BY PagesAssumption, FS_Subset DEF NonZero

\* A whole file holds every page that was not zero; what it leaves out is zero
\* or was left by the loader.
LEMMA RestoredExactly ==
  ASSUME NEW m, IsMachine(m), NEW f, DumpOf(f, m), FileWhole(f),
         NEW mem, \A p \in Pages : mem[p] # 0 => p \in DOMAIN f.pages
  PROVE  [pc |-> f.header.pc, reg |-> f.header.reg, exl |-> f.header.exl, epc |-> f.header.epc,
          link |-> FALSE,
          mem |-> [p \in Pages |-> IF p \in DOMAIN f.pages THEN f.pages[p] ELSE mem[p]],
          icnt |-> f.header.icnt] = m
<1>1. DOMAIN f.pages = NonZero(m)
  <2>1. Cardinality(DOMAIN f.pages) = Cardinality(NonZero(m))
    BY DEF FileWhole, DumpOf, Header, NonZero
  <2>2. IsFiniteSet(NonZero(m)) /\ DOMAIN f.pages \subseteq NonZero(m)
    BY NonZeroFinite DEF DumpOf
  <2>. QED BY <2>1, <2>2, FS_Subset
<1>2. m.link = FALSE
  BY DEF DumpOf, ckpt_safe, IsMachine
<1>3. [p \in Pages |-> IF p \in DOMAIN f.pages THEN f.pages[p] ELSE mem[p]] = m.mem
  <2>1. ASSUME NEW p \in Pages
        PROVE  (IF p \in DOMAIN f.pages THEN f.pages[p] ELSE mem[p]) = m.mem[p]
    <3>1. CASE p \in DOMAIN f.pages
      BY <3>1 DEF DumpOf
    <3>2. CASE p \notin DOMAIN f.pages
      BY <1>1, <3>2 DEF NonZero, page_nonzero
    <3>. QED BY <3>1, <3>2
  <2>. QED BY <2>1 DEF IsMachine
<1>4. /\ f.header.pc = m.pc /\ f.header.reg = m.reg /\ f.header.exl = m.exl
      /\ f.header.epc = m.epc /\ f.header.icnt = m.icnt
  BY DEF DumpOf, Header
<1>. QED BY <1>2, <1>3, <1>4 DEF IsMachine

LEMMA CkptInitially == CkptInit => CkptInv
<1> SUFFICES ASSUME CkptInit PROVE CkptInv
  OBVIOUS
<1>1. IsMachine(machine) /\ OnRun(machine)
  <2>1. machine = RunOf[0] /\ 0 \in 0 .. MaxIcnt
    BY RunDef, MaxIcntAssumption DEF CkptInit
  <2>2. IsMachine(machine) /\ machine.icnt = 0
    BY BootIsMachine DEF CkptInit
  <2>. QED BY <2>1, <2>2 DEF OnRun
<1>2. phase = "at" /\ writing = Idle /\ DOMAIN files = {} /\ ~resumed.on
  BY DEF CkptInit
<1>3. resumed = [on |-> resumed.on, m |-> resumed.m, clean |-> resumed.clean]
  BY DEF CkptInit
<1>4. writing = [name |-> writing.name, todo |-> writing.todo, then |-> writing.then] /\ writing.then = "exec"
  BY <1>2 DEF Idle
<1>5. files = [n \in DOMAIN files |-> files[n]]
  BY DEF CkptInit
<1>. QED BY <1>1, <1>2, <1>3, <1>4, <1>5
         DEF CkptInv, CkptTypes, FilesOfRun, Dumping, ResumedOnRun

\* A file of the run stays one whatever else happens to the machine.
LEMMA FileKept ==
  ASSUME NEW n \in DOMAIN files, FilesOfRun, n \in DOMAIN files', files'[n] = files[n]
  PROVE  \E m : IsMachine(m) /\ OnRun(m) /\ DumpOf(files'[n], m)
  BY DEF FilesOfRun

LEMMA CheckOptionKeeps == CkptInv /\ CheckOption => CkptInv'
<1> SUFFICES ASSUME CkptInv, CheckOption PROVE CkptInv'
  OBVIOUS
<1>1. UNCHANGED <<machine, resumed>> /\ machine.icnt < MaxIcnt /\ phase \in {"at", "every", "icnt"}
  BY DEF CheckOption, After
<1>2. ResumedOnRun' /\ IsMachine(machine) /\ OnRun(machine)
  BY <1>1 DEF CkptInv, CkptTypes, ResumedOnRun
<1>3. CASE ~Due(phase)
  <2>1. phase' = After[phase] /\ UNCHANGED <<files, writing>>
    BY <1>3 DEF CheckOption
  <2>2. phase' \in {"every", "icnt", "exec"}
    BY <1>1, <2>1 DEF After
  <2>3. CkptTypes'
    BY <1>1, <2>1, <2>2 DEF CkptInv, CkptTypes
  <2>4. FilesOfRun' /\ files' = [n \in DOMAIN files' |-> files'[n]]
    BY <2>1 DEF CkptInv, FilesOfRun
  <2>5. Dumping'
    BY <1>1, <2>2 DEF Dumping
  <2>. QED BY <1>2, <2>3, <2>4, <2>5 DEF CkptInv
<1>4. CASE Due(phase)
  <2>1. PICK name, then : then \in {"icnt", "stopped"} /\ dumpState(name, then)
    <3> DEFINE name == IF phase = "every" THEN machine.icnt ELSE 0
               then == IF phase = "every" THEN After[phase] ELSE "stopped"
    <3>1. dumpState(name, then)
      BY <1>4 DEF CheckOption
    <3>2. then \in {"icnt", "stopped"}
      BY DEF After
    <3>. QED BY <3>1, <3>2
  <2>2. ckpt_safe(machine)
    BY <1>4 DEF Due
  <2> DEFINE new == [header |-> Header(machine), pages |-> [p \in {} |-> 0]]
  <2>3. /\ files' = [n \in DOMAIN files \cup {name} |-> IF n = name THEN new ELSE files[n]]
        /\ writing' = [name |-> name, todo |-> NonZero(machine), then |-> then]
        /\ phase' = "dump"
    BY <2>1 DEF dumpState, NonZero
  <2>4. DumpOf(new, machine)
    BY <2>2 DEF DumpOf
  <2>5. /\ DOMAIN files' = DOMAIN files \cup {name} /\ files'[name] = new
        /\ \A n \in DOMAIN files : n # name => files'[n] = files[n]
        /\ files' = [n \in DOMAIN files' |-> files'[n]]
    <3> HIDE DEF new
    <3>. QED BY <2>3
  <2>6. FilesOfRun'
    <3> SUFFICES ASSUME NEW n \in DOMAIN files'
                 PROVE  \E m : IsMachine(m) /\ OnRun(m) /\ DumpOf(files'[n], m)
      BY DEF FilesOfRun, IsMachine, OnRun, DumpOf, Header, NonZero, ckpt_safe, page_nonzero
    <3>1. CASE n = name
      <4> HIDE DEF new
      <4>. QED BY <1>2, <2>4, <2>5, <3>1
    <3>2. CASE n # name
      BY <2>5, <3>2, FileKept DEF CkptInv
    <3>. QED BY <3>1, <3>2
  <2>7. Dumping'
    <3> HIDE DEF new
    <3>1. DumpOf(files'[name], machine') /\ name \in DOMAIN files' /\ writing'.name = name
      BY <1>1, <2>3, <2>4, <2>5
    <3>2. writing'.todo = NonZero(machine')
      BY <1>1, <2>3
    <3>. QED BY <1>1, <2>3, <3>1, <3>2 DEF Dumping
  <2>8. CkptTypes'
    BY <1>1, <2>1, <2>3 DEF CkptInv, CkptTypes
  <2>. QED BY <1>2, <2>5, <2>6, <2>7, <2>8 DEF CkptInv
<1>. QED BY <1>3, <1>4

LEMMA DumpPageKeeps == CkptInv /\ DumpPage => CkptInv'
<1> SUFFICES ASSUME CkptInv, DumpPage PROVE CkptInv'
  OBVIOUS
<1>1. UNCHANGED <<machine, phase, resumed>> /\ phase = "dump"
  BY DEF DumpPage
<1>2. IsMachine(machine) /\ OnRun(machine) /\ ResumedOnRun'
  BY <1>1 DEF CkptInv, CkptTypes, ResumedOnRun
<1> DEFINE w == writing.name
           f == files[w]
<1>3. PICK p \in writing.todo :
        /\ files' = [files EXCEPT ![w].pages =
                       [q \in DOMAIN @ \cup {p} |-> IF q = p THEN machine.mem[p] ELSE @[q]]]
        /\ writing' = [writing EXCEPT !.todo = @ \ {p}]
  BY DEF DumpPage
<1>4. w \in DOMAIN files /\ DumpOf(f, machine) /\ writing.todo \subseteq NonZero(machine)
  BY <1>1 DEF CkptInv, Dumping
<1> DEFINE new == [f EXCEPT !.pages = [q \in DOMAIN @ \cup {p} |-> IF q = p THEN machine.mem[p] ELSE @[q]]]
<1>5. files' = [files EXCEPT ![w] = new]
  BY <1>3
<1>6. DumpOf(new, machine)
  <2>1. f = [header |-> f.header, pages |-> f.pages] /\ p \in NonZero(machine)
    BY <1>4 DEF DumpOf
  <2> DEFINE g == [q \in DOMAIN f.pages \cup {p} |-> IF q = p THEN machine.mem[p] ELSE f.pages[q]]
  <2>2. DOMAIN g = DOMAIN f.pages \cup {p} /\ \A q \in DOMAIN g : g[q] = machine.mem[q]
    BY <1>4 DEF DumpOf
  <2>3. new = [f EXCEPT !.pages = g]
    OBVIOUS
  <2> HIDE DEF f, g, new
  <2>4. new = [header |-> f.header, pages |-> g]
    BY <2>1, <2>3
  <2>. QED BY <1>4, <2>1, <2>2, <2>4 DEF DumpOf
<1> HIDE DEF new
<1>7. /\ DOMAIN files' = DOMAIN files /\ files'[w] = new
      /\ \A n \in DOMAIN files : n # w => files'[n] = files[n]
      /\ files' = [n \in DOMAIN files' |-> files'[n]]
  BY <1>4, <1>5
<1>8. FilesOfRun'
  <2> SUFFICES ASSUME NEW n \in DOMAIN files'
               PROVE  \E m : IsMachine(m) /\ OnRun(m) /\ DumpOf(files'[n], m)
    BY DEF FilesOfRun
  <2>1. CASE n = w
    BY <1>2, <1>6, <1>7, <2>1
  <2>2. CASE n # w
    BY <1>7, <2>2, FileKept DEF CkptInv
  <2>. QED BY <2>1, <2>2
<1>9. CkptTypes' /\ writing'.name = w /\ writing'.todo \subseteq NonZero(machine')
  BY <1>1, <1>3, <1>4 DEF CkptInv, CkptTypes
<1>10. Dumping'
  <2>1. DumpOf(files'[w], machine') /\ w \in DOMAIN files'
    BY <1>1, <1>4, <1>6, <1>7
  <2> HIDE DEF w
  <2>. QED BY <1>1, <1>9, <2>1 DEF CkptInv, Dumping
<1>. QED BY <1>2, <1>7, <1>8, <1>9, <1>10 DEF CkptInv

LEMMA DumpEndKeeps == CkptInv /\ (DumpDone \/ DumpCut) => CkptInv'
<1> SUFFICES ASSUME CkptInv, DumpDone \/ DumpCut PROVE CkptInv'
  OBVIOUS
<1>1. /\ UNCHANGED <<machine, files, resumed>> /\ phase = "dump"
      /\ phase' \in {"icnt", "exec", "stopped"} /\ writing' = Idle
  BY DEF DumpDone, DumpCut, CkptInv, CkptTypes
<1>2. CkptTypes'
  BY <1>1 DEF CkptInv, CkptTypes, Idle
<1>3. FilesOfRun' /\ ResumedOnRun' /\ Dumping' /\ files' = [n \in DOMAIN files' |-> files'[n]]
  BY <1>1 DEF CkptInv, FilesOfRun, ResumedOnRun, Dumping
<1>. QED BY <1>2, <1>3 DEF CkptInv

LEMMA ExecuteKeeps == CkptInv /\ Execute => CkptInv'
<1> SUFFICES ASSUME CkptInv, Execute PROVE CkptInv'
  OBVIOUS
<1>1. UNCHANGED <<files, writing, resumed>> /\ phase' = "at" /\ phase = "exec" /\ machine' = execMips(machine)
  BY DEF Execute
<1>2. IsMachine(machine') /\ OnRun(machine')
  BY <1>1, TurnOnRun DEF CkptInv, CkptTypes, Dumping
<1>3. CkptTypes'
  BY <1>1, <1>2 DEF CkptInv, CkptTypes
<1>4. FilesOfRun' /\ ResumedOnRun' /\ Dumping' /\ files' = [n \in DOMAIN files' |-> files'[n]]
  BY <1>1 DEF CkptInv, FilesOfRun, ResumedOnRun, Dumping
<1>. QED BY <1>3, <1>4 DEF CkptInv

LEMMA loadStateKeeps ==
  ASSUME CkptInv, NEW mem, NEW n \in DOMAIN files, loadState(mem, n)
  PROVE  CkptInv'
<1>1. UNCHANGED <<machine, phase, files, writing>>
  BY DEF loadState
<1> DEFINE f == files[n]
           h == f.header
           r == [pc |-> h.pc, reg |-> h.reg, exl |-> h.exl, epc |-> h.epc, link |-> FALSE,
                 mem |-> [p \in Pages |-> IF p \in DOMAIN f.pages THEN f.pages[p] ELSE mem[p]],
                 icnt |-> h.icnt]
           clean == \A p \in Pages : mem[p] # 0 => p \in DOMAIN f.pages
<1>2. resumed' = [on |-> TRUE, m |-> r, clean |-> clean] /\ FileWhole(f)
  BY DEF loadState
<1>3. PICK m : IsMachine(m) /\ OnRun(m) /\ DumpOf(f, m)
  BY DEF CkptInv, FilesOfRun
<1>4. clean => r = m
  BY <1>2, <1>3, RestoredExactly
<1> HIDE DEF r, clean
<1>5. resumed' = [on |-> resumed'.on, m |-> resumed'.m, clean |-> resumed'.clean]
  BY <1>2
<1>6. ResumedOnRun'
  BY <1>2, <1>3, <1>4 DEF ResumedOnRun
<1>7. CkptTypes'
  BY <1>1, <1>5 DEF CkptInv, CkptTypes
<1>8. FilesOfRun' /\ Dumping' /\ files' = [k \in DOMAIN files' |-> files'[k]]
  BY <1>1 DEF CkptInv, FilesOfRun, Dumping
<1>. QED BY <1>6, <1>7, <1>8 DEF CkptInv

LEMMA ResumedExecuteKeeps == CkptInv /\ ResumedExecute => CkptInv'
<1> SUFFICES ASSUME CkptInv, ResumedExecute PROVE CkptInv'
  OBVIOUS
<1>1. /\ UNCHANGED <<machine, phase, files, writing>>
      /\ resumed' = [resumed EXCEPT !.m = execMips(@)] /\ resumed.m.icnt < MaxIcnt
  BY DEF ResumedExecute
<1>2. resumed' = [on |-> resumed.on, m |-> execMips(resumed.m), clean |-> resumed.clean]
  BY <1>1 DEF CkptInv, CkptTypes
<1>3. ResumedOnRun'
  BY <1>1, <1>2, TurnOnRun DEF CkptInv, ResumedOnRun
<1>4. CkptTypes'
  BY <1>1, <1>2 DEF CkptInv, CkptTypes
<1>5. FilesOfRun' /\ Dumping' /\ files' = [n \in DOMAIN files' |-> files'[n]]
  BY <1>1 DEF CkptInv, FilesOfRun, Dumping
<1>. QED BY <1>3, <1>4, <1>5 DEF CkptInv

\* A process that resumes from a checkpoint, written whenever an option of
\* the run loop asked for it and possibly cut short, goes through states of
\* the undisturbed run, for every program of the guest (dumpState, loadState,
\* ckpt_safe); unless it booted with a page the run had zeroed since.
THEOREM ResumeExact == CkptSpec => []CheckpointExact
<1>1. CkptInv /\ [CkptNext]_ckptVars => CkptInv'
  <2> SUFFICES ASSUME CkptInv, [CkptNext]_ckptVars PROVE CkptInv'
    OBVIOUS
  <2>1. CASE UNCHANGED ckptVars
    BY <2>1 DEF ckptVars, CkptInv, CkptTypes, FilesOfRun, Dumping, ResumedOnRun
  <2>2. ASSUME NEW mem \in {ZeroMem, BootMem}, NEW n \in DOMAIN files, loadState(mem, n) PROVE CkptInv'
    BY <2>2, loadStateKeeps
  <2>. QED BY <2>1, <2>2, CheckOptionKeeps, DumpPageKeeps, DumpEndKeeps, ExecuteKeeps, ResumedExecuteKeeps
           DEF CkptNext
<1>2. CkptInv => CheckpointExact
  BY DEF CkptInv, ResumedOnRun, OnRun, CheckpointExact
<1>. QED BY <1>1, <1>2, CkptInitially, PTL DEF CkptSpec
-----------------------------------------------------------------------------
(* The gdb stub                                                            *)

Tokens == Commands \cup {T("+"), T("^C"), T("eof")}

InBacklog(c) == \E i \in 1 .. Len(backlog) : backlog[i] = c

\* Bytes a client sends on its own account: interrupts, acknowledgements.
Ctl(s) == \A i \in 1 .. Len(s) : s[i] = T("^C")
Junk(s) == \A i \in 1 .. Len(s) : s[i] \in {T("+"), T("^C")}

\* The command a client in state st may have sent, the reply it may get.
Fits(st, p) ==
  \/ st = "running" /\ p.t \in {"c", "s"}
  \/ st = "leaving" /\ p.t \in {"D", "k"}
  \/ st = "registers" /\ p.t = "g"
  \/ st = "await" /\ p.t \in {"?", "Z", "z", "G", "other"}
Answers(st, r) ==
  \/ st = "running" /\ r.t = "stop"
  \/ st = "registers" /\ r.t = "regs" /\ r.pc = target.pc
  \/ st \in {"await", "leaving"} /\ r.t \in {"ok", "stop"}

\* The k-th item of s is the only command in it; only interrupts follow it,
\* and only those of a target that is being resumed.
Pending(s, k, st) ==
  /\ k \in 1 .. Len(s)
  /\ Fits(st, s[k])
  /\ \A i \in 1 .. k - 1 : s[i] \in {T("+"), T("^C")}
  /\ \A i \in k + 1 .. Len(s) : s[i] = T("^C")
  /\ k < Len(s) => st = "running"

\* What the client knows of the pc; nothing, once it resumed the target.
Told(c) == gdb[c].pc \in {0, target.pc} /\ (gdb[c].st = "running" => gdb[c].pc = 0)

\* What may be under way between the stub and the client attached to it: the
\* stub has the command, the reply is on its way, the next command is, or
\* nothing is.
Owed(st) ==
  \/ st = "running" /\ stub.say.t = "stop" /\ stub.then = "cmd"
  \/ st = "registers" /\ stub.say.t = "regs" /\ stub.then = "cmd"
  \/ st = "await" /\ stub.say.t \in {"ok", "stop"} /\ stub.then = "cmd"
  \/ st = "leaving" /\ stub.say.t = "ok" /\ stub.then \in {"detach", "exited"}
Working(c) ==
  /\ sock[c].out = <<>> /\ Ctl(sock[c].in) /\ Told(c)
  /\ \/ stub.mode \in {"hook", "exec"} /\ gdb[c].st = "running"
     \/ /\ stub.mode = "say" /\ Owed(gdb[c].st)
        /\ gdb[c].st # "running" => sock[c].in = <<>>
Waiting(c) ==
  /\ \E r : sock[c].out = <<r>> /\ Answers(gdb[c].st, r)
  /\ Ctl(sock[c].in) /\ Told(c)
  /\ stub.mode \in {"ack", "cmd"}
  /\ gdb[c].st # "running" => sock[c].in = <<>> /\ stub.mode = "ack"
  /\ gdb[c].st # "leaving" /\ stub.mode = "ack" => stub.then = "cmd"
  /\ gdb[c].st = "leaving" => stub.then \in {"detach", "exited"}
Asked(c) ==
  /\ sock[c].out = <<>>
  /\ \E k \in 1 .. Len(sock[c].in) :
       /\ Pending(sock[c].in, k, gdb[c].st)
       /\ k = 1 => stub.mode = "cmd"
       /\ IF sock[c].in[k].t = "G" THEN gdb[c].pc = sock[c].in[k].a ELSE Told(c)
  /\ stub.mode = "cmd" \/ (stub.mode = "ack" /\ stub.then = "cmd")
Paused(c) ==
  /\ gdb[c].st = "stopped" /\ sock[c].out = <<>> /\ Junk(sock[c].in) /\ Told(c)
  /\ stub.mode = "cmd" \/ (stub.mode = "ack" /\ stub.then = "cmd" /\ sock[c].in # <<>>)

Attached(c) == Working(c) \/ Waiting(c) \/ Asked(c) \/ Paused(c)

\* A client is gone, has not come, waits to be accepted, has said goodbye, or
\* is the one attached.
Off(c) == gdb[c].st = "off" /\ ~InBacklog(c) /\ sock[c].in = <<>>
Queued(c) == gdb[c].st = "await" /\ InBacklog(c) /\ sock[c].in = <<T("?")>>
Left(c) ==
  /\ gdb[c].st = "left" /\ ~InBacklog(c) /\ sock[c].out = <<>>
  /\ stub.conn = c => stub.mode = "exited" \/ (stub.mode = "ack" /\ stub.then \in {"detach", "exited"})
View(c) ==
  \/ gdb[c].st = "gone"
  \/ stub.conn # c /\ (Off(c) \/ Queued(c)) /\ sock[c].out = <<>> /\ gdb[c].pc = 0
  \/ Left(c)
  \/ stub.conn = c /\ ~InBacklog(c) /\ Attached(c)

StubFields == {"mode", "conn", "stepping", "poll_ctr", "breakpoints", "say", "then"}
GdbShape ==
  /\ DOMAIN stub = StubFields
  /\ DOMAIN target = {"pc", "since", "how"}
  /\ DOMAIN sock = Clients /\ DOMAIN gdb = Clients
  /\ \A c \in Clients : /\ DOMAIN sock[c] = {"in", "out"} /\ sock[c].in \in Seq(Tokens)
                        /\ DOMAIN gdb[c] = {"st", "sent", "breaks", "pc", "mixed"}
  /\ backlog \in Seq(Clients)
  /\ \A i, j \in 1 .. Len(backlog) : backlog[i] = backlog[j] => i = j

StubInv ==
  /\ stub.mode \in {"hook", "say", "ack", "cmd", "exec", "exited"}
  /\ stub.then \in {"cmd", "detach", "exited"}
  /\ stub.conn \in Clients \cup {0}
  /\ stub.mode \in {"say", "ack", "cmd"} => stub.conn # 0
  /\ stub.stepping => stub.mode \in {"exec", "hook"} /\ stub.conn # 0 /\ target.how = "s"
  /\ stub.mode \in {"exec", "hook"} /\ stub.conn # 0 /\ target.how = "s" => stub.stepping
  /\ StopsWhereAsked

GdbInv == GdbShape /\ StubInv /\ \A c \in Clients : ~gdb[c].mixed /\ View(c)

LEMMA NobodyIsZero == 0 \notin Clients
  BY ClientsAssumption DEF Clients

LEMMA FirstOf ==
  ASSUME NEW S, NEW s \in Seq(S), s # <<>>
  PROVE  /\ Head(s) = s[1] /\ s[1] \in S /\ Len(s) \in Nat /\ Len(s) >= 1
         /\ Tail(s) \in Seq(S) /\ Len(Tail(s)) = Len(s) - 1
         /\ \A i \in 1 .. Len(s) - 1 : Tail(s)[i] = s[i + 1]
<1>1. /\ Tail(s) \in Seq(S) /\ Len(Tail(s)) = Len(s) - 1
      /\ \A i \in 1 .. Len(Tail(s)) : Tail(s)[i] = s[i + 1]
  BY HeadTailProperties
<1>2. Len(s) \in Nat /\ Len(s) >= 1 /\ Head(s) = s[1] /\ s[1] \in S
  OBVIOUS
<1>. QED BY <1>1, <1>2

LEMMA LastOf ==
  ASSUME NEW S, NEW s \in Seq(S), NEW e \in S
  PROVE  /\ Append(s, e) \in Seq(S) /\ Len(s) \in Nat /\ Len(Append(s, e)) = Len(s) + 1
         /\ \A i \in 1 .. Len(s) : Append(s, e)[i] = s[i]
         /\ Append(s, e)[Len(s) + 1] = e
         /\ Append(s, e) # <<>>
  OBVIOUS

LEMMA CtlFacts ==
  ASSUME NEW s \in Seq(Tokens), Ctl(s)
  PROVE  /\ s # <<>> => Head(s) = T("^C") /\ Ctl(Tail(s))
         /\ Ctl(Append(s, T("^C")))
         /\ Junk(s) /\ Junk(Append(s, T("+")))
<1>1. T("^C") \in Tokens /\ T("+") \in Tokens
  BY DEF Tokens
<1>2. ASSUME s # <<>> PROVE Head(s) = T("^C") /\ Ctl(Tail(s))
  <2>1. \A i \in 1 .. Len(s) - 1 : i + 1 \in 1 .. Len(s)
    BY <1>2, FirstOf
  <2>. QED BY <1>2, <2>1, FirstOf DEF Ctl
<1>3. \A e \in Tokens : \A i \in 1 .. Len(Append(s, e)) : Append(s, e)[i] \in {T("^C"), e}
  <2> SUFFICES ASSUME NEW e \in Tokens, NEW i \in 1 .. Len(Append(s, e))
               PROVE  Append(s, e)[i] \in {T("^C"), e}
    OBVIOUS
  <2>1. i \in 1 .. Len(s) \/ i = Len(s) + 1
    BY LastOf
  <2>. QED BY <2>1, LastOf DEF Ctl
<1>4. Ctl(Append(s, T("^C")))
  BY <1>1, <1>3 DEF Ctl
<1>5. Junk(s) /\ Junk(Append(s, T("+")))
  BY <1>1, <1>3 DEF Ctl, Junk
<1>. QED BY <1>2, <1>4, <1>5

LEMMA JunkFacts ==
  ASSUME NEW s \in Seq(Tokens), Junk(s), s # <<>>
  PROVE  Head(s) \in {T("+"), T("^C")} /\ Junk(Tail(s))
<1>1. \A i \in 1 .. Len(s) - 1 : i + 1 \in 1 .. Len(s)
  BY FirstOf
<1>. QED BY <1>1, FirstOf DEF Junk

LEMMA PendingFirst ==
  ASSUME NEW s \in Seq(Tokens), NEW st, Pending(s, 1, st)
  PROVE  /\ s # <<>> /\ Head(s) = s[1] /\ Fits(st, Head(s)) /\ Ctl(Tail(s))
         /\ st # "running" => Tail(s) = <<>>
<1>1. s # <<>> /\ Len(s) \in Nat
  BY DEF Pending
<1>2. Head(s) = s[1] /\ Fits(st, Head(s))
  BY <1>1, FirstOf DEF Pending
<1>3. Ctl(Tail(s))
  <2>1. \A i \in 1 .. Len(s) - 1 : i + 1 \in 1 + 1 .. Len(s)
    BY <1>1
  <2>2. Len(Tail(s)) = Len(s) - 1 /\ \A i \in 1 .. Len(s) - 1 : Tail(s)[i] = s[i + 1]
    BY <1>1, FirstOf
  <2>. QED BY <2>1, <2>2 DEF Ctl, Pending
<1>4. ASSUME st # "running" PROVE Tail(s) = <<>>
  <2>1. ~(1 < Len(s))
    BY <1>4, Zenon DEF Pending
  <2>2. Len(s) = 1
    <3>1. 1 \in 1 .. Len(s)
      BY DEF Pending
    <3>. QED BY <1>1, <2>1, <3>1
  <2> DEFINE u == Tail(s)
  <2>3. u \in Seq(Tokens) /\ Len(u) = 0
    BY <1>1, <2>2, FirstOf
  <2> HIDE DEF u
  <2>4. u = <<>>
    BY <2>3
  <2>. QED BY <2>4 DEF u
<1>. QED BY <1>1, <1>2, <1>3, <1>4

LEMMA PendingLater ==
  ASSUME NEW s \in Seq(Tokens), NEW st, NEW k \in 1 .. Len(s), Pending(s, k, st), k # 1
  PROVE  /\ s # <<>> /\ Head(s) \in {T("+"), T("^C")}
         /\ Pending(Tail(s), k - 1, st) /\ Tail(s)[k - 1] = s[k]
         /\ k - 1 \in 1 .. Len(Tail(s))
<1>1. s # <<>> /\ Len(s) \in Nat /\ k \in Nat /\ k >= 2 /\ k <= Len(s)
  OBVIOUS
<1>2. Len(Tail(s)) = Len(s) - 1 /\ \A i \in 1 .. Len(s) - 1 : Tail(s)[i] = s[i + 1]
  BY <1>1, FirstOf
<1>3. Head(s) \in {T("+"), T("^C")}
  <2>1. 1 \in 1 .. k - 1
    BY <1>1
  <2>. QED BY <1>1, <2>1, FirstOf DEF Pending
<1>4. k - 1 \in 1 .. Len(s) - 1 /\ (k - 1) + 1 = k
  BY <1>1
<1>5. Tail(s)[k - 1] = s[k]
  BY <1>2, <1>4
<1>6. \A i \in 1 .. (k - 1) - 1 : Tail(s)[i] \in {T("+"), T("^C")}
  <2>1. \A i \in 1 .. (k - 1) - 1 : i \in 1 .. Len(s) - 1 /\ i + 1 \in 1 .. k - 1
    BY <1>1
  <2>. QED BY <1>2, <2>1 DEF Pending
<1>7. \A i \in (k - 1) + 1 .. Len(s) - 1 : Tail(s)[i] = T("^C")
  <2>1. \A i \in (k - 1) + 1 .. Len(s) - 1 : i \in 1 .. Len(s) - 1 /\ i + 1 \in k + 1 .. Len(s)
    BY <1>1
  <2>. QED BY <1>2, <2>1 DEF Pending
<1>8. k - 1 < Len(s) - 1 => k < Len(s)
  BY <1>1
<1>. QED BY <1>1, <1>2, <1>3, <1>4, <1>5, <1>6, <1>7, <1>8 DEF Pending

LEMMA PendingNew ==
  ASSUME NEW s \in Seq(Tokens), Junk(s), NEW p \in Tokens, NEW st, Fits(st, p)
  PROVE  LET k == Len(s) + 1 IN
           /\ Pending(Append(s, p), k, st) /\ Append(s, p)[k] = p
           /\ k \in 1 .. Len(Append(s, p)) /\ (k = 1 => s = <<>>)
<1>1. /\ Len(s) \in Nat /\ Len(Append(s, p)) = Len(s) + 1 /\ Append(s, p)[Len(s) + 1] = p
      /\ \A i \in 1 .. Len(s) : Append(s, p)[i] = s[i]
  BY LastOf
<1>2. Len(s) + 1 = 1 => s = <<>>
  BY <1>1
<1>. QED BY <1>1, <1>2 DEF Pending, Junk

LEMMA PendingMore ==
  ASSUME NEW s \in Seq(Tokens), NEW k \in 1 .. Len(s), Pending(s, k, "running")
  PROVE  /\ Pending(Append(s, T("^C")), k, "running") /\ Append(s, T("^C"))[k] = s[k]
         /\ k \in 1 .. Len(Append(s, T("^C")))
<1> DEFINE a == Append(s, T("^C"))
<1>1. T("^C") \in Tokens
  BY DEF Tokens
<1>2. /\ Len(s) \in Nat /\ Len(a) = Len(s) + 1 /\ a[Len(s) + 1] = T("^C")
      /\ \A i \in 1 .. Len(s) : a[i] = s[i]
  BY <1>1, LastOf
<1> HIDE DEF a
<1>3. k \in 1 .. Len(a) /\ a[k] = s[k]
  BY <1>2
<1>4. \A i \in k + 1 .. Len(a) : a[i] = T("^C")
  <2>1. \A i \in k + 1 .. Len(a) : i \in k + 1 .. Len(s) \/ i = Len(s) + 1
    BY <1>2
  <2>2. \A i \in k + 1 .. Len(s) : i \in 1 .. Len(s)
    BY <1>2
  <2>. QED BY <1>2, <2>1, <2>2 DEF Pending
<1>5. \A i \in 1 .. k - 1 : a[i] \in {T("+"), T("^C")}
  <2>1. \A i \in 1 .. k - 1 : i \in 1 .. Len(s)
    BY <1>2
  <2>. QED BY <1>2, <2>1 DEF Pending
<1>. QED BY <1>3, <1>4, <1>5 DEF Pending, a

\* What the stub's helpers make of it.
LEMMA SaysIs ==
  ASSUME NEW st, DOMAIN st = StubFields, NEW body, NEW next
  PROVE  LET x == Says(st, body, next) IN
           /\ DOMAIN x = StubFields
           /\ x.mode = "say" /\ x.say = body /\ x.then = next
           /\ x.conn = st.conn /\ x.stepping = st.stepping /\ x.breakpoints = st.breakpoints
  BY DEF Says, StubFields

LEMMA QuietIs ==
  ASSUME NEW st, DOMAIN st = StubFields, NEW next
  PROVE  LET x == Quiet(st, next) IN
           /\ DOMAIN x = StubFields
           /\ x.mode = next /\ x.then = "cmd"
           /\ x.conn = st.conn /\ x.stepping = st.stepping /\ x.breakpoints = st.breakpoints
  BY DEF Quiet, StubFields

LEMMA ClosedIs ==
  ASSUME NEW st, DOMAIN st = StubFields
  PROVE  /\ DOMAIN Closed(st) = StubFields
         /\ Closed(st).mode \in {"exec", "exited"} /\ Closed(st).conn = 0
         /\ Closed(st).stepping = st.stepping /\ Closed(st).then = "cmd"
<1> DEFINE next == IF st.then = "exited" THEN "exited" ELSE "exec"
           q == Quiet(st, next)
<1>1. DOMAIN q = StubFields /\ q.mode = next /\ q.stepping = st.stepping /\ q.then = "cmd"
  BY QuietIs
<1>2. Closed(st) = [q EXCEPT !.conn = 0]
  BY DEF Closed
<1>3. next \in {"exec", "exited"}
  OBVIOUS
<1> HIDE DEF q, next
<1>. QED BY <1>1, <1>2, <1>3 DEF StubFields

\* A client that is not attached, and has nothing done to it, stays as it is.
LEMMA OtherKept ==
  ASSUME NEW c \in Clients, View(c), stub.conn # c, stub'.conn # c,
         gdb'[c] = gdb[c], sock'[c] = sock[c], InBacklog(c)' <=> InBacklog(c)
  PROVE  View(c)'
<1>1. gdb[c].st = "gone" \/ ((Off(c) \/ Queued(c)) /\ sock[c].out = <<>> /\ gdb[c].pc = 0) \/ Left(c)
  BY DEF View
<1>2. CASE gdb[c].st = "gone"
  BY <1>2 DEF View
<1>3. CASE (Off(c) \/ Queued(c)) /\ sock[c].out = <<>> /\ gdb[c].pc = 0
  BY <1>3 DEF View, Off, Queued
<1>4. CASE Left(c)
  BY <1>4 DEF View, Left
<1>. QED BY <1>1, <1>2, <1>3, <1>4

\* Nor does a client's step touch another one.
LEMMA ClientAlone ==
  ASSUME NEW c \in Clients, View(c), UNCHANGED <<stub, target>>,
         gdb'[c] = gdb[c], sock'[c] = sock[c], InBacklog(c)' <=> InBacklog(c)
  PROVE  View(c)'
<1>1. Told(c)' <=> Told(c)
  BY DEF Told
<1>2. Attached(c)' <=> Attached(c)
  BY <1>1 DEF Attached, Working, Waiting, Asked, Paused, Owed, Answers
<1>. QED BY <1>2 DEF View, Off, Queued, Left

\* The client attached is gone, has left or has something under way.
LEMMA TheAttached ==
  ASSUME NEW c \in Clients, View(c), stub.conn = c
  PROVE  gdb[c].st = "gone" \/ Left(c) \/ (~InBacklog(c) /\ Attached(c))
  BY DEF View

\* Where a step leaves the clients, the stub, the sockets and the queue.
LEMMA StubStep ==
  ASSUME GdbInv, UNCHANGED <<gdb, backlog>>, NEW d \in Clients, stub.conn = d,
         \A c \in Clients : c # d => sock'[c] = sock[c],
         stub'.conn \in {d, 0}, View(d)'
  PROVE  \A c \in Clients : ~gdb'[c].mixed /\ View(c)'
<1> SUFFICES ASSUME NEW c \in Clients PROVE ~gdb'[c].mixed /\ View(c)'
  OBVIOUS
<1>1. ~gdb'[c].mixed
  BY DEF GdbInv
<1>2. InBacklog(c)' <=> InBacklog(c)
  BY DEF InBacklog
<1>3. CASE c = d
  BY <1>1, <1>3
<1>4. CASE c # d
  <2>1. stub'.conn # c
    BY <1>4, NobodyIsZero
  <2>. QED BY <1>1, <1>2, <1>4, <2>1, OtherKept DEF GdbInv
<1>. QED BY <1>3, <1>4

LEMMA GdbInitially == GdbInit => GdbInv
<1> SUFFICES ASSUME GdbInit PROVE GdbInv
  OBVIOUS
<1>1. /\ stub.mode = "hook" /\ stub.conn = 0 /\ stub.stepping = FALSE /\ DOMAIN stub = StubFields
      /\ stub.then = "cmd"
      /\ DOMAIN target = {"pc", "since", "how"} /\ target.how = "c" /\ backlog = <<>>
  BY DEF GdbInit, StubFields
<1>2. \A c \in Clients : /\ sock[c] = [in |-> <<>>, out |-> <<>>]
                         /\ gdb[c] = [st |-> "off", sent |-> 0, breaks |-> 0, pc |-> 0, mixed |-> FALSE]
  BY DEF GdbInit
<1>3. GdbShape
  <2>1. DOMAIN sock = Clients /\ DOMAIN gdb = Clients
    BY DEF GdbInit
  <2>2. \A c \in Clients : /\ DOMAIN sock[c] = {"in", "out"} /\ sock[c].in \in Seq(Tokens)
                           /\ DOMAIN gdb[c] = {"st", "sent", "breaks", "pc", "mixed"}
    <3> SUFFICES ASSUME NEW c \in Clients
                 PROVE  /\ DOMAIN sock[c] = {"in", "out"} /\ sock[c].in \in Seq(Tokens)
                        /\ DOMAIN gdb[c] = {"st", "sent", "breaks", "pc", "mixed"}
      OBVIOUS
    <3>1. sock[c].in = <<>> /\ DOMAIN sock[c] = {"in", "out"}
      BY <1>2
    <3>2. DOMAIN gdb[c] = {"st", "sent", "breaks", "pc", "mixed"}
      BY <1>2
    <3>. QED BY <3>1, <3>2
  <2>3. backlog \in Seq(Clients) /\ Len(backlog) = 0
    BY <1>1
  <2>. QED BY <1>1, <2>1, <2>2, <2>3 DEF GdbShape
<1>4. StubInv
  BY <1>1 DEF StubInv, StopsWhereAsked
<1>5. ASSUME NEW c \in Clients PROVE ~gdb[c].mixed /\ View(c)
  <2>1. ~InBacklog(c) /\ stub.conn # c
    BY <1>1, NobodyIsZero DEF InBacklog
  <2>2. Off(c) /\ sock[c].out = <<>> /\ gdb[c].pc = 0
    BY <1>2, <2>1 DEF Off
  <2>. QED BY <1>2, <2>1, <2>2 DEF View
<1>. QED BY <1>3, <1>4, <1>5 DEF GdbInv

\* step_hook() with nobody attached.
LEMMA HookFreeKeeps == GdbInv /\ HookFree => GdbInv'
<1> SUFFICES ASSUME GdbInv, HookFree PROVE GdbInv'
  OBVIOUS
<1>1. stub.conn = 0 /\ stub.mode = "hook" /\ UNCHANGED <<target, sock, gdb>> /\ ~stub.stepping
  BY DEF HookFree, GdbInv, StubInv
<1> DEFINE st == Poll(stub)
<1>2. /\ DOMAIN st = StubFields /\ st.conn = 0 /\ st.stepping = stub.stepping
      /\ st.then \in {"cmd", "detach", "exited"}
  BY <1>1 DEF GdbInv, GdbShape, StubInv, Poll, StubFields
<1>3. CASE st.poll_ctr = 0 /\ backlog # <<>>
  <2>1. stub' = [st EXCEPT !.conn = Head(backlog), !.mode = "cmd"] /\ backlog' = Tail(backlog)
    BY <1>3 DEF HookFree
  <2> HIDE DEF st
  <2>0. PICK h : h = Head(backlog)
    OBVIOUS
  <2>2. /\ DOMAIN stub' = StubFields /\ stub'.conn = h /\ stub'.mode = "cmd" /\ ~stub'.stepping
        /\ stub'.then \in {"cmd", "detach", "exited"}
    BY <1>1, <1>2, <2>0, <2>1 DEF StubFields
  <2>3. backlog \in Seq(Clients) /\ \A i, j \in 1 .. Len(backlog) : backlog[i] = backlog[j] => i = j
    BY DEF GdbInv, GdbShape
  <2>4. /\ h = backlog[1] /\ h \in Clients /\ backlog' \in Seq(Clients) /\ Len(backlog) \in Nat
        /\ Len(backlog') = Len(backlog) - 1 /\ Len(backlog) >= 1
        /\ \A i \in 1 .. Len(backlog) - 1 : backlog'[i] = backlog[i + 1]
    BY <1>3, <2>0, <2>1, <2>3, FirstOf
  <2>5. \A i \in 1 .. Len(backlog') : i + 1 \in 1 .. Len(backlog) /\ i + 1 # 1 /\ backlog'[i] = backlog[i + 1]
    BY <2>4
  <2>6. \A i, j \in 1 .. Len(backlog') : backlog'[i] = backlog'[j] => i = j
    BY <2>3, <2>4, <2>5
  <2>7. InBacklog(h) /\ ~InBacklog(h)'
    <3>1. 1 \in 1 .. Len(backlog)
      BY <2>4
    <3>. QED BY <2>3, <2>4, <2>5, <3>1 DEF InBacklog
  <2>8. \A c \in Clients : c # h => (InBacklog(c)' <=> InBacklog(c))
    <3> SUFFICES ASSUME NEW c \in Clients, c # h PROVE InBacklog(c)' <=> InBacklog(c)
      OBVIOUS
    <3>1. ASSUME NEW i \in 1 .. Len(backlog), backlog[i] = c PROVE InBacklog(c)'
      <4>1. i # 1 /\ i - 1 \in 1 .. Len(backlog') /\ (i - 1) + 1 = i
        BY <2>4, <3>1
      <4>2. backlog'[i - 1] = c
        BY <2>5, <3>1, <4>1
      <4>. QED BY <4>1, <4>2 DEF InBacklog
    <3>. QED BY <2>5, <3>1 DEF InBacklog
  <2>9. View(h)'
    <3>1. gdb[h].st = "gone" \/ (Queued(h) /\ sock[h].out = <<>> /\ gdb[h].pc = 0)
      BY <1>1, <2>4, <2>7, NobodyIsZero DEF GdbInv, View, Off, Left
    <3>2. CASE gdb[h].st = "gone"
      BY <1>1, <3>2 DEF View
    <3>3. CASE Queued(h) /\ sock[h].out = <<>> /\ gdb[h].pc = 0
      <4> DEFINE s == <<T("?")>>
      <4>1. sock'[h].in = s /\ gdb'[h].st = "await" /\ sock'[h].out = <<>> /\ gdb'[h].pc = 0
        BY <1>1, <3>3 DEF Queued
      <4>2. Len(s) = 1 /\ s[1] = T("?") /\ T("?").t = "?"
        BY DEF T
      <4> HIDE DEF s
      <4>3. Pending(s, 1, "await") /\ s[1].t # "G" /\ 1 \in 1 .. Len(s)
        BY <4>2 DEF Pending, Fits
      <4>4. Asked(h)'
        BY <2>2, <4>1, <4>3 DEF Asked, Told
      <4>. QED BY <2>2, <2>7, <4>4 DEF View, Attached
    <3>. QED BY <3>1, <3>2, <3>3
  <2>10. ASSUME NEW c \in Clients PROVE ~gdb'[c].mixed /\ View(c)'
    <3>1. CASE c = h
      BY <1>1, <2>9, <3>1 DEF GdbInv
    <3>2. CASE c # h
      <4>1. stub.conn # c /\ stub'.conn # c
        BY <1>1, <2>2, <3>2, NobodyIsZero
      <4>. QED BY <1>1, <2>8, <3>2, <4>1, OtherKept DEF GdbInv
    <3>. QED BY <3>1, <3>2
  <2>11. GdbShape'
    BY <1>1, <2>2, <2>4, <2>6 DEF GdbInv, GdbShape
  <2>12. StubInv'
    BY <2>2, <2>4, NobodyIsZero DEF StubInv, StopsWhereAsked
  <2>. QED BY <2>10, <2>11, <2>12 DEF GdbInv
<1>4. CASE ~(st.poll_ctr = 0 /\ backlog # <<>>)
  <2>1. stub' = [st EXCEPT !.mode = "exec"] /\ UNCHANGED backlog
    BY <1>4 DEF HookFree
  <2> HIDE DEF st
  <2>2. /\ DOMAIN stub' = StubFields /\ stub'.conn = 0 /\ stub'.mode = "exec" /\ ~stub'.stepping
        /\ stub'.then \in {"cmd", "detach", "exited"}
    BY <1>1, <1>2, <2>1 DEF StubFields
  <2>3. GdbShape' /\ StubInv'
    BY <1>1, <2>1, <2>2 DEF GdbInv, GdbShape, StubInv, StopsWhereAsked
  <2>4. ASSUME NEW c \in Clients PROVE ~gdb'[c].mixed /\ View(c)'
    <3>1. InBacklog(c)' <=> InBacklog(c)
      BY <2>1 DEF InBacklog
    <3>. QED BY <1>1, <2>2, <3>1, NobodyIsZero, OtherKept DEF GdbInv
  <2>. QED BY <2>3, <2>4 DEF GdbInv
<1>. QED BY <1>3, <1>4

\* step_hook(): the step is over, or a breakpoint is reached.
LEMMA StopReasonIs ==
  ASSUME GdbShape, stub.mode = "hook"
  PROVE  IF stub.stepping \/ Low32(target.pc) \in stub.breakpoints
         THEN /\ StopReason(stub) # stub /\ DOMAIN StopReason(stub) = StubFields
              /\ StopReason(stub).mode = "say" /\ StopReason(stub).say = Stop(5)
              /\ StopReason(stub).then = "cmd" /\ StopReason(stub).conn = stub.conn
              /\ StopReason(stub).stepping = FALSE
              /\ StopReason(stub).breakpoints = stub.breakpoints
         ELSE StopReason(stub) = stub
<1>1. CASE stub.stepping \/ Low32(target.pc) \in stub.breakpoints
  <2> DEFINE st == [stub EXCEPT !.stepping = FALSE]
  <2>1. DOMAIN st = StubFields /\ st.conn = stub.conn /\ st.stepping = FALSE /\ st.breakpoints = stub.breakpoints
    BY DEF GdbShape, StubFields
  <2> HIDE DEF st
  <2>2. StopReason(stub) = Says(st, Stop(5), "cmd")
    BY <1>1 DEF StopReason, st
  <2>3. StopReason(stub).mode # stub.mode
    BY <2>1, <2>2, SaysIs
  <2>4. StopReason(stub) # stub
    BY <2>3
  <2>. QED BY <1>1, <2>1, <2>2, <2>4, SaysIs
<1>2. CASE ~(stub.stepping \/ Low32(target.pc) \in stub.breakpoints)
  BY <1>2 DEF StopReason
<1>. QED BY <1>1, <1>2

LEMMA HookStopsKeeps == GdbInv /\ HookStops => GdbInv'
<1> SUFFICES ASSUME GdbInv, HookStops PROVE GdbInv'
  OBVIOUS
<1>1. /\ stub.conn # 0 /\ stub.mode = "hook" /\ UNCHANGED <<target, sock, backlog, gdb>>
      /\ stub' = StopReason(stub) /\ StopReason(stub) # stub
  BY DEF HookStops
<1>2. PICK d \in Clients : stub.conn = d
  BY <1>1 DEF GdbInv, StubInv
<1>3. /\ stub.stepping \/ Low32(target.pc) \in stub.breakpoints
      /\ DOMAIN stub' = StubFields
      /\ stub'.mode = "say" /\ stub'.say = Stop(5) /\ stub'.then = "cmd" /\ stub'.conn = d
      /\ stub'.stepping = FALSE /\ stub'.breakpoints = stub.breakpoints
  BY <1>1, <1>2, StopReasonIs DEF GdbInv
<1>4. Stop(5).t = "stop"
  BY DEF Stop
<1>5. View(d)'
  <2>1. gdb[d].st = "gone" \/ (~InBacklog(d) /\ Working(d) /\ gdb[d].st = "running")
    BY <1>1, <1>2 DEF GdbInv, View, Left, Attached, Working, Waiting, Asked, Paused
  <2>2. CASE gdb[d].st = "gone"
    BY <1>1, <2>2 DEF View
  <2>3. CASE ~InBacklog(d) /\ Working(d) /\ gdb[d].st = "running"
    <3>1. Working(d)' /\ ~InBacklog(d)'
      BY <1>1, <1>3, <1>4, <2>3 DEF Working, Owed, Told, InBacklog
    <3>. QED BY <1>3, <3>1 DEF View, Attached
  <2>. QED BY <2>1, <2>2, <2>3
<1>6. \A c \in Clients : ~gdb'[c].mixed /\ View(c)'
  BY <1>1, <1>2, <1>3, <1>5, StubStep
<1>7. GdbShape'
  BY <1>1, <1>3 DEF GdbInv, GdbShape
<1>8. StubInv'
  <2>1. stub.stepping => target.how = "s"
    BY DEF GdbInv, StubInv
  <2>. QED BY <1>1, <1>2, <1>3, <2>1, NobodyIsZero DEF StubInv, StopsWhereAsked
<1>. QED BY <1>6, <1>7, <1>8 DEF GdbInv

\* A byte is read: the sockets keep their shape.
LEMMA ReadIs ==
  ASSUME GdbShape, NEW d \in Clients, stub.conn = d, In # <<>>, Read
  PROVE  /\ DOMAIN sock' = Clients
         /\ \A c \in Clients : DOMAIN sock'[c] = {"in", "out"} /\ sock'[c].in \in Seq(Tokens)
         /\ \A c \in Clients : c # d => sock'[c] = sock[c]
         /\ sock'[d].in = Tail(sock[d].in) /\ sock'[d].out = sock[d].out
<1>1. sock' = [sock EXCEPT ![d].in = Tail(sock[d].in)]
  BY DEF Read
<1>2. sock[d].in \in Seq(Tokens) /\ sock[d].in # <<>> /\ DOMAIN sock = Clients /\ DOMAIN sock[d] = {"in", "out"}
  BY DEF GdbShape, In
<1>3. Tail(sock[d].in) \in Seq(Tokens)
  BY <1>2, FirstOf
<1>4. /\ DOMAIN sock' = Clients /\ DOMAIN sock'[d] = {"in", "out"}
      /\ sock'[d].in = Tail(sock[d].in) /\ sock'[d].out = sock[d].out
      /\ \A c \in Clients : c # d => sock'[c] = sock[c]
  BY <1>1, <1>2
<1>. QED BY <1>3, <1>4 DEF GdbShape

\* step_hook(): otherwise one byte is read now and then.
LEMMA HookPollsKeeps == GdbInv /\ HookPolls => GdbInv'
<1> SUFFICES ASSUME GdbInv, HookPolls PROVE GdbInv'
  OBVIOUS
<1>1. /\ stub.conn # 0 /\ stub.mode = "hook" /\ UNCHANGED <<target, backlog, gdb>>
      /\ StopReason(stub) = stub
  BY DEF HookPolls
<1>2. PICK d \in Clients : stub.conn = d
  BY <1>1 DEF GdbInv, StubInv
<1>3. ~stub.stepping /\ Low32(target.pc) \notin stub.breakpoints
  BY <1>1, StopReasonIs DEF GdbInv
<1>4. target.how # "s"
  BY <1>1, <1>3 DEF GdbInv, StubInv
<1> DEFINE st == Poll(stub)
           run == [st EXCEPT !.mode = "exec"]
<1>5. /\ DOMAIN st = StubFields /\ st.conn = d /\ st.stepping = stub.stepping
      /\ st.breakpoints = stub.breakpoints /\ st.then \in {"cmd", "detach", "exited"}
  BY <1>2 DEF GdbInv, GdbShape, StubInv, Poll, StubFields
<1>6. /\ DOMAIN run = StubFields /\ run.conn = d /\ run.stepping = stub.stepping /\ run.mode = "exec"
      /\ run.breakpoints = stub.breakpoints /\ run.then \in {"cmd", "detach", "exited"}
  <2> HIDE DEF st
  <2>. QED BY <1>5 DEF StubFields
<1>7. gdb[d].st = "gone" \/ (~InBacklog(d) /\ Working(d) /\ gdb[d].st = "running")
  BY <1>1, <1>2 DEF GdbInv, View, Left, Attached, Working, Waiting, Asked, Paused
<1>8. CASE st.poll_ctr # 0 \/ In = <<>>
  <2>1. stub' = run /\ UNCHANGED sock
    BY <1>8 DEF HookPolls
  <2> HIDE DEF st, run
  <2>2. View(d)'
    <3>1. CASE gdb[d].st = "gone"
      BY <1>1, <3>1 DEF View
    <3>2. CASE ~InBacklog(d) /\ Working(d) /\ gdb[d].st = "running"
      <4>1. Working(d)' /\ ~InBacklog(d)'
        BY <1>1, <1>6, <2>1, <3>2 DEF Working, Told, InBacklog
      <4>. QED BY <1>6, <2>1, <4>1 DEF View, Attached
    <3>. QED BY <1>7, <3>1, <3>2
  <2>3. \A c \in Clients : ~gdb'[c].mixed /\ View(c)'
    BY <1>1, <1>2, <1>6, <2>1, <2>2, StubStep
  <2>4. GdbShape'
    BY <1>1, <1>6, <2>1 DEF GdbInv, GdbShape
  <2>5. StubInv'
    BY <1>1, <1>2, <1>3, <1>4, <1>6, <2>1, NobodyIsZero DEF StubInv, StopsWhereAsked
  <2>. QED BY <2>3, <2>4, <2>5 DEF GdbInv
<1>9. CASE ~(st.poll_ctr # 0 \/ In = <<>>)
  <2>1. /\ Read
        /\ stub' = CASE Head(In).t = "eof" -> Closed(st)
                     [] Head(In).t = "^C" -> Says(st, Stop(2), "cmd")
                     [] OTHER -> run
    BY <1>9 DEF HookPolls
  <2>2. /\ DOMAIN sock' = Clients
        /\ \A c \in Clients : DOMAIN sock'[c] = {"in", "out"} /\ sock'[c].in \in Seq(Tokens)
        /\ \A c \in Clients : c # d => sock'[c] = sock[c]
        /\ sock'[d].in = Tail(sock[d].in) /\ sock'[d].out = sock[d].out
    BY <1>2, <1>9, <2>1, ReadIs DEF GdbInv
  <2> HIDE DEF st, run
  <2>3. \/ stub' = Closed(st) /\ Head(In).t # "^C"
        \/ stub' = Says(st, Stop(2), "cmd")
        \/ stub' = run /\ Head(In).t # "^C"
    BY <2>1
  <2>4. /\ DOMAIN stub' = StubFields /\ stub'.conn \in {d, 0} /\ stub'.stepping = FALSE
        /\ stub'.mode \in {"exec", "exited", "say"}
        /\ stub'.then \in {"cmd", "detach", "exited"}
        /\ stub'.mode = "say" => stub'.conn = d /\ stub'.say = Stop(2) /\ stub'.then = "cmd"
        /\ stub'.mode = "exec" /\ stub'.conn = d => stub'.breakpoints = stub.breakpoints
    <3>1. stub.stepping = FALSE
      BY <1>2, <1>3, <1>5 DEF GdbInv, StubInv
    <3>2. CASE stub' = Closed(st)
      BY <1>5, <3>1, <3>2, ClosedIs, NobodyIsZero
    <3>3. CASE stub' = Says(st, Stop(2), "cmd")
      BY <1>5, <3>1, <3>3, SaysIs
    <3>4. CASE stub' = run
      BY <1>6, <3>1, <3>4
    <3>. QED BY <2>3, <3>2, <3>3, <3>4
  <2>5. View(d)'
    <3>1. CASE gdb[d].st = "gone"
      BY <1>1, <3>1 DEF View
    <3>2. CASE ~InBacklog(d) /\ Working(d) /\ gdb[d].st = "running"
      <4>1. In = sock[d].in /\ sock[d].in \in Seq(Tokens) /\ sock[d].in # <<>> /\ Ctl(sock[d].in)
        BY <1>2, <1>9, <3>2 DEF In, GdbInv, GdbShape, Working
      <4>2. Head(In) = T("^C") /\ Ctl(Tail(sock[d].in))
        BY <4>1, CtlFacts
      <4>3. stub' = Says(st, Stop(2), "cmd")
        BY <2>3, <4>2 DEF T
      <4>4. stub'.mode = "say" /\ stub'.conn = d /\ stub'.say.t = "stop" /\ stub'.then = "cmd"
        BY <1>5, <4>3, SaysIs DEF Stop
      <4>5. Working(d)' /\ ~InBacklog(d)'
        BY <1>1, <2>2, <3>2, <4>2, <4>4 DEF Working, Told, Owed, InBacklog
      <4>. QED BY <4>4, <4>5 DEF View, Attached
    <3>. QED BY <1>7, <3>1, <3>2
  <2>6. \A c \in Clients : ~gdb'[c].mixed /\ View(c)'
    BY <1>1, <1>2, <2>2, <2>4, <2>5, StubStep
  <2>7. GdbShape'
    BY <1>1, <2>2, <2>4 DEF GdbInv, GdbShape
  <2>8. StubInv'
    <3>1. Stop(2) # Stop(5)
      BY DEF Stop
    <3>. QED BY <1>1, <1>2, <1>3, <1>4, <2>4, <3>1, NobodyIsZero DEF StubInv, StopsWhereAsked
  <2>. QED BY <2>6, <2>7, <2>8 DEF GdbInv
<1>. QED BY <1>8, <1>9

\* send_packet(): the reply is on its way.
LEMMA SendPacketKeeps == GdbInv /\ SendPacket => GdbInv'
<1> SUFFICES ASSUME GdbInv, SendPacket PROVE GdbInv'
  OBVIOUS
<1>1. stub.mode = "say" /\ UNCHANGED <<target, backlog, gdb>> /\ stub' = [stub EXCEPT !.mode = "ack"]
  BY DEF SendPacket
<1>2. PICK d \in Clients : stub.conn = d
  BY <1>1 DEF GdbInv, StubInv
<1>3. /\ DOMAIN stub' = StubFields /\ stub'.mode = "ack" /\ stub'.conn = d
      /\ stub'.then = stub.then /\ stub'.stepping = stub.stepping
  BY <1>1, <1>2 DEF GdbInv, GdbShape, StubFields
<1>4. PICK r : /\ sock' = [sock EXCEPT ![d].out = Append(@, r)]
               /\ IF stub.say.t = "regs" THEN r = [t |-> "regs", pc |-> target.pc] ELSE r = stub.say
  BY <1>2 DEF SendPacket
<1>5. /\ DOMAIN sock' = Clients /\ DOMAIN sock'[d] = {"in", "out"}
      /\ sock'[d].in = sock[d].in /\ sock'[d].out = Append(sock[d].out, r)
      /\ \A c \in Clients : c # d => sock'[c] = sock[c]
  BY <1>4 DEF GdbInv, GdbShape
<1>6. View(d)'
  <2>1. gdb[d].st = "gone" \/ (~InBacklog(d) /\ Working(d))
    BY <1>1, <1>2 DEF GdbInv, View, Left, Attached, Waiting, Asked, Paused
  <2>2. CASE gdb[d].st = "gone"
    BY <1>1, <2>2 DEF View
  <2>3. CASE ~InBacklog(d) /\ Working(d)
    <3>1. sock'[d].out = <<r>>
      BY <1>5, <2>3 DEF Working
    <3>2. Owed(gdb[d].st) /\ Ctl(sock[d].in) /\ Told(d) /\ (gdb[d].st # "running" => sock[d].in = <<>>)
      BY <1>1, <2>3 DEF Working
    <3>3. r.t = stub.say.t /\ (r.t = "regs" => r.pc = target.pc)
      BY <1>4
    <3>4. /\ gdb[d].st # "leaving" => stub.then = "cmd"
          /\ gdb[d].st = "leaving" => stub.then \in {"detach", "exited"}
      BY <3>2 DEF Owed
    <3>5. Answers(gdb[d].st, r)'
      BY <1>1, <3>2, <3>3 DEF Owed, Answers
    <3>6. Told(d)' /\ ~InBacklog(d)'
      BY <1>1, <2>3, <3>2 DEF Told, InBacklog
    <3>7. Waiting(d)'
      BY <1>1, <1>3, <1>5, <3>1, <3>2, <3>4, <3>5, <3>6 DEF Waiting
    <3>. QED BY <1>3, <3>6, <3>7 DEF View, Attached
  <2>. QED BY <2>1, <2>2, <2>3
<1>7. \A c \in Clients : ~gdb'[c].mixed /\ View(c)'
  BY <1>1, <1>2, <1>3, <1>5, <1>6, StubStep
<1>8. GdbShape'
  BY <1>1, <1>3, <1>5 DEF GdbInv, GdbShape
<1>9. StubInv'
  BY <1>1, <1>2, <1>3, NobodyIsZero DEF GdbInv, StubInv, StopsWhereAsked
<1>. QED BY <1>7, <1>8, <1>9 DEF GdbInv

\* The connection of a client that is gone, or has left, is closed.
LEMMA ClosedKeeps ==
  ASSUME GdbInv, UNCHANGED <<target, backlog, gdb>>, NEW d \in Clients, stub.conn = d, ~stub.stepping,
         gdb[d].st = "gone" \/ Left(d), stub' = Closed(stub),
         DOMAIN sock' = Clients,
         \A c \in Clients : DOMAIN sock'[c] = {"in", "out"} /\ sock'[c].in \in Seq(Tokens),
         \A c \in Clients : c # d => sock'[c] = sock[c],
         sock'[d].out = sock[d].out
  PROVE  GdbInv'
<1>1. /\ DOMAIN stub' = StubFields /\ stub'.mode \in {"exec", "exited"} /\ stub'.conn = 0
      /\ ~stub'.stepping /\ stub'.then = "cmd"
  BY ClosedIs DEF GdbInv, GdbShape
<1>2. View(d)'
  <2>1. CASE gdb[d].st = "gone"
    BY <2>1 DEF View
  <2>2. CASE Left(d)
    <3>1. stub'.conn # d
      BY <1>1, NobodyIsZero
    <3>2. ~InBacklog(d)'
      BY <2>2 DEF Left, InBacklog
    <3>3. Left(d)'
      BY <2>2, <3>1, <3>2 DEF Left
    <3>. QED BY <3>3 DEF View
  <2>. QED BY <2>1, <2>2
<1>3. \A c \in Clients : ~gdb'[c].mixed /\ View(c)'
  BY <1>1, <1>2, StubStep
<1>4. GdbShape'
  BY <1>1 DEF GdbInv, GdbShape
<1>5. StubInv'
  BY <1>1 DEF StubInv, StopsWhereAsked
<1>. QED BY <1>3, <1>4, <1>5 DEF GdbInv

LEMMA SendFailsKeeps == GdbInv /\ SendFails => GdbInv'
<1> SUFFICES ASSUME GdbInv, SendFails PROVE GdbInv'
  OBVIOUS
<1>1. /\ stub.mode = "say" /\ UNCHANGED <<target, sock, backlog, gdb>> /\ stub' = Closed(stub)
      /\ gdb[stub.conn].st = "gone"
  BY DEF SendFails
<1>2. PICK d \in Clients : stub.conn = d
  BY <1>1 DEF GdbInv, StubInv
<1>3. ~stub.stepping
  BY <1>1 DEF GdbInv, StubInv
<1>4. /\ DOMAIN sock' = Clients
      /\ \A c \in Clients : DOMAIN sock'[c] = {"in", "out"} /\ sock'[c].in \in Seq(Tokens)
  BY <1>1 DEF GdbInv, GdbShape
<1>. QED BY <1>1, <1>2, <1>3, <1>4, ClosedKeeps

\* Only a client that is gone sent the end of the stream.
LEMMA EofMeansGone ==
  ASSUME GdbInv, NEW d \in Clients, stub.conn = d, stub.mode \in {"ack", "cmd"},
         ~(stub.mode = "ack" /\ stub.then # "cmd"), In # <<>>, Head(In).t = "eof"
  PROVE  gdb[d].st = "gone"
<1> SUFFICES ASSUME gdb[d].st # "gone" PROVE FALSE
  OBVIOUS
<1>1. In = sock[d].in /\ sock[d].in \in Seq(Tokens)
  BY DEF In, GdbInv, GdbShape
<1>2. Waiting(d) \/ Asked(d) \/ Paused(d)
  BY DEF GdbInv, View, Left, Attached, Working
<1>3. Head(In).t # "eof"
  <2>1. CASE Waiting(d)
    BY <1>1, <2>1, CtlFacts DEF Waiting, T
  <2>2. CASE Paused(d)
    BY <1>1, <2>2, JunkFacts DEF Paused, T
  <2>3. CASE Asked(d)
    <3>1. PICK k \in 1 .. Len(sock[d].in) : Pending(sock[d].in, k, gdb[d].st)
      BY <2>3 DEF Asked
    <3>2. CASE k = 1
      BY <1>1, <3>1, <3>2, PendingFirst DEF Fits
    <3>3. CASE k # 1
      BY <1>1, <3>1, <3>3, PendingLater DEF T
    <3>. QED BY <3>2, <3>3
  <2>. QED BY <1>2, <2>1, <2>2, <2>3
<1>. QED BY <1>3

\* One byte is taken for the acknowledgement.
LEMMA AcknowledgedKeeps == GdbInv /\ Acknowledged => GdbInv'
<1> SUFFICES ASSUME GdbInv, Acknowledged PROVE GdbInv'
  OBVIOUS
<1>1. /\ stub.mode = "ack" /\ UNCHANGED <<target, backlog, gdb>> /\ In # <<>>
      /\ IF Head(In).t = "eof" THEN UNCHANGED sock ELSE Read
  BY DEF Acknowledged
<1>2. PICK d \in Clients : stub.conn = d
  BY <1>1 DEF GdbInv, StubInv
<1>3. ~stub.stepping /\ GdbShape
  BY <1>1 DEF GdbInv, StubInv
<1>4. /\ DOMAIN sock' = Clients
      /\ \A c \in Clients : DOMAIN sock'[c] = {"in", "out"} /\ sock'[c].in \in Seq(Tokens)
      /\ \A c \in Clients : c # d => sock'[c] = sock[c]
      /\ sock'[d].out = sock[d].out
  <2>1. CASE Head(In).t = "eof"
    BY <1>1, <2>1 DEF GdbInv, GdbShape
  <2>2. CASE Head(In).t # "eof"
    BY <1>1, <1>2, <1>3, <2>2, ReadIs
  <2>. QED BY <2>1, <2>2
<1>5. In = sock[d].in /\ sock[d].in \in Seq(Tokens) /\ sock[d].in # <<>>
  BY <1>1, <1>2 DEF In, GdbInv, GdbShape
\* A client that has something to say here was answered, or is interrupting.
<1>6. gdb[d].st = "gone" \/ (Left(d) /\ stub.then # "cmd")
        \/ (~InBacklog(d) /\ stub.then = "cmd" /\ (Waiting(d) \/ Asked(d) \/ Paused(d)))
  BY <1>1, <1>2, <1>5 DEF GdbInv, View, Left, Attached, Working, Waiting, Asked, Paused
<1>7. CASE Head(In).t = "eof" \/ stub.then = "detach"
  <2>1. stub' = Closed(stub)
    BY <1>7 DEF Acknowledged
  <2>2. gdb[d].st = "gone" \/ Left(d)
    BY <1>1, <1>2, <1>6, <1>7, EofMeansGone
  <2>. QED BY <1>1, <1>2, <1>3, <1>4, <2>1, <2>2, ClosedKeeps
<1>8. CASE ~(Head(In).t = "eof" \/ stub.then = "detach")
  <2>1. stub' = Quiet(stub, stub.then) /\ Read
    BY <1>1, <1>8 DEF Acknowledged
  <2>2. /\ DOMAIN stub' = StubFields /\ stub'.mode = stub.then /\ stub'.then = "cmd"
        /\ stub'.conn = d /\ stub'.stepping = stub.stepping
    BY <1>2, <1>3, <2>1, QuietIs DEF GdbShape
  <2>3. sock'[d].in = Tail(sock[d].in)
    BY <1>1, <1>2, <1>3, <2>1, ReadIs
  <2>4. Told(d)' <=> Told(d)
    BY <1>1 DEF Told
  <2>5. View(d)'
    <3>1. CASE gdb[d].st = "gone"
      BY <1>1, <3>1 DEF View
    <3>2. CASE Left(d) /\ stub.then # "cmd"
      <4>1. stub.then = "exited"
        BY <1>1, <1>2, <1>8, <3>2 DEF Left
      <4>2. Left(d)'
        BY <1>1, <1>4, <2>2, <3>2, <4>1 DEF Left, InBacklog
      <4>. QED BY <4>2 DEF View
    <3>3. CASE ~InBacklog(d) /\ stub.then = "cmd" /\ (Waiting(d) \/ Asked(d) \/ Paused(d))
      <4>1. ~InBacklog(d)' /\ stub'.mode = "cmd"
        BY <1>1, <2>2, <3>3 DEF InBacklog
      <4>2. CASE Waiting(d)
        <5>1. gdb[d].st = "running"
          BY <1>5, <4>2 DEF Waiting
        <5>2. Ctl(sock'[d].in)
          BY <1>5, <2>3, <4>2, CtlFacts DEF Waiting
        <5>3. \A r : Answers(gdb[d].st, r)' <=> Answers(gdb[d].st, r)
          BY <1>1 DEF Answers
        <5>4. Waiting(d)'
          BY <1>1, <1>4, <2>4, <4>1, <4>2, <5>1, <5>2, <5>3 DEF Waiting
        <5>. QED BY <2>2, <4>1, <5>4 DEF View, Attached
      <4>3. CASE Asked(d)
        <5>1. PICK k \in 1 .. Len(sock[d].in) :
                 /\ Pending(sock[d].in, k, gdb[d].st)
                 /\ k = 1 => stub.mode = "cmd"
                 /\ IF sock[d].in[k].t = "G" THEN gdb[d].pc = sock[d].in[k].a ELSE Told(d)
          BY <4>3 DEF Asked
        <5>2. /\ Pending(Tail(sock[d].in), k - 1, gdb[d].st) /\ Tail(sock[d].in)[k - 1] = sock[d].in[k]
              /\ k - 1 \in 1 .. Len(Tail(sock[d].in))
          BY <1>1, <1>5, <5>1, PendingLater
        <5>3. Asked(d)'
          BY <1>1, <1>4, <2>3, <2>4, <4>1, <4>3, <5>1, <5>2 DEF Asked
        <5>. QED BY <2>2, <4>1, <5>3 DEF View, Attached
      <4>4. CASE Paused(d)
        <5>1. Junk(sock'[d].in)
          BY <1>5, <2>3, <4>4, JunkFacts DEF Paused
        <5>2. Paused(d)'
          BY <1>1, <1>4, <2>4, <4>1, <4>4, <5>1 DEF Paused
        <5>. QED BY <2>2, <4>1, <5>2 DEF View, Attached
      <4>. QED BY <3>3, <4>2, <4>3, <4>4
    <3>. QED BY <1>6, <3>1, <3>2, <3>3
  <2>6. \A c \in Clients : ~gdb'[c].mixed /\ View(c)'
    BY <1>1, <1>2, <1>4, <2>2, <2>5, StubStep
  <2>7. GdbShape'
    BY <1>1, <1>4, <2>2 DEF GdbInv, GdbShape
  <2>8. StubInv'
    <3>1. stub.then \in {"cmd", "exited"}
      BY <1>8 DEF GdbInv, StubInv
    <3>. QED BY <1>2, <1>3, <2>2, <3>1, NobodyIsZero DEF StubInv, StopsWhereAsked
  <2>. QED BY <2>6, <2>7, <2>8 DEF GdbInv
<1>. QED BY <1>7, <1>8

LEMMA RunTurnKeeps == GdbInv /\ RunTurn => GdbInv'
<1> SUFFICES ASSUME GdbInv, RunTurn PROVE GdbInv'
  OBVIOUS
<1>1. stub.mode = "exec" /\ UNCHANGED <<sock, backlog, gdb>> /\ stub' = [stub EXCEPT !.mode = "hook"]
  BY DEF RunTurn
<1>2. PICK a : target' = [target EXCEPT !.pc = a, !.since = IF @ < 2 THEN @ + 1 ELSE @]
  BY DEF RunTurn
<1>3. /\ DOMAIN stub' = StubFields /\ stub'.mode = "hook" /\ stub'.conn = stub.conn
      /\ stub'.then = stub.then /\ stub'.stepping = stub.stepping
  BY <1>1 DEF GdbInv, GdbShape, StubFields
<1>4. DOMAIN target' = {"pc", "since", "how"} /\ target'.how = target.how
  BY <1>2 DEF GdbInv, GdbShape
<1>5. \A c \in Clients : ~gdb'[c].mixed /\ View(c)'
  <2> SUFFICES ASSUME NEW c \in Clients PROVE ~gdb'[c].mixed /\ View(c)'
    OBVIOUS
  <2>1. InBacklog(c)' <=> InBacklog(c)
    BY <1>1 DEF InBacklog
  <2>2. CASE stub.conn # c
    BY <1>1, <1>3, <2>1, <2>2, OtherKept DEF GdbInv
  <2>3. CASE stub.conn = c
    <3>1. gdb[c].st = "gone" \/ (~InBacklog(c) /\ Working(c) /\ gdb[c].st = "running")
      BY <1>1, <2>3 DEF GdbInv, View, Left, Attached, Working, Waiting, Asked, Paused
    <3>2. CASE gdb[c].st = "gone"
      BY <1>1, <3>2 DEF View, GdbInv
    <3>3. CASE ~InBacklog(c) /\ Working(c) /\ gdb[c].st = "running"
      <4>1. Working(c)'
        BY <1>1, <1>3, <3>3 DEF Working, Told
      <4>. QED BY <1>1, <1>3, <2>1, <2>3, <3>3, <4>1 DEF View, Attached, GdbInv
    <3>. QED BY <3>1, <3>2, <3>3
  <2>. QED BY <2>2, <2>3
<1>6. GdbShape'
  BY <1>1, <1>3, <1>4 DEF GdbInv, GdbShape
<1>7. StubInv'
  BY <1>1, <1>3, <1>4 DEF GdbInv, StubInv, StopsWhereAsked
<1>. QED BY <1>5, <1>6, <1>7 DEF GdbInv

\* What command_loop() makes of a packet that asks for a reply.
LEMMA ReplyIs ==
  ASSUME GdbShape, Command, In # <<>>, Head(In).t \notin {"eof", "+", "^C", "c", "s"}
  PROVE  /\ DOMAIN stub' = StubFields /\ stub'.mode = "say" /\ stub'.conn = stub.conn
         /\ stub'.stepping = stub.stepping
         /\ stub'.then \in {"cmd", "detach", "exited"}
         /\ DOMAIN target' = {"pc", "since", "how"} /\ target'.how = target.how
         /\ target'.pc = IF Head(In).t = "G" THEN Head(In).a ELSE target.pc
         /\ \A st : Fits(st, Head(In)) => Owed(st)'
         /\ stub'.say = Stop(5) => Head(In).t = "?"
<1> DEFINE p == Head(In)
           Zs == [stub EXCEPT !.breakpoints = @ \cup {Low32(p.a)}]
           zs == [stub EXCEPT !.breakpoints = @ \ {Low32(p.a)}]
<1>1. /\ DOMAIN Zs = StubFields /\ Zs.conn = stub.conn /\ Zs.stepping = stub.stepping
      /\ DOMAIN zs = StubFields /\ zs.conn = stub.conn /\ zs.stepping = stub.stepping
      /\ DOMAIN stub = StubFields
  BY DEF GdbShape, StubFields
<1>2. \E st, body, next :
        /\ stub' = Says(st, body, next)
        /\ DOMAIN st = StubFields /\ st.conn = stub.conn /\ st.stepping = stub.stepping
        /\ CASE p.t = "?" -> body = Stop(5) /\ next = "cmd"
             [] p.t = "g" -> body = T("regs") /\ next = "cmd"
             [] p.t = "D" -> body = T("ok") /\ next = "detach"
             [] p.t = "k" -> body = T("ok") /\ next = "exited"
             [] OTHER -> body = T("ok") /\ next = "cmd"
  <2>1. CASE p.t = "?"
    BY <1>1, <2>1 DEF Command
  <2>2. CASE p.t = "g"
    BY <1>1, <2>2 DEF Command
  <2>3. CASE p.t = "D"
    BY <1>1, <2>3 DEF Command
  <2>4. CASE p.t = "k"
    BY <1>1, <2>4 DEF Command
  <2>5. CASE p.t = "Z"
    <3>1. stub' = Says(Zs, T("ok"), "cmd")
      BY <2>5 DEF Command
    <3> HIDE DEF Zs
    <3>. QED BY <1>1, <2>5, <3>1
  <2>6. CASE p.t = "z"
    <3>1. stub' = Says(zs, T("ok"), "cmd")
      BY <2>6 DEF Command
    <3> HIDE DEF zs
    <3>. QED BY <1>1, <2>6, <3>1
  <2>7. CASE p.t = "G"
    BY <1>1, <2>7 DEF Command
  <2>8. CASE p.t \notin {"?", "g", "D", "k", "Z", "z", "G"}
    BY <1>1, <2>8 DEF Command
  <2>. QED BY <2>1, <2>2, <2>3, <2>4, <2>5, <2>6, <2>7, <2>8
<1>3. /\ DOMAIN target' = {"pc", "since", "how"} /\ target'.how = target.how
      /\ target'.pc = IF p.t = "G" THEN p.a ELSE target.pc
  <2>1. CASE p.t = "G"
    <3>1. target' = [target EXCEPT !.pc = p.a]
      BY <2>1 DEF Command
    <3>. QED BY <2>1, <3>1 DEF GdbShape
  <2>2. CASE p.t # "G"
    <3>1. UNCHANGED target
      BY <2>2 DEF Command
    <3>. QED BY <2>2, <3>1 DEF GdbShape
  <2>. QED BY <2>1, <2>2
<1> HIDE DEF p
<1>4. PICK st, body, next :
        /\ stub' = Says(st, body, next)
        /\ DOMAIN st = StubFields /\ st.conn = stub.conn /\ st.stepping = stub.stepping
        /\ CASE p.t = "?" -> body = Stop(5) /\ next = "cmd"
             [] p.t = "g" -> body = T("regs") /\ next = "cmd"
             [] p.t = "D" -> body = T("ok") /\ next = "detach"
             [] p.t = "k" -> body = T("ok") /\ next = "exited"
             [] OTHER -> body = T("ok") /\ next = "cmd"
  BY <1>2
<1>5. /\ DOMAIN stub' = StubFields /\ stub'.mode = "say" /\ stub'.conn = stub.conn
      /\ stub'.stepping = stub.stepping /\ stub'.say = body /\ stub'.then = next
  BY <1>4, SaysIs
<1>6. next \in {"cmd", "detach", "exited"}
  BY <1>4
<1>7. body = Stop(5) => p.t = "?"
  <2>1. Stop(5).t # T("ok").t /\ Stop(5).t # T("regs").t
    BY DEF Stop, T
  <2>2. p.t # "?" => body \in {T("ok"), T("regs")}
    BY <1>4
  <2>. QED BY <2>1, <2>2
<1>8. ASSUME NEW x, Fits(x, p) PROVE Owed(x)'
  <2>1. Stop(5).t = "stop" /\ T("ok").t = "ok" /\ T("regs").t = "regs"
    BY DEF Stop, T
  <2>2. CASE x = "running" /\ p.t \in {"c", "s"}
    BY <2>2 DEF p
  <2>3. CASE x = "leaving" /\ p.t \in {"D", "k"}
    BY <1>4, <1>5, <2>1, <2>3 DEF Owed
  <2>4. CASE x = "registers" /\ p.t = "g"
    BY <1>4, <1>5, <2>1, <2>4 DEF Owed
  <2>5. CASE x = "await" /\ p.t \in {"?", "Z", "z", "G", "other"}
    <3>1. next = "cmd" /\ body \in {T("ok"), Stop(5)}
      BY <1>4, <2>5
    <3>. QED BY <1>5, <2>1, <2>5, <3>1 DEF Owed
  <2>. QED BY <1>8, <2>2, <2>3, <2>4, <2>5 DEF Fits
<1>. QED BY <1>3, <1>5, <1>6, <1>7, <1>8 DEF p

LEMMA CommandKeeps == GdbInv /\ Command => GdbInv'
<1> SUFFICES ASSUME GdbInv, Command PROVE GdbInv'
  OBVIOUS
<1>1. /\ stub.mode = "cmd" /\ UNCHANGED <<backlog, gdb>> /\ In # <<>>
      /\ IF Head(In).t = "eof" THEN UNCHANGED sock ELSE Read
  BY DEF Command
<1>2. PICK d \in Clients : stub.conn = d
  BY <1>1 DEF GdbInv, StubInv
<1>3. ~stub.stepping /\ GdbShape
  BY <1>1 DEF GdbInv, StubInv
<1>4. In = sock[d].in /\ sock[d].in \in Seq(Tokens) /\ sock[d].in # <<>>
  BY <1>1, <1>2 DEF In, GdbInv, GdbShape
<1>5. gdb[d].st = "gone" \/ (~InBacklog(d) /\ (Waiting(d) \/ Asked(d) \/ Paused(d)))
  BY <1>1, <1>2 DEF GdbInv, View, Left, Attached, Working
<1>6. InBacklog(d)' <=> InBacklog(d)
  BY <1>1 DEF InBacklog
<1> DEFINE p == Head(In)
\* A command is read only when it is the first item.
<1>7. ASSUME p.t \notin {"+", "^C", "eof"}, gdb[d].st # "gone"
      PROVE  /\ ~InBacklog(d) /\ sock[d].out = <<>>
             /\ Fits(gdb[d].st, p) /\ Ctl(Tail(sock[d].in))
             /\ gdb[d].st # "running" => Tail(sock[d].in) = <<>>
             /\ IF p.t = "G" THEN gdb[d].pc = p.a ELSE Told(d)
  <2>1. ~Waiting(d)
    BY <1>4, <1>7, CtlFacts DEF Waiting, T
  <2>2. ~Paused(d)
    BY <1>4, <1>7, JunkFacts DEF Paused, T
  <2>3. Asked(d) /\ ~InBacklog(d)
    BY <1>5, <1>7, <2>1, <2>2
  <2>4. PICK k \in 1 .. Len(sock[d].in) :
          /\ Pending(sock[d].in, k, gdb[d].st)
          /\ IF sock[d].in[k].t = "G" THEN gdb[d].pc = sock[d].in[k].a ELSE Told(d)
    BY <2>3 DEF Asked
  <2>5. k = 1
    BY <1>4, <1>7, <2>4, PendingLater DEF T
  <2>6. Head(sock[d].in) = sock[d].in[1] /\ Fits(gdb[d].st, p) /\ Ctl(Tail(sock[d].in))
        /\ (gdb[d].st # "running" => Tail(sock[d].in) = <<>>)
    BY <1>4, <2>4, <2>5, PendingFirst
  <2>. QED BY <1>4, <2>3, <2>4, <2>5, <2>6 DEF Asked
<1>8. CASE p.t = "eof"
  <2>1. stub' = Closed(stub) /\ UNCHANGED <<target, sock>>
    BY <1>1, <1>8 DEF Command
  <2>2. gdb[d].st = "gone"
    BY <1>1, <1>2, <1>8, EofMeansGone
  <2>3. /\ DOMAIN sock' = Clients
        /\ \A c \in Clients : DOMAIN sock'[c] = {"in", "out"} /\ sock'[c].in \in Seq(Tokens)
    BY <1>3, <2>1 DEF GdbShape
  <2>. QED BY <1>1, <1>2, <1>3, <2>1, <2>2, <2>3, ClosedKeeps
<1>9. CASE p.t # "eof"
  <2>1. /\ DOMAIN sock' = Clients
        /\ \A c \in Clients : DOMAIN sock'[c] = {"in", "out"} /\ sock'[c].in \in Seq(Tokens)
        /\ \A c \in Clients : c # d => sock'[c] = sock[c]
        /\ sock'[d].in = Tail(sock[d].in) /\ sock'[d].out = sock[d].out
    BY <1>1, <1>2, <1>3, <1>9, ReadIs
  <2>2. CASE p.t \in {"+", "^C"}
    <3>1. UNCHANGED <<stub, target>>
      BY <2>2 DEF Command
    <3>2. View(d)'
      <4>0. Told(d)' <=> Told(d)
        BY <1>1, <3>1 DEF Told
      <4>1. CASE gdb[d].st = "gone"
        BY <1>1, <4>1 DEF View
      <4>2. CASE ~InBacklog(d) /\ Waiting(d)
        <5>1. gdb[d].st = "running" /\ Ctl(sock'[d].in)
          BY <1>1, <1>4, <2>1, <4>2, CtlFacts DEF Waiting
        <5>2. \A r : Answers(gdb[d].st, r)' <=> Answers(gdb[d].st, r)
          BY <1>1, <3>1 DEF Answers
        <5>3. Waiting(d)'
          BY <1>1, <2>1, <3>1, <4>0, <4>2, <5>1, <5>2 DEF Waiting
        <5>. QED BY <1>2, <1>6, <3>1, <4>2, <5>3 DEF View, Attached
      <4>3. CASE ~InBacklog(d) /\ Asked(d)
        <5>1. PICK k \in 1 .. Len(sock[d].in) :
                 /\ Pending(sock[d].in, k, gdb[d].st)
                 /\ IF sock[d].in[k].t = "G" THEN gdb[d].pc = sock[d].in[k].a ELSE Told(d)
          BY <4>3 DEF Asked
        <5>2. k # 1
          <6> SUFFICES ASSUME k = 1 PROVE FALSE
            OBVIOUS
          <6>1. Fits(gdb[d].st, p)
            BY <1>4, <5>1, PendingFirst
          <6>. QED BY <2>2, <6>1 DEF Fits
        <5>3. /\ Pending(Tail(sock[d].in), k - 1, gdb[d].st) /\ Tail(sock[d].in)[k - 1] = sock[d].in[k]
              /\ k - 1 \in 1 .. Len(Tail(sock[d].in))
          BY <1>4, <5>1, <5>2, PendingLater
        <5>4. Asked(d)'
          BY <1>1, <2>1, <3>1, <4>0, <4>3, <5>1, <5>3 DEF Asked
        <5>. QED BY <1>2, <1>6, <3>1, <4>3, <5>4 DEF View, Attached
      <4>4. CASE ~InBacklog(d) /\ Paused(d)
        <5>1. Junk(sock'[d].in)
          BY <1>4, <2>1, <4>4, JunkFacts DEF Paused
        <5>2. Paused(d)'
          BY <1>1, <2>1, <3>1, <4>0, <4>4, <5>1 DEF Paused
        <5>. QED BY <1>2, <1>6, <3>1, <4>4, <5>2 DEF View, Attached
      <4>. QED BY <1>5, <4>1, <4>2, <4>3, <4>4
    <3>3. \A c \in Clients : ~gdb'[c].mixed /\ View(c)'
      BY <1>1, <1>2, <2>1, <3>1, <3>2, StubStep
    <3>4. GdbShape'
      BY <1>1, <1>3, <2>1, <3>1 DEF GdbShape
    <3>5. StubInv'
      BY <1>1, <3>1 DEF GdbInv, StubInv, StopsWhereAsked
    <3>. QED BY <3>3, <3>4, <3>5 DEF GdbInv
  <2>3. CASE p.t \in {"c", "s"}
    <3>1. Resume(p.t)
      BY <2>3 DEF Command
    <3>2. /\ DOMAIN stub' = StubFields /\ stub'.mode = "exec" /\ stub'.conn = d
          /\ stub'.then = stub.then /\ (stub'.stepping <=> p.t = "s")
      BY <1>2, <1>3, <3>1 DEF Resume, GdbShape, StubFields
    <3>3. /\ DOMAIN target' = {"pc", "since", "how"} /\ target'.since = 0 /\ target'.how = p.t
          /\ target'.pc = target.pc
      BY <1>3, <3>1 DEF Resume, GdbShape
    <3>4. View(d)'
      <4>1. CASE gdb[d].st = "gone"
        BY <1>1, <4>1 DEF View
      <4>2. CASE gdb[d].st # "gone"
        <5>1. /\ ~InBacklog(d) /\ sock[d].out = <<>> /\ gdb[d].st = "running" /\ Ctl(sock'[d].in)
              /\ Told(d)
          BY <1>7, <2>1, <2>3, <4>2 DEF Fits
        <5>2. Working(d)'
          BY <1>1, <2>1, <3>2, <3>3, <5>1 DEF Working, Told
        <5>. QED BY <1>6, <3>2, <5>1, <5>2 DEF View, Attached
      <4>. QED BY <4>1, <4>2
    <3>5. \A c \in Clients : ~gdb'[c].mixed /\ View(c)'
      BY <1>1, <1>2, <2>1, <3>2, <3>4, StubStep
    <3>6. GdbShape'
      BY <1>1, <1>3, <2>1, <3>2, <3>3 DEF GdbShape
    <3>7. StubInv'
      <4> HIDE DEF p
      <4>. QED BY <1>2, <2>3, <3>2, <3>3, NobodyIsZero DEF GdbInv, StubInv, StopsWhereAsked
    <3>. QED BY <3>5, <3>6, <3>7 DEF GdbInv
  <2>4. CASE p.t \notin {"+", "^C", "c", "s"}
    <3>1. /\ DOMAIN stub' = StubFields /\ stub'.mode = "say" /\ stub'.conn = d
          /\ ~stub'.stepping
          /\ stub'.then \in {"cmd", "detach", "exited"}
          /\ DOMAIN target' = {"pc", "since", "how"}
          /\ target'.pc = IF p.t = "G" THEN p.a ELSE target.pc
          /\ \A st : Fits(st, p) => Owed(st)'
          /\ stub'.say = Stop(5) => p.t = "?"
      BY <1>1, <1>2, <1>3, <1>9, <2>4, ReplyIs
    <3>2. View(d)'
      <4>1. CASE gdb[d].st = "gone"
        BY <1>1, <4>1 DEF View
      <4>2. CASE gdb[d].st # "gone"
        <5>1. /\ ~InBacklog(d) /\ sock[d].out = <<>> /\ Fits(gdb[d].st, p) /\ Ctl(sock'[d].in)
              /\ gdb[d].st # "running" /\ sock'[d].in = <<>>
              /\ IF p.t = "G" THEN gdb[d].pc = p.a ELSE Told(d)
          BY <1>7, <1>9, <2>1, <2>4, <4>2 DEF Fits
        <5>2. Told(d)'
          BY <1>1, <3>1, <5>1 DEF Told
        <5>3. Owed(gdb[d].st)'
          BY <1>1, <3>1, <5>1
        <5>4. Working(d)'
          BY <1>1, <2>1, <3>1, <5>1, <5>2, <5>3 DEF Working
        <5>. QED BY <1>6, <3>1, <5>1, <5>4 DEF View, Attached
      <4>. QED BY <4>1, <4>2
    <3>3. \A c \in Clients : ~gdb'[c].mixed /\ View(c)'
      BY <1>1, <1>2, <2>1, <3>1, <3>2, StubStep
    <3>4. GdbShape'
      BY <1>1, <1>3, <2>1, <3>1 DEF GdbShape
    <3>5. gdb[d].st = "running" => stub'.say # Stop(5)
      <4> SUFFICES ASSUME gdb[d].st = "running" PROVE FALSE
        OBVIOUS
      <4>1. Fits(gdb[d].st, p)
        BY <1>7, <1>9, <2>4
      <4>. QED BY <2>4, <4>1 DEF Fits
    <3>6. StubInv'
      <4> HIDE DEF p
      <4>. QED BY <1>1, <1>2, <3>1, <3>5, NobodyIsZero DEF StubInv, StopsWhereAsked
    <3>. QED BY <3>3, <3>4, <3>6 DEF GdbInv
  <2>. QED BY <2>2, <2>3, <2>4
<1>. QED BY <1>8, <1>9

\* A step of client c leaves the stub, and the other clients, alone.
LEMMA ClientStep ==
  ASSUME GdbInv, UNCHANGED <<stub, target>>, NEW c \in Clients, NEW g, NEW s,
         gdb' = [gdb EXCEPT ![c] = g], sock' = [sock EXCEPT ![c] = s],
         DOMAIN g = {"st", "sent", "breaks", "pc", "mixed"}, ~g.mixed,
         g.st = "running" => gdb[c].st = "running" \/ stub.mode # "say",
         DOMAIN s = {"in", "out"}, s.in \in Seq(Tokens),
         backlog' \in Seq(Clients),
         \A i, j \in 1 .. Len(backlog') : backlog'[i] = backlog'[j] => i = j,
         \A d \in Clients : d # c => (InBacklog(d)' <=> InBacklog(d)),
         View(c)'
  PROVE  GdbInv'
<1>1. /\ DOMAIN gdb' = Clients /\ DOMAIN sock' = Clients /\ gdb'[c] = g /\ sock'[c] = s
      /\ \A d \in Clients : d # c => gdb'[d] = gdb[d] /\ sock'[d] = sock[d]
  BY DEF GdbInv, GdbShape
<1>2. GdbShape'
  BY <1>1 DEF GdbInv, GdbShape
<1>3. StubInv'
  <2>1. stub.mode = "say" /\ gdb'[stub.conn].st = "running" => gdb[stub.conn].st = "running"
    <3>1. stub.mode = "say" => stub.conn \in Clients
      BY DEF GdbInv, StubInv
    <3>. QED BY <1>1, <3>1
  <2>2. StopsWhereAsked'
    BY <2>1 DEF GdbInv, StubInv, StopsWhereAsked
  <2>. QED BY <2>2 DEF GdbInv, StubInv
<1>4. ASSUME NEW d \in Clients PROVE ~gdb'[d].mixed /\ View(d)'
  <2>1. CASE d = c
    BY <1>1, <2>1
  <2>2. CASE d # c
    BY <1>1, <2>2, ClientAlone DEF GdbInv
  <2>. QED BY <2>1, <2>2
<1>. QED BY <1>2, <1>3, <1>4 DEF GdbInv

LEMMA ConnectKeeps == ASSUME GdbInv, NEW c \in Clients, Connect(c) PROVE GdbInv'
<1>1. /\ gdb[c].st = "off" /\ UNCHANGED <<stub, target>>
      /\ gdb' = [gdb EXCEPT ![c].st = "await"] /\ backlog' = Append(backlog, c)
      /\ sock' = [sock EXCEPT ![c].in = Append(@, T("?"))]
  BY DEF Connect, Sends
<1>2. stub.conn # c /\ Off(c) /\ sock[c].out = <<>> /\ gdb[c].pc = 0
  BY <1>1 DEF GdbInv, View, Left, Attached, Working, Waiting, Asked, Paused, Owed, Answers, Pending, Fits, Queued
<1> DEFINE g == [gdb[c] EXCEPT !.st = "await"]
           s == [sock[c] EXCEPT !.in = Append(sock[c].in, T("?"))]
<1>3. /\ gdb' = [gdb EXCEPT ![c] = g] /\ sock' = [sock EXCEPT ![c] = s]
  BY <1>1
<1>4. /\ DOMAIN g = {"st", "sent", "breaks", "pc", "mixed"} /\ g.st = "await" /\ g.pc = 0 /\ ~g.mixed
      /\ DOMAIN s = {"in", "out"} /\ s.in = Append(sock[c].in, T("?")) /\ s.out = <<>>
  BY <1>2 DEF GdbInv, GdbShape
<1> HIDE DEF g, s
<1>5. s.in = <<T("?")>> /\ s.in \in Seq(Tokens)
  <2>1. T("?") \in Tokens
    BY DEF Tokens, Commands
  <2>. QED BY <1>2, <1>4, <2>1 DEF Off
<1>6. backlog \in Seq(Clients) /\ \A i, j \in 1 .. Len(backlog) : backlog[i] = backlog[j] => i = j
  BY DEF GdbInv, GdbShape
<1>7. /\ backlog' \in Seq(Clients) /\ Len(backlog) \in Nat /\ Len(backlog') = Len(backlog) + 1
      /\ \A i \in 1 .. Len(backlog) : backlog'[i] = backlog[i]
      /\ backlog'[Len(backlog) + 1] = c
  BY <1>1, <1>6, LastOf
<1>8. \A i \in 1 .. Len(backlog') : i \in 1 .. Len(backlog) \/ i = Len(backlog) + 1
  BY <1>7
<1>9. \A i \in 1 .. Len(backlog) : backlog[i] # c
  BY <1>2 DEF Off, InBacklog
<1>10. \A i, j \in 1 .. Len(backlog') : backlog'[i] = backlog'[j] => i = j
  BY <1>6, <1>7, <1>8, <1>9
<1>11. InBacklog(c)' /\ \A d \in Clients : d # c => (InBacklog(d)' <=> InBacklog(d))
  <2>1. Len(backlog) + 1 \in 1 .. Len(backlog') /\ \A i \in 1 .. Len(backlog) : i \in 1 .. Len(backlog')
    BY <1>7
  <2>. QED BY <1>7, <1>8, <2>1 DEF InBacklog
<1>12. gdb'[c] = g /\ sock'[c] = s
  BY <1>3 DEF GdbInv, GdbShape
<1>13. View(c)'
  <2>1. Queued(c)'
    BY <1>4, <1>5, <1>11, <1>12 DEF Queued
  <2>. QED BY <1>1, <1>2, <1>4, <1>12, <2>1 DEF View
<1>. QED BY <1>1, <1>3, <1>4, <1>5, <1>7, <1>10, <1>11, <1>13, ClientStep

\* What a step of an accepted client leaves of the queue.
LEMMA QueueKept ==
  ASSUME GdbInv, UNCHANGED backlog
  PROVE  /\ backlog' \in Seq(Clients)
         /\ \A i, j \in 1 .. Len(backlog') : backlog'[i] = backlog'[j] => i = j
         /\ \A d : InBacklog(d)' <=> InBacklog(d)
  BY DEF GdbInv, GdbShape, InBacklog

LEMMA AskKeeps == ASSUME GdbInv, NEW c \in Clients, NEW p \in Commands, Ask(c, p) PROVE GdbInv'
<1> DEFINE st1 == CASE p.t \in {"c", "s"} -> "running"
                    [] p.t \in {"D", "k"} -> "leaving"
                    [] p.t = "g" -> "registers"
                    [] OTHER -> "await"
           pc1 == CASE p.t \in {"c", "s"} -> 0
                    [] p.t = "G" -> p.a
                    [] OTHER -> gdb[c].pc
           g == [gdb[c] EXCEPT !.sent = gdb[c].sent + 1, !.st = st1, !.pc = pc1]
           s == [sock[c] EXCEPT !.in = Append(sock[c].in, p)]
<1>1. /\ gdb[c].st = "stopped" /\ UNCHANGED <<stub, target, backlog>>
      /\ gdb' = [gdb EXCEPT ![c] = g] /\ sock' = [sock EXCEPT ![c] = s]
  BY DEF Ask, Sends
<1>2. stub.conn = c /\ ~InBacklog(c) /\ Paused(c)
  BY <1>1 DEF GdbInv, View, Left, Off, Queued, Attached, Working, Waiting, Asked, Paused, Owed, Answers, Pending, Fits
<1>3. p.t \in {"?", "g", "c", "s", "D", "k", "other", "Z", "z", "G"} /\ p \in Tokens
  BY DEF Commands, Tokens, T
<1>4. Fits(st1, p) /\ (p.t = "G" <=> p.t = "G" /\ pc1 = p.a) /\ (p.t \in {"c", "s"} => pc1 = 0)
      /\ (p.t \notin {"c", "s", "G"} => pc1 = gdb[c].pc) /\ (st1 = "running" => p.t \in {"c", "s"})
  BY <1>3 DEF Fits
<1> HIDE DEF st1, pc1
<1>5. /\ DOMAIN g = {"st", "sent", "breaks", "pc", "mixed"} /\ g.st = st1 /\ g.pc = pc1 /\ ~g.mixed
      /\ DOMAIN s = {"in", "out"} /\ s.in = Append(sock[c].in, p) /\ s.out = sock[c].out
  BY DEF GdbInv, GdbShape
<1> HIDE DEF g, s
<1>6. sock[c].in \in Seq(Tokens) /\ Junk(sock[c].in) /\ sock[c].out = <<>> /\ Told(c)
  BY <1>2 DEF GdbInv, GdbShape, Paused
<1>7. PICK k : /\ Pending(s.in, k, st1) /\ s.in[k] = p /\ k \in 1 .. Len(s.in)
               /\ (k = 1 => sock[c].in = <<>>)
  BY <1>3, <1>4, <1>5, <1>6, PendingNew
<1>8. s.in \in Seq(Tokens)
  BY <1>3, <1>5, <1>6, LastOf
<1>9. gdb'[c] = g /\ sock'[c] = s
  BY <1>1 DEF GdbInv, GdbShape
<1>10. View(c)'
  <2>1. p.t # "G" => Told(c)'
    BY <1>1, <1>4, <1>5, <1>6, <1>9 DEF Told
  <2>2. /\ stub.mode = "cmd" \/ (stub.mode = "ack" /\ stub.then = "cmd")
        /\ k = 1 => stub.mode = "cmd"
    BY <1>2, <1>7 DEF Paused
  <2>3. Asked(c)'
    BY <1>1, <1>4, <1>5, <1>6, <1>7, <1>9, <2>1, <2>2 DEF Asked
  <2>. QED BY <1>1, <1>2, <2>3, QueueKept DEF View, Attached
<1>11. stub.mode # "say"
  BY <1>2 DEF Paused
<1>. QED BY <1>1, <1>5, <1>8, <1>10, <1>11, QueueKept, ClientStep

LEMMA InterruptKeeps == ASSUME GdbInv, NEW c \in Clients, Interrupt(c) PROVE GdbInv'
<1> DEFINE g == [gdb[c] EXCEPT !.breaks = gdb[c].breaks + 1]
           s == [sock[c] EXCEPT !.in = Append(sock[c].in, T("^C"))]
<1>1. /\ gdb[c].st = "running" /\ UNCHANGED <<stub, target, backlog>>
      /\ gdb' = [gdb EXCEPT ![c] = g] /\ sock' = [sock EXCEPT ![c] = s]
  BY DEF Interrupt, Sends
<1>2. stub.conn = c /\ ~InBacklog(c) /\ (Working(c) \/ Waiting(c) \/ Asked(c))
  BY <1>1 DEF GdbInv, View, Left, Off, Queued, Attached, Paused
<1>3. /\ DOMAIN g = {"st", "sent", "breaks", "pc", "mixed"} /\ g.st = "running" /\ g.pc = gdb[c].pc /\ ~g.mixed
      /\ DOMAIN s = {"in", "out"} /\ s.in = Append(sock[c].in, T("^C")) /\ s.out = sock[c].out
  BY <1>1 DEF GdbInv, GdbShape
<1> HIDE DEF g, s
<1>4. sock[c].in \in Seq(Tokens) /\ T("^C") \in Tokens
  BY DEF GdbInv, GdbShape, Tokens
<1>5. s.in \in Seq(Tokens)
  BY <1>3, <1>4, LastOf
<1>6. gdb'[c] = g /\ sock'[c] = s
  BY <1>1 DEF GdbInv, GdbShape
<1>7. (Told(c)' <=> Told(c)) /\ \A st : Owed(st)' <=> Owed(st)
  BY <1>1, <1>3, <1>6 DEF Told, Owed
<1>8. View(c)'
  <2>1. CASE Working(c)
    <3>1. Ctl(s.in)
      BY <1>3, <1>4, <2>1, CtlFacts DEF Working
    <3>2. Working(c)'
      BY <1>1, <1>3, <1>6, <1>7, <2>1, <3>1 DEF Working
    <3>. QED BY <1>1, <1>2, <3>2, QueueKept DEF View, Attached
  <2>2. CASE Waiting(c)
    <3>1. Ctl(s.in)
      BY <1>3, <1>4, <2>2, CtlFacts DEF Waiting
    <3>2. \A r : Answers(gdb[c].st, r)' <=> Answers(gdb[c].st, r)
      BY <1>1, <1>3, <1>6 DEF Answers
    <3>3. Waiting(c)'
      BY <1>1, <1>3, <1>6, <1>7, <2>2, <3>1, <3>2 DEF Waiting
    <3>. QED BY <1>1, <1>2, <3>3, QueueKept DEF View, Attached
  <2>3. CASE Asked(c)
    <3>1. PICK k \in 1 .. Len(sock[c].in) :
            /\ Pending(sock[c].in, k, "running") /\ (k = 1 => stub.mode = "cmd")
            /\ IF sock[c].in[k].t = "G" THEN gdb[c].pc = sock[c].in[k].a ELSE Told(c)
      BY <1>1, <2>3 DEF Asked
    <3>2. Pending(s.in, k, "running") /\ s.in[k] = sock[c].in[k] /\ k \in 1 .. Len(s.in)
      BY <1>3, <1>4, <3>1, PendingMore
    <3>3. /\ Pending(sock'[c].in, k, gdb'[c].st) /\ sock'[c].in[k] = sock[c].in[k]
          /\ k \in 1 .. Len(sock'[c].in) /\ gdb'[c].pc = gdb[c].pc /\ sock'[c].out = sock[c].out
      BY <1>3, <1>6, <3>2
    <3>4. Asked(c)'
      BY <1>1, <1>7, <2>3, <3>1, <3>3 DEF Asked
    <3>. QED BY <1>1, <1>2, <3>4, QueueKept DEF View, Attached
  <2>. QED BY <1>2, <2>1, <2>2, <2>3
<1>. QED BY <1>1, <1>3, <1>5, <1>8, QueueKept, ClientStep

LEMMA ReceiveKeeps == ASSUME GdbInv, NEW c \in Clients, Receive(c) PROVE GdbInv'
<1> DEFINE r == Head(sock[c].out)
           st0 == gdb[c].st
           wrong == (r.t = "regs") # (st0 = "registers") \/ (st0 = "running" /\ r.t # "stop")
           g == [gdb[c] EXCEPT !.st = IF st0 = "leaving" THEN "left" ELSE "stopped",
                               !.pc = IF r.t = "regs" THEN r.pc ELSE gdb[c].pc,
                               !.mixed = gdb[c].mixed \/ wrong]
           s == [in |-> Append(sock[c].in, T("+")), out |-> Tail(sock[c].out)]
<1>1. /\ gdb[c].st \notin {"off", "gone"} /\ sock[c].out # <<>> /\ UNCHANGED <<stub, target, backlog>>
      /\ gdb' = [gdb EXCEPT ![c] = g] /\ sock' = [sock EXCEPT ![c] = s]
  BY DEF Receive
<1>2. stub.conn = c /\ ~InBacklog(c) /\ Waiting(c)
  BY <1>1 DEF GdbInv, View, Left, Attached, Working, Asked, Paused
<1>3. PICK q : sock[c].out = <<q>> /\ Answers(gdb[c].st, q)
  BY <1>2 DEF Waiting
<1>4. r = q /\ s.out = <<>> /\ s.in = Append(sock[c].in, T("+")) /\ DOMAIN s = {"in", "out"}
  BY <1>3
<1>5. ~wrong /\ (r.t = "regs" => r.pc = target.pc)
  BY <1>3, <1>4 DEF Answers
<1> HIDE DEF r, s, wrong
<1>6. /\ DOMAIN g = {"st", "sent", "breaks", "pc", "mixed"} /\ ~g.mixed
      /\ g.st = IF st0 = "leaving" THEN "left" ELSE "stopped"
      /\ g.pc = IF r.t = "regs" THEN r.pc ELSE gdb[c].pc
  BY <1>5 DEF GdbInv, GdbShape
<1> HIDE DEF g
<1>7. sock[c].in \in Seq(Tokens) /\ T("+") \in Tokens /\ Ctl(sock[c].in)
  BY <1>2 DEF GdbInv, GdbShape, Tokens, Waiting
<1>8. s.in \in Seq(Tokens) /\ s.in # <<>> /\ Junk(s.in)
  BY <1>4, <1>7, LastOf, CtlFacts
<1>9. gdb'[c] = g /\ sock'[c] = s
  BY <1>1 DEF GdbInv, GdbShape
<1>10. View(c)'
  <2>1. CASE st0 = "leaving"
    <3>1. Left(c)'
      BY <1>1, <1>2, <1>4, <1>6, <1>9, <2>1, QueueKept DEF Left, Waiting
    <3>. QED BY <3>1 DEF View
  <2>2. CASE st0 # "leaving"
    <3>1. Told(c)'
      BY <1>1, <1>2, <1>5, <1>6, <1>9, <2>2 DEF Told, Waiting
    <3>2. Paused(c)'
      BY <1>1, <1>2, <1>4, <1>6, <1>8, <1>9, <2>2, <3>1 DEF Paused, Waiting
    <3>. QED BY <1>1, <1>2, <3>2, QueueKept DEF View, Attached
  <2>. QED BY <2>1, <2>2
<1>11. g.st # "running"
  BY <1>6
<1>. QED BY <1>1, <1>4, <1>6, <1>8, <1>10, <1>11, QueueKept, ClientStep

LEMMA VanishKeeps == ASSUME GdbInv, NEW c \in Clients, Vanish(c) PROVE GdbInv'
<1> DEFINE g == [gdb[c] EXCEPT !.st = "gone"]
           s == [in |-> Append(sock[c].in, T("eof")), out |-> <<>>]
<1>1. /\ UNCHANGED <<stub, target, backlog>>
      /\ gdb' = [gdb EXCEPT ![c] = g] /\ sock' = [sock EXCEPT ![c] = s]
  BY DEF Vanish
<1>2. /\ DOMAIN g = {"st", "sent", "breaks", "pc", "mixed"} /\ g.st = "gone" /\ ~g.mixed
      /\ DOMAIN s = {"in", "out"} /\ s.in = Append(sock[c].in, T("eof"))
  BY DEF GdbInv, GdbShape
<1> HIDE DEF g, s
<1>3. sock[c].in \in Seq(Tokens) /\ T("eof") \in Tokens
  BY DEF GdbInv, GdbShape, Tokens
<1>4. s.in \in Seq(Tokens)
  BY <1>2, <1>3, LastOf
<1>5. View(c)'
  <2>1. gdb'[c] = g
    BY <1>1 DEF GdbInv, GdbShape
  <2>. QED BY <1>2, <2>1 DEF View
<1>. QED BY <1>1, <1>2, <1>4, <1>5, QueueKept, ClientStep

\* For any program, any number of clients, commands and interrupts, and
\* clients that vanish anywhere: a client that was told the target stopped
\* finds it stopped where it was told; a continued target stops at the
\* breakpoints and nowhere else but for control-C, a step is one instruction;
\* each command gets its own reply (step_hook, command_loop, send_packet).
THEOREM DebuggerIsExact == GdbSpec => []DebuggerExact
<1>1. GdbInv /\ [GdbNext]_gdbVars => GdbInv'
  <2> SUFFICES ASSUME GdbInv, [GdbNext]_gdbVars PROVE GdbInv'
    OBVIOUS
  <2>1. CASE UNCHANGED gdbVars
    <3>1. UNCHANGED <<stub, target, sock, backlog, gdb>>
      BY <2>1 DEF gdbVars
    <3>2. GdbShape' /\ StubInv'
      BY <3>1 DEF GdbInv, GdbShape, StubInv, StopsWhereAsked
    <3>3. ASSUME NEW c \in Clients PROVE ~gdb'[c].mixed /\ View(c)'
      BY <3>1, QueueKept, ClientAlone DEF GdbInv
    <3>. QED BY <3>2, <3>3 DEF GdbInv
  <2>2. ASSUME NEW c \in Clients,
               Connect(c) \/ Interrupt(c) \/ Receive(c) \/ Vanish(c) \/ \E p \in Commands : Ask(c, p)
        PROVE  GdbInv'
    BY <2>2, ConnectKeeps, InterruptKeeps, ReceiveKeeps, VanishKeeps, AskKeeps
  <2>. QED BY <2>1, <2>2, HookFreeKeeps, HookStopsKeeps, HookPollsKeeps, SendPacketKeeps, SendFailsKeeps,
              AcknowledgedKeeps, CommandKeeps, RunTurnKeeps DEF GdbNext
<1>2. GdbInv => DebuggerExact
  <2> SUFFICES ASSUME GdbInv PROVE DebuggerExact
    OBVIOUS
  <2>1. ASSUME NEW c \in Clients, gdb[c].st \in {"stopped", "registers"}
        PROVE  stub.conn = c /\ stub.mode \in {"say", "ack", "cmd"} /\ gdb[c].pc \in {0, target.pc}
    <3>1. stub.conn = c /\ Attached(c)
      BY <2>1 DEF GdbInv, View, Off, Queued, Left
    <3>2. CASE Working(c)
      BY <2>1, <3>1, <3>2 DEF Working, Told
    <3>3. CASE Waiting(c)
      BY <2>1, <3>1, <3>3 DEF Waiting, Told
    <3>4. CASE Paused(c)
      BY <2>1, <3>1, <3>4 DEF Paused, Told
    <3>5. CASE Asked(c)
      BY <2>1, <3>1, <3>5 DEF Asked, Pending, Fits, Told
    <3>. QED BY <3>1, <3>2, <3>3, <3>4, <3>5 DEF Attached
  <2>2. ClientCurrent
    BY <2>1 DEF ClientCurrent
  <2>. QED BY <2>2 DEF GdbInv, StubInv, DebuggerExact
<1>. QED BY <1>1, <1>2, GdbInitially, PTL DEF GdbSpec

-----------------------------------------------------------------------------
(* Lockstep                                                                *)
(*                                                                         *)
(* The inductive invariant follows the client round the handshake.  With d *)
(* instructions compared and found equal, the server is never further than *)
(* the semaphore after instruction d + 1, and each stage of the client     *)
(* fixes both locks, the flag and what is posted.                          *)

\* No difference is visible in the first d instructions.
AgreeTo(d) == \A i \in Instructions : Visible(i) => i > d

Locks(a, b) == shm.lock[0] = a /\ shm.lock[1] = b

\* The server has executed d instructions, or d + 1 and waits for the client.
ServerAt(d) ==
  \/ server.pc \in {"wait", "loop"} /\ server.icnt = d /\ server.stop = "no"
  \/ server.pc = "down" /\ server.icnt = d + 1 /\ server.stop = "no"
  \/ server.pc = "left" /\ server.icnt = d /\ server.stop = "limit"

\* Both have executed d instructions, the last of them differs, and the server
\* has gone.
ServerGone(d) ==
  /\ server.pc = "left" /\ server.stop = "diverged" /\ server.icnt = d
  /\ Visible(d) /\ AgreeTo(d - 1)

AttachCount ==
  (IF server.pc \in {"off", "left"} THEN 0 ELSE 1) + (IF client.pc \in {"off", "left"} THEN 0 ELSE 1)

NotMet ==
  /\ \/ client.pc = "off" /\ client.stop = "no"
     \/ client.pc = "left" /\ client.stop = "no segment"
  /\ client.icnt = 0
  /\ server.pc \in {"off", "clear", "wait"} /\ server.icnt = 0 /\ server.stop = "no"
  /\ server.pc = "wait" => Locks(0, 0) /\ ~shm.diverged

Running ==
  /\ \/ client.pc = "loop" /\ client.stop = "no"
     \/ client.pc = "left" /\ client.stop = "limit"
  /\ Locks(0, 0) /\ ~shm.diverged
  /\ ServerAt(client.icnt) /\ AgreeTo(client.icnt)

Posting ==
  /\ client.pc \in {"post", "up"} /\ client.stop = "no" /\ client.icnt >= 1
  /\ client.pc = "up" => shm.data = Dut(client.icnt)
  /\ Locks(0, 0) /\ ~shm.diverged
  /\ ServerAt(client.icnt - 1) /\ AgreeTo(client.icnt - 1)

Posted ==
  /\ client.pc = "down" /\ client.stop = "no" /\ client.icnt >= 1
  /\ shm.data = Dut(client.icnt)
  /\ Locks(1, 0) /\ ~shm.diverged
  /\ ServerAt(client.icnt - 1) /\ AgreeTo(client.icnt - 1)

Comparing ==
  /\ client.pc = "down" /\ client.stop = "no" /\ client.icnt >= 1
  /\ shm.data = Dut(client.icnt)
  /\ Locks(0, 0)
  /\ server.pc \in {"compare", "up"} /\ server.icnt = client.icnt /\ server.stop = "no"
  /\ server.pc = "compare" => ~shm.diverged
  /\ server.pc = "up" => (server.bad <=> Visible(server.icnt)) /\ (shm.diverged <=> server.bad)
  /\ AgreeTo(client.icnt - 1)

Compared ==
  /\ \/ client.pc = "down" /\ Locks(0, 1)
     \/ client.pc = "read" /\ Locks(0, 0)
  /\ client.stop = "no"
  /\ \/ ~shm.diverged /\ ServerAt(client.icnt) /\ AgreeTo(client.icnt)
     \/ shm.diverged /\ ServerGone(client.icnt)

Ended == client.pc = "left" /\ client.stop = "diverged" /\ ServerGone(client.icnt)

Handshake == NotMet \/ Running \/ Posting \/ Posted \/ Comparing \/ Compared \/ Ended

LockInv ==
  /\ LockTypeOK
  /\ shm.nattch = AttachCount
  /\ client.pc = "off" => ~client.early
  /\ ~client.early => Handshake
-----------------------------------------------------------------------------
(* The records: what each action writes, field by field *)

LEMMA FieldTypes ==
  ASSUME LockTypeOK
  PROVE  /\ shm.nattch \in Int /\ shm.lock \in [{0, 1} -> {0, 1}] /\ shm.diverged \in BOOLEAN
         /\ server.icnt \in Nat /\ client.icnt \in Nat
         /\ server.bad \in BOOLEAN /\ client.early \in BOOLEAN
<1>1. /\ shm.nattch \in Int /\ shm.lock \in [{0, 1} -> {0, 1}] /\ shm.diverged \in BOOLEAN
  BY DEF LockTypeOK, SharedSegment
<1>2. server.icnt \in Nat /\ server.bad \in BOOLEAN
  BY DEF LockTypeOK, Server
<1>3. client.icnt \in Nat /\ client.early \in BOOLEAN
  BY DEF LockTypeOK, Client
<1>. QED
  BY <1>1, <1>2, <1>3

LEMMA DutType ==
  ASSUME LockTypeOK, NEW i \in Nat
  PROVE  Dut(i) \in [icnt : Int, regs : Int, hash : Int]
  BY DEF Dut, NO_HASH

LEMMA ServerAttachFields ==
  ASSUME LockTypeOK, ServerAttach
  PROVE  /\ shm' \in SharedSegment /\ (shm'.exists <=> TRUE) /\ shm'.nattch = shm.nattch + 1
         /\ shm'.lock[0] = shm.lock[0] /\ shm'.lock[1] = shm.lock[1] /\ shm'.data = shm.data
         /\ (shm'.diverged <=> shm.diverged)
         /\ server' \in Server /\ server'.pc = "clear" /\ server'.icnt = server.icnt
         /\ server'.limit = server.limit /\ (server'.bad <=> server.bad)
         /\ server'.stop = server.stop
         /\ client' = client /\ differ' = differ
<1>1. PICK n \in Int : n = shm.nattch + 1
  BY FieldTypes
<1>2. /\ shm' = [shm EXCEPT !.exists = TRUE, !.nattch = n]
      /\ server' = [server EXCEPT !.pc = "clear"]
      /\ UNCHANGED <<client, differ>>
  BY <1>1 DEF ServerAttach
<1>. QED
  BY <1>1, <1>2 DEF LockTypeOK, SharedSegment, Server, Client

LEMMA ServerClearFields ==
  ASSUME LockTypeOK, ServerClear
  PROVE  /\ shm' \in SharedSegment /\ (shm'.exists <=> shm.exists) /\ shm'.nattch = shm.nattch
         /\ shm'.lock[0] = 0 /\ shm'.lock[1] = 0 /\ shm'.data = Zeroed
         /\ (shm'.diverged <=> FALSE)
         /\ server' \in Server /\ server'.pc = "wait" /\ server'.icnt = server.icnt
         /\ server'.limit = server.limit /\ (server'.bad <=> server.bad)
         /\ server'.stop = server.stop
         /\ client' = client /\ differ' = differ
<1>1. Zeroed \in [icnt : Int, regs : Int, hash : Int]
  BY DEF Zeroed
<1>2. PICK l \in [{0, 1} -> {0, 1}] : l = [i \in {0, 1} |-> 0]
  OBVIOUS
<1>3. /\ shm' = [shm EXCEPT !.lock = l, !.data = Zeroed, !.diverged = FALSE]
      /\ server' = [server EXCEPT !.pc = "wait"]
      /\ UNCHANGED <<client, differ>>
  BY <1>2 DEF ServerClear
<1>. QED
  BY <1>1, <1>2, <1>3 DEF LockTypeOK, SharedSegment, Server

LEMMA waitForConnectionFields ==
  ASSUME LockTypeOK, waitForConnection
  PROVE  /\ shm' = shm
         /\ server' \in Server /\ server'.pc = "loop" /\ server'.icnt = server.icnt
         /\ server'.limit = server.limit /\ (server'.bad <=> server.bad)
         /\ server'.stop = server.stop
         /\ client' = client /\ differ' = differ
  BY DEF LockTypeOK, SharedSegment, Server, Client, waitForConnection

LEMMA ServerExecuteFields ==
  ASSUME LockTypeOK, ServerExecute
  PROVE  /\ shm' = shm
         /\ server' \in Server /\ server'.pc = "down" /\ server'.icnt = server.icnt + 1
         /\ server'.limit = server.limit /\ (server'.bad <=> server.bad)
         /\ server'.stop = server.stop
         /\ client' = client /\ differ' = differ
<1>1. PICK n \in Nat : n = server.icnt + 1
  BY FieldTypes
<1>2. server' = [server EXCEPT !.icnt = n, !.pc = "down"] /\ UNCHANGED <<shm, client, differ>>
  BY <1>1 DEF ServerExecute
<1>. QED
  BY <1>1, <1>2 DEF LockTypeOK, SharedSegment, Server, Client

LEMMA ServerLimitFields ==
  ASSUME LockTypeOK, ServerLimit
  PROVE  /\ shm' \in SharedSegment /\ (shm'.exists <=> shm.exists) /\ shm'.nattch = shm.nattch - 1
         /\ shm'.lock[0] = shm.lock[0] /\ shm'.lock[1] = shm.lock[1] /\ shm'.data = shm.data
         /\ (shm'.diverged <=> shm.diverged)
         /\ server' \in Server /\ server'.pc = "left" /\ server'.icnt = server.icnt
         /\ server'.limit = server.limit /\ (server'.bad <=> server.bad)
         /\ server'.stop = "limit"
         /\ client' = client /\ differ' = differ
<1>1. PICK n \in Int : n = shm.nattch - 1
  BY FieldTypes
<1>2. /\ shm' = [shm EXCEPT !.nattch = n]
      /\ server' = [server EXCEPT !.pc = "left", !.stop = "limit"]
      /\ UNCHANGED <<client, differ>>
  BY <1>1 DEF ServerLimit
<1>. QED
  BY <1>1, <1>2 DEF LockTypeOK, SharedSegment, Server, Client

LEMMA ServerDownFields ==
  ASSUME LockTypeOK, ServerDown
  PROVE  /\ shm' \in SharedSegment /\ (shm'.exists <=> shm.exists) /\ shm'.nattch = shm.nattch
         /\ shm'.lock[0] = 0 /\ shm'.lock[1] = shm.lock[1] /\ shm'.data = shm.data
         /\ (shm'.diverged <=> shm.diverged)
         /\ server' \in Server /\ server'.pc = "compare" /\ server'.icnt = server.icnt
         /\ server'.limit = server.limit /\ (server'.bad <=> server.bad)
         /\ server'.stop = server.stop
         /\ client' = client /\ differ' = differ
  BY DEF LockTypeOK, SharedSegment, Server, Client, ServerDown

LEMMA ServerCompareFields ==
  ASSUME LockTypeOK, ServerCompare
  PROVE  /\ shm' \in SharedSegment /\ (shm'.exists <=> shm.exists) /\ shm'.nattch = shm.nattch
         /\ shm'.lock[0] = shm.lock[0] /\ shm'.lock[1] = shm.lock[1] /\ shm'.data = shm.data
         /\ (shm'.diverged <=> (shm.diverged \/ Diverges(Golden(server.icnt), shm.data)))
         /\ server' \in Server /\ server'.pc = "up" /\ server'.icnt = server.icnt
         /\ server'.limit = server.limit
         /\ (server'.bad <=> Diverges(Golden(server.icnt), shm.data))
         /\ server'.stop = server.stop
         /\ client' = client /\ differ' = differ
<1>1. PICK b \in BOOLEAN : b <=> Diverges(Golden(server.icnt), shm.data)
  BY DEF Diverges
<1>2. PICK c \in BOOLEAN : c <=> (shm.diverged \/ b)
  OBVIOUS
<1>3. /\ shm' = [shm EXCEPT !.diverged = c]
      /\ server' = [server EXCEPT !.pc = "up", !.bad = b]
      /\ UNCHANGED <<client, differ>>
  BY <1>1, <1>2 DEF ServerCompare, Diverges, LockTypeOK, SharedSegment
<1>4. /\ shm' \in SharedSegment /\ (shm'.diverged <=> c) /\ (shm'.exists <=> shm.exists)
      /\ shm'.nattch = shm.nattch /\ shm'.lock = shm.lock /\ shm'.data = shm.data
  BY <1>3 DEF LockTypeOK, SharedSegment
<1>5. /\ server' \in Server /\ (server'.bad <=> b) /\ server'.pc = "up"
      /\ server'.icnt = server.icnt /\ server'.limit = server.limit /\ server'.stop = server.stop
  BY <1>3 DEF LockTypeOK, Server
<1>. QED
  BY <1>1, <1>2, <1>3, <1>4, <1>5

LEMMA ServerUpBadFields ==
  ASSUME LockTypeOK, ServerUp, server.bad
  PROVE  /\ shm' \in SharedSegment /\ (shm'.exists <=> shm.exists) /\ shm'.nattch = shm.nattch - 1
         /\ shm'.lock[0] = shm.lock[0] /\ shm'.lock[1] = 1 /\ shm'.data = shm.data
         /\ (shm'.diverged <=> shm.diverged)
         /\ server' \in Server /\ server'.pc = "left" /\ server'.icnt = server.icnt
         /\ server'.limit = server.limit /\ (server'.bad <=> server.bad)
         /\ server'.stop = "diverged"
         /\ client' = client /\ differ' = differ
<1>1. PICK n \in Int : n = shm.nattch - 1
  BY FieldTypes
<1>2. /\ shm' = [shm EXCEPT !.lock[1] = 1, !.nattch = n]
      /\ server' = [server EXCEPT !.pc = "left", !.stop = "diverged"]
      /\ UNCHANGED <<client, differ>>
  BY <1>1 DEF ServerUp
<1>. QED
  BY <1>1, <1>2 DEF LockTypeOK, SharedSegment, Server, Client

LEMMA ServerUpGoodFields ==
  ASSUME LockTypeOK, ServerUp, ~server.bad
  PROVE  /\ shm' \in SharedSegment /\ (shm'.exists <=> shm.exists) /\ shm'.nattch = shm.nattch
         /\ shm'.lock[0] = shm.lock[0] /\ shm'.lock[1] = 1 /\ shm'.data = shm.data
         /\ (shm'.diverged <=> shm.diverged)
         /\ server' \in Server /\ server'.pc = "loop" /\ server'.icnt = server.icnt
         /\ server'.limit = server.limit /\ (server'.bad <=> server.bad)
         /\ server'.stop = server.stop
         /\ client' = client /\ differ' = differ
<1>1. PICK n \in Int : n = shm.nattch
  BY FieldTypes
<1>2. /\ shm' = [shm EXCEPT !.lock[1] = 1, !.nattch = n]
      /\ server' = [server EXCEPT !.pc = "loop", !.stop = server.stop]
      /\ UNCHANGED <<client, differ>>
  BY <1>1 DEF ServerUp
<1>. QED
  BY <1>1, <1>2 DEF LockTypeOK, SharedSegment, Server, Client

LEMMA ClientExecuteFields ==
  ASSUME LockTypeOK, ClientExecute
  PROVE  /\ shm' = shm
         /\ server' = server
         /\ client' \in Client /\ client'.pc = "post" /\ client'.icnt = client.icnt + 1
         /\ client'.limit = client.limit /\ (client'.early <=> client.early)
         /\ client'.stop = client.stop /\ differ' = differ
<1>1. PICK n \in Nat : n = client.icnt + 1
  BY FieldTypes
<1>2. client' = [client EXCEPT !.icnt = n, !.pc = "post"] /\ UNCHANGED <<shm, server, differ>>
  BY <1>1 DEF ClientExecute
<1>. QED
  BY <1>1, <1>2 DEF LockTypeOK, SharedSegment, Server, Client

LEMMA ClientLimitFields ==
  ASSUME LockTypeOK, ClientLimit
  PROVE  /\ shm' \in SharedSegment /\ (shm'.exists <=> shm.exists) /\ shm'.nattch = shm.nattch - 1
         /\ shm'.lock[0] = shm.lock[0] /\ shm'.lock[1] = shm.lock[1] /\ shm'.data = shm.data
         /\ (shm'.diverged <=> shm.diverged)
         /\ server' = server
         /\ client' \in Client /\ client'.pc = "left" /\ client'.icnt = client.icnt
         /\ client'.limit = client.limit /\ (client'.early <=> client.early)
         /\ client'.stop = "limit" /\ differ' = differ
<1>1. PICK n \in Int : n = shm.nattch - 1
  BY FieldTypes
<1>2. /\ shm' = [shm EXCEPT !.nattch = n]
      /\ client' = [client EXCEPT !.pc = "left", !.stop = "limit"]
      /\ UNCHANGED <<server, differ>>
  BY <1>1 DEF ClientLimit
<1>. QED
  BY <1>1, <1>2 DEF LockTypeOK, SharedSegment, Server, Client

LEMMA ClientPostFields ==
  ASSUME LockTypeOK, ClientPost
  PROVE  /\ shm' \in SharedSegment /\ (shm'.exists <=> shm.exists) /\ shm'.nattch = shm.nattch
         /\ shm'.lock[0] = shm.lock[0] /\ shm'.lock[1] = shm.lock[1]
         /\ shm'.data = Dut(client.icnt) /\ (shm'.diverged <=> shm.diverged)
         /\ server' = server
         /\ client' \in Client /\ client'.pc = "up" /\ client'.icnt = client.icnt
         /\ client'.limit = client.limit /\ (client'.early <=> client.early)
         /\ client'.stop = client.stop /\ differ' = differ
  BY DutType DEF LockTypeOK, SharedSegment, Server, Client, ClientPost

LEMMA ClientUpFields ==
  ASSUME LockTypeOK, ClientUp
  PROVE  /\ shm' \in SharedSegment /\ (shm'.exists <=> shm.exists) /\ shm'.nattch = shm.nattch
         /\ shm'.lock[0] = 1 /\ shm'.lock[1] = shm.lock[1] /\ shm'.data = shm.data
         /\ (shm'.diverged <=> shm.diverged)
         /\ server' = server
         /\ client' \in Client /\ client'.pc = "down" /\ client'.icnt = client.icnt
         /\ client'.limit = client.limit /\ (client'.early <=> client.early)
         /\ client'.stop = client.stop /\ differ' = differ
  BY DEF LockTypeOK, SharedSegment, Server, Client, ClientUp

LEMMA ClientDownFields ==
  ASSUME LockTypeOK, ClientDown
  PROVE  /\ shm' \in SharedSegment /\ (shm'.exists <=> shm.exists) /\ shm'.nattch = shm.nattch
         /\ shm'.lock[0] = shm.lock[0] /\ shm'.lock[1] = 0 /\ shm'.data = shm.data
         /\ (shm'.diverged <=> shm.diverged)
         /\ server' = server
         /\ client' \in Client /\ client'.pc = "read" /\ client'.icnt = client.icnt
         /\ client'.limit = client.limit /\ (client'.early <=> client.early)
         /\ client'.stop = client.stop /\ differ' = differ
  BY DEF LockTypeOK, SharedSegment, Server, Client, ClientDown

LEMMA ClientReadBadFields ==
  ASSUME LockTypeOK, ClientRead, shm.diverged
  PROVE  /\ shm' \in SharedSegment /\ (shm'.exists <=> shm.exists) /\ shm'.nattch = shm.nattch - 1
         /\ shm'.lock[0] = shm.lock[0] /\ shm'.lock[1] = shm.lock[1] /\ shm'.data = shm.data
         /\ (shm'.diverged <=> shm.diverged)
         /\ server' = server
         /\ client' \in Client /\ client'.pc = "left" /\ client'.icnt = client.icnt
         /\ client'.limit = client.limit /\ (client'.early <=> client.early)
         /\ client'.stop = "diverged" /\ differ' = differ
<1>1. PICK n \in Int : n = shm.nattch - 1
  BY FieldTypes
<1>2. /\ shm' = [shm EXCEPT !.nattch = n]
      /\ client' = [client EXCEPT !.pc = "left", !.stop = "diverged"]
      /\ UNCHANGED <<server, differ>>
  BY <1>1 DEF ClientRead
<1>. QED
  BY <1>1, <1>2 DEF LockTypeOK, SharedSegment, Server, Client

LEMMA ClientReadGoodFields ==
  ASSUME LockTypeOK, ClientRead, ~shm.diverged
  PROVE  /\ shm' \in SharedSegment /\ (shm'.exists <=> shm.exists) /\ shm'.nattch = shm.nattch
         /\ shm'.lock[0] = shm.lock[0] /\ shm'.lock[1] = shm.lock[1] /\ shm'.data = shm.data
         /\ (shm'.diverged <=> shm.diverged)
         /\ server' = server
         /\ client' \in Client /\ client'.pc = "loop" /\ client'.icnt = client.icnt
         /\ client'.limit = client.limit /\ (client'.early <=> client.early)
         /\ client'.stop = client.stop /\ differ' = differ
<1>1. PICK n \in Int : n = shm.nattch
  BY FieldTypes
<1>2. /\ shm' = [shm EXCEPT !.nattch = n]
      /\ client' = [client EXCEPT !.pc = "loop", !.stop = client.stop]
      /\ UNCHANGED <<server, differ>>
  BY <1>1 DEF ClientRead
<1>. QED
  BY <1>1, <1>2 DEF LockTypeOK, SharedSegment, Server, Client

LEMMA ClientAttachFields ==
  ASSUME LockTypeOK, ClientAttach, shm.exists
  PROVE  /\ shm' \in SharedSegment /\ (shm'.exists <=> shm.exists) /\ shm'.nattch = shm.nattch + 1
         /\ shm'.lock[0] = shm.lock[0] /\ shm'.lock[1] = shm.lock[1] /\ shm'.data = shm.data
         /\ (shm'.diverged <=> shm.diverged)
         /\ server' = server
         /\ client' \in Client /\ client'.pc = "loop" /\ client'.icnt = client.icnt
         /\ client'.limit = client.limit
         /\ (client'.early <=> (server.pc \in {"off", "clear"}))
         /\ client'.stop = client.stop /\ differ' = differ
<1>1. PICK n \in Int : n = shm.nattch + 1
  BY DEF LockTypeOK, SharedSegment
<1>2. PICK b \in BOOLEAN : b <=> (server.pc \in {"off", "clear"})
  OBVIOUS
<1>3. /\ shm' = [shm EXCEPT !.nattch = n]
      /\ client' = [client EXCEPT !.pc = "loop", !.early = b]
      /\ UNCHANGED <<server, differ>>
  BY <1>1, <1>2 DEF ClientAttach
<1>. QED
  BY <1>1, <1>2, <1>3 DEF LockTypeOK, SharedSegment, Client

LEMMA ClientAloneFields ==
  ASSUME LockTypeOK, ClientAttach, ~shm.exists
  PROVE  /\ shm' = shm
         /\ server' = server
         /\ client' \in Client /\ client'.pc = "left" /\ client'.icnt = client.icnt
         /\ client'.limit = client.limit /\ (client'.early <=> client.early)
         /\ client'.stop = "no segment" /\ differ' = differ
  BY DEF LockTypeOK, Client, ClientAttach

-----------------------------------------------------------------------------
(* The invariant *)

\* What the server compares against Dut(i) differs exactly where it is visible.
LEMMA ComparisonExact ==
  ASSUME LockTypeOK, NEW i \in Nat, i >= 1
  PROVE  Diverges(Golden(i), Dut(i)) <=> Visible(i)
<1>1. CASE i \in differ.regs
  BY <1>1 DEF Diverges, Golden, Dut, Visible
<1>2. CASE i \notin differ.regs /\ Hashes(i)
  BY <1>2 DEF Diverges, Golden, Dut, Visible, NO_HASH
<1>3. CASE i \notin differ.regs /\ ~Hashes(i)
  BY <1>3 DEF Diverges, Golden, Dut, Visible, NO_HASH
<1>. QED
  BY <1>1, <1>2, <1>3

LEMMA TypeStep ==
  ASSUME LockTypeOK, [LockNext]_lockVars
  PROVE  LockTypeOK'
<1>. USE DEF LockTypeOK
<1>1. CASE ServerAttach
  BY <1>1, ServerAttachFields
<1>2. CASE ServerClear
  BY <1>2, ServerClearFields
<1>3. CASE waitForConnection
  BY <1>3, waitForConnectionFields
<1>4. CASE ServerExecute
  BY <1>4, ServerExecuteFields
<1>5. CASE ServerLimit
  BY <1>5, ServerLimitFields
<1>6. CASE ServerDown
  BY <1>6, ServerDownFields
<1>7. CASE ServerCompare
  BY <1>7, ServerCompareFields
<1>8. CASE ServerUp
  BY <1>8, ServerUpBadFields, ServerUpGoodFields
<1>9. CASE ClientAttach
  BY <1>9, ClientAttachFields, ClientAloneFields
<1>10. CASE ClientExecute
  BY <1>10, ClientExecuteFields
<1>11. CASE ClientLimit
  BY <1>11, ClientLimitFields
<1>12. CASE ClientPost
  BY <1>12, ClientPostFields
<1>13. CASE ClientUp
  BY <1>13, ClientUpFields
<1>14. CASE ClientDown
  BY <1>14, ClientDownFields
<1>15. CASE ClientRead
  BY <1>15, ClientReadBadFields, ClientReadGoodFields
<1>16. CASE UNCHANGED lockVars
  BY <1>16 DEF lockVars
<1>. QED
  BY <1>1, <1>2, <1>3, <1>4, <1>5, <1>6, <1>7, <1>8, <1>9, <1>10, <1>11, <1>12, <1>13, <1>14,
     <1>15, <1>16 DEF LockNext, ServerNext, ClientNext

LEMMA AttachStep ==
  ASSUME LockTypeOK, shm.nattch = AttachCount, client.pc = "off" => ~client.early, [LockNext]_lockVars
  PROVE  shm'.nattch = AttachCount' /\ (client'.pc = "off" => ~client'.early)
<1>. USE FieldTypes DEF AttachCount
<1>1. CASE ServerAttach
  BY <1>1, ServerAttachFields DEF ServerAttach
<1>2. CASE ServerClear
  BY <1>2, ServerClearFields DEF ServerClear
<1>3. CASE waitForConnection
  BY <1>3, waitForConnectionFields DEF waitForConnection
<1>4. CASE ServerExecute
  BY <1>4, ServerExecuteFields DEF ServerExecute
<1>5. CASE ServerLimit
  BY <1>5, ServerLimitFields DEF ServerLimit
<1>6. CASE ServerDown
  BY <1>6, ServerDownFields DEF ServerDown
<1>7. CASE ServerCompare
  BY <1>7, ServerCompareFields DEF ServerCompare
<1>8. CASE ServerUp
  BY <1>8, ServerUpBadFields, ServerUpGoodFields DEF ServerUp
<1>9. CASE ClientAttach
  <2>1. client.pc = "off"
    BY <1>9 DEF ClientAttach
  <2>2. CASE shm.exists
    BY <1>9, <2>1, <2>2, ClientAttachFields
  <2>3. CASE ~shm.exists
    BY <1>9, <2>1, <2>3, ClientAloneFields
  <2>. QED
    BY <2>2, <2>3
<1>10. CASE ClientExecute
  BY <1>10, ClientExecuteFields DEF ClientExecute
<1>11. CASE ClientLimit
  BY <1>11, ClientLimitFields DEF ClientLimit
<1>12. CASE ClientPost
  BY <1>12, ClientPostFields DEF ClientPost
<1>13. CASE ClientUp
  BY <1>13, ClientUpFields DEF ClientUp
<1>14. CASE ClientDown
  BY <1>14, ClientDownFields DEF ClientDown
<1>15. CASE ClientRead
  BY <1>15, ClientReadBadFields, ClientReadGoodFields DEF ClientRead
<1>16. CASE UNCHANGED lockVars
  BY <1>16 DEF lockVars
<1>. QED
  BY <1>1, <1>2, <1>3, <1>4, <1>5, <1>6, <1>7, <1>8, <1>9, <1>10, <1>11, <1>12, <1>13, <1>14,
     <1>15, <1>16 DEF LockNext, ServerNext, ClientNext

LEMMA HandshakeStutter ==
  ASSUME shm' = shm, server' = server, client' = client, differ' = differ, Handshake
  PROVE  Handshake'
<1>1. (NotMet => NotMet') /\ (Running => Running') /\ (Posting => Posting')
  BY DEF NotMet, Running, Posting, Locks, ServerAt, AgreeTo, Visible, Dut
<1>2. (Posted => Posted') /\ (Comparing => Comparing')
  BY DEF Posted, Comparing, Locks, ServerAt, AgreeTo, Visible, Dut
<1>3. (Compared => Compared') /\ (Ended => Ended')
  BY DEF Compared, Ended, Locks, ServerAt, ServerGone, AgreeTo, Visible
<1>. QED
  BY <1>1, <1>2, <1>3 DEF Handshake

LEMMA HandshakeStep ==
  ASSUME LockInv, [LockNext]_lockVars, ~client'.early
  PROVE  Handshake'
<1>0. LockTypeOK /\ shm.nattch = AttachCount
  BY DEF LockInv
<1>. USE <1>0, FieldTypes DEF Handshake, NotMet, Running, Posting, Posted, Comparing, Compared, Ended,
       Locks, ServerAt, ServerGone, AgreeTo, Visible, Dut
<1>1. CASE ServerAttach
  BY <1>1, ServerAttachFields DEF ServerAttach, LockInv
<1>2. CASE ServerClear
  BY <1>2, ServerClearFields DEF ServerClear, LockInv
<1>3. CASE waitForConnection
  <2>1. server.pc = "wait" /\ client.pc \notin {"off", "left"}
    BY ONLY <1>0, <1>3, FieldTypes DEF waitForConnection, AttachCount
  <2>. QED
    BY <1>3, <2>1, waitForConnectionFields DEF LockInv
<1>4. CASE ServerExecute
  BY <1>4, ServerExecuteFields DEF ServerExecute, LockInv
<1>5. CASE ServerLimit
  BY <1>5, ServerLimitFields DEF ServerLimit, LockInv
<1>6. CASE ServerDown
  BY <1>6, ServerDownFields DEF ServerDown, LockInv
<1>7. CASE ServerCompare
  <2>1. server.pc = "compare"
    BY <1>7 DEF ServerCompare
  <2>2. Comparing /\ shm.data = Dut(server.icnt) /\ server.icnt >= 1
    BY <1>7, <2>1, ServerCompareFields DEF LockInv
  <2>3. Diverges(Golden(server.icnt), shm.data) <=> Visible(server.icnt)
    BY ONLY <1>0, <2>2, FieldTypes, ComparisonExact
  <2>. QED
    BY <1>7, <2>1, <2>2, <2>3, ServerCompareFields
<1>8. CASE ServerUp
  <2>1. server.pc = "up" /\ shm.lock[1] = 0
    BY <1>8 DEF ServerUp
  <2>2. CASE server.bad
    BY <1>8, <2>1, <2>2, ServerUpBadFields DEF LockInv
  <2>3. CASE ~server.bad
    <3>1. Comparing /\ ~Visible(client.icnt)
      BY <1>8, <2>1, <2>3, ServerUpGoodFields DEF LockInv
    <3>2. AgreeTo(client.icnt)
      BY ONLY <1>0, <3>1, FieldTypes, LockstepAssumption DEF Comparing, AgreeTo, Instructions
    <3>. QED
      BY <1>8, <2>1, <2>3, <3>1, <3>2, ServerUpGoodFields
  <2>. QED
    BY <2>2, <2>3
<1>9. CASE ClientAttach
  <2>1. client.pc = "off"
    BY <1>9 DEF ClientAttach
  <2>2. CASE shm.exists
    <3>1. NotMet /\ server.pc = "wait"
      BY <1>9, <2>1, <2>2, ClientAttachFields DEF LockInv
    <3>2. AgreeTo(0)
      BY ONLY LockstepAssumption DEF AgreeTo, Instructions
    <3>. QED
      BY <1>9, <2>1, <2>2, <3>1, <3>2, ClientAttachFields
  <2>3. CASE ~shm.exists
    BY <1>9, <2>1, <2>3, ClientAloneFields DEF LockInv
  <2>. QED
    BY <2>2, <2>3
<1>10. CASE ClientExecute
  BY <1>10, ClientExecuteFields DEF ClientExecute, LockInv
<1>11. CASE ClientLimit
  BY <1>11, ClientLimitFields DEF ClientLimit, LockInv
<1>12. CASE ClientPost
  BY <1>12, ClientPostFields DEF ClientPost, LockInv
<1>13. CASE ClientUp
  BY <1>13, ClientUpFields DEF ClientUp, LockInv
<1>14. CASE ClientDown
  BY <1>14, ClientDownFields DEF ClientDown, LockInv
<1>15. CASE ClientRead
  <2>1. client.pc = "read"
    BY <1>15 DEF ClientRead
  <2>2. CASE shm.diverged
    BY <1>15, <2>1, <2>2, ClientReadBadFields DEF LockInv
  <2>3. CASE ~shm.diverged
    BY <1>15, <2>1, <2>3, ClientReadGoodFields DEF LockInv
  <2>. QED
    BY <2>2, <2>3
<1>16. CASE UNCHANGED lockVars
  BY ONLY <1>16, LockInv, ~client'.early, HandshakeStutter DEF LockInv, lockVars
<1>. QED
  BY <1>1, <1>2, <1>3, <1>4, <1>5, <1>6, <1>7, <1>8, <1>9, <1>10, <1>11, <1>12, <1>13, <1>14,
     <1>15, <1>16 DEF LockNext, ServerNext, ClientNext

LEMMA InvInit == LockInit => LockInv
<1>. SUFFICES ASSUME LockInit PROVE LockInv
  OBVIOUS
<1>0. \A k \in Limits : k \in Nat
  BY LockstepAssumption
<1>1. PICK l \in Limits : server = [pc |-> "off", icnt |-> 0, limit |-> l, bad |-> FALSE, stop |-> "no"]
  BY DEF LockInit
<1>2. PICK m \in Limits : client = [pc |-> "off", icnt |-> 0, limit |-> m, early |-> FALSE, stop |-> "no"]
  BY DEF LockInit
<1>3. server \in Server
  BY <1>0, <1>1 DEF Server
<1>4. client \in Client
  BY <1>0, <1>2 DEF Client
<1>5. shm \in SharedSegment /\ shm.nattch = 0
  <2>1. CASE shm \in Leftover
    <3>1. \A f \in {[k \in {0, 1} |-> 0], [k \in {0, 1} |-> k], [k \in {0, 1} |-> 1 - k]} :
            f \in [{0, 1} -> {0, 1}]
      OBVIOUS
    <3>2. [icnt |-> 1, regs |-> 1, hash |-> NO_HASH] \in [icnt : Int, regs : Int, hash : Int]
      BY DEF NO_HASH
    <3>3. PICK f \in [{0, 1} -> {0, 1}], d \in BOOLEAN :
            shm = [exists |-> TRUE, nattch |-> 0, lock |-> f,
                   data |-> [icnt |-> 1, regs |-> 1, hash |-> NO_HASH], diverged |-> d]
      BY <2>1, <3>1 DEF Leftover
    <3>. QED
      BY <3>2, <3>3 DEF SharedSegment
  <2>2. CASE shm = NoSegment
    BY <2>2 DEF NoSegment, SharedSegment, Zeroed
  <2>. QED
    BY <2>1, <2>2 DEF LockInit
<1>6. LockTypeOK
  BY <1>3, <1>4, <1>5 DEF LockInit, LockTypeOK
<1>7. shm.nattch = AttachCount
  BY <1>1, <1>2, <1>5 DEF AttachCount
<1>8. Handshake
  BY <1>1, <1>2 DEF Handshake, NotMet
<1>. QED
  BY <1>2, <1>6, <1>7, <1>8 DEF LockInv

LEMMA InvStep == LockInv /\ [LockNext]_lockVars => LockInv'
<1>. SUFFICES ASSUME LockInv, [LockNext]_lockVars PROVE LockInv'
  OBVIOUS
<1>1. LockTypeOK'
  BY TypeStep DEF LockInv
<1>2. shm'.nattch = AttachCount' /\ (client'.pc = "off" => ~client'.early)
  BY AttachStep DEF LockInv
<1>3. ~client'.early => Handshake'
  BY HandshakeStep
<1>. QED
  BY <1>1, <1>2, <1>3 DEF LockInv

\* Nobody is past the instruction after the last one that agrees.
LEMMA AgreedBounds ==
  ASSUME LockTypeOK, Handshake, NEW i \in Instructions, Visible(i)
  PROVE  server.icnt <= i /\ client.icnt <= i
<1>1. i \in Nat /\ i >= 1
  BY LockstepAssumption DEF Instructions
<1>2. \A d : AgreeTo(d) => i > d
  BY DEF AgreeTo
<1>3. server.icnt \in Nat /\ client.icnt \in Nat
  BY FieldTypes
<1>4. CASE NotMet
  <2>1. server.icnt = 0 /\ client.icnt = 0
    BY <1>4 DEF NotMet
  <2>. QED
    BY <1>1, <2>1
<1>5. CASE Running
  BY <1>1, <1>2, <1>3, <1>5 DEF Running, ServerAt
<1>6. CASE Posting \/ Posted
  BY <1>1, <1>2, <1>3, <1>6 DEF Posting, Posted, ServerAt
<1>7. CASE Comparing
  BY <1>1, <1>2, <1>3, <1>7 DEF Comparing
<1>8. CASE Compared \/ Ended
  BY <1>1, <1>2, <1>3, <1>8 DEF Compared, Ended, ServerAt, ServerGone
<1>. QED
  BY <1>4, <1>5, <1>6, <1>7, <1>8 DEF Handshake

LEMMA InvExact ==
  ASSUME LockInv
  PROVE  LockstepExact
<1>. SUFFICES ASSUME ~client.early PROVE SameInstruction /\ StopsAtFirst /\ NoMutualWait
  BY DEF LockstepExact
<1>0. LockTypeOK /\ Handshake
  BY DEF LockInv
<1>. USE <1>0, FieldTypes DEF Handshake, NotMet, Running, Posting, Posted, Comparing, Compared, Ended,
       Locks, ServerAt, ServerGone
<1>1. SameInstruction
  BY DEF SameInstruction
<1>2. NoMutualWait
  <2>. SUFFICES ASSUME server.pc = "down", client.pc = "down", Locks(0, 0) PROVE FALSE
    BY DEF NoMutualWait
  <2>. QED
    OBVIOUS
<1>3. ASSUME NEW i \in Instructions, Visible(i)
      PROVE  server.icnt <= i /\ client.icnt <= i
  BY ONLY <1>0, <1>3, AgreedBounds
<1>4. server.stop = "diverged" => Visible(server.icnt)
  OBVIOUS
<1>5. client.stop = "diverged" => Visible(client.icnt) /\ client.icnt = server.icnt
  OBVIOUS
<1>. QED
  BY <1>1, <1>2, <1>3, <1>4, <1>5 DEF StopsAtFirst
-----------------------------------------------------------------------------
\* Types, for every run length and every leftover segment (cosim.cc, shmem.cc).
THEOREM LockstepTypes == LockSpec => []LockTypeOK
<1>1. LockInv => LockTypeOK
  BY DEF LockInv
<1>. QED
  BY InvInit, InvStep, <1>1, PTL DEF LockSpec

\* The barrier of cosim_step(): the server always compares with the state
\* after its own instruction, both stop at the first visible difference and
\* only there, and the two semaphores never deadlock, whatever the programs,
\* the run length and the hashing interval, for every client that attached
\* after shmServer() had cleared the segment.
THEOREM LockstepCorrect == LockSpec => []LockstepExact
  BY InvInit, InvStep, InvExact, PTL DEF LockSpec
=============================================================================
