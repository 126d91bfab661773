------------------------------ MODULE TlbProofs ------------------------------
(***************************************************************************)
(* Tlb, for every TLB and micro-TLB size and every set of addresses and    *)
(* register values: a micro-TLB hit never differs from the search, TLBP    *)
(* finds what faulted, and TLBWR spares the wired entries.                 *)
(***************************************************************************)
EXTENDS Tlb, TLAPS, WellFoundedInduction

\* Random is past the wired entries once a TLBWR has moved it.
RandomSettled ==
  settled /\ reg.wired \in Index => reg.wired <= reg.random

IInv == TypeOK /\ UtlbCoherent /\ FaultProbe /\ RandomSettled

-----------------------------------------------------------------------------
\* A set of entries that is not empty has a lowest one.
LEMMA Least == ASSUME NEW S \in SUBSET Nat, S # {} PROVE \E i \in S : \A j \in S : i <= j
  <1> DEFINE R == OpToRel(<, Nat)
  <1>1. IsWellFoundedOn(R, Nat)
    BY NatLessThanWellFounded, Zenon
  <1>2. \A x, y \in Nat : y < x => <<y, x>> \in R
    BY DEF OpToRel
  <1> HIDE DEF R
  <1>3. PICK x \in S : \A y \in S : ~ (<<y, x>> \in R)
    BY <1>1, WFMin, Zenon
  <1>4. \A j \in S : ~ (j < x)
    BY <1>2, <1>3, Zenon
  <1> QED BY <1>4

\* The search's choice is one of the matches.
LEMMA FirstIn == ASSUME NEW S \in SUBSET Index, S # {} PROVE First(S) \in S
  <1>1. S \in SUBSET Nat
    BY SizeAssumption DEF Index
  <1>2. \E i \in S : \A j \in S : i <= j
    BY <1>1, Least
  <1> QED BY <1>2 DEF First

\* The fields of a well-typed state that the steps below use.
LEMMA TypeFacts ==
  ASSUME TypeOK
  PROVE  /\ \A i \in Index : tlb[i] \in Entry
         /\ reg.hi \in Hi /\ reg.lo0 \in Lo /\ reg.lo1 \in Lo /\ reg.pair \in Pairs
         /\ reg.hi.asid \in Nat
         /\ reg.random \in 0 .. IndexMax /\ reg.wired \in 0 .. IndexMax
  BY AddressAssumption DEF TypeOK, Reg, EntryHi

\* An address has a page number, an entry one of the seven page sizes.
LEMMA PageType == ASSUME NEW va \in VA PROVE va.page \in Nat
  <1>1. va \in Address
    BY AddressAssumption
  <1> QED BY <1>1 DEF Address

\* An entry has one of the legal page sizes.
LEMMA PairType ==
  ASSUME NEW e \in Entry PROVE e.pair \in valid_page_mask
  <1>1. e.pair \in Pairs
    BY DEF Entry
  <1>2. Pairs \subseteq valid_page_mask
    BY AddressAssumption
  <1> QED BY <1>1, <1>2

\* The half an entry selects is an EntryLo value, and its frame a pair of numbers.
LEMMA HalfType ==
  ASSUME NEW e \in Entry, NEW va \in VA
  PROVE  e_lo(e, va) \in Lo /\ e_lo(e, va) \in EntryLo /\ Frame(e, va) \in Nat \X Nat
  <1>1. e_lo(e, va) \in Lo
    BY DEF e_lo, Entry
  <1>2. e_lo(e, va) \in EntryLo
    BY <1>1, AddressAssumption
  <1>3. va.page \in Nat /\ e.pair \in valid_page_mask
    BY PageType, PairType
  <1>4. va.page % (e.pair \div 2) \in Nat
    <2>1. e.pair \div 2 \in Nat \ {0}
      BY <1>3 DEF valid_page_mask
    <2> QED BY <1>3, <2>1
  <1> QED BY <1>1, <1>2, <1>4 DEF Frame, EntryLo

\* Every address has a micro-TLB slot.
LEMMA SlotType == ASSUME NEW va \in VA PROVE Slot(va) \in 0 .. UTLB_SZ - 1
  BY SizeAssumption, AddressAssumption DEF Slot, Address

\* A search that finds a valid page leaves a well-typed micro-TLB entry.
LEMMA CamEntryType ==
  ASSUME TypeOK, NEW va \in VA, NEW asid \in Nat, Hits(va, asid) # {}
  PROVE  CamEntry(va, asid) \in Utlb
  <1> DEFINE i == First(Hits(va, asid))
  <1>1. i \in Index
    BY FirstIn DEF Hits
  <1>2. tlb[i] \in Entry
    BY <1>1, TypeFacts
  <1>3. e_lo(tlb[i], va) \in EntryLo /\ Frame(tlb[i], va) \in Nat \X Nat
    BY <1>2, HalfType
  <1>4. e_lo(tlb[i], va).d \in BOOLEAN /\ e_lo(tlb[i], va).c \in BOOLEAN
    BY <1>3 DEF EntryLo
  <1> HIDE DEF i
  <1> QED BY <1>3, <1>4 DEF CamEntry, Utlb, i

\* A fault names an entry.
LEMMA CamFault ==
  ASSUME TypeOK, NEW va \in VA, NEW asid, NEW op
  PROVE  LET a == Cam(va, asid, op) IN
         /\ [kind |-> a.kind, at |-> a.at] \in Fault
         /\ a.kind = "refill" <=> Hits(va, asid) = {}
         /\ a.kind \in {"invalid", "modified"} => a.at = First(Hits(va, asid))
         /\ a.kind = "none" => e_lo(tlb[First(Hits(va, asid))], va).v
         /\ a.kind \in {"none", "refill", "invalid", "modified"}
  <1>1. Hits(va, asid) # {} => First(Hits(va, asid)) \in Index
    BY FirstIn DEF Hits
  <1>2. 0 \in Index
    BY SizeAssumption DEF Index
  <1> QED BY <1>1, <1>2 DEF Cam, Answer, Fault

\* Both pages of a 4 KB pair are in the same larger pair.
LEMMA HalvesOfPairs ==
  ASSUME NEW p \in Nat, NEW q \in valid_page_mask
  PROVE  (2 * (p \div 2)) \div q = p \div q
  <1> DEFINE h == p \div 2
  <1>1. h \in Nat /\ (p = 2 * h \/ p = 2 * h + 1)
    OBVIOUS
  <1> HIDE DEF h
  <1>2. CASE q = 2 BY <1>1, <1>2
  <1>3. CASE q = 8 BY <1>1, <1>3
  <1>4. CASE q = 32 BY <1>1, <1>4
  <1>5. CASE q = 128 BY <1>1, <1>5
  <1>6. CASE q = 512 BY <1>1, <1>6
  <1>7. CASE q = 2048 BY <1>1, <1>7
  <1>8. CASE q = 8192 BY <1>1, <1>8
  <1> QED BY <1>2, <1>3, <1>4, <1>5, <1>6, <1>7, <1>8 DEF h, valid_page_mask

\* TLBP on the EntryHi of a faulting address searches as the translation did.
LEMMA SameMatch ==
  ASSUME NEW e \in Entry, NEW va \in VA, NEW asid
  PROVE  Match(e, va, asid) <=>
           ProbeMatch(e, [r |-> va.r, top |-> va.top, vpn2 |-> va.page \div 2, asid |-> asid])
  <1>1. va.page \in Nat /\ e.pair \in valid_page_mask
    BY PageType, PairType
  <1>2. (2 * (va.page \div 2)) \div e.pair = va.page \div e.pair
    BY <1>1, HalvesOfPairs
  <1> QED BY <1>2 DEF Match, ProbeMatch

\* TLBP, with EntryHi as a fault on va leaves it, finds what the search found.
LEMMA SameHits ==
  ASSUME TypeOK, NEW va \in VA
  PROVE  Probed(FaultHi(va)) = Hits(va, reg.hi.asid)
  <1>1. \A i \in Index : tlb[i] \in Entry
    BY TypeFacts
  <1>2. \A i \in Index : Match(tlb[i], va, reg.hi.asid) <=> ProbeMatch(tlb[i], FaultHi(va))
    BY <1>1, SameMatch DEF FaultHi
  <1> QED BY <1>2 DEF Probed, Hits

-----------------------------------------------------------------------------
\* With no TLB entry changed, the search answers as before.
LEMMA SearchKept ==
  ASSUME tlb' = tlb
  PROVE  /\ \A va, asid : Hits(va, asid)' = Hits(va, asid)
         /\ \A va, asid : CamEntry(va, asid)' = CamEntry(va, asid)
         /\ \A hi : Probed(hi)' = Probed(hi)
  BY DEF Hits, CamEntry, Probed, Match, ProbeMatch, global, e_lo, Frame, First

\* A micro-TLB entry stays coherent while the TLB does not change.
LEMMA EntryKept ==
  ASSUME tlb' = tlb, NEW n, utlb'[n] = utlb[n], Coherent(utlb[n], n)
  PROVE  Coherent(utlb[n], n)'
  <1>1. PICK ce : ce = utlb[n]
    OBVIOUS
  <1>2. Coherent(ce, n)
    BY <1>1
  <1>3. Coherent(ce, n)'
    <2>1. Hits(ce.va, ce.asid)' = Hits(ce.va, ce.asid)
      BY SearchKept
    <2>2. CamEntry(ce.va, ce.asid)' = CamEntry(ce.va, ce.asid)
      BY SearchKept
    <2> QED BY <1>2, <2>1, <2>2 DEF Coherent, First
  <1>4. ce = utlb'[n]
    BY <1>1
  <1> QED BY <1>3, <1>4 DEF Coherent

\* So does the whole micro-TLB.
LEMMA CoherentKept ==
  ASSUME UtlbCoherent, tlb' = tlb, utlb' = utlb
  PROVE  UtlbCoherent'
  BY EntryKept DEF UtlbCoherent

\* A flushed micro-TLB is well-typed.
LEMMA FlushType == [n \in 0 .. UTLB_SZ - 1 |-> NoEntry] \in [0 .. UTLB_SZ - 1 -> Utlb]
  <1>1. (CHOOSE va \in VA : TRUE) \in VA
    BY AddressAssumption
  <1>2. NoEntry \in Utlb
    BY <1>1 DEF NoEntry, Utlb, Nowhere
  <1> QED BY <1>2

\* A flushed micro-TLB is coherent whatever the TLB holds.
LEMMA FlushCoherent == ASSUME utlb_flush PROVE UtlbCoherent'
  <1>1. \A n \in 0 .. UTLB_SZ - 1 : utlb'[n].valid = FALSE
    BY DEF utlb_flush, NoEntry
  <1> QED BY <1>1 DEF UtlbCoherent, Coherent

\* The registers are one value of each field.
LEMMA RegFields ==
  ASSUME reg \in Reg
  PROVE  /\ \A h \in Hi : [reg EXCEPT !.hi = h] \in Reg
         /\ \A x \in Lo : [reg EXCEPT !.lo0 = x] \in Reg /\ [reg EXCEPT !.lo1 = x] \in Reg
         /\ \A q \in Pairs : [reg EXCEPT !.pair = q] \in Reg
         /\ \A i \in 0 .. IndexMax :
              [reg EXCEPT !.random = i] \in Reg /\ [reg EXCEPT !.wired = i] \in Reg
  <1>1. \A h \in Hi : [reg EXCEPT !.hi = h] \in Reg
    BY DEF Reg
  <1>2. \A x \in Lo : [reg EXCEPT !.lo0 = x] \in Reg /\ [reg EXCEPT !.lo1 = x] \in Reg
    BY DEF Reg
  <1>3. \A q \in Pairs : [reg EXCEPT !.pair = q] \in Reg
    BY DEF Reg
  <1>4. \A i \in 0 .. IndexMax :
              [reg EXCEPT !.random = i] \in Reg /\ [reg EXCEPT !.wired = i] \in Reg
    BY DEF Reg
  <1> QED BY <1>1, <1>2, <1>3, <1>4

-----------------------------------------------------------------------------
\* The invariant holds at reset.
LEMMA InitIInv == Init => IInv
  <1> SUFFICES ASSUME Init PROVE IInv
    OBVIOUS
  <1>1. tlb \in [Index -> Entry]
    BY ResetAssumption DEF Init, Entry
  <1>2. reg \in Reg
    BY SizeAssumption, ResetAssumption DEF Init, Reg
  <1>3. utlb \in [0 .. UTLB_SZ - 1 -> Utlb]
    BY FlushType DEF Init
  <1>4. fault \in Fault /\ settled \in BOOLEAN
    BY SizeAssumption DEF Init, Fault, NoFault, Index
  <1>5. UtlbCoherent
    <2>1. \A n \in 0 .. UTLB_SZ - 1 : utlb[n].valid = FALSE
      BY DEF Init, NoEntry
    <2> QED BY <2>1 DEF UtlbCoherent, Coherent
  <1>6. FaultProbe
    BY DEF Init, NoFault, FaultProbe
  <1>7. RandomSettled
    BY SizeAssumption DEF Init, RandomSettled, Index
  <1> QED BY <1>1, <1>2, <1>3, <1>4, <1>5, <1>6, <1>7 DEF IInv, TypeOK

\* A search fills one slot with its own answer, or leaves the faulting pair in
\* EntryHi for TLBP to find.
LEMMA TranslateStep ==
  ASSUME IInv, NEW va \in VA, NEW op \in Ops, va_translate(va, op)
  PROVE  IInv'
  <1> USE DEF IInv
  <1> DEFINE asid == reg.hi.asid
             a == Cam(va, asid, op)
  <1>1. /\ va \notin KSEG /\ tlb' = tlb /\ settled' = settled
        /\ Translated(va, op) = a
    BY DEF va_translate, Translated
  <1>2. asid \in Nat
    BY TypeFacts
  <1>3. Slot(va) \in 0 .. UTLB_SZ - 1
    BY SlotType
  <1>4. CASE /\ a.kind = "none"
             /\ utlb' = [utlb EXCEPT ![Slot(va)] = CamEntry(va, asid)]
             /\ UNCHANGED <<reg, fault>>
    <2>1. Hits(va, asid) # {} /\ e_lo(tlb[First(Hits(va, asid))], va).v
      BY <1>4, CamFault
    <2>2. CamEntry(va, asid) \in Utlb
      BY <1>2, <2>1, CamEntryType
    <2>3. TypeOK'
      <3>1. utlb' \in [0 .. UTLB_SZ - 1 -> Utlb]
        BY <1>4, <2>2 DEF TypeOK
      <3> QED BY <1>1, <1>4, <3>1 DEF TypeOK
    <2>4. UtlbCoherent'
      <3> SUFFICES ASSUME NEW n \in 0 .. UTLB_SZ - 1 PROVE Coherent(utlb[n], n)'
        BY DEF UtlbCoherent
      <3>1. CASE n = Slot(va)
        <4>1. utlb'[n] = CamEntry(va, asid)
          BY <1>3, <1>4, <3>1 DEF TypeOK
        <4>2. PICK k : k = asid
          OBVIOUS
        <4>3. utlb'[n] = CamEntry(va, k) /\ utlb'[n].va = va /\ utlb'[n].asid = k
          BY <4>1, <4>2 DEF CamEntry
        <4>4. Hits(va, k)' = Hits(va, k) /\ CamEntry(va, k)' = CamEntry(va, k)
          BY <1>1, SearchKept
        <4>5. Hits(va, k)' # {} /\ e_lo(tlb[First(Hits(va, k))], va)'.v
          BY <1>1, <2>1, <4>2, <4>4 DEF First
        <4>6. PICK ce : ce = utlb'[n]
          OBVIOUS
        <4>7. Coherent(ce, n)'
          BY <1>1, <3>1, <4>3, <4>4, <4>5, <4>6 DEF Coherent
        <4> QED BY <4>6, <4>7 DEF Coherent
      <3>2. CASE n # Slot(va)
        <4>1. utlb'[n] = utlb[n]
          BY <1>4, <3>2 DEF TypeOK
        <4> QED BY <1>1, <4>1, EntryKept DEF UtlbCoherent
      <3> QED BY <3>1, <3>2
    <2>5. FaultProbe' /\ RandomSettled'
      BY <1>1, <1>4, SearchKept DEF FaultProbe, RandomSettled
    <2> QED BY <2>3, <2>4, <2>5
  <1>5. CASE /\ a.kind # "none"
             /\ reg' = [reg EXCEPT !.hi = FaultHi(va)]
             /\ fault' = [kind |-> a.kind, at |-> a.at]
             /\ UNCHANGED utlb
    <2>1. FaultHi(va) \in Hi
      BY <1>1, WriteAssumption, TypeFacts DEF FaultHi
    <2>2. reg' \in Reg
      BY <1>5, <2>1, RegFields DEF TypeOK
    <2>3. fault' \in Fault
      BY <1>5, CamFault
    <2>4. TypeOK'
      BY <1>1, <1>5, <2>2, <2>3 DEF TypeOK
    <2>5. UtlbCoherent'
      BY <1>1, <1>5, CoherentKept
    <2>6. reg'.hi = FaultHi(va) /\ reg'.random = reg.random /\ reg'.wired = reg.wired
      BY <1>5 DEF TypeOK, Reg
    <2>7. Probed(reg.hi)' = Hits(va, asid)
      BY <1>1, <2>6, SameHits, SearchKept
    <2>8. FaultProbe'
      <3>1. fault'.kind = a.kind /\ fault'.at = a.at
        BY <1>5
      <3>2. a.kind = "refill" => Hits(va, asid) = {}
        BY CamFault
      <3>3. a.kind \in {"invalid", "modified"} =>
              a.at = First(Hits(va, asid)) /\ Hits(va, asid) # {}
        BY CamFault
      <3> QED BY <2>7, <3>1, <3>2, <3>3 DEF FaultProbe
    <2>9. RandomSettled'
      BY <1>1, <2>6 DEF RandomSettled
    <2> QED BY <2>4, <2>5, <2>8, <2>9
  <1> QED BY <1>1, <1>4, <1>5 DEF va_translate

\* A write of the TLB puts staged registers in an entry and flushes.
LEMMA TlbWriteType ==
  ASSUME TypeOK, NEW i, TlbWrite(i)
  PROVE  tlb' \in [Index -> Entry]
  <1>1. Staged \in Entry
    BY TypeFacts DEF Staged, Entry
  <1> QED BY <1>1 DEF TlbWrite, TypeOK

\* TLBWI and TLBWR: every micro-TLB entry goes with the entry it came from.
LEMMA WriteStep ==
  ASSUME IInv, TLBWI \/ TLBWR
  PROVE  IInv'
  <1> USE DEF IInv
  <1>1. utlb_flush /\ fault' = NoFault
    BY DEF TLBWI, TLBWR
  <1>2. tlb' \in [Index -> Entry]
    BY TlbWriteType DEF TLBWI, TLBWR
  <1>3. utlb' \in [0 .. UTLB_SZ - 1 -> Utlb]
    BY <1>1, FlushType DEF utlb_flush
  <1>4. fault' \in Fault
    BY <1>1, SizeAssumption DEF Fault, NoFault, Index
  <1>5. UtlbCoherent'
    BY <1>1, FlushCoherent
  <1>6. FaultProbe'
    BY <1>1 DEF FaultProbe, NoFault
  <1>7. CASE TLBWI
    <2>1. reg' = reg /\ settled' = settled
      BY <1>7 DEF TLBWI
    <2>2. TypeOK' /\ RandomSettled'
      BY <1>2, <1>3, <1>4, <2>1 DEF TypeOK, RandomSettled
    <2> QED BY <1>5, <1>6, <2>2
  <1>8. CASE TLBWR
    <2> DEFINE r == IF reg.random <= reg.wired THEN NUM_TLB_ENTRIES - 1 ELSE reg.random - 1
    <2>1. reg' = [reg EXCEPT !.random = r] /\ settled' = TRUE
      BY <1>8 DEF TLBWR
    <2>2. r \in 0 .. IndexMax
      BY TypeFacts, SizeAssumption
    <2>3. reg' \in Reg
      BY <2>1, <2>2, RegFields DEF TypeOK
    <2>4. TypeOK'
      BY <1>2, <1>3, <1>4, <2>1, <2>3 DEF TypeOK
    <2>5. reg'.random = r /\ reg'.wired = reg.wired
      BY <2>1 DEF TypeOK, Reg
    <2>6. reg.wired \in Index => reg.wired <= r
      BY TypeFacts, SizeAssumption DEF Index
    <2>7. RandomSettled'
      BY <2>5, <2>6 DEF RandomSettled
    <2> QED BY <1>5, <1>6, <2>4, <2>7
  <1> QED BY <1>7, <1>8

\* The other instructions change registers only.
LEMMA RegStep ==
  ASSUME IInv, TLBR \/ TLBP \/ Mtc0
  PROVE  IInv'
  <1> USE DEF IInv
  <1>1. tlb' = tlb /\ utlb' = utlb
    BY DEF TLBR, TLBP, Mtc0
  <1>2. UtlbCoherent'
    BY <1>1, CoherentKept
  <1>3. NoFault \in Fault
    BY SizeAssumption DEF Fault, NoFault, Index
  <1>4. ASSUME reg' \in Reg, fault' \in {fault, NoFault}, settled' \in {settled, FALSE},
               settled' => reg'.random = reg.random /\ reg'.wired = reg.wired,
               fault' = fault => reg'.hi = reg.hi \/ fault = NoFault
        PROVE  IInv'
    <2>1. TypeOK'
      BY <1>1, <1>3, <1>4 DEF TypeOK
    <2>2. FaultProbe'
      <3>1. CASE fault' = NoFault
        BY <3>1 DEF FaultProbe, NoFault
      <3>2. CASE fault' = fault /\ reg'.hi = reg.hi
        BY <1>1, <3>2, SearchKept DEF FaultProbe
      <3> QED BY <1>4, <3>1, <3>2
    <2>3. RandomSettled'
      BY <1>4 DEF RandomSettled, TypeOK
    <2> QED BY <1>2, <2>1, <2>2, <2>3
  <1>5. CASE TLBR
    <2> DEFINE e == tlb[reg.index]
               new == [reg EXCEPT !.hi = e.hi, !.lo0 = e.lo0, !.lo1 = e.lo1, !.pair = e.pair]
    <2>1. reg' = new /\ fault' = NoFault /\ settled' = settled /\ e \in Entry
      BY <1>5, TypeFacts DEF TLBR
    <2>2. new \in Reg /\ new.random = reg.random /\ new.wired = reg.wired
      BY <2>1 DEF TypeOK, Reg, Entry
    <2> HIDE DEF new
    <2>3. fault' = fault => fault = NoFault
      BY <2>1
    <2> QED BY <1>4, <2>1, <2>2, <2>3
  <1>6. CASE TLBP
    <2>1. fault' = fault /\ settled' = settled
      BY <1>6 DEF TLBP
    <2>2. reg' \in Reg /\ reg'.hi = reg.hi /\ reg'.random = reg.random /\ reg'.wired = reg.wired
      <3>1. CASE Probed(reg.hi) = {}
        BY <1>6, <3>1 DEF TLBP, TypeOK, Reg
      <3>2. CASE Probed(reg.hi) # {}
        <4> DEFINE i == First(Probed(reg.hi))
        <4>1. i \in Index
          BY <3>2, FirstIn DEF Probed
        <4>2. i \in 0 .. IndexMax
          BY <4>1, SizeAssumption DEF Index
        <4>3. reg' = [reg EXCEPT !.p = FALSE, !.index = i]
          BY <1>6, <3>2 DEF TLBP
        <4> HIDE DEF i
        <4> QED BY <4>2, <4>3 DEF TypeOK, Reg
      <3> QED BY <3>1, <3>2
    <2> QED BY <1>4, <2>1, <2>2
  <1>7. CASE Mtc0
    <2> USE <1>7 DEF Mtc0, mtc0
    <2>1. CASE \E h \in HiWrites :
                 reg' = [reg EXCEPT !.hi = h] /\ fault' = NoFault /\ UNCHANGED settled
      <3>1. PICK h \in HiWrites :
                 reg' = [reg EXCEPT !.hi = h] /\ fault' = NoFault /\ UNCHANGED settled
        BY <2>1
      <3>2. reg' \in Reg /\ reg'.random = reg.random /\ reg'.wired = reg.wired
        BY <3>1, WriteAssumption, RegFields DEF TypeOK, Reg
      <3> QED BY <1>4, <3>1, <3>2
    <2>2. CASE \E x \in Lo0Writes : reg' = [reg EXCEPT !.lo0 = x] /\ UNCHANGED <<fault, settled>>
      <3>1. PICK x \in Lo0Writes : reg' = [reg EXCEPT !.lo0 = x] /\ UNCHANGED <<fault, settled>>
        BY <2>2
      <3>2. reg' \in Reg /\ reg'.hi = reg.hi /\ reg'.random = reg.random /\ reg'.wired = reg.wired
        BY <3>1, WriteAssumption, RegFields DEF TypeOK, Reg
      <3> QED BY <1>4, <3>1, <3>2
    <2>3. CASE \E x \in Lo1Writes : reg' = [reg EXCEPT !.lo1 = x] /\ UNCHANGED <<fault, settled>>
      <3>1. PICK x \in Lo1Writes : reg' = [reg EXCEPT !.lo1 = x] /\ UNCHANGED <<fault, settled>>
        BY <2>3
      <3>2. reg' \in Reg /\ reg'.hi = reg.hi /\ reg'.random = reg.random /\ reg'.wired = reg.wired
        BY <3>1, WriteAssumption, RegFields DEF TypeOK, Reg
      <3> QED BY <1>4, <3>1, <3>2
    <2>4. CASE \E q \in PairWrites : reg' = [reg EXCEPT !.pair = q] /\ UNCHANGED <<fault, settled>>
      <3>1. PICK q \in PairWrites : reg' = [reg EXCEPT !.pair = q] /\ UNCHANGED <<fault, settled>>
        BY <2>4
      <3>2. reg' \in Reg /\ reg'.hi = reg.hi /\ reg'.random = reg.random /\ reg'.wired = reg.wired
        BY <3>1, WriteAssumption, RegFields DEF TypeOK, Reg
      <3> QED BY <1>4, <3>1, <3>2
    <2>5. CASE \E w \in IndexWrites :
                 reg' = [reg EXCEPT !.index = w[1], !.p = w[2]] /\ UNCHANGED <<fault, settled>>
      <3>1. PICK w \in IndexWrites :
                 reg' = [reg EXCEPT !.index = w[1], !.p = w[2]] /\ UNCHANGED <<fault, settled>>
        BY <2>5
      <3>2. w[1] \in 0 .. IndexMax /\ w[2] \in BOOLEAN
        BY WriteAssumption
      <3>3. reg' \in Reg /\ reg'.hi = reg.hi /\ reg'.random = reg.random /\ reg'.wired = reg.wired
        BY <3>1, <3>2 DEF TypeOK, Reg
      <3> QED BY <1>4, <3>1, <3>3
    <2>6. CASE \/ \E i \in RandomWrites :
                    reg' = [reg EXCEPT !.random = i] /\ settled' = FALSE /\ UNCHANGED fault
               \/ \E i \in WiredWrites :
                    reg' = [reg EXCEPT !.wired = i] /\ settled' = FALSE /\ UNCHANGED fault
      <3>1. settled' = FALSE /\ fault' = fault
        BY <2>6
      <3>2. reg' \in Reg /\ reg'.hi = reg.hi
        BY <2>6, WriteAssumption, RegFields DEF TypeOK, Reg
      <3> QED BY <1>4, <3>1, <3>2
    <2> QED BY <2>1, <2>2, <2>3, <2>4, <2>5, <2>6
  <1> QED BY <1>5, <1>6, <1>7

-----------------------------------------------------------------------------
\* Every step keeps the invariant.
LEMMA NextIInv == IInv /\ [Next]_vars => IInv'
  <1> SUFFICES ASSUME IInv, [Next]_vars PROVE IInv'
    OBVIOUS
  <1>1. CASE \E va \in VA, op \in Ops : va_translate(va, op)
    BY <1>1, TranslateStep
  <1>2. CASE TLBWI \/ TLBWR
    BY <1>2, WriteStep
  <1>3. CASE TLBR \/ TLBP \/ Mtc0
    BY <1>3, RegStep
  <1>4. CASE UNCHANGED vars
    <2>1. tlb' = tlb /\ utlb' = utlb /\ reg' = reg /\ fault' = fault /\ settled' = settled
      BY <1>4 DEF vars
    <2>2. UtlbCoherent' /\ FaultProbe'
      BY <2>1, CoherentKept, SearchKept DEF IInv, FaultProbe
    <2> QED BY <2>1, <2>2 DEF IInv, TypeOK, RandomSettled
  <1> QED BY <1>1, <1>2, <1>3, <1>4 DEF Next

\* The inductive invariant holds in every behaviour of the translation.
THEOREM Inductive == Spec => []IInv
  BY InitIInv, NextIInv, PTL DEF Spec

\* The micro-TLB holds only what the search over the architectural entries would
\* leave there: its flush on TLBWI and TLBWR, and only there, is enough.
THEOREM MicroTlbCoherent == Spec => []UtlbCoherent
  <1>1. IInv => UtlbCoherent
    BY DEF IInv
  <1> QED BY <1>1, Inductive, PTL

\* A TLB handler's TLBP agrees with the translation that faulted.
THEOREM HandlerProbe == Spec => []FaultProbe
  <1>1. IInv => FaultProbe
    BY DEF IInv
  <1> QED BY <1>1, Inductive, PTL

\* A coherent micro-TLB never changes an answer.
LEMMA ExactInv == IInv => TranslateExact
  <1> SUFFICES ASSUME IInv, NEW va \in VA \ KSEG, NEW op \in Ops
               PROVE  Translated(va, op) = Cam(va, reg.hi.asid, op)
    BY DEF TranslateExact
  <1> DEFINE asid == reg.hi.asid
             ce == utlb[Slot(va)]
             i == First(Hits(va, asid))
  <1>1. CASE ~UtlbHit(ce, va, op)
    BY <1>1 DEF Translated
  <1>2. CASE UtlbHit(ce, va, op)
    <2>1. ce.valid /\ ce.va = va /\ ce.asid = asid /\ ~(op = "store" /\ ~ce.dirty)
      BY <1>2 DEF UtlbHit
    <2>2. Coherent(ce, Slot(va))
      BY SlotType DEF IInv, UtlbCoherent
    <2>3. Hits(va, asid) # {} /\ e_lo(tlb[i], va).v /\ ce = CamEntry(va, asid)
      BY <2>1, <2>2 DEF Coherent
    <2>4. /\ ce.ppn = Frame(tlb[i], va) /\ ce.dirty = e_lo(tlb[i], va).d
          /\ ce.cached = e_lo(tlb[i], va).c
      BY <2>3 DEF CamEntry
    <2>5. Cam(va, asid, op) =
            Answer("none", 0, Frame(tlb[i], va), e_lo(tlb[i], va).c /\ op # "fetch")
      BY <2>1, <2>3, <2>4 DEF Cam
    <2> QED BY <1>2, <2>4, <2>5 DEF Translated, UtlbAnswer
  <1> QED BY <1>1, <1>2

\* Whatever path an access takes, it gets the answer of the architectural search.
THEOREM TranslationExact == Spec => []TranslateExact
  BY ExactInv, Inductive, PTL

\* For sign-extended addresses of the segment the entries map, tlb_probe_ro() finds
\* the page a load would be given, and none where a load would fault.
THEOREM ProbeAgrees == Spec => []ProbeMirrors
  <1>1. IInv => ProbeMirrors
    <2> SUFFICES ASSUME IInv, NEW va \in VA, ~wide(va),
                        \/ va \in KSEG
                        \/ \A i \in Index : tlb[i].hi.r = va.r /\ tlb[i].hi.top = va.top
                 PROVE  tlb_probe_ro(va) =
                          IF Translated(va, "load").kind = "none"
                          THEN [found |-> TRUE, pa |-> Translated(va, "load").pa]
                          ELSE [found |-> FALSE, pa |-> Nowhere]
      BY DEF ProbeMirrors
    <2>1. CASE va \in KSEG
      <3>1. Translated(va, "load").kind = "none" /\ Translated(va, "load").pa = <<0, va.page>>
        BY <2>1 DEF Translated, Answer
      <3> QED BY <2>1, <3>1 DEF tlb_probe_ro
    <2>2. CASE va \notin KSEG
      <3> DEFINE asid == reg.hi.asid
                 i == First(Hits(va, asid))
      <3>1. Translated(va, "load") = Cam(va, asid, "load")
        BY <2>2, ExactInv DEF TranslateExact, Ops
      <3>2. {k \in Index : ProbeRoMatch(tlb[k], va, asid)} = Hits(va, asid)
        BY <2>2 DEF ProbeRoMatch, Hits, Match
      <3>3. tlb_probe_ro(va) = IF Hits(va, asid) = {} \/ ~e_lo(tlb[i], va).v
                               THEN [found |-> FALSE, pa |-> Nowhere]
                               ELSE [found |-> TRUE, pa |-> Frame(tlb[i], va)]
        BY <2>2, <3>2 DEF tlb_probe_ro
      <3> HIDE DEF i
      <3>4. CASE Hits(va, asid) = {} \/ ~e_lo(tlb[i], va).v
        <4>1. Cam(va, asid, "load").kind \in {"refill", "invalid"}
          BY <3>4 DEF Cam, Answer, i
        <4> QED BY <3>1, <3>3, <3>4, <4>1
      <3>5. CASE ~(Hits(va, asid) = {} \/ ~e_lo(tlb[i], va).v)
        <4>1. /\ Cam(va, asid, "load").kind = "none"
              /\ Cam(va, asid, "load").pa = Frame(tlb[i], va)
          BY <3>5 DEF Cam, Answer, i
        <4> QED BY <3>1, <3>3, <3>5, <4>1
      <3> QED BY <3>4, <3>5
    <2> QED BY <2>1, <2>2
  <1> QED BY <1>1, Inductive, PTL

\* From the second TLBWR after Wired or Random is written, no TLBWR replaces a
\* wired entry.
THEOREM WiredEntriesKept == Spec => WiredKept
  <1> DEFINE P == settled /\ reg.wired \in Index /\ TLBWR =>
                    \A i \in Index : i < reg.wired => tlb'[i] = tlb[i]
  <1>1. IInv /\ [Next]_vars => [P]_vars
    <2> SUFFICES ASSUME IInv, settled, reg.wired \in Index, TLBWR,
                        NEW i \in Index, i < reg.wired
                 PROVE  tlb'[i] = tlb[i]
      OBVIOUS
    <2>1. reg.wired <= reg.random
      BY DEF IInv, RandomSettled
    <2>2. i # reg.random
      BY <2>1, TypeFacts DEF IInv, Index
    <2> QED BY <2>2 DEF TLBWR, TlbWrite, IInv, TypeOK
  <1> QED BY <1>1, Inductive, PTL DEF Spec, WiredKept
=============================================================================
