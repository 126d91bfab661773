--------------------------------- MODULE Tlb ---------------------------------
(***************************************************************************)
(* Address translation of the R4000 interpreter: the software-managed      *)
(* joint TLB with its CP0 staging registers, the micro-TLB in front of it  *)
(* (g_utlb, a simulator accelerator), and the three separate lookups the   *)
(* code makes: va_translate_inner(), the TLBP instruction and the          *)
(* non-faulting tlb_probe_ro() behind the CACHE instruction and the gdb    *)
(* stub.                                                                   *)
(*                                                                         *)
(* A virtual address, to 4 KB, is the fields the lookups treat             *)
(* differently: R (bits 63:62), fill (61:40, not part of a TLB entry),     *)
(* top (39:32) and page (31:12); fill and top are 0 or 1 for all zeroes    *)
(* and all ones.  An EntryHi value has no fill and the page pair, vpn2.  A *)
(* page size is the number of 4 KB pages in an entry's even/odd pair.      *)
(***************************************************************************)
EXTENDS Naturals

CONSTANTS
  NUM_TLB_ENTRIES, UTLB_SZ,
  VA,          \* the addresses accessed
  KSEG,        \* those of the unmapped segments, kseg0, kseg1 and xkphys, by page in the segment
  KSEG0,       \* ... of the cached one
  Hi, Lo,      \* values of EntryHi and of EntryLo0/1
  Pairs,       \* values of PageMask, as page sizes
  IndexMax,    \* the largest value of the Index, Random and Wired fields
  HiWrites, Lo0Writes, Lo1Writes, PairWrites,            \* the values software
  IndexWrites, RandomWrites, WiredWrites                 \* writes with mtc0

Ops == {"fetch", "load", "store"}
Address == [r : {0, 2, 3}, fill : {0, 1}, top : {0, 1}, page : Nat]
EntryHi == [r : {0, 2, 3}, top : {0, 1}, vpn2 : Nat, asid : Nat]
EntryLo == [pfn : Nat, c : BOOLEAN, d : BOOLEAN, v : BOOLEAN, g : BOOLEAN]

\* 4 KB to 16 MB pages.
valid_page_mask == {2, 8, 32, 128, 512, 2048, 8192}

ASSUME SizeAssumption ==
  /\ NUM_TLB_ENTRIES \in Nat \ {0} /\ UTLB_SZ \in Nat \ {0}
  /\ IndexMax \in Nat /\ IndexMax >= NUM_TLB_ENTRIES - 1
ASSUME AddressAssumption ==
  /\ VA \subseteq Address /\ VA # {} /\ KSEG \subseteq Address /\ KSEG0 \subseteq KSEG
  /\ Hi \subseteq EntryHi /\ Lo \subseteq EntryLo
  /\ Pairs \subseteq valid_page_mask
\* Hi holds every value the registers can take: the writes, the reset value and
\* what a fault on an address leaves there.
ASSUME WriteAssumption ==
  /\ HiWrites \subseteq Hi /\ Lo0Writes \cup Lo1Writes \subseteq Lo /\ PairWrites \subseteq Pairs
  /\ IndexWrites \subseteq (0 .. IndexMax) \X BOOLEAN /\ RandomWrites \subseteq 0 .. IndexMax
  /\ WiredWrites \subseteq 0 .. IndexMax
  /\ \A va \in VA \ KSEG, h \in Hi :
       [r |-> va.r, top |-> va.top, vpn2 |-> va.page \div 2, asid |-> h.asid] \in Hi

ZeroHi == [r |-> 0, top |-> 0, vpn2 |-> 0, asid |-> 0]
ZeroLo == [pfn |-> 0, c |-> FALSE, d |-> FALSE, v |-> FALSE, g |-> FALSE]
ASSUME ResetAssumption == ZeroHi \in Hi /\ ZeroLo \in Lo /\ 2 \in Pairs

VARIABLES
  tlb,      \* the architectural entries
  reg,      \* CP0: EntryHi, EntryLo0/1, PageMask, Index (with P), Random, Wired
  utlb,     \* g_utlb
  fault,    \* the last TLB exception, while EntryHi and the TLB still show it
  settled   \* a TLBWR has executed since Wired or Random was last written

vars == <<tlb, reg, utlb, fault, settled>>

Index == 0 .. NUM_TLB_ENTRIES - 1
Entry == [hi : Hi, lo0 : Lo, lo1 : Lo, pair : Pairs]
Fault == [kind : {"none", "refill", "invalid", "modified"}, at : Index]
NoFault == [kind |-> "none", at |-> 0]

-----------------------------------------------------------------------------
\* The lookup of va_translate_inner().

global(e) == e.lo0.g /\ e.lo1.g

Match(e, va, asid) ==
  /\ va.r = e.hi.r /\ va.top = e.hi.top
  /\ va.page \div e.pair = (2 * e.hi.vpn2) \div e.pair
  /\ global(e) \/ asid = e.hi.asid

\* The half of the pair an address selects, and its page in physical memory:
\* the entry's frame and the page's place in the frame, which the code ORs.
e_lo(e, va) == IF (va.page \div (e.pair \div 2)) % 2 = 1 THEN e.lo1 ELSE e.lo0
Frame(e, va) == <<e_lo(e, va).pfn, va.page % (e.pair \div 2)>>

\* The search takes the lowest matching entry.
Hits(va, asid) == {i \in Index : Match(tlb[i], va, asid)}
First(S) == CHOOSE i \in S : \A j \in S : i <= j

\* What the search alone answers: the result, the physical page, and whether the
\* access goes to the data cache.
Answer(kind, at, pa, cached) == [kind |-> kind, at |-> at, pa |-> pa, cached |-> cached]
Nowhere == <<0, 0>>

Cam(va, asid, op) ==
  LET i == First(Hits(va, asid))
      lo == e_lo(tlb[i], va)
  IN IF Hits(va, asid) = {} THEN Answer("refill", 0, Nowhere, FALSE)
     ELSE IF ~lo.v THEN Answer("invalid", i, Nowhere, FALSE)
     ELSE IF op = "store" /\ ~lo.d THEN Answer("modified", i, Nowhere, FALSE)
     ELSE Answer("none", 0, Frame(tlb[i], va), lo.c /\ op # "fetch")

\* The micro-TLB entry a successful search leaves for an address.
CamEntry(va, asid) ==
  LET i == First(Hits(va, asid))
  IN [valid |-> TRUE, va |-> va, asid |-> asid, ppn |-> Frame(tlb[i], va),
      dirty |-> e_lo(tlb[i], va).d, cached |-> e_lo(tlb[i], va).c]

-----------------------------------------------------------------------------
Slot(va) == va.page % UTLB_SZ

\* What an invalid entry holds is never read.
NoEntry == [valid |-> FALSE, va |-> CHOOSE va \in VA : TRUE, asid |-> 0, ppn |-> Nowhere,
            dirty |-> FALSE, cached |-> FALSE]

\* Seeded fault: a TLB write leaves the micro-TLB as it is.
utlb_flush_Missing == UNCHANGED utlb

utlb_flush == utlb' = [n \in 0 .. UTLB_SZ - 1 |-> NoEntry]

\* Seeded fault: the micro-TLB ignores the address space.
UtlbHit_AnyAsid(ce, va, op) == ce.valid /\ ce.va = va /\ ~(op = "store" /\ ~ce.dirty)

UtlbHit(ce, va, op) ==
  ce.valid /\ ce.va = va /\ ce.asid = reg.hi.asid /\ ~(op = "store" /\ ~ce.dirty)

UtlbAnswer(ce, op) == Answer("none", 0, ce.ppn, ce.cached /\ op # "fetch")

\* tlb_set_fault_state(): EntryHi shows the faulting pair, under the same ASID.
FaultHi(va) == [r |-> va.r, top |-> va.top, vpn2 |-> va.page \div 2, asid |-> reg.hi.asid]

\* What an access gets: kseg0, kseg1 and xkphys are not looked up, and the search
\* runs only when the micro-TLB misses.
Translated(va, op) ==
  IF va \in KSEG THEN Answer("none", 0, <<0, va.page>>, va \in KSEG0 /\ op # "fetch")
  ELSE IF UtlbHit(utlb[Slot(va)], va, op) THEN UtlbAnswer(utlb[Slot(va)], op)
  ELSE Cam(va, reg.hi.asid, op)

\* The state it leaves: a search fills the micro-TLB or raises an exception.
va_translate(va, op) ==
  LET a == Translated(va, op) IN
  /\ va \notin KSEG /\ ~UtlbHit(utlb[Slot(va)], va, op)
  /\ \/ /\ a.kind = "none"
        /\ utlb' = [utlb EXCEPT ![Slot(va)] = CamEntry(va, reg.hi.asid)]
        /\ UNCHANGED <<reg, fault>>
     \/ /\ a.kind # "none"
        /\ reg' = [reg EXCEPT !.hi = FaultHi(va)]
        /\ fault' = [kind |-> a.kind, at |-> a.at]
        /\ UNCHANGED utlb
  /\ UNCHANGED <<tlb, settled>>

-----------------------------------------------------------------------------
\* The TLB instructions.

Staged == [hi |-> reg.hi, lo0 |-> reg.lo0, lo1 |-> reg.lo1, pair |-> reg.pair]

\* An index past the last entry is ignored, though the micro-TLB is flushed.
TlbWrite(i) == tlb' = IF i \in Index THEN [tlb EXCEPT ![i] = Staged] ELSE tlb

TLBR ==
  /\ reg.index \in Index
  /\ LET e == tlb[reg.index] IN
       reg' = [reg EXCEPT !.hi = e.hi, !.lo0 = e.lo0, !.lo1 = e.lo1, !.pair = e.pair]
  /\ fault' = NoFault
  /\ UNCHANGED <<tlb, utlb, settled>>

TLBWI ==
  /\ TlbWrite(reg.index) /\ utlb_flush /\ fault' = NoFault
  /\ UNCHANGED <<reg, settled>>

\* Seeded fault: Random goes one below Wired before it wraps.
TLBWR_OffByOne ==
  /\ TlbWrite(reg.random) /\ utlb_flush
  /\ reg' = [reg EXCEPT !.random =
               IF reg.random < reg.wired THEN NUM_TLB_ENTRIES - 1 ELSE reg.random - 1]
  /\ fault' = NoFault /\ settled' = TRUE

TLBWR ==
  /\ TlbWrite(reg.random) /\ utlb_flush
  /\ reg' = [reg EXCEPT !.random =
               IF reg.random <= reg.wired THEN NUM_TLB_ENTRIES - 1 ELSE reg.random - 1]
  /\ fault' = NoFault /\ settled' = TRUE

\* Seeded fault: TLBP ignores the page mask.
ProbeMatch_Unmasked(e, hi) ==
  /\ hi.r = e.hi.r /\ hi.top = e.hi.top /\ hi.vpn2 = e.hi.vpn2
  /\ global(e) \/ hi.asid = e.hi.asid

ProbeMatch(e, hi) ==
  /\ hi.r = e.hi.r /\ hi.top = e.hi.top
  /\ (2 * hi.vpn2) \div e.pair = (2 * e.hi.vpn2) \div e.pair
  /\ global(e) \/ hi.asid = e.hi.asid

Probed(hi) == {i \in Index : ProbeMatch(tlb[i], hi)}

\* A miss sets the P bit and keeps the rest of Index.
TLBP ==
  /\ reg' = IF Probed(reg.hi) = {} THEN [reg EXCEPT !.p = TRUE]
            ELSE [reg EXCEPT !.p = FALSE, !.index = First(Probed(reg.hi))]
  /\ UNCHANGED <<tlb, utlb, fault, settled>>

\* mtc0 and dmtc0, with the reserved fields dropped (cp0_write_mask).  A new
\* ASID in EntryHi does not flush the micro-TLB; a new Wired leaves Random.
mtc0 ==
  \/ \E h \in HiWrites : reg' = [reg EXCEPT !.hi = h] /\ fault' = NoFault /\ UNCHANGED settled
  \/ \E x \in Lo0Writes : reg' = [reg EXCEPT !.lo0 = x] /\ UNCHANGED <<fault, settled>>
  \/ \E x \in Lo1Writes : reg' = [reg EXCEPT !.lo1 = x] /\ UNCHANGED <<fault, settled>>
  \/ \E q \in PairWrites : reg' = [reg EXCEPT !.pair = q] /\ UNCHANGED <<fault, settled>>
  \/ \E w \in IndexWrites :
       reg' = [reg EXCEPT !.index = w[1], !.p = w[2]] /\ UNCHANGED <<fault, settled>>
  \/ \E i \in RandomWrites :
       reg' = [reg EXCEPT !.random = i] /\ settled' = FALSE /\ UNCHANGED fault
  \/ \E i \in WiredWrites :
       reg' = [reg EXCEPT !.wired = i] /\ settled' = FALSE /\ UNCHANGED fault

Mtc0 == mtc0 /\ UNCHANGED <<tlb, utlb>>

-----------------------------------------------------------------------------
\* tlb_probe_ro(): the segments, then a search of its own.  A sign-extended
\* 32-bit address is compared in its low word only.
wide(va) == <<va.r, va.fill, va.top>> \notin {<<0, 0, 0>>, <<3, 1, 1>>}

\* Seeded fault: the probe does not look at global entries' G bits.
ProbeRoMatch_NoGlobal(e, va, asid) ==
  /\ va.page \div e.pair = (2 * e.hi.vpn2) \div e.pair
  /\ wide(va) => va.r = e.hi.r /\ va.fill = 0 /\ va.top = e.hi.top
  /\ asid = e.hi.asid

ProbeRoMatch(e, va, asid) ==
  /\ va.page \div e.pair = (2 * e.hi.vpn2) \div e.pair
  /\ wide(va) => va.r = e.hi.r /\ va.fill = 0 /\ va.top = e.hi.top
  /\ global(e) \/ asid = e.hi.asid

tlb_probe_ro(va) ==
  LET hits == {i \in Index : ProbeRoMatch(tlb[i], va, reg.hi.asid)}
      e == tlb[First(hits)]
  IN IF va \in KSEG THEN [found |-> TRUE, pa |-> <<0, va.page>>]
     ELSE IF hits = {} \/ ~e_lo(e, va).v THEN [found |-> FALSE, pa |-> Nowhere]
     ELSE [found |-> TRUE, pa |-> Frame(e, va)]

-----------------------------------------------------------------------------
\* initState(): everything zero but Random.
Init ==
  /\ tlb = [i \in Index |-> [hi |-> ZeroHi, lo0 |-> ZeroLo, lo1 |-> ZeroLo, pair |-> 2]]
  /\ reg = [hi |-> ZeroHi, lo0 |-> ZeroLo, lo1 |-> ZeroLo, pair |-> 2,
            index |-> 0, p |-> FALSE, random |-> NUM_TLB_ENTRIES - 1, wired |-> 0]
  /\ utlb = [n \in 0 .. UTLB_SZ - 1 |-> NoEntry]
  /\ fault = NoFault /\ settled = TRUE

Next ==
  \/ \E va \in VA, op \in Ops : va_translate(va, op)
  \/ TLBR \/ TLBWI \/ TLBWR \/ TLBP \/ Mtc0

Spec == Init /\ [][Next]_vars

-----------------------------------------------------------------------------
Utlb == [valid : BOOLEAN, va : VA, asid : Nat, ppn : Nat \X Nat,
         dirty : BOOLEAN, cached : BOOLEAN]
Reg == [hi : Hi, lo0 : Lo, lo1 : Lo, pair : Pairs, index : 0 .. IndexMax, p : BOOLEAN,
        random : 0 .. IndexMax, wired : 0 .. IndexMax]

\* Entries and registers hold legal values; Random never leaves its field.
TypeOK ==
  /\ tlb \in [Index -> Entry] /\ reg \in Reg
  /\ utlb \in [0 .. UTLB_SZ - 1 -> Utlb]
  /\ fault \in Fault /\ settled \in BOOLEAN

Coherent(ce, n) ==
  ce.valid => /\ Slot(ce.va) = n /\ ce.va \notin KSEG
              /\ Hits(ce.va, ce.asid) # {}
              /\ e_lo(tlb[First(Hits(ce.va, ce.asid))], ce.va).v
              /\ ce = CamEntry(ce.va, ce.asid)

\* The claim on the micro-TLB, "so a hit can never diverge from what the CAM would
\* return": every valid entry, under whatever ASID it was filled, is what the
\* search would leave there now.
UtlbCoherent == \A n \in 0 .. UTLB_SZ - 1 : Coherent(utlb[n], n)

\* The micro-TLB is invisible: whatever path an access takes, it gets the answer,
\* fault included, that a search of the architectural TLB gives.
TranslateExact ==
  \A va \in VA \ KSEG, op \in Ops : Translated(va, op) = Cam(va, reg.hi.asid, op)

\* What a handler relies on: with EntryHi as the exception left it, TLBP misses
\* after a refill and finds the very entry that faulted otherwise.
FaultProbe ==
  /\ fault.kind = "refill" => Probed(reg.hi) = {}
  /\ fault.kind \in {"invalid", "modified"} =>
       Probed(reg.hi) # {} /\ First(Probed(reg.hi)) = fault.at

\* Wired entries survive TLBWR, from the second one after Wired is written (the
\* first may hit any entry: writing Wired does not reset Random).
WiredKept ==
  [][settled /\ reg.wired \in Index /\ TLBWR =>
       \A i \in Index : i < reg.wired => tlb'[i] = tlb[i]]_vars

\* The claim on tlb_probe_ro(), "mirrors va_translate's segment + 48-entry
\* lookup, minus the fault paths", as far as it goes: for sign-extended 32-bit
\* addresses, and while every entry maps addresses of the same segment.
ProbeMirrors ==
  \A va \in VA : LET a == Translated(va, "load") IN
    \/ wide(va) \/ (va \notin KSEG /\ \E i \in Index : <<tlb[i].hi.r, tlb[i].hi.top>> # <<va.r, va.top>>)
    \/ tlb_probe_ro(va) = IF a.kind = "none" THEN [found |-> TRUE, pa |-> a.pa]
                          ELSE [found |-> FALSE, pa |-> Nowhere]
=============================================================================
