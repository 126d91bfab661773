----------------------------- MODULE CacheModel ------------------------------
(***************************************************************************)
(* The write-back D-cache the simulator can put between the CPU and DRAM   *)
(* (cache_model.hh, enabled by CACHE_MODEL), with the CACHE operations the *)
(* interpreter issues, uncached CPU accesses and device DMA around it, and *)
(* the memory controller's low-memory alias (sparse_mem::mc_alias) below.  *)
(*                                                                         *)
(* A physical address is a line and an offset in it.  A line's set is      *)
(* SetOf; its tag is what tells the lines of a set apart, so a tag match   *)
(* in a set is equality of lines.  The cache is keyed by the address as    *)
(* issued, DRAM by the address after aliasing.                             *)
(***************************************************************************)
CONSTANTS
  Lines, Offsets, Val,
  Sets, SetOf,     \* set_of()
  Alias,           \* mc_alias(), on lines
  SpecDma,         \* SPEC_DMA: a line is speculatively filled before DMA lands
  CoherentDma      \* COHERENT_DMA: DMA snoop-invalidates the line it writes

\* The alias offset, 0x08000000, is a multiple of the 128 KB the sets span.
ASSUME GeometryAssumption ==
  /\ SetOf \in [Lines -> Sets] /\ Alias \in [Lines -> Lines]
  /\ \A l \in Lines : Alias[Alias[l]] = Alias[l] /\ SetOf[Alias[l]] = SetOf[l]
ASSUME ModeAssumption == SpecDma \in BOOLEAN /\ CoherentDma \in BOOLEAN

VARIABLES
  l1,      \* the cache, one line per set
  dram,    \* what devices and uncached accesses see
  out,     \* the byte the last CPU load returned
  behind   \* <<line, offset>> written in DRAM behind a cached copy's back

vars == <<l1, dram, out, behind>>

Dram == {Alias[l] : l \in Lines}
Data == [Offsets -> Val]
CLine == [valid : BOOLEAN, dirty : BOOLEAN, line : Lines, data : Data]

-----------------------------------------------------------------------------
resident(l) == l1[SetOf[l]].valid /\ l1[SetOf[l]].line = l

\* DRAM after the dirty line of set s, if any, is written back.
WrittenBack(s) ==
  IF l1[s].valid /\ l1[s].dirty THEN [dram EXCEPT ![Alias[l1[s].line]] = l1[s].data]
  ELSE dram

\* Seeded fault: the evicted line is not written back.
FillDram_NoEvict(l) == dram

\* fill(): evict a conflicting line, then read the new one from DRAM.
FillDram(l) == IF resident(l) THEN dram ELSE WrittenBack(SetOf[l])
fill(l) ==
  IF resident(l) THEN l1[SetOf[l]]
  ELSE [valid |-> TRUE, dirty |-> FALSE, line |-> l, data |-> FillDram(l)[Alias[l]]]

\* A fresh fill is in step with DRAM again, whatever was written before it.
FillBehind(l) == IF resident(l) THEN behind ELSE {b \in behind : b[1] # Alias[l]}

\* The line of set s written back, or dropped.
Cleaned(s) == [l1 EXCEPT ![s].dirty = FALSE]
Dropped(s) == [l1 EXCEPT ![s].valid = FALSE]

-----------------------------------------------------------------------------
\* Cached CPU accesses.

cload(l, o) ==
  /\ l1' = [l1 EXCEPT ![SetOf[l]] = fill(l)]
  /\ dram' = FillDram(l)
  /\ out' = fill(l).data[o]
  /\ behind' = FillBehind(l)

cstore(l, o, v) ==
  /\ l1' = [l1 EXCEPT ![SetOf[l]] = [fill(l) EXCEPT !.data[o] = v, !.dirty = TRUE]]
  /\ dram' = FillDram(l)
  /\ behind' = FillBehind(l)
  /\ UNCHANGED out

-----------------------------------------------------------------------------
\* The CACHE instruction.  Hit operations act on the translated address if its
\* line is resident; index operations on whatever the set holds.

\* Seeded fault: the line is marked clean but not written.
hit_wb_MarkOnly(l) ==
  /\ resident(l)
  /\ l1' = Cleaned(SetOf[l])
  /\ UNCHANGED <<dram, out, behind>>

hit_wb(l) ==
  /\ resident(l)
  /\ dram' = WrittenBack(SetOf[l]) /\ l1' = Cleaned(SetOf[l])
  /\ UNCHANGED <<out, behind>>

hit_inval(l) ==
  /\ resident(l)
  /\ l1' = Dropped(SetOf[l])
  /\ UNCHANGED <<dram, out, behind>>

\* Seeded fault: the line is dropped without being written back.
WbInval_Drop(s) == l1' = Dropped(s) /\ UNCHANGED <<dram, out, behind>>

WbInval(s) ==
  /\ dram' = WrittenBack(s)
  /\ l1' = [l1 EXCEPT ![s].valid = FALSE, ![s].dirty = FALSE]
  /\ UNCHANGED <<out, behind>>

hit_wb_inval(l) == resident(l) /\ WbInval(SetOf[l])

index_wb_inval(s) == l1[s].valid /\ WbInval(s)

-----------------------------------------------------------------------------
\* Accesses that go straight to DRAM.

UncachedLoad(l, o) == out' = dram[Alias[l]][o] /\ UNCHANGED <<l1, dram, behind>>

UncachedStore(l, o, v) ==
  /\ dram' = [dram EXCEPT ![Alias[l]][o] = v]
  /\ behind' = behind \cup {<<Alias[l], o>>}
  /\ UNCHANGED <<l1, out>>

\* Seeded fault: DMA does not snoop.
DmaWrite_NoSnoop(l, o, v) ==
  /\ dram' = [(IF SpecDma THEN FillDram(l) ELSE dram) EXCEPT ![Alias[l]][o] = v]
  /\ l1' = IF SpecDma THEN [l1 EXCEPT ![SetOf[l]] = fill(l)] ELSE l1
  /\ behind' = (IF SpecDma THEN FillBehind(l) ELSE behind) \cup {<<Alias[l], o>>}
  /\ UNCHANGED out

\* One byte of device DMA into memory, between spec_fill() and snoop_inval().
DmaWrite(l, o, v) ==
  LET c == IF SpecDma THEN [l1 EXCEPT ![SetOf[l]] = fill(l)] ELSE l1
      d == IF SpecDma THEN FillDram(l) ELSE dram
      b == IF SpecDma THEN FillBehind(l) ELSE behind
      hit == c[SetOf[l]].valid /\ c[SetOf[l]].line = l
  IN /\ dram' = [d EXCEPT ![Alias[l]][o] = v]
     /\ l1' = IF CoherentDma /\ hit THEN [c EXCEPT ![SetOf[l]].valid = FALSE] ELSE c
     /\ behind' = b \cup {<<Alias[l], o>>}
     /\ UNCHANGED out

-----------------------------------------------------------------------------
Init ==
  /\ \E l \in Lines, d \in Data :
       l1 = [s \in Sets |-> [valid |-> FALSE, dirty |-> FALSE, line |-> l, data |-> d]]
  /\ dram \in [Dram -> Data] /\ out \in Val /\ behind = {}

\* The CPU on its own: cached accesses and the write-back CACHE operations.
CpuNext ==
  \/ \E l \in Lines, o \in Offsets : cload(l, o) \/ \E v \in Val : cstore(l, o, v)
  \/ \E l \in Lines : hit_wb(l) \/ hit_wb_inval(l)
  \/ \E s \in Sets : index_wb_inval(s)

\* Everything else: invalidation without write-back, uncached accesses, DMA.
OtherNext ==
  \/ \E l \in Lines : hit_inval(l)
  \/ \E l \in Lines, o \in Offsets :
       (\E v \in Val : DmaWrite(l, o, v) \/ UncachedStore(l, o, v)) \/ UncachedLoad(l, o)

Next == CpuNext \/ OtherNext

CpuSpec == Init /\ [][CpuNext]_vars
Spec == Init /\ [][Next]_vars

-----------------------------------------------------------------------------
\* Lines are whole and DRAM keeps its extent: nothing is written at an address
\* that mc_alias() would have redirected.
TypeOK ==
  /\ l1 \in [Sets -> CLine] /\ dram \in [Dram -> Data] /\ out \in Val
  /\ behind \subseteq Dram \X Offsets

\* A line is only ever held in its own set.
Placed == \A s \in Sets : l1[s].valid => SetOf[l1[s].line] = s

\* The premise of the stale-read detector in cload(): a clean line that differs
\* from DRAM was overtaken by a write that did not go through the cache.
CleanMatches ==
  \A s \in Sets : l1[s].valid /\ ~l1[s].dirty =>
    \A o \in Offsets : l1[s].data[o] # dram[Alias[l1[s].line]][o] =>
                         <<Alias[l1[s].line], o>> \in behind

\* What a cached load of DRAM line a would return.
CpuView(a) ==
  IF l1[SetOf[a]].valid /\ Alias[l1[SetOf[a]].line] = a THEN l1[SetOf[a]].data ELSE dram[a]

Flat == INSTANCE FlatMemory WITH Locations <- Dram, flat <- [a \in Dram |-> CpuView(a)]

\* "CPU reads its own store (cache) -> coherent w/ itself", including through
\* the two names of an aliased line: the cache is invisible to the CPU.
SelfCoherent == Flat!Spec

\* Modified data leaves the cache only into DRAM.  A stored byte is lost only to
\* an explicit Hit_Invalidate, to a device writing that very byte, or to a snoop
\* of the line, which discards the CPU's other bytes of it as well.
StoresKept ==
  [][\A s \in Sets, o \in Offsets :
       LET old == l1[s] IN old.valid /\ old.dirty =>
         \/ l1'[s].valid /\ l1'[s].dirty /\ l1'[s].line = old.line
         \/ dram'[Alias[old.line]][o] = old.data[o]
         \/ hit_inval(old.line)
         \/ \E l \in Lines, v \in Val : Alias[l] = Alias[old.line] /\ DmaWrite(l, o, v)
         \/ CoherentDma /\ \E p \in Offsets, v \in Val : DmaWrite(old.line, p, v)]_vars

\* "CPU reads its own store (cache) -> coherent w/ itself" with devices about: a
\* step of the CPU changes no byte but the one it stores, and a load returns what
\* is there, except where a write behind the cache's back is still unseen.
CpuCoherent ==
  [][/\ \A a \in Dram, o \in Offsets :
          \/ CpuView(a)'[o] = CpuView(a)[o] \/ <<a, o>> \in behind \/ ~CpuNext
          \/ \E l \in Lines : Alias[l] = a /\ cstore(l, o, CpuView(a)'[o])
     /\ \A l \in Lines, o \in Offsets :
          \/ out' = CpuView(Alias[l])[o] \/ <<Alias[l], o>> \in behind \/ ~cload(l, o)]_vars

\* The claim on snoop_inval(), "when the DMA writes a line, drop any cached copy
\* so the stale speculative fill can't survive": after a coherent DMA write the
\* CPU sees the byte the device wrote, wherever in the line and whatever the line
\* holds, unless it is cached under another name than the DMA's.
DmaSeen ==
  [][\A l \in Lines, o \in Offsets :
       LET c == l1[SetOf[l]] IN
       \/ CpuView(Alias[l])'[o] = dram'[Alias[l]][o]
       \/ ~CoherentDma \/ ~\E v \in Val : DmaWrite(l, o, v)
       \/ ~SpecDma /\ c.valid /\ Alias[c.line] = Alias[l] /\ c.line # l]_vars
=============================================================================
